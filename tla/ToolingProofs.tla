--------------------------- MODULE ToolingProofs ----------------------------
(***************************************************************************)
(* Proofs about what prepares and starts a deployment: the background      *)
(* workers of repo-tools, the credentials of the deployables, the          *)
(* bootstrap of web-bff and the operations commands, for any number of     *)
(* processes, deployables, databases, servers and commands.                *)
(***************************************************************************)
EXTENDS DevWorkers, DeployableSecrets, BffBootstrap, OpsCommands, TLAPS

-----------------------------------------------------------------------------
(* The background workers.                                                 *)

(* What holds between any two steps of the tool.  A worker's process, if   *)
(* it runs, is the one its pid file names; from the moment stop_worker is  *)
(* done with a worker until a new process is spawned none runs, and the    *)
(* process whose pid is not on file yet is the one just spawned.           *)
Supervised ==
    /\ \A w \in Workers : \A p, q \in Running(w) : p = q
    /\ \A w \in Workers : pidFile[w] \in Pids => Running(w) \subseteq {pidFile[w]}

CommandInHand ==
    Active =>
      /\ at[2] \in {"remove", "spawn"} => Running(at[1]) = {}
      /\ at[2] \in {"write", "rewrite"} => known \in Pids /\ Running(at[1]) \subseteq {known}
      /\ at[2] \in {"spawn", "write"} => pidFile[at[1]] = "absent"
      /\ at[2] = "rewrite" => pidFile[at[1]] = "torn"
      /\ at[2] \in {"spawn", "write", "rewrite"} => tool = "start"

StopInHand ==
    /\ tool = "stop" => \A v \in Workers : v < at[1] => Running(v) = {}
    /\ tool = "stopped" => \A v \in Workers : Running(v) = {}

WorkersInv == WorkersTypeOK /\ Supervised /\ CommandInHand /\ StopInHand

(* The invariant holds before the tool first runs.                         *)
LEMMA WorkersInvInit == WorkersInit => WorkersInv
  <1>. SUFFICES ASSUME WorkersInit PROVE WorkersInv
    BY Zenon
  <1>1. \A w \in Workers : Running(w) = {}
    BY WorkersAssumption DEF WorkersInit, Running, Workers, Free
  <1>2. WorkersTypeOK
    BY WorkersAssumption DEF WorkersInit, WorkersTypeOK, Workers, Free
  <1>3. Supervised
    BY Zenon, <1>1 DEF Supervised
  <1>. QED
    BY Zenon, <1>2, <1>3 DEF WorkersInit, WorkersInv, CommandInHand, StopInHand, Active

(* A step that neither starts nor signals a process, nor moves the tool or *)
(* a pid file other than by ending the command, or one in which processes  *)
(* only disappear, keeps the invariant.                                    *)
LEMMA WorkersFewer ==
  ASSUME WorkersInv, WorkersTypeOK', UNCHANGED <<pidFile, at, known>>,
         tool' \in {tool, "failed"},
         \A w \in Workers : Running(w)' \subseteq Running(w)
  PROVE  WorkersInv'
  <1>1. at[1] \in Workers
    BY Zenon DEF WorkersInv, WorkersTypeOK
  <1>2. Supervised'
    BY Zenon DEF WorkersInv, Supervised
  <1>3. CommandInHand'
    BY Zenon, <1>1 DEF WorkersInv, CommandInHand, Active
  <1>4. StopInHand'
    BY Zenon DEF WorkersInv, StopInHand
  <1>. QED
    BY Zenon, <1>2, <1>3, <1>4 DEF WorkersInv

(* stop_worker leaves no process of the worker running: the one its pid    *)
(* file names is the only one, and without a file all are signalled.       *)
LEMMA StopWorkerStops ==
  ASSUME WorkersInv, NEW w \in Workers, StopWorker(w)
  PROVE  /\ Running(w)' = {}
         /\ \A v \in Workers : Running(v)' \subseteq Running(v)
  <1>1. \A v \in Workers : Running(v)' \subseteq Running(v)
    BY Zenon DEF StopWorker, StopMatching, Running, TerminatePid, ProcessExists
  <1>2. CASE pidFile[w] = "absent"
    BY Zenon, <1>1, <1>2 DEF StopWorker, StopMatching, Running
  <1>3. CASE pidFile[w] # "absent"
    <2>1. pidFile[w] \in Pids /\ w # Free
      BY <1>3, WorkersAssumption DEF StopWorker, WorkersInv, WorkersTypeOK, Free, Workers
    <2>2. Running(w) \subseteq {pidFile[w]}
      BY Zenon, <2>1 DEF WorkersInv, Supervised
    <2>3. process' = process /\ (process[pidFile[w]] # Free => pidFile[w] \in dying')
      BY Zenon, <1>3 DEF StopWorker, TerminatePid, ProcessExists
    <2>. QED
      BY Zenon, <1>1, <2>1, <2>2, <2>3 DEF Running
  <1>. QED
    BY Zenon, <1>1, <1>2, <1>3

(* Once nothing of worker w runs, the command goes on: start spawns it,    *)
(* stop turns to the next worker or returns.                               *)
LEMMA WorkersStopped ==
  ASSUME WorkersInv, NEW w \in Workers, Active, at[1] = w, Stopped(w), WorkersTypeOK',
         Running(w)' = {}, pidFile' = [pidFile EXCEPT ![w] = "absent"],
         \A v \in Workers : Running(v)' \subseteq Running(v)
  PROVE  WorkersInv'
  <1>1. Supervised'
    BY PidsAssumption DEF WorkersInv, WorkersTypeOK, Supervised
  <1>2. CASE tool = "start"
    BY <1>1, <1>2 DEF WorkersInv, WorkersTypeOK, CommandInHand, StopInHand, Stopped, Active
  <1>3. CASE tool = "stop"
    <2>1. \A v \in Workers : v < w => Running(v)' = {}
      BY Zenon, <1>3 DEF WorkersInv, StopInHand
    <2>2. CASE w + 1 \in Workers
      <3>1. at' = <<w + 1, "read">> /\ tool' = "stop"
        BY Zenon, <1>3, <2>2 DEF Stopped, Advance
      <3>2. \A v \in Workers : v < w + 1 => v < w \/ v = w
        BY WorkersAssumption DEF Workers
      <3>3. StopInHand'
        BY Zenon, <2>1, <3>1, <3>2 DEF StopInHand
      <3>. QED
        BY Zenon, <1>1, <3>1, <3>3 DEF WorkersInv, CommandInHand
    <2>3. CASE w + 1 \notin Workers
      <3>1. tool' = "stopped"
        BY Zenon, <1>3, <2>3 DEF Stopped, Advance
      <3>2. \A v \in Workers : v < w \/ v = w
        BY <2>3, WorkersAssumption DEF Workers
      <3>3. StopInHand'
        BY Zenon, <2>1, <3>1, <3>2 DEF StopInHand
      <3>. QED
        BY Zenon, <1>1, <3>1, <3>3 DEF WorkersInv, CommandInHand, Active
    <2>. QED
      BY Zenon, <2>2, <2>3
  <1>. QED
    BY Zenon, <1>2, <1>3 DEF Active

(* Every step of the tool and of the system keeps the state typed.         *)
LEMMA WorkersTypeStep ==
  ASSUME WorkersInv, WorkersNext PROVE WorkersTypeOK'
  <1>. USE WorkersAssumption DEF WorkersTypeOK, Workers, Free, Other
  <1>. WorkersTypeOK /\ (Active /\ at[2] = "rewrite" => known \in Pids)
    BY Zenon DEF WorkersInv, CommandInHand
  <1>1. ASSUME NEW c \in {"start", "stop"}, BeginCommand(c) PROVE WorkersTypeOK'
    BY <1>1 DEF BeginCommand
  <1>2. ASSUME NEW w \in Workers, StopWorker(w) PROVE WorkersTypeOK'
    BY <1>2 DEF StopWorker, StopMatching, Stopped, Advance, Active, TerminatePid, ProcessExists
  <1>3. ASSUME NEW w \in Workers, BadPidFile(w) \/ SpawnFails(w) PROVE WorkersTypeOK'
    BY Zenon, <1>3 DEF BadPidFile, SpawnFails
  <1>4. ASSUME NEW w \in Workers, RemovePidFile(w) PROVE WorkersTypeOK'
    BY <1>4 DEF RemovePidFile, Stopped, Advance, Active
  <1>5. ASSUME NEW w \in Workers, TruncatePidFile(w) PROVE WorkersTypeOK'
    BY Zenon, <1>5 DEF TruncatePidFile
  <1>6. ASSUME NEW w \in Workers, FillPidFile(w) PROVE WorkersTypeOK'
    BY <1>6 DEF FillPidFile, Advance, Active
  <1>7. ASSUME NEW w \in Workers, NEW p \in Pids, Spawn(w, p) PROVE WorkersTypeOK'
    BY <1>7 DEF Spawn
  <1>8. ASSUME NEW p \in Pids, ProcessExits(p) \/ OtherStarts(p) PROVE WorkersTypeOK'
    BY <1>8 DEF ProcessExits, OtherStarts
  <1>9. CASE KillTool
    BY Zenon, <1>9 DEF KillTool
  <1>. QED
    BY Zenon, <1>1, <1>2, <1>3, <1>4, <1>5, <1>6, <1>7, <1>8, <1>9 DEF WorkersNext

(* stop_worker, with or without a pid file.                                *)
LEMMA StopWorkerStep ==
  ASSUME WorkersInv, NEW w \in Workers, StopWorker(w), WorkersTypeOK'
  PROVE  WorkersInv'
  <1>1. /\ Running(w)' = {} /\ Active /\ at = <<w, "read">> /\ pidFile' = pidFile
        /\ \A v \in Workers : Running(v)' \subseteq Running(v)
    BY Zenon, StopWorkerStops DEF StopWorker
  <1>2. CASE pidFile[w] = "absent"
    <2>1. pidFile' = [pidFile EXCEPT ![w] = "absent"] /\ Stopped(w)
      BY Zenon, <1>1, <1>2 DEF StopWorker, WorkersInv, WorkersTypeOK, TerminatePid, ProcessExists
    <2>. QED
      BY Zenon, <1>1, <2>1, WorkersStopped
  <1>3. CASE pidFile[w] # "absent"
    <2>1. at' = <<w, "remove">> /\ tool' = tool
      BY Zenon, <1>3 DEF StopWorker, TerminatePid, ProcessExists
    <2>2. Supervised'
      BY Zenon, <1>1 DEF WorkersInv, Supervised
    <2>3. StopInHand'
      BY Zenon, <1>1, <2>1 DEF WorkersInv, StopInHand
    <2>4. CommandInHand'
      BY Zenon, <1>1, <2>1 DEF CommandInHand
    <2>. QED
      BY Zenon, <2>2, <2>3, <2>4 DEF WorkersInv
  <1>. QED
    BY Zenon, <1>2, <1>3

(* spawn_background_worker: nothing of the worker ran, so the child is its *)
(* only process.                                                           *)
LEMMA SpawnStep ==
  ASSUME WorkersInv, NEW w \in Workers, NEW p \in Pids, Spawn(w, p), WorkersTypeOK'
  PROVE  WorkersInv'
  <1>1. /\ Running(w) = {} /\ pidFile[w] = "absent" /\ tool = "start"
        /\ at' = <<w, "write">> /\ known' = p /\ UNCHANGED <<pidFile, tool>>
    BY Zenon DEF WorkersInv, CommandInHand, Spawn
  <1>2. Running(w)' \subseteq {p}
    BY Zenon, <1>1 DEF Spawn, Running, WorkersInv, WorkersTypeOK
  <1>3. \A v \in Workers \ {w} : Running(v)' \subseteq Running(v)
    BY Zenon DEF Spawn, Running, WorkersInv, WorkersTypeOK
  <1>4. Supervised'
    BY <1>1, <1>2, <1>3, PidsAssumption DEF WorkersInv, Supervised
  <1>5. CommandInHand' /\ StopInHand'
    BY Zenon, <1>1, <1>2 DEF CommandInHand, StopInHand
  <1>. QED
    BY Zenon, <1>4, <1>5 DEF WorkersInv

(* The pid file is truncated and filled by the start that spawned the      *)
(* process; both leave the processes alone.                                *)
LEMMA PidFileStep ==
  ASSUME WorkersInv, NEW w \in Workers, TruncatePidFile(w) \/ FillPidFile(w), WorkersTypeOK'
  PROVE  WorkersInv'
  <1>1. /\ \A v \in Workers : Running(v)' = Running(v)
        /\ known \in Pids /\ Running(w) \subseteq {known}
        /\ tool = "start" /\ known' = known
    BY DEF WorkersInv, CommandInHand, TruncatePidFile, FillPidFile, Running
  <1>2. Supervised'
    BY <1>1, PidsAssumption
    DEF WorkersInv, WorkersTypeOK, Supervised, TruncatePidFile, FillPidFile
  <1>3. CASE TruncatePidFile(w)
    BY Zenon, <1>1, <1>2, <1>3
    DEF TruncatePidFile, WorkersInv, WorkersTypeOK, CommandInHand, StopInHand, Active
  <1>4. CASE FillPidFile(w)
    <2>1. \/ tool' = "started"
          \/ tool' = "start" /\ at'[2] = "read"
      BY <1>1, <1>4 DEF FillPidFile, Advance
    <2>. QED
      BY Zenon, <1>2, <2>1 DEF WorkersInv, CommandInHand, StopInHand, Active
  <1>. QED
    BY Zenon, <1>3, <1>4

(* Every step of a command, an end of the tool and whatever the processes  *)
(* of the machine do keep the invariant.                                   *)
LEMMA WorkersInvStep == WorkersInv /\ [WorkersNext]_workerVars => WorkersInv'
  <1>. SUFFICES ASSUME WorkersInv, [WorkersNext]_workerVars PROVE WorkersInv'
    BY Zenon
  <1>1. CASE UNCHANGED workerVars
    BY <1>1 DEF workerVars, WorkersInv, WorkersTypeOK, Supervised, CommandInHand, StopInHand,
                Active, Running
  <1>2. CASE WorkersNext
    <2>. WorkersTypeOK'
      BY Zenon, <1>2, WorkersTypeStep
    <2>1. ASSUME NEW c \in {"start", "stop"}, BeginCommand(c) PROVE WorkersInv'
      <3>1. \A v \in Workers : Running(v)' = Running(v) /\ pidFile'[v] = pidFile[v]
        BY Zenon, <2>1 DEF BeginCommand, Running
      <3>2. Supervised'
        BY Zenon, <3>1 DEF WorkersInv, Supervised
      <3>3. CommandInHand' /\ StopInHand'
        BY <2>1, WorkersAssumption DEF BeginCommand, CommandInHand, StopInHand, Workers
      <3>. QED
        BY Zenon, <3>2, <3>3 DEF WorkersInv
    <2>2. ASSUME NEW w \in Workers, StopWorker(w) PROVE WorkersInv'
      BY Zenon, <2>2, StopWorkerStep
    <2>3. ASSUME NEW w \in Workers, BadPidFile(w) \/ SpawnFails(w) PROVE WorkersInv'
      <3>1. /\ UNCHANGED <<pidFile, at, known>> /\ tool' \in {tool, "failed"}
            /\ \A v \in Workers : Running(v)' \subseteq Running(v)
        BY Zenon, <2>3 DEF BadPidFile, SpawnFails, Running
      <3>. QED
        BY Zenon, <3>1, WorkersFewer
    <2>4. ASSUME NEW w \in Workers, RemovePidFile(w) PROVE WorkersInv'
      <3>1. /\ Active /\ at[1] = w /\ Stopped(w) /\ pidFile' = [pidFile EXCEPT ![w] = "absent"]
            /\ Running(w) = {} /\ \A v \in Workers : Running(v)' = Running(v)
        BY Zenon, <2>4 DEF RemovePidFile, WorkersInv, CommandInHand, Running
      <3>. QED
        BY Zenon, <3>1, WorkersStopped
    <2>5. ASSUME NEW w \in Workers, TruncatePidFile(w) \/ FillPidFile(w) PROVE WorkersInv'
      BY Zenon, <2>5, PidFileStep
    <2>6. ASSUME NEW w \in Workers, NEW p \in Pids, Spawn(w, p) PROVE WorkersInv'
      BY Zenon, <2>6, SpawnStep
    <2>7. ASSUME NEW p \in Pids, ProcessExits(p) \/ OtherStarts(p) PROVE WorkersInv'
      <3>1. /\ UNCHANGED <<pidFile, at, known>> /\ tool' \in {tool, "failed"}
            /\ \A v \in Workers : Running(v)' \subseteq Running(v)
        BY <2>7, WorkersAssumption
        DEF ProcessExits, OtherStarts, Running, WorkersInv, WorkersTypeOK, Workers, Free, Other
      <3>. QED
        BY Zenon, <3>1, WorkersFewer
    <2>8. CASE KillTool
      <3>1. /\ UNCHANGED <<pidFile, at, known>> /\ tool' \in {tool, "failed"}
            /\ \A v \in Workers : Running(v)' \subseteq Running(v)
        BY Zenon, <2>8 DEF KillTool, Running
      <3>. QED
        BY Zenon, <3>1, WorkersFewer
    <2>. QED
      BY Zenon, <1>2, <2>1, <2>2, <2>3, <2>4, <2>5, <2>6, <2>7, <2>8 DEF WorkersNext
  <1>. QED
    BY Zenon, <1>1, <1>2

(* However often start and stop are run, killed and run again, and         *)
(* whatever pids the system gives to whom, no worker has two processes     *)
(* that were not told to stop, and a stop that succeeds leaves none.       *)
THEOREM WorkersCorrect ==
  WorkersInit /\ [][WorkersNext]_workerVars => [](WorkersTypeOK /\ NoStrayWorker)
  <1>1. WorkersInv => WorkersTypeOK /\ NoStrayWorker
    BY Zenon DEF WorkersInv, Supervised, StopInHand, NoStrayWorker, OneInstance, StopStops
  <1>. QED
    BY <1>1, WorkersInvInit, WorkersInvStep, PTL

-----------------------------------------------------------------------------
(* The credentials of the deployables.                                     *)

(* A verification that still counts is of the entries as they are, and an  *)
(* environment that is current is what the two files give now.             *)
SecretsInv ==
    /\ SecretsTypeOK
    /\ verified => Verifies
    /\ \A d \in current : Collects(d, TRUE) /\ envFile[d] = Collect(d, TRUE)

(* An edit of either file withdraws what it may have made untrue; an       *)
(* export and a verification establish what they record.                   *)
LEMMA SecretsInvStep == SecretsInv /\ [SecretsNext]_secretVars => SecretsInv'
  <1>. SUFFICES ASSUME SecretsInv, [SecretsNext]_secretVars PROVE SecretsInv'
    BY Zenon
  <1>. USE DEF SecretsInv, SecretsTypeOK, Entries
  <1>1. ASSUME NEW d \in Deployables, NEW e \in Entries, EditShared(d, e) PROVE SecretsInv'
    BY Zenon, <1>1 DEF EditShared
  <1>2. ASSUME NEW d \in Deployables, NEW e \in Entries, EditOwn(d, e) PROVE SecretsInv'
    BY Zenon, <1>2 DEF EditOwn, Collects, Collect, MergeConflicts, Verifies
  <1>3. ASSUME NEW d \in Deployables, ExportEnv(d) PROVE SecretsInv'
    BY Zenon, <1>3 DEF ExportEnv, Collects, Collect, MergeConflicts, Verifies
  <1>4. ASSUME NEW d \in Deployables, ExportRefused(d) PROVE SecretsInv'
    BY Zenon, <1>4 DEF ExportRefused, secretVars, Collects, Collect, MergeConflicts, Verifies
  <1>5. CASE Verify
    BY Zenon, <1>5 DEF Verify, Collects, Collect, MergeConflicts, Verifies
  <1>6. CASE UNCHANGED secretVars
    BY Zenon, <1>6 DEF secretVars, Collects, Collect, MergeConflicts, Verifies
  <1>. QED
    BY Zenon, <1>1, <1>2, <1>3, <1>4, <1>5, <1>6 DEF SecretsNext

(* With verified credentials every environment exported since the last     *)
(* edit, and every one `run` builds with an external database, names the   *)
(* one database, whatever the deployables' own secrets say.                *)
THEOREM SecretsCorrect ==
  SecretsInit /\ [][SecretsNext]_secretVars => [](SecretsTypeOK /\ OneDatabase)
  <1>1. SecretsInit => SecretsInv
    BY Zenon DEF SecretsInit, SecretsInv, SecretsTypeOK, Entries
  <1>2. SecretsInv => OneDatabase
    <2>. SUFFICES ASSUME SecretsInv, verified, NEW d \in Deployables, NEW e \in Deployables
                  PROVE  /\ d \in current => envFile[d] = shared[e]
                         /\ RunEnv(d, "external_distributed") \in {"no_file", shared[e]}
      BY Zenon DEF OneDatabase
    <2>1. shared[d] = shared[e] /\ shared[d] # "none"
      BY Zenon, DatabasesAssumption DEF SecretsInv, Verifies
    <2>2. Collects(d, TRUE) => Collect(d, TRUE) = shared[e]
      BY Zenon, <2>1 DEF Collects, Collect, MergeConflicts
    <2>. QED
      BY Zenon, <2>2 DEF SecretsInv, RunEnv, IncludesShared
  <1>3. SecretsInv => SecretsTypeOK
    BY Zenon DEF SecretsInv
  <1>. QED
    BY <1>1, <1>2, <1>3, SecretsInvStep, PTL

-----------------------------------------------------------------------------
(* The bootstrap of web-bff.                                               *)

Configs ==
  [production : BOOLEAN, devHeaders : BOOLEAN, issuer : BOOLEAN, secret : {"dev", "own"},
   authz : {"none", "openfga", "other"}, origins : BOOLEAN,
   store : {"turso", "surrealdb", "other"}, surreal : BOOLEAN,
   database : {"none", "embedded", "remote"},
   commercial : {"disabled", "local_mock", "local_real", "external", "other"},
   billing : {"disabled", "creem", "other"}, creem : {"incomplete", "test", "live"}]

Bases == {"embedded", "remote", "surrealdb"}

BootTypes ==
  /\ setting \in Configs /\ config \in [Servers -> Configs]
  /\ stage \in [Servers -> Stages] /\ cursor \in [Servers -> TenantMigrations]
  /\ found \in [Servers -> SUBSET AllColumns]
  /\ columns \in [{"embedded", "remote"} -> SUBSET AllColumns]
  /\ DOMAIN schema = Bases /\ schema = [base \in Bases |-> schema[base]]
  /\ schema["surrealdb"] \subseteq TenantMigrations

(* What a process that is at some stage of its bootstrap can rely on: the  *)
(* tables the stages before created in its database, the columns, and the  *)
(* settings the guard and the builders accepted.                           *)
HasTables(p) ==
  LET base == config[p].database IN
  base # "none" =>
    /\ stage[p] # "tenant" => "tenant" \in schema[base]
    /\ stage[p] \notin {"tenant", "user"} => "user" \in schema[base]
    /\ stage[p] \notin {"tenant", "user", "counter"} => "counter" \in schema[base]
    /\ stage[p] \in {"surreal", "serving"} => "audit" \in schema[base]

HasColumns(p) ==
  LET base == config[p].database IN
  base # "none" =>
    /\ stage[p] = "alter" => found[p] \subseteq columns[base] /\ found[p] # AllColumns
    /\ stage[p] \in {"ledgers", "billing", "audit", "surreal", "serving"} =>
         columns[base] = AllColumns

HasLedgers(p) ==
  LET c == config[p] IN
  /\ stage[p] \in {"billing", "audit", "surreal", "serving"} =>
       /\ AuthzAdapter(c) # "other"
       /\ c.commercial = "local_real" => c.database # "none" /\ "commercial" \in schema[c.database]
  /\ stage[p] \in {"audit", "surreal", "serving"} =>
       (c.billing = "creem" => c.database # "none" /\ "billing" \in schema[c.database])

HasSurreal(p) ==
  /\ stage[p] = "surreal" =>
       \A m \in TenantMigrations : m < cursor[p] => m \in schema["surrealdb"]
  /\ stage[p] = "serving" /\ config[p].store = "surrealdb" =>
       schema["surrealdb"] = TenantMigrations

Guarded(p) ==
  /\ ValidateRuntimeProfile(config[p])
  /\ stage[p] \in {"tenant", "user", "counter", "inspect", "alter"} =>
       config[p].database # "none"

Wired(p) ==
  stage[p] # "down" =>
    Guarded(p) /\ HasTables(p) /\ HasColumns(p) /\ HasLedgers(p) /\ HasSurreal(p)

BootInv == BootTypes /\ \A p \in Servers : Wired(p)

(* Nothing is ever dropped: tables, columns and migrations only grow.      *)
Grows ==
  /\ \A base \in Bases : schema[base] \subseteq schema'[base]
  /\ \A base \in {"embedded", "remote"} : columns[base] \subseteq columns'[base]

(* The column that is added next is one of the three and was not listed.   *)
LEMMA FirstMissingFact ==
  ASSUME NEW listed \in SUBSET AllColumns, listed # AllColumns
  PROVE  FirstMissing(listed) \in AllColumns /\ FirstMissing(listed) \notin listed
  <1>. DEFINE First(i) == /\ IdempotencyColumns[i] \notin listed
                          /\ \A j \in 1..3 : j < i => IdempotencyColumns[j] \in listed
  <1>1. /\ IdempotencyColumns[1] = "tenant_id" /\ IdempotencyColumns[2] = "resource"
        /\ IdempotencyColumns[3] = "response_digest"
    BY Zenon DEF IdempotencyColumns
  <1>2. \E i \in 1..3 : First(i)
    <2>1. CASE "tenant_id" \notin listed
      <3>1. First(1)
        BY <1>1, <2>1
      <3>. QED
        BY <3>1
    <2>2. CASE "tenant_id" \in listed /\ "resource" \notin listed
      <3>1. First(2)
        BY <1>1, <2>2
      <3>. QED
        BY <3>1
    <2>3. CASE "tenant_id" \in listed /\ "resource" \in listed
      <3>0. "response_digest" \notin listed
        BY Zenon, <2>3 DEF AllColumns
      <3>1. First(3)
        BY <1>1, <2>3, <3>0
      <3>. QED
        BY <3>1
    <2>. QED
      BY Zenon, <2>1, <2>2, <2>3
  <1>3. PICK i \in 1..3 : i = (CHOOSE k \in 1..3 : First(k)) /\ First(i)
    BY Zenon, <1>2
  <1>4. FirstMissing(listed) = IdempotencyColumns[i]
    BY Zenon, <1>3 DEF FirstMissing
  <1>. HIDE DEF First
  <1>5. IdempotencyColumns[i] \notin listed
    BY Zenon, <1>3 DEF First
  <1>6. i = 1 \/ i = 2 \/ i = 3
    OBVIOUS
  <1>. QED
    BY Zenon, <1>1, <1>4, <1>5, <1>6 DEF AllColumns

(* What a process relies on stays there while another one boots.           *)
LEMMA WiredStays ==
  ASSUME BootTypes, BootTypes', Grows, NEW q \in Servers, Wired(q),
         stage'[q] = stage[q], cursor'[q] = cursor[q], found'[q] = found[q],
         stage[q] # "down" => config'[q] = config[q]
  PROVE  Wired(q)'
  <1>. SUFFICES ASSUME stage[q] # "down"
                PROVE  Wired(q)'
    BY Zenon DEF Wired
  <1>. config'[q] = config[q]
    BY Zenon
  <1>0. /\ config[q].database \in {"none", "embedded", "remote"}
        /\ schema'["surrealdb"] \subseteq TenantMigrations
        /\ columns' \in [{"embedded", "remote"} -> SUBSET AllColumns]
    BY Zenon DEF BootTypes, Configs
  <1>1. Guarded(q)'
    BY Zenon DEF Wired, Guarded, ValidateRuntimeProfile, ImplementedCommercialMode, ValidateBillingProvider
  <1>2. HasTables(q)'
    BY Zenon, <1>0 DEF Wired, HasTables, Grows, Bases
  <1>3. HasColumns(q)'
    <2>1. ASSUME NEW base \in {"embedded", "remote"}
          PROVE  columns[base] \subseteq columns'[base] /\ columns'[base] \subseteq AllColumns
      BY Zenon, <1>0 DEF Grows
    <2>2. CASE config[q].database # "none"
      <3>1. config[q].database \in {"embedded", "remote"}
        BY Zenon, <1>0, <2>2
      <3>2. stage[q] = "alter" => found'[q] \subseteq columns'[config[q].database] /\ found'[q] # AllColumns
        BY Zenon, <2>1, <2>2, <3>1 DEF Wired, HasColumns
      <3>3. stage[q] \in {"ledgers", "billing", "audit", "surreal", "serving"} =>
              columns'[config[q].database] = AllColumns
        BY Zenon, <2>1, <2>2, <3>1 DEF Wired, HasColumns
      <3>. QED
        BY Zenon, <3>2, <3>3 DEF HasColumns
    <2>. QED
      BY Zenon, <2>2 DEF HasColumns
  <1>4. HasLedgers(q)'
    BY Zenon, <1>0 DEF Wired, HasLedgers, AuthzAdapter, Grows, Bases
  <1>5. HasSurreal(q)'
    BY Zenon, <1>0 DEF Wired, HasSurreal, Grows, Bases
  <1>. QED
    BY Zenon, <1>1, <1>2, <1>3, <1>4, <1>5 DEF Wired

(* An edited setting is a configuration again.                             *)
LEMMA EditedSetting ==
  ASSUME NEW c \in Configs, NEW key \in DOMAIN Values, NEW value \in Values[key]
  PROVE  [c EXCEPT ![key] = value] \in Configs
  <1>1. key \in {"production", "devHeaders", "issuer", "secret", "authz", "origins",
              "store", "surreal", "database", "commercial", "billing", "creem"}
    BY Zenon DEF Values
  <1>2. CASE key = "production"
    BY Zenon, <1>2 DEF Configs, Values
  <1>3. CASE key = "devHeaders"
    BY Zenon, <1>3 DEF Configs, Values
  <1>4. CASE key = "issuer"
    BY Zenon, <1>4 DEF Configs, Values
  <1>5. CASE key = "secret"
    BY Zenon, <1>5 DEF Configs, Values
  <1>6. CASE key = "authz"
    BY Zenon, <1>6 DEF Configs, Values
  <1>7. CASE key = "origins"
    BY Zenon, <1>7 DEF Configs, Values
  <1>8. CASE key = "store"
    BY Zenon, <1>8 DEF Configs, Values
  <1>9. CASE key = "surreal"
    BY Zenon, <1>9 DEF Configs, Values
  <1>10. CASE key = "database"
    BY Zenon, <1>10 DEF Configs, Values
  <1>11. CASE key = "commercial"
    BY Zenon, <1>11 DEF Configs, Values
  <1>12. CASE key = "billing"
    BY Zenon, <1>12 DEF Configs, Values
  <1>13. CASE key = "creem"
    BY <1>13 DEF Configs, Values
  <1>. QED
    BY Zenon, <1>1, <1>2, <1>3, <1>4, <1>5, <1>6, <1>7, <1>8, <1>9, <1>10, <1>11, <1>12, <1>13

(* CREATE TABLE IF NOT EXISTS adds tables to one database and leaves every *)
(* other schema alone.                                                     *)
LEMMA CreateTablesFact ==
  ASSUME BootTypes, NEW p \in Servers, config[p].database # "none",
         NEW tables, CreateTables(p, tables)
  PROVE  /\ DOMAIN schema' = Bases /\ schema' = [base \in Bases |-> schema'[base]]
         /\ schema'["surrealdb"] = schema["surrealdb"]
         /\ schema'[config[p].database] = schema[config[p].database] \cup tables
         /\ \A base \in Bases : schema[base] \subseteq schema'[base]
  <1>1. config[p].database \in {"embedded", "remote"}
    BY DEF BootTypes, Configs
  <1>. QED
    BY Zenon, <1>1 DEF CreateTables, BootTypes, Bases

(* Server q is where it was.                                               *)
Undisturbed(q) ==
  /\ stage'[q] = stage[q] /\ cursor'[q] = cursor[q] /\ found'[q] = found[q]
  /\ stage[q] # "down" => config'[q] = config[q]

(* A step of one server keeps the invariant when that server has what its  *)
(* next stage relies on.                                                   *)
LEMMA ServerStep ==
  ASSUME BootInv, NEW p \in Servers, BootTypes', Grows, Wired(p)',
         \A q \in Servers \ {p} : Undisturbed(q)
  PROVE  BootInv'
  <1>1. ASSUME NEW q \in Servers \ {p} PROVE Wired(q)'
    BY Zenon, WiredStays DEF BootInv, Undisturbed
  <1>. QED
    BY Zenon, <1>1 DEF BootInv

(* Going on to another stage moves only the server that does; it keeps its *)
(* configuration unless it goes down.                                      *)
LEMMA ProceedFact ==
  ASSUME BootTypes, NEW p \in Servers, NEW next \in Stages, Proceed(p, next), KeepsConfig,
         setting' = setting
  PROVE  /\ setting' \in Configs /\ config' \in [Servers -> Configs]
         /\ stage' \in [Servers -> Stages] /\ cursor' \in [Servers -> TenantMigrations]
         /\ stage'[p] = next /\ cursor'[p] = 1
         /\ next # "down" => config'[p] = config[p]
         /\ \A q \in Servers \ {p} :
              /\ stage'[q] = stage[q] /\ cursor'[q] = cursor[q]
              /\ stage[q] # "down" => config'[q] = config[q]
  <1>1. Default \in Configs
    BY Zenon DEF Default, Configs
  <1>2. /\ stage' = [stage EXCEPT ![p] = next] /\ cursor' = [cursor EXCEPT ![p] = 1]
        /\ config' = [q \in Servers |-> IF stage'[q] = "down" THEN Default ELSE config[q]]
        /\ setting' \in Configs /\ config \in [Servers -> Configs]
        /\ stage \in [Servers -> Stages] /\ cursor \in [Servers -> TenantMigrations]
    BY Zenon DEF Proceed, KeepsConfig, BootTypes
  <1>3. 1 \in TenantMigrations
    BY DEF TenantMigrations
  <1>. QED
    BY Zenon, <1>1, <1>2, <1>3

(* A start that ends, refused by a builder, by an error or by a kill,      *)
(* leaves what it has created and takes nothing from the other servers.    *)
LEMMA ExitStep ==
  ASSUME BootInv, NEW p \in Servers, Exit(p), KeepsConfig, setting' = setting,
         found' = found \/ found' = [found EXCEPT ![p] = {}]
  PROVE  BootInv'
  <1>1. BootTypes /\ Proceed(p, "down") /\ schema' = schema /\ columns' = columns
    BY Zenon DEF BootInv, Exit
  <1>2. "down" \in Stages
    BY Zenon DEF Stages
  <1>3. found' \in [Servers -> SUBSET AllColumns] /\ \A q \in Servers \ {p} : found'[q] = found[q]
    BY Zenon, <1>1 DEF BootTypes
  <1>4. BootTypes'
    BY Zenon, <1>1, <1>2, <1>3, ProceedFact DEF BootTypes
  <1>5. Grows
    BY Zenon, <1>1 DEF Grows
  <1>6. Wired(p)'
    BY Zenon, <1>1, <1>2, ProceedFact DEF Wired
  <1>7. \A q \in Servers \ {p} : Undisturbed(q)
    BY Zenon, <1>1, <1>2, <1>3, ProceedFact DEF Undisturbed
  <1>. QED
    BY Zenon, <1>4, <1>5, <1>6, <1>7, ServerStep

(* A stage that goes on to the next keeps the invariant when the schemas   *)
(* and columns only grow and the server has what the next stage needs.     *)
LEMMA StageStep ==
  ASSUME BootInv, NEW p \in Servers, NEW next \in Stages, Proceed(p, next), KeepsSettings,
         Wired(p)', Grows, found' \in [Servers -> SUBSET AllColumns],
         \A q \in Servers \ {p} : found'[q] = found[q],
         columns' \in [{"embedded", "remote"} -> SUBSET AllColumns],
         DOMAIN schema' = Bases, schema' = [base \in Bases |-> schema'[base]],
         schema'["surrealdb"] \subseteq TenantMigrations
  PROVE  BootInv'
  <1>1. BootTypes /\ KeepsConfig /\ setting' = setting
    BY Zenon DEF BootInv, KeepsSettings
  <1>2. BootTypes'
    BY Zenon, <1>1, ProceedFact DEF BootTypes
  <1>3. \A q \in Servers \ {p} : Undisturbed(q)
    BY Zenon, <1>1, ProceedFact DEF Undisturbed
  <1>. QED
    BY Zenon, <1>2, <1>3, ServerStep

(* What a server that goes on keeps: its configuration, which the guard    *)
(* has accepted.                                                           *)
LEMMA StageFacts ==
  ASSUME BootInv, NEW p \in Servers, NEW next \in Stages, next # "down", Proceed(p, next),
         KeepsSettings, stage[p] # "down"
  PROVE  /\ stage'[p] = next /\ cursor'[p] = 1 /\ config'[p] = config[p]
         /\ ValidateRuntimeProfile(config[p])'
         /\ AuthzAdapter(config[p])' = AuthzAdapter(config[p])
         /\ config[p].database \in {"none", "embedded", "remote"}
         /\ Guarded(p) /\ HasTables(p) /\ HasColumns(p) /\ HasLedgers(p) /\ HasSurreal(p)
  <1>1. BootTypes /\ Wired(p) /\ KeepsConfig /\ setting' = setting
    BY Zenon DEF BootInv, KeepsSettings
  <1>2. stage'[p] = next /\ cursor'[p] = 1 /\ config'[p] = config[p]
    BY Zenon, <1>1, ProceedFact
  <1>3. Guarded(p) /\ HasTables(p) /\ HasColumns(p) /\ HasLedgers(p) /\ HasSurreal(p)
    BY Zenon, <1>1 DEF Wired
  <1>4. ValidateRuntimeProfile(config[p])'
    BY Zenon, <1>2, <1>3
    DEF Guarded, ValidateRuntimeProfile, ImplementedCommercialMode, ValidateBillingProvider
  <1>5. AuthzAdapter(config[p])' = AuthzAdapter(config[p])
    BY Zenon, <1>2 DEF AuthzAdapter
  <1>6. config[p].database \in {"none", "embedded", "remote"}
    BY Zenon, <1>1 DEF BootTypes, Configs
  <1>. QED
    BY Zenon, <1>2, <1>3, <1>4, <1>5, <1>6

(* A stage that creates tables in the server's database, or none.          *)
LEMMA TablesStep ==
  ASSUME BootInv, NEW p \in Servers, NEW next \in Stages, Proceed(p, next), KeepsSettings,
         UNCHANGED <<found, columns>>, NEW tables, Wired(p)',
         schema' = schema \/ (config[p].database # "none" /\ CreateTables(p, tables))
  PROVE  BootInv'
  <1>1. BootTypes
    BY Zenon DEF BootInv
  <1>2. /\ DOMAIN schema' = Bases /\ schema' = [base \in Bases |-> schema'[base]]
        /\ schema'["surrealdb"] = schema["surrealdb"]
        /\ \A base \in Bases : schema[base] \subseteq schema'[base]
    <2>1. CASE schema' = schema
      BY Zenon, <1>1, <2>1 DEF BootTypes
    <2>2. CASE config[p].database # "none" /\ CreateTables(p, tables)
      BY Zenon, <1>1, <2>2, CreateTablesFact
    <2>. QED
      BY Zenon, <2>1, <2>2
  <1>3. schema'["surrealdb"] \subseteq TenantMigrations
    BY Zenon, <1>1, <1>2 DEF BootTypes
  <1>4. Grows
    BY Zenon, <1>2 DEF Grows
  <1>5. found' \in [Servers -> SUBSET AllColumns]
        /\ columns' \in [{"embedded", "remote"} -> SUBSET AllColumns]
    BY Zenon, <1>1 DEF BootTypes
  <1>. QED
    BY Zenon, <1>2, <1>3, <1>4, <1>5, StageStep

(* The tenant and the user migrations.                                     *)
LEMMA TenantStep ==
  ASSUME BootInv, NEW p \in Servers, RunTenantMigrations(p) \/ RunUserMigrations(p)
  PROVE  BootInv'
  <1>. PICK table \in {"tenant", "user"}, next \in {"user", "counter"} :
         /\ \/ stage[p] = "tenant" /\ table = "tenant" /\ next = "user"
            \/ stage[p] = "user" /\ table = "user" /\ next = "counter"
         /\ CreateTables(p, {table}) /\ Proceed(p, next) /\ UNCHANGED <<found, columns>>
         /\ KeepsSettings
    BY Zenon DEF RunTenantMigrations, RunUserMigrations
  <1>1. next \in Stages /\ next # "down" /\ stage[p] # "down" /\ BootTypes
    BY Zenon DEF Stages, BootInv
  <1>2. /\ stage'[p] = next /\ config'[p] = config[p] /\ ValidateRuntimeProfile(config[p])'
        /\ config[p].database # "none" /\ HasTables(p)
    BY Zenon, <1>1, StageFacts DEF Guarded
  <1>3. schema'[config[p].database] = schema[config[p].database] \cup {table}
    BY Zenon, <1>1, <1>2, CreateTablesFact
  <1>4. HasTables(p)'
    BY Zenon, <1>2, <1>3 DEF HasTables
  <1>5. Wired(p)'
    BY Zenon, <1>2, <1>4 DEF Wired, Guarded, HasColumns, HasLedgers, HasSurreal
  <1>. QED
    BY Zenon, <1>1, <1>2, <1>5, TablesStep

(* The counter migration brings all columns with a new table.              *)
LEMMA MigrateCounterStep ==
  ASSUME BootInv, NEW p \in Servers, MigrateCounter(p) PROVE BootInv'
  <1>. DEFINE base == config[p].database
  <1>1. /\ CreateTables(p, {"counter"}) /\ Proceed(p, "inspect") /\ found' = found /\ KeepsSettings
        /\ stage[p] = "counter" /\ BootTypes /\ "inspect" \in Stages
        /\ columns' = [columns EXCEPT ![base] = IF "counter" \in schema[base] THEN @ ELSE AllColumns]
    BY Zenon DEF MigrateCounter, BootInv, Stages
  <1>2. /\ stage'[p] = "inspect" /\ config'[p] = config[p] /\ ValidateRuntimeProfile(config[p])'
        /\ base # "none" /\ base \in {"embedded", "remote"} /\ HasTables(p)
    BY Zenon, <1>1, StageFacts DEF Guarded
  <1>3. /\ DOMAIN schema' = Bases /\ schema' = [b \in Bases |-> schema'[b]]
        /\ schema'["surrealdb"] = schema["surrealdb"]
        /\ schema'[base] = schema[base] \cup {"counter"}
        /\ \A b \in Bases : schema[b] \subseteq schema'[b]
    BY Zenon, <1>1, <1>2, CreateTablesFact
  <1>4. /\ columns' \in [{"embedded", "remote"} -> SUBSET AllColumns]
        /\ \A b \in {"embedded", "remote"} : columns[b] \subseteq columns'[b]
    BY Zenon, <1>1, <1>2 DEF BootTypes
  <1>5. Wired(p)'
    <2>1. HasTables(p)'
      BY Zenon, <1>2, <1>1, <1>3 DEF HasTables
    <2>. QED
      BY Zenon, <1>2, <2>1 DEF Wired, Guarded, HasColumns, HasLedgers, HasSurreal
  <1>6. Grows /\ schema'["surrealdb"] \subseteq TenantMigrations
        /\ found' \in [Servers -> SUBSET AllColumns]
    BY Zenon, <1>1, <1>3, <1>4 DEF Grows, BootTypes
  <1>. QED
    BY Zenon, <1>1, <1>3, <1>4, <1>5, <1>6, StageStep

(* PRAGMA table_info: the process goes on when all columns are there, and  *)
(* otherwise remembers the ones that are.                                  *)
LEMMA InspectStep ==
  ASSUME BootInv, NEW p \in Servers, InspectColumns(p) PROVE BootInv'
  <1>. DEFINE present == columns[config[p].database]
  <1>1. /\ stage[p] = "inspect" /\ UNCHANGED <<schema, columns>> /\ KeepsSettings
        /\ BootTypes /\ {"ledgers", "alter"} \subseteq Stages
        /\ \/ present = AllColumns /\ Proceed(p, "ledgers") /\ found' = found
           \/ present # AllColumns /\ Proceed(p, "alter") /\ found' = [found EXCEPT ![p] = present]
    BY Zenon DEF InspectColumns, BootInv, Stages
  <1>2. PICK next \in {"ledgers", "alter"} :
          /\ Proceed(p, next)
          /\ \/ next = "ledgers" /\ present = AllColumns /\ found' = found
             \/ next = "alter" /\ present # AllColumns /\ found' = [found EXCEPT ![p] = present]
    BY Zenon, <1>1
  <1>3. /\ stage'[p] = next /\ config'[p] = config[p] /\ ValidateRuntimeProfile(config[p])'
        /\ config[p].database # "none" /\ config[p].database \in {"embedded", "remote"} /\ HasTables(p)
    BY Zenon, <1>1, <1>2, StageFacts DEF Guarded
  <1>4. /\ found' \in [Servers -> SUBSET AllColumns] /\ \A q \in Servers \ {p} : found'[q] = found[q]
        /\ next = "alter" => found'[p] = present
    BY Zenon, <1>1, <1>2, <1>3 DEF BootTypes
  <1>5. HasTables(p)' /\ HasColumns(p)'
    BY Zenon, <1>1, <1>2, <1>3, <1>4 DEF HasTables, HasColumns
  <1>6. Wired(p)'
    BY Zenon, <1>3, <1>5 DEF Wired, Guarded, HasLedgers, HasSurreal
  <1>7. /\ Grows /\ schema'["surrealdb"] \subseteq TenantMigrations
        /\ columns' \in [{"embedded", "remote"} -> SUBSET AllColumns]
        /\ DOMAIN schema' = Bases /\ schema' = [b \in Bases |-> schema'[b]]
    BY Zenon, <1>1 DEF Grows, BootTypes
  <1>. QED
    BY Zenon, <1>1, <1>2, <1>4, <1>6, <1>7, StageStep

(* ALTER TABLE: the process that adds the last missing column finds all of *)
(* them there, although the other may have added some meanwhile; a column  *)
(* the other one added first ends this start.                              *)
LEMMA EnsureStep ==
  ASSUME BootInv, NEW p \in Servers, EnsureIdempotencyColumns(p) PROVE BootInv'
  <1>. DEFINE base == config[p].database
              column == FirstMissing(found[p])
              done == found[p] \cup {column} = AllColumns
  <1>1. CASE column \in columns[base]
    BY Zenon, <1>1, ExitStep DEF EnsureIdempotencyColumns, KeepsSettings
  <1>2. CASE column \notin columns[base]
    <2>1. /\ stage[p] = "alter" /\ BootTypes /\ {"ledgers", "alter"} \subseteq Stages
          /\ columns' = [columns EXCEPT ![base] = @ \cup {column}]
          /\ found' = [found EXCEPT ![p] = IF done THEN {} ELSE @ \cup {column}]
          /\ Proceed(p, IF done THEN "ledgers" ELSE "alter")
          /\ schema' = schema /\ KeepsSettings
      BY Zenon, <1>2 DEF EnsureIdempotencyColumns, BootInv, Stages
    <2>2. PICK next \in {"ledgers", "alter"} :
            Proceed(p, next) /\ (next = "ledgers" <=> done)
      BY Zenon, <2>1
    <2>3. /\ stage'[p] = next /\ config'[p] = config[p] /\ ValidateRuntimeProfile(config[p])'
          /\ base # "none" /\ base \in {"embedded", "remote"} /\ HasTables(p)
          /\ found[p] \subseteq columns[base] /\ found[p] # AllColumns
      BY Zenon, <2>1, <2>2, StageFacts DEF Guarded, HasColumns
    <2>4. column \in AllColumns
      BY Zenon, <2>1, <2>3, FirstMissingFact DEF BootTypes
    <2>5. /\ columns' \in [{"embedded", "remote"} -> SUBSET AllColumns]
          /\ \A b \in {"embedded", "remote"} : columns[b] \subseteq columns'[b]
          /\ columns'[base] = columns[base] \cup {column}
      BY Zenon, <2>1, <2>3, <2>4 DEF BootTypes
    <2>6. /\ found' \in [Servers -> SUBSET AllColumns]
          /\ \A q \in Servers \ {p} : found'[q] = found[q]
          /\ ~done => found'[p] = found[p] \cup {column}
      BY Zenon, <2>1, <2>4 DEF BootTypes
    <2>7. next = "ledgers" => columns'[base] = AllColumns
      BY Zenon, <2>2, <2>3, <2>5
    <2>8. next = "alter" => found'[p] \subseteq columns'[base] /\ found'[p] # AllColumns
      BY Zenon, <2>2, <2>3, <2>5, <2>6
    <2>9. HasTables(p)' /\ HasColumns(p)'
      BY Zenon, <2>1, <2>2, <2>3, <2>7, <2>8 DEF HasTables, HasColumns
    <2>10. Wired(p)'
      BY Zenon, <2>3, <2>9 DEF Wired, Guarded, HasLedgers, HasSurreal
    <2>11. /\ Grows /\ schema'["surrealdb"] \subseteq TenantMigrations
           /\ DOMAIN schema' = Bases /\ schema' = [b \in Bases |-> schema'[b]]
      BY Zenon, <2>1, <2>5 DEF Grows, BootTypes
    <2>. QED
      BY Zenon, <2>1, <2>2, <2>5, <2>6, <2>10, <2>11, StageStep
  <1>. QED
    BY Zenon, <1>1, <1>2

(* The ledgers of the local_real mode, after the authorizer was built.     *)
LEMMA LedgersStep ==
  ASSUME BootInv, NEW p \in Servers, InitializeCommercialLedgers(p) PROVE BootInv'
  <1>. DEFINE c == config[p]
              refused == AuthzAdapter(c) = "other" \/ (c.commercial = "local_real" /\ c.database = "none")
  <1>1. CASE refused
    BY Zenon, <1>1, ExitStep DEF InitializeCommercialLedgers, KeepsSettings
  <1>2. CASE ~refused
    <2>1. /\ stage[p] = "ledgers" /\ BootTypes /\ "billing" \in Stages /\ Proceed(p, "billing")
          /\ UNCHANGED <<found, columns>> /\ KeepsSettings
          /\ \/ c.commercial = "local_real" /\ c.database # "none" /\ CreateTables(p, {"commercial"})
             \/ c.commercial # "local_real" /\ schema' = schema
      BY Zenon, <1>2 DEF InitializeCommercialLedgers, BootInv, Stages
    <2>2. /\ stage'[p] = "billing" /\ config'[p] = c /\ ValidateRuntimeProfile(config[p])'
          /\ AuthzAdapter(config[p])' = AuthzAdapter(c)
          /\ c.database \in {"none", "embedded", "remote"} /\ HasTables(p) /\ HasColumns(p)
      BY Zenon, <2>1, StageFacts
    <2>3. c.database # "none" => schema[c.database] \subseteq schema'[c.database]
      BY Zenon, <2>1, <2>2, CreateTablesFact DEF Bases
    <2>4. c.commercial = "local_real" => c.database # "none" /\ "commercial" \in schema'[c.database]
      BY <2>1, CreateTablesFact
    <2>5. HasTables(p)' /\ HasColumns(p)'
      BY Zenon, <2>1, <2>2, <2>3 DEF HasTables, HasColumns
    <2>6. HasLedgers(p)'
      BY Zenon, <1>2, <2>2, <2>4 DEF HasLedgers
    <2>7. Wired(p)'
      BY Zenon, <2>2, <2>5, <2>6 DEF Wired, Guarded, HasSurreal
    <2>. QED
      BY Zenon, <2>1, <2>7, TablesStep
  <1>. QED
    BY Zenon, <1>1, <1>2

(* The billing ledgers.                                                    *)
LEMMA BillingLedgersStep ==
  ASSUME BootInv, NEW p \in Servers, InitializeBillingLedgers(p) PROVE BootInv'
  <1>. DEFINE c == config[p]
              refused == c.billing = "creem" /\ c.database = "none"
  <1>1. CASE refused
    BY Zenon, <1>1, ExitStep DEF InitializeBillingLedgers, KeepsSettings
  <1>2. CASE ~refused
    <2>1. /\ stage[p] = "billing" /\ BootTypes /\ "audit" \in Stages /\ Proceed(p, "audit")
          /\ UNCHANGED <<found, columns>> /\ KeepsSettings
          /\ \/ c.billing = "creem" /\ c.database # "none" /\ CreateTables(p, {"billing"})
             \/ c.billing # "creem" /\ schema' = schema
      BY Zenon, <1>2 DEF InitializeBillingLedgers, BootInv, Stages
    <2>2. /\ stage'[p] = "audit" /\ config'[p] = c /\ ValidateRuntimeProfile(config[p])'
          /\ AuthzAdapter(config[p])' = AuthzAdapter(c)
          /\ c.database \in {"none", "embedded", "remote"}
          /\ HasTables(p) /\ HasColumns(p) /\ HasLedgers(p)
      BY Zenon, <2>1, StageFacts
    <2>3. c.database # "none" => schema[c.database] \subseteq schema'[c.database]
      BY Zenon, <2>1, <2>2, CreateTablesFact DEF Bases
    <2>4. c.billing = "creem" => c.database # "none" /\ "billing" \in schema'[c.database]
      BY <2>1, CreateTablesFact
    <2>5. HasTables(p)' /\ HasColumns(p)'
      BY Zenon, <2>1, <2>2, <2>3 DEF HasTables, HasColumns
    <2>6. HasLedgers(p)'
      BY Zenon, <2>1, <2>2, <2>3, <2>4 DEF HasLedgers
    <2>7. Wired(p)'
      BY Zenon, <2>2, <2>5, <2>6 DEF Wired, Guarded, HasSurreal
    <2>. QED
      BY Zenon, <2>1, <2>7, TablesStep
  <1>. QED
    BY Zenon, <1>1, <1>2

(* The audit table and the composition root: a store that is not known or  *)
(* not configured ends the start, SurrealDB has its own migrations.        *)
LEMMA AuditStep ==
  ASSUME BootInv, NEW p \in Servers, BuildAuditSink(p) PROVE BootInv'
  <1>. DEFINE c == config[p]
              next == AfterComposition(c)
  <1>1. /\ stage[p] = "audit" /\ BootTypes /\ Proceed(p, next)
        /\ UNCHANGED <<found, columns>> /\ KeepsSettings
        /\ \/ c.database # "none" /\ CreateTables(p, {"audit"})
           \/ c.database = "none" /\ schema' = schema
    BY Zenon DEF BuildAuditSink, AuditSink, BootInv
  <1>2. /\ next \in {"serving", "surreal", "down"} /\ next \in Stages
        /\ next = "serving" => c.store = "turso"
    BY Zenon DEF AfterComposition, Stages
  <1>3. Wired(p)'
    <2>1. CASE next = "down"
      BY Zenon, <1>1, <1>2, <2>1, ProceedFact DEF Wired, KeepsSettings
    <2>2. CASE next # "down"
      <3>1. /\ stage'[p] = next /\ cursor'[p] = 1 /\ config'[p] = c
            /\ ValidateRuntimeProfile(config[p])'
            /\ AuthzAdapter(config[p])' = AuthzAdapter(c)
            /\ c.database \in {"none", "embedded", "remote"}
            /\ HasTables(p) /\ HasColumns(p) /\ HasLedgers(p)
        BY Zenon, <1>1, <1>2, <2>2, StageFacts
      <3>2. /\ c.database # "none" => schema[c.database] \subseteq schema'[c.database]
            /\ c.database # "none" => "audit" \in schema'[c.database]
        BY <1>1, <3>1, CreateTablesFact DEF Bases
      <3>3. HasTables(p)' /\ HasColumns(p)'
        BY Zenon, <1>1, <1>2, <2>2, <3>1, <3>2 DEF HasTables, HasColumns
      <3>4. HasLedgers(p)'
        BY Zenon, <1>1, <1>2, <2>2, <3>1, <3>2 DEF HasLedgers
      <3>5. HasSurreal(p)'
        BY <1>2, <3>1 DEF HasSurreal, TenantMigrations
      <3>. QED
        BY Zenon, <1>2, <2>2, <3>1, <3>3, <3>4, <3>5 DEF Wired, Guarded
    <2>. QED
      BY Zenon, <2>1, <2>2
  <1>. QED
    BY Zenon, <1>1, <1>2, <1>3, TablesStep

(* The SurrealDB migrations, one by one; after the sixth all are there.    *)
LEMMA SurrealStep ==
  ASSUME BootInv, NEW p \in Servers, RunSurrealMigration(p) PROVE BootInv'
  <1>1. /\ stage[p] = "surreal" /\ BootTypes /\ UNCHANGED <<found, columns>> /\ KeepsSettings
        /\ schema' = [schema EXCEPT !["surrealdb"] = @ \cup {cursor[p]}]
        /\ cursor[p] \in TenantMigrations /\ "serving" \in Stages
    BY Zenon DEF RunSurrealMigration, BootInv, BootTypes, Stages
  <1>2. /\ DOMAIN schema' = Bases /\ schema' = [b \in Bases |-> schema'[b]]
        /\ schema'["surrealdb"] = schema["surrealdb"] \cup {cursor[p]}
        /\ schema'["surrealdb"] \subseteq TenantMigrations
        /\ schema'["embedded"] = schema["embedded"] /\ schema'["remote"] = schema["remote"]
    BY Zenon, <1>1 DEF BootTypes, Bases
  <1>3. /\ Grows /\ found' \in [Servers -> SUBSET AllColumns]
        /\ columns' \in [{"embedded", "remote"} -> SUBSET AllColumns]
    BY Zenon, <1>1, <1>2 DEF Grows, BootTypes, Bases
  <1>4. /\ Wired(p) /\ config[p].database \in {"none", "embedded", "remote"}
        /\ \A m \in TenantMigrations : m < cursor[p] => m \in schema["surrealdb"]
    BY Zenon, <1>1 DEF BootInv, BootTypes, Configs, Wired, HasSurreal
  <1>5. CASE cursor[p] = 6
    <2>1. Proceed(p, "serving")
      BY Zenon, <1>5 DEF RunSurrealMigration
    <2>2. /\ stage'[p] = "serving" /\ config'[p] = config[p] /\ ValidateRuntimeProfile(config[p])'
          /\ AuthzAdapter(config[p])' = AuthzAdapter(config[p])
          /\ HasTables(p) /\ HasColumns(p) /\ HasLedgers(p)
      BY Zenon, <1>1, <2>1, StageFacts
    <2>3. schema'["surrealdb"] = TenantMigrations
      BY <1>2, <1>4, <1>5 DEF TenantMigrations
    <2>4. HasTables(p)' /\ HasColumns(p)' /\ HasLedgers(p)'
      BY <1>1, <1>2, <1>4, <2>2 DEF HasTables, HasColumns, HasLedgers
    <2>5. Wired(p)'
      BY Zenon, <2>2, <2>3, <2>4 DEF Wired, Guarded, HasSurreal
    <2>. QED
      BY Zenon, <1>1, <1>2, <1>3, <2>1, <2>5, StageStep
  <1>6. CASE cursor[p] # 6
    <2>1. /\ cursor' = [cursor EXCEPT ![p] = @ + 1] /\ stage' = stage /\ setting' = setting
          /\ config' = [q \in Servers |-> IF stage[q] = "down" THEN Default ELSE config[q]]
      BY Zenon, <1>6 DEF RunSurrealMigration, KeepsSettings, KeepsConfig
    <2>2. /\ cursor' \in [Servers -> TenantMigrations] /\ cursor'[p] = cursor[p] + 1
          /\ \A q \in Servers \ {p} : cursor'[q] = cursor[q]
      BY <1>1, <1>6, <2>1 DEF BootTypes, TenantMigrations
    <2>3. config' \in [Servers -> Configs] /\ \A q \in Servers : stage[q] # "down" => config'[q] = config[q]
      BY Zenon, <1>1, <2>1 DEF BootTypes, Default, Configs
    <2>4. BootTypes'
      BY Zenon, <1>1, <1>2, <1>3, <2>1, <2>2, <2>3 DEF BootTypes
    <2>5. config'[p] = config[p] /\ Guarded(p)'
      BY Zenon, <1>1, <1>4, <2>1, <2>3
      DEF Wired, Guarded, ValidateRuntimeProfile, ImplementedCommercialMode, ValidateBillingProvider
    <2>6. HasTables(p)' /\ HasColumns(p)' /\ HasLedgers(p)'
      BY Zenon, <1>1, <1>2, <1>4, <2>1, <2>5 DEF Wired, HasTables, HasColumns, HasLedgers, AuthzAdapter
    <2>7. HasSurreal(p)'
      <3>1. ASSUME NEW m \in TenantMigrations, m < cursor[p] + 1 PROVE m \in schema'["surrealdb"]
        BY <1>1, <1>2, <1>4, <3>1 DEF TenantMigrations
      <3>. QED
        BY Zenon, <1>1, <2>1, <2>2, <3>1 DEF HasSurreal
    <2>8. \A q \in Servers \ {p} : Undisturbed(q)
      BY Zenon, <1>1, <2>1, <2>2, <2>3 DEF Undisturbed
    <2>. QED
      BY Zenon, <1>3, <2>4, <2>5, <2>6, <2>7, <2>8, ServerStep DEF Wired
  <1>. QED
    BY Zenon, <1>5, <1>6

(* A start the guard lets through reads the settings once.                 *)
LEMMA BootStartStep ==
  ASSUME BootInv, NEW p \in Servers, Boot(p) PROVE BootInv'
  <1>. DEFINE next == IF setting.database = "none" THEN "ledgers" ELSE "tenant"
  <1>1. /\ BootTypes /\ ValidateRuntimeProfile(setting) /\ config' = [config EXCEPT ![p] = setting]
        /\ stage' = [stage EXCEPT ![p] = next] /\ cursor' = [cursor EXCEPT ![p] = 1]
        /\ UNCHANGED <<setting, found, schema, columns>> /\ {"ledgers", "tenant"} \subseteq Stages
        /\ 1 \in TenantMigrations
    BY DEF Boot, Proceed, BootInv, Stages, TenantMigrations
  <1>2. /\ config'[p] = setting /\ stage'[p] = next
        /\ \A q \in Servers \ {p} : Undisturbed(q)
    BY Zenon, <1>1 DEF BootTypes, Undisturbed
  <1>3. BootTypes'
    BY Zenon, <1>1 DEF BootTypes
  <1>4. Guarded(p)'
    BY <1>1, <1>2
    DEF Guarded, ValidateRuntimeProfile, ImplementedCommercialMode, ValidateBillingProvider
  <1>5. Wired(p)'
    BY Zenon, <1>2, <1>4 DEF Wired, HasTables, HasColumns, HasLedgers, HasSurreal
  <1>. QED
    BY Zenon, <1>1, <1>2, <1>3, <1>5, ServerStep DEF Grows

(* Every step of every server, every fault and every edit of the settings  *)
(* keeps the invariant.                                                    *)
LEMMA BootInvStep == BootInv /\ [BootNext]_bootVars => BootInv'
  <1>. SUFFICES ASSUME BootInv, [BootNext]_bootVars PROVE BootInv'
    BY Zenon
  <1>1. ASSUME NEW p \in Servers, BootStep(p) PROVE BootInv'
    BY Zenon, <1>1, BootStartStep, TenantStep, MigrateCounterStep, InspectStep, EnsureStep, LedgersStep,
       BillingLedgersStep, AuditStep, SurrealStep DEF BootStep
  <1>2. ASSUME NEW p \in Servers, Fault(p) PROVE BootInv'
    BY Zenon, <1>2, ExitStep DEF Fault
  <1>3. CASE EditSetting \/ UNCHANGED bootVars
    <2>1. UNCHANGED <<config, stage, cursor, found, schema, columns>>
      BY Zenon, <1>3 DEF EditSetting, bootVars
    <2>2. setting' \in Configs
      BY <1>3, EditedSetting DEF EditSetting, bootVars, BootInv, BootTypes
    <2>3. BootTypes' /\ Grows
      BY Zenon, <2>1, <2>2 DEF BootInv, BootTypes, Grows
    <2>4. ASSUME NEW q \in Servers PROVE Wired(q)'
      BY Zenon, <2>1, <2>3, WiredStays DEF BootInv
    <2>. QED
      BY Zenon, <2>3, <2>4 DEF BootInv
  <1>. QED
    BY Zenon, <1>1, <1>2, <1>3 DEF BootNext

(* Whatever starts failed half way before, under whatever settings, and    *)
(* however many processes migrate one database at a time, a process that   *)
(* serves finds every table and column its adapters use, and in production *)
(* it runs on real adapters only.                                          *)
THEOREM BootstrapCorrect ==
  BootInit /\ [][BootNext]_bootVars => []ServingIsSound
  <1>1. BootInit => BootInv
    <2>. SUFFICES ASSUME BootInit PROVE BootInv
      BY Zenon
    <2>0. Default \in Configs
      BY Zenon DEF Default, Configs
    <2>1. setting \in Configs
      <3>1. Selling \in Configs
        BY Zenon DEF Selling, Configs
      <3>. QED
        BY Zenon, <2>0, <3>1 DEF BootInit
    <2>2. BootTypes
      BY <2>0, <2>1 DEF BootInit, BootTypes, Stages, TenantMigrations, Bases
    <2>. QED
      BY Zenon, <2>2 DEF BootInit, BootInv, Wired
  <1>2. BootInv => ServingIsSound
    <2>. SUFFICES ASSUME BootInv PROVE ServingIsSound
      BY Zenon
    <2>1. ASSUME NEW p \in Servers, stage[p] = "serving"
          PROVE  /\ Guarded(p) /\ HasTables(p) /\ HasColumns(p) /\ HasLedgers(p) /\ HasSurreal(p)
                 /\ config[p] \in Configs
      BY Zenon, <2>1 DEF BootInv, BootTypes, Wired
    <2>2. ServingHasItsTables
      BY Zenon, <2>1 DEF ServingHasItsTables, CompositionRoot, Guarded, HasTables, HasColumns, HasLedgers,
                  HasSurreal, ValidateRuntimeProfile
    <2>3. ProductionIsReal
      BY Zenon, <2>1 DEF ProductionIsReal, Guarded, HasLedgers, ValidateRuntimeProfile, AuthzAdapter, Configs
    <2>. QED
      BY Zenon, <2>2, <2>3 DEF ServingIsSound
  <1>. QED
    BY <1>1, <1>2, BootInvStep, PTL

-----------------------------------------------------------------------------
(* The operations commands. *)

(* What the scripts have in common: a script is quiet when it has no       *)
(* effect, unchecked when it has no check, and checks first when any check *)
(* after an effect repeats one from before it.                             *)
Script(s) == \E S : s \in Seq(S)
Quiet(s) == Script(s) /\ \A i \in DOMAIN s : s[i].do # "effect"
Unchecked(s) == Script(s) /\ \A i \in DOMAIN s : s[i].do # "check"
ChecksFirst(s) ==
    /\ Script(s)
    /\ \A i, j \in DOMAIN s :
          i < j /\ s[i].do = "effect" /\ s[j].do = "check" => \E k \in DOMAIN s : k < i /\ s[k] = s[j]

\* What two scripts joined consist of.
Joint(c, a, b) == c = a \o b

\* A step of two scripts joined is a step of one of them.
LEMMA ScriptsJoin ==
  ASSUME NEW a, NEW b, NEW c, Joint(c, a, b), Script(a), Script(b)
  PROVE  /\ Script(c)
         /\ \A i \in DOMAIN a : i \in DOMAIN c /\ c[i] = a[i]
         /\ \A i \in DOMAIN b : i + Len(a) \in DOMAIN c /\ c[i + Len(a)] = b[i]
         /\ \A i \in DOMAIN c : i \in DOMAIN a \/ \E j \in DOMAIN b : i = j + Len(a) /\ c[i] = b[j]
<1>1. PICK S : a \in Seq(S)
  BY Zenon DEF Script
<1>2. PICK T : b \in Seq(T)
  BY Zenon DEF Script
<1>3. a \in Seq(S \cup T) /\ b \in Seq(S \cup T)
  BY <1>1, <1>2
<1>4. /\ c \in Seq(S \cup T) /\ Len(c) = Len(a) + Len(b)
      /\ \A i \in 1..(Len(a) + Len(b)) : c[i] = IF i <= Len(a) THEN a[i] ELSE b[i - Len(a)]
  <2>1. /\ a \o b \in Seq(S \cup T) /\ Len(a \o b) = Len(a) + Len(b)
        /\ \A i \in 1..(Len(a) + Len(b)) : (a \o b)[i] = IF i <= Len(a) THEN a[i] ELSE b[i - Len(a)]
    BY <1>3
  <2>2. QED
    BY <2>1, Zenon DEF Joint
<1>5. /\ Len(a) \in Nat /\ Len(b) \in Nat /\ DOMAIN a = 1..Len(a) /\ DOMAIN b = 1..Len(b)
      /\ DOMAIN c = 1..(Len(a) + Len(b))
  BY <1>3, <1>4
<1>6. \A i \in DOMAIN a : i \in DOMAIN c /\ c[i] = a[i]
  BY <1>4, <1>5
<1>7. \A i \in DOMAIN b : i + Len(a) \in DOMAIN c /\ c[i + Len(a)] = b[i]
  BY <1>4, <1>5
<1>8. ASSUME NEW i \in DOMAIN c PROVE i \in DOMAIN a \/ \E j \in DOMAIN b : i = j + Len(a) /\ c[i] = b[j]
  <2>1. i \notin DOMAIN a => i - Len(a) \in DOMAIN b /\ i = (i - Len(a)) + Len(a) /\ c[i] = b[i - Len(a)]
    BY <1>4, <1>5
  <2>2. QED
    BY <2>1, Zenon
<1>9. Script(c)
  BY <1>4, Zenon DEF Script
<1>10. QED
  BY <1>6, <1>7, <1>8, <1>9, Zenon

\* The steps of a script are numbered from one.
LEMMA ScriptNumbers ==
  ASSUME NEW a, Script(a)
  PROVE  Len(a) \in Nat /\ DOMAIN a = 1..Len(a)
<1>1. PICK S : a \in Seq(S)
  BY Zenon DEF Script
<1>2. QED
  BY <1>1

\* Two quiet scripts are one.
LEMMA QuietJoin ==
  ASSUME NEW a, NEW b, Quiet(a), Quiet(b)
  PROVE  Quiet(a \o b)
<1>1. PICK c : Joint(c, a, b)
  BY Zenon DEF Joint
<1>2. Script(a) /\ Script(b)
  BY Zenon DEF Quiet
<1>3. /\ Script(c)
      /\ \A i \in DOMAIN a : i \in DOMAIN c /\ c[i] = a[i]
      /\ \A i \in DOMAIN b : i + Len(a) \in DOMAIN c /\ c[i + Len(a)] = b[i]
      /\ \A i \in DOMAIN c : i \in DOMAIN a \/ \E j \in DOMAIN b : i = j + Len(a) /\ c[i] = b[j]
  BY <1>1, <1>2, ScriptsJoin
<1>4. Quiet(c)
  BY <1>3, Zenon DEF Quiet
<1>5. QED
  BY <1>1, <1>4, Zenon DEF Joint

\* The same without checks.
LEMMA UncheckedJoin ==
  ASSUME NEW a, NEW b, Unchecked(a), Unchecked(b)
  PROVE  Unchecked(a \o b)
<1>1. PICK c : Joint(c, a, b)
  BY Zenon DEF Joint
<1>2. Script(a) /\ Script(b)
  BY Zenon DEF Unchecked
<1>3. /\ Script(c)
      /\ \A i \in DOMAIN a : i \in DOMAIN c /\ c[i] = a[i]
      /\ \A i \in DOMAIN b : i + Len(a) \in DOMAIN c /\ c[i + Len(a)] = b[i]
      /\ \A i \in DOMAIN c : i \in DOMAIN a \/ \E j \in DOMAIN b : i = j + Len(a) /\ c[i] = b[j]
  BY <1>1, <1>2, ScriptsJoin
<1>4. Unchecked(c)
  BY <1>3, Zenon DEF Unchecked
<1>5. QED
  BY <1>1, <1>4, Zenon DEF Joint

\* What has no check keeps the script before it guarded.
LEMMA ChecksFirstJoin ==
  ASSUME NEW a, NEW b, ChecksFirst(a), Unchecked(b)
  PROVE  ChecksFirst(a \o b)
<1>1. PICK c : Joint(c, a, b)
  BY Zenon DEF Joint
<1>2. Script(a) /\ Script(b)
  BY Zenon DEF ChecksFirst, Unchecked
<1>3. /\ Script(c)
      /\ \A i \in DOMAIN a : i \in DOMAIN c /\ c[i] = a[i]
      /\ \A i \in DOMAIN b : i + Len(a) \in DOMAIN c /\ c[i + Len(a)] = b[i]
      /\ \A i \in DOMAIN c : i \in DOMAIN a \/ \E j \in DOMAIN b : i = j + Len(a) /\ c[i] = b[j]
  BY <1>1, <1>2, ScriptsJoin
<1>n. /\ Len(a) \in Nat /\ DOMAIN a = 1..Len(a) /\ Len(b) \in Nat /\ DOMAIN b = 1..Len(b)
      /\ Len(c) \in Nat /\ DOMAIN c = 1..Len(c)
  BY <1>2, <1>3, ScriptNumbers
<1>4. ASSUME NEW i \in DOMAIN c, NEW j \in DOMAIN c, i < j, c[i].do = "effect", c[j].do = "check"
      PROVE  \E k \in DOMAIN c : k < i /\ c[k] = c[j]
  <2>1. j \in DOMAIN a
    BY <1>3, <1>4, Zenon DEF Unchecked
  <2>2. i \in DOMAIN a
    BY <1>n, <1>4, <2>1
  <2>e. a[i].do = "effect" /\ a[j].do = "check" /\ i < j
    BY <1>3, <1>4, <2>1, <2>2
  <2>3. PICK k \in DOMAIN a : k < i /\ a[k] = a[j]
    BY <2>1, <2>2, <2>e, Zenon DEF ChecksFirst
  <2>4. QED
    BY <1>3, <2>1, <2>3, Zenon
<1>5. ChecksFirst(c)
  BY <1>3, <1>4, Zenon DEF ChecksFirst
<1>6. QED
  BY <1>1, <1>5, Zenon DEF Joint

\* Nor does what has no effect unguard the script after it.
LEMMA QuietChecksFirst ==
  ASSUME NEW a, NEW b, Quiet(a), ChecksFirst(b)
  PROVE  ChecksFirst(a \o b)
<1>1. PICK c : Joint(c, a, b)
  BY Zenon DEF Joint
<1>2. Script(a) /\ Script(b)
  BY Zenon DEF ChecksFirst, Quiet
<1>3. /\ Script(c)
      /\ \A i \in DOMAIN a : i \in DOMAIN c /\ c[i] = a[i]
      /\ \A i \in DOMAIN b : i + Len(a) \in DOMAIN c /\ c[i + Len(a)] = b[i]
      /\ \A i \in DOMAIN c : i \in DOMAIN a \/ \E j \in DOMAIN b : i = j + Len(a) /\ c[i] = b[j]
  BY <1>1, <1>2, ScriptsJoin
<1>n. /\ Len(a) \in Nat /\ DOMAIN a = 1..Len(a) /\ Len(b) \in Nat /\ DOMAIN b = 1..Len(b)
      /\ Len(c) \in Nat /\ DOMAIN c = 1..Len(c)
  BY <1>2, <1>3, ScriptNumbers
<1>4. ASSUME NEW i \in DOMAIN c, NEW j \in DOMAIN c, i < j, c[i].do = "effect", c[j].do = "check"
      PROVE  \E k \in DOMAIN c : k < i /\ c[k] = c[j]
  <2>1. PICK p \in DOMAIN b : i = p + Len(a)
    BY <1>3, <1>4, Zenon DEF Quiet
  <2>2. j \notin DOMAIN a
    BY <1>n, <1>4, <2>1
  <2>3. PICK q \in DOMAIN b : j = q + Len(a)
    BY <1>3, <2>2, Zenon
  <2>4. p < q
    BY <1>n, <1>4, <2>1, <2>3
  <2>e. b[p].do = "effect" /\ b[q].do = "check"
    BY <1>3, <1>4, <2>1, <2>3
  <2>5. PICK k \in DOMAIN b : k < p /\ b[k] = b[q]
    BY <2>4, <2>e, Zenon DEF ChecksFirst
  <2>6. k + Len(a) < i
    BY <1>n, <2>1, <2>5
  <2>7. k + Len(a) \in DOMAIN c /\ c[k + Len(a)] = c[j]
    BY <1>3, <2>3, <2>5
  <2>8. QED
    BY <2>6, <2>7, Zenon
<1>5. ChecksFirst(c)
  BY <1>3, <1>4, Zenon DEF ChecksFirst
<1>6. QED
  BY <1>1, <1>5, Zenon DEF Joint

\* What a script begins with, and the one check another one makes.
Begins(s, step) == Script(s) /\ 1 \in DOMAIN s /\ s[1] = step
ChecksOnly(s, step) == Script(s) /\ \A i \in DOMAIN s : s[i].do = "check" => s[i] = step

\* A script that begins with the check may repeat it.
LEMMA RepeatedCheck ==
  ASSUME NEW a, NEW b, NEW step, ChecksFirst(a), Begins(a, step), step.do = "check", ChecksOnly(b, step)
  PROVE  ChecksFirst(a \o b)
<1>1. PICK c : Joint(c, a, b)
  BY Zenon DEF Joint
<1>2. Script(a) /\ Script(b)
  BY Zenon DEF Begins, ChecksOnly
<1>3. /\ Script(c)
      /\ \A i \in DOMAIN a : i \in DOMAIN c /\ c[i] = a[i]
      /\ \A i \in DOMAIN b : i + Len(a) \in DOMAIN c /\ c[i + Len(a)] = b[i]
      /\ \A i \in DOMAIN c : i \in DOMAIN a \/ \E j \in DOMAIN b : i = j + Len(a) /\ c[i] = b[j]
  BY <1>1, <1>2, ScriptsJoin
<1>n. /\ Len(a) \in Nat /\ DOMAIN a = 1..Len(a) /\ Len(b) \in Nat /\ DOMAIN b = 1..Len(b)
      /\ Len(c) \in Nat /\ DOMAIN c = 1..Len(c)
  BY <1>2, <1>3, ScriptNumbers
<1>4. 1 \in DOMAIN a /\ a[1] = step /\ \A j \in DOMAIN b : b[j].do = "check" => b[j] = a[1]
  BY Zenon DEF Begins, ChecksOnly
<1>5. ASSUME NEW i \in DOMAIN c, NEW j \in DOMAIN c, i < j, c[i].do = "effect", c[j].do = "check"
      PROVE  \E k \in DOMAIN c : k < i /\ c[k] = c[j]
  <2>1. CASE j \notin DOMAIN a
    <3>1. c[j] = a[1] /\ c[1] = a[1] /\ 1 \in DOMAIN c
      BY <1>3, <1>4, <1>5, <2>1, Zenon
    <3>2. i # 1
      BY <1>4, <1>5, <3>1
    <3>3. 1 < i
      BY <1>n, <3>2
    <3>4. QED
      BY <3>1, <3>3, Zenon
  <2>2. CASE j \in DOMAIN a
    <3>1. i \in DOMAIN a
      BY <1>n, <1>5, <2>2
    <3>e. a[i].do = "effect" /\ a[j].do = "check" /\ i < j
      BY <1>3, <1>5, <2>2, <3>1
    <3>2. PICK k \in DOMAIN a : k < i /\ a[k] = a[j]
      BY <2>2, <3>1, <3>e, Zenon DEF ChecksFirst
    <3>3. QED
      BY <1>3, <2>2, <3>2, Zenon
  <2>3. QED
    BY <2>1, <2>2, Zenon
<1>6. ChecksFirst(c)
  BY <1>3, <1>5, Zenon DEF ChecksFirst
<1>7. QED
  BY <1>1, <1>6, Zenon DEF Joint

\* What is joined to a script does not change how it begins.
LEMMA BeginsJoin ==
  ASSUME NEW a, NEW b, NEW step, Begins(a, step), Script(b)
  PROVE  Begins(a \o b, step)
<1>1. PICK c : Joint(c, a, b)
  BY Zenon DEF Joint
<1>2. Script(a)
  BY Zenon DEF Begins
<1>3. Script(c) /\ \A i \in DOMAIN a : i \in DOMAIN c /\ c[i] = a[i]
  BY <1>1, <1>2, ScriptsJoin
<1>4. Begins(c, step)
  BY <1>3, Zenon DEF Begins
<1>5. QED
  BY <1>1, <1>4, Zenon DEF Joint

\* A script without effects, or without checks, is guarded.
LEMMA PlainChecksFirst ==
  ASSUME NEW a, Quiet(a) \/ Unchecked(a)
  PROVE  ChecksFirst(a)
BY Zenon DEF Quiet, Unchecked, ChecksFirst

\* What one step is.
LEMMA StepKinds ==
  /\ \A f : Quiet(Check(f))
  /\ \A t : Unchecked(Effect(t))
  /\ Quiet(Call) /\ Unchecked(Call) /\ Quiet(Try) /\ Unchecked(Try)
  /\ Quiet(<< >>) /\ Unchecked(<< >>)
<1>1. ASSUME NEW x PROVE Script(<<x>>) /\ DOMAIN <<x>> = {1} /\ <<x>>[1] = x
  <2>1. <<x>> \in Seq({x}) /\ DOMAIN <<x>> = {1} /\ <<x>>[1] = x
    OBVIOUS
  <2>2. QED
    BY <2>1, Zenon DEF Script
<1>2. ASSUME NEW k, NEW f PROVE [do |-> k, on |-> f].do = k
  OBVIOUS
<1>3. ASSUME NEW k, NEW f, k # "effect" PROVE Quiet(<<[do |-> k, on |-> f]>>)
  <2>1. PICK x : x = [do |-> k, on |-> f]
    BY Zenon
  <2>2. x.do # "effect"
    BY <1>2, <1>3, <2>1
  <2>3. Quiet(<<x>>)
    BY <1>1, <2>2 DEF Quiet
  <2>4. QED
    BY <2>1, <2>3, Zenon
<1>4. ASSUME NEW k, NEW f, k # "check" PROVE Unchecked(<<[do |-> k, on |-> f]>>)
  <2>1. PICK x : x = [do |-> k, on |-> f]
    OBVIOUS
  <2>2. x.do # "check"
    BY <1>2, <1>4, <2>1
  <2>3. Unchecked(<<x>>)
    BY <1>1, <2>2 DEF Unchecked
  <2>4. QED
    BY <2>1, <2>3, Zenon
<1>5. "check" # "effect" /\ "call" # "effect" /\ "try" # "effect" /\ "call" # "check" /\ "try" # "check"
  OBVIOUS
<1>6. Quiet(<< >>) /\ Unchecked(<< >>)
  <2>1. << >> \in Seq({}) /\ DOMAIN << >> = {}
    OBVIOUS
  <2>2. QED
    BY <2>1, Zenon DEF Quiet, Unchecked, Script
<1>7. QED
  BY <1>3, <1>4, <1>5, <1>6, Zenon DEF Check, Call, Try, Effect

\* A step left out is neither an effect nor a check.
LEMMA IfKinds ==
  ASSUME NEW c, NEW s
  PROVE  /\ Quiet(s) \/ ~c => Quiet(If(c, s))
         /\ Unchecked(s) \/ ~c => Unchecked(If(c, s))
BY StepKinds, Zenon DEF If

-----------------------------------------------------------------------------
(* What a command may be: a plan has no effect, and only the auth commands *)
(* check something new after an effect.                                    *)
Fit(c) ==
    /\ Script(c.steps)
    /\ c.dry => Quiet(c.steps)
    /\ c.name # "auth" => ChecksFirst(c.steps)

\* How the table's rows fit.
LEMMA RowFits ==
  ASSUME NEW n, NEW d, NEW s, Script(s), d => Quiet(s), n # "auth" => ChecksFirst(s)
  PROVE  Fit(Cmd(n, d, s))
<1>1. PICK c : c = Cmd(n, d, s)
  OBVIOUS
<1>2. c.name = n /\ c.steps = s
  BY <1>1 DEF Cmd
<1>3. c.dry = d
  BY <1>1 DEF Cmd
<1>4. Fit(c)
  BY <1>2, <1>3, Zenon DEF Fit
<1>5. QED
  BY <1>1, <1>4, Zenon

\* A command that only plans or reads.
LEMMA ReadsFit ==
  ASSUME NEW n, NEW s, Quiet(s)
  PROVE  Fit(Reads(n, s))
<1>1. Script(s) /\ ChecksFirst(s)
  BY PlainChecksFirst, Zenon DEF Quiet
<1>2. QED
  BY <1>1, RowFits, Zenon DEF Reads

\* A command that changes something.
LEMMA ChangesFit ==
  ASSUME NEW n, NEW s, ChecksFirst(s)
  PROVE  Fit(Changes(n, s))
<1>1. Script(s)
  BY Zenon DEF ChecksFirst
<1>2. QED
  BY <1>1, RowFits, Zenon DEF Changes

\* A command that does either, by its options.
LEMMA CmdFits ==
  ASSUME NEW n, NEW d, NEW s, ChecksFirst(s), d => Quiet(s)
  PROVE  Fit(Cmd(n, d, s))
<1>1. Script(s)
  BY Zenon DEF ChecksFirst
<1>2. QED
  BY <1>1, RowFits, Zenon

\* secrets.rs
LEMMA SecretsFit ==
  /\ \A d \in BOOLEAN : ChecksFirst(Reconcile(d)) /\ (d => Quiet(Reconcile(d)))
  /\ ChecksFirst(SetupFluxSecret) /\ ChecksFirst(Encrypt) /\ ChecksFirst(Edit) /\ Quiet(ValidateSecrets)
<1>1. Quiet(Decrypt)
  BY StepKinds, QuietJoin, Zenon DEF Decrypt
<1>2. ChecksFirst(SetupFluxSecret)
  BY StepKinds, QuietJoin, PlainChecksFirst, ChecksFirstJoin, Zenon DEF SetupFluxSecret, KubectlApply
<1>3. ChecksFirst(Encrypt)
  BY StepKinds, QuietJoin, PlainChecksFirst, ChecksFirstJoin, Zenon DEF Encrypt
<1>4. ChecksFirst(Edit)
  BY StepKinds, QuietJoin, PlainChecksFirst, ChecksFirstJoin, Zenon DEF Edit
<1>5. Quiet(ValidateSecrets)
  BY <1>1, StepKinds, QuietJoin, Zenon DEF ValidateSecrets
<1>6. ASSUME NEW d \in BOOLEAN, d PROVE Quiet(Reconcile(d))
  BY <1>1, <1>6, StepKinds, IfKinds, QuietJoin, Zenon DEF Reconcile
<1>7. ASSUME NEW d \in BOOLEAN PROVE ChecksFirst(Reconcile(d))
  <2>1. PICK step : step = [do |-> "check", on |-> "sops"]
    BY Zenon
  <2>2. step.do = "check"
    BY <2>1
  <2>3. Begins(Check("sops"), step)
    <3>1. <<step>> \in Seq({step}) /\ DOMAIN <<step>> = {1} /\ <<step>>[1] = step
      OBVIOUS
    <3>2. QED
      BY <2>1, <3>1, Zenon DEF Begins, Check, Script
  <2>4. ChecksOnly(Decrypt, step)
    <3>1. PICK c : Joint(c, <<step>>, Call)
      BY Zenon DEF Joint
    <3>2. Script(<<step>>) /\ DOMAIN <<step>> = {1} /\ <<step>>[1] = step
      <4>1. <<step>> \in Seq({step}) /\ DOMAIN <<step>> = {1} /\ <<step>>[1] = step
        OBVIOUS
      <4>2. QED
        BY <4>1, Zenon DEF Script
    <3>3. Script(Call) /\ \A i \in DOMAIN Call : Call[i].do # "check"
      BY StepKinds, Zenon DEF Unchecked
    <3>4. /\ Script(c) /\ \A i \in DOMAIN <<step>> : c[i] = <<step>>[i]
          /\ \A i \in DOMAIN c : i \in DOMAIN <<step>> \/ \E j \in DOMAIN Call : c[i] = Call[j]
      BY <3>1, <3>2, <3>3, ScriptsJoin
    <3>5. ChecksOnly(c, step)
      BY <3>2, <3>3, <3>4 DEF ChecksOnly
    <3>6. QED
      BY <2>1, <3>1, <3>5, Zenon DEF Joint, Decrypt, Check
  <2>5. PICK a, b, e, f : /\ a = Check("sops") \o If(~d, Check("kubectl")) \o Check("sops_dir") \o Decrypt
                          /\ b = If(~d, KubectlApply("secret1")) /\ e = If(~d, KubectlApply("secret2"))
                          /\ f = Decrypt
    BY Zenon
  <2>6. Quiet(a) /\ Unchecked(b) /\ Unchecked(e) /\ Quiet(f)
    BY <1>1, <2>5, StepKinds, IfKinds, QuietJoin, Zenon DEF KubectlApply
  <2>7. Begins(a, step)
    <3>1. Script(If(~d, Check("kubectl"))) /\ Script(Check("sops_dir")) /\ Script(Decrypt)
      BY <1>1, StepKinds, IfKinds, Zenon DEF Quiet
    <3>2. QED
      BY <2>3, <2>5, <3>1, BeginsJoin, Zenon
  <2>8. ChecksFirst(a \o b) /\ Begins(a \o b, step)
    BY <2>6, <2>7, PlainChecksFirst, ChecksFirstJoin, BeginsJoin, Zenon DEF Unchecked
  <2>9. ChecksFirst(a \o b \o f)
    BY <2>2, <2>4, <2>5, <2>8, RepeatedCheck, Zenon
  <2>10. ChecksFirst(a \o b \o f \o e)
    BY <2>6, <2>9, ChecksFirstJoin, Zenon
  <2>11. QED
    BY <2>5, <2>10, Zenon DEF Reconcile
<1>8. QED
  BY <1>2, <1>3, <1>4, <1>5, <1>6, <1>7, Zenon

\* infra.rs, the compose stacks.
LEMMA StacksFit ==
  /\ ChecksFirst(LocalUp) /\ ChecksFirst(LocalDown) /\ Quiet(LocalStatus) /\ Quiet(LocalLogs)
  /\ ChecksFirst(ObservabilityUp) /\ ChecksFirst(ObservabilityDown) /\ Quiet(ObservabilityStatus)
  /\ Script(RunAuth(Effect("auth_stack"))) /\ Script(AuthBootstrap)
<1>1. ASSUME NEW f, NEW e, Unchecked(e) PROVE ChecksFirst(Check(f) \o e)
  BY <1>1, StepKinds, PlainChecksFirst, ChecksFirstJoin, Zenon
<1>2. Quiet(ResolveRuntime) /\ Quiet(PodmanSocket)
  BY StepKinds, Zenon DEF ResolveRuntime, PodmanSocket
<1>3. ChecksFirst(LocalUp) /\ ChecksFirst(LocalDown)
  BY <1>1, <1>2, StepKinds, QuietChecksFirst, Zenon DEF LocalUp, LocalDown, LocalCompose
<1>4. Quiet(LocalStatus) /\ Quiet(LocalLogs)
  BY <1>2, StepKinds, QuietJoin, Zenon DEF LocalStatus, LocalLogs, LocalCompose
<1>5. ChecksFirst(ObservabilityUp) /\ ChecksFirst(ObservabilityDown)
  BY <1>1, <1>2, StepKinds, QuietJoin, QuietChecksFirst, Zenon
  DEF ObservabilityUp, ObservabilityDown, ObservabilityCompose
<1>6. Quiet(ObservabilityStatus)
  BY <1>2, StepKinds, QuietJoin, Zenon DEF ObservabilityStatus, ObservabilityCompose
<1>7. ASSUME NEW a, NEW b, Script(a), Script(b) PROVE Script(a \o b)
  <2>1. PICK c : Joint(c, a, b)
    BY Zenon DEF Joint
  <2>2. Script(c)
    BY <1>7, <2>1, ScriptsJoin
  <2>3. QED
    BY <2>1, <2>2, Zenon DEF Joint
<1>8. (\A f : Script(Check(f))) /\ (\A t : Script(Effect(t))) /\ Script(Call)
  BY StepKinds, Zenon DEF Quiet, Unchecked
<1>9. \A t : Script(AuthCompose(Effect(t)))
  BY <1>7, <1>8, Zenon DEF AuthCompose
<1>10. Script(RunAuth(Effect("auth_stack")))
  BY <1>7, <1>8, <1>9, Zenon DEF RunAuth, EnsureAuthDirs
<1>11. Script(BootstrapOpenfga) /\ Script(WriteRauthyState) /\ Script(WriteAuthEnv)
  BY <1>7, <1>8, Zenon DEF BootstrapOpenfga, WriteRauthyState, WriteAuthEnv
<1>12. Script(AuthBootstrap)
  BY <1>7, <1>8, <1>9, <1>11, Zenon DEF AuthBootstrap, EnsureAuthDirs, WaitHttp
<1>13. QED
  BY <1>3, <1>4, <1>5, <1>6, <1>10, <1>12, Zenon

\* infra.rs, the cluster.
LEMMA ClusterFits ==
  /\ \A d \in {"none", "client", "server"}, v \in BOOLEAN :
        ChecksFirst(K3sDeploy(d, v)) /\ (d # "none" => Quiet(K3sDeploy(d, v)))
  /\ \A a \in BOOLEAN : Quiet(K3sBootstrap(a))
<1>1. ASSUME NEW d PROVE Quiet(K3sOverlay \o PreflightK3sDeploy(d) \o Call)
  BY StepKinds, IfKinds, QuietJoin, Zenon DEF K3sOverlay, PreflightK3sDeploy
<1>2. ASSUME NEW v PROVE Unchecked(KubectlApplyManifest \o If(~v, VerifyK3sDeploy))
  <2>1. Unchecked(VerifyK3sDeploy)
    BY StepKinds, UncheckedJoin, Zenon DEF VerifyK3sDeploy
  <2>2. QED
    BY <2>1, StepKinds, IfKinds, UncheckedJoin, Zenon DEF KubectlApplyManifest
<1>3. ASSUME NEW d \in {"none", "client", "server"}, NEW v \in BOOLEAN
      PROVE  ChecksFirst(K3sDeploy(d, v)) /\ (d # "none" => Quiet(K3sDeploy(d, v)))
  <2>1. PICK a, e : /\ a = K3sOverlay \o PreflightK3sDeploy(d) \o Call
                    /\ e = KubectlApplyManifest \o If(~v, VerifyK3sDeploy)
    BY Zenon
  <2>2. Quiet(a) /\ Unchecked(e)
    BY <1>1, <1>2, <2>1, Zenon
  <2>3. K3sDeploy(d, v) = a \o (CASE d = "client" -> << >> [] d = "server" -> Call [] d = "none" -> e)
    BY <2>1, Zenon DEF K3sDeploy
  <2>4. CASE d = "none"
    <3>1. K3sDeploy(d, v) = a \o e
      BY <2>3, <2>4
    <3>2. QED
      BY <2>2, <2>4, <3>1, PlainChecksFirst, ChecksFirstJoin, Zenon
  <2>5. CASE d = "client"
    <3>1. K3sDeploy(d, v) = a \o << >>
      BY <2>3, <2>5
    <3>2. QED
      BY <2>2, <3>1, StepKinds, PlainChecksFirst, QuietJoin, Zenon
  <2>6. CASE d = "server"
    <3>1. K3sDeploy(d, v) = a \o Call
      BY <2>3, <2>6
    <3>2. QED
      BY <2>2, <3>1, StepKinds, PlainChecksFirst, QuietJoin, Zenon
  <2>7. QED
    BY <2>4, <2>5, <2>6, Zenon
<1>4. ASSUME NEW a \in BOOLEAN PROVE Quiet(K3sBootstrap(a))
  BY StepKinds, IfKinds, QuietJoin, Zenon DEF K3sBootstrap, K3sBootstrapPreflight
<1>5. QED
  BY <1>3, <1>4, Zenon

\* ops.rs and template.rs
LEMMA OpsFit ==
  /\ \A a \in BOOLEAN : Quiet(MigrateUp(a)) /\ Quiet(BootstrapVps(a))
  /\ \A d, a : Quiet(Migrate(d, a))
  /\ ChecksFirst(DeployService) /\ ChecksFirst(StopService) /\ Quiet(ServiceLogs)
  /\ \A p : \A a, c \in BOOLEAN : ChecksFirst(TemplateInit(p, a, c)) /\ (~a => Quiet(TemplateInit(p, a, c)))
<1>1. ASSUME NEW d, NEW a PROVE Quiet(Migrate(d, a))
  BY StepKinds, IfKinds, QuietJoin, Zenon DEF Migrate, DatabaseTarget
<1>2. ASSUME NEW a \in BOOLEAN PROVE Quiet(MigrateUp(a))
  BY <1>1, StepKinds, IfKinds, QuietJoin, Zenon DEF MigrateUp
<1>3. ASSUME NEW a \in BOOLEAN PROVE Quiet(BootstrapVps(a))
  BY StepKinds, IfKinds, QuietJoin, Zenon DEF BootstrapVps, VpsPreflight
<1>4. Quiet(RequireSystemctl)
  BY StepKinds, QuietJoin, Zenon DEF RequireSystemctl
<1>5. ChecksFirst(DeployService)
  BY <1>4, StepKinds, QuietJoin, PlainChecksFirst, ChecksFirstJoin, Zenon DEF DeployService, RunSystemctl
<1>6. ChecksFirst(StopService)
  BY <1>4, StepKinds, PlainChecksFirst, ChecksFirstJoin, Zenon DEF StopService, RunSystemctl
<1>7. Quiet(ServiceLogs)
  BY StepKinds, QuietJoin, Zenon DEF ServiceLogs
<1>8. ASSUME NEW p, NEW a \in BOOLEAN, NEW c \in BOOLEAN
      PROVE  ChecksFirst(TemplateInit(p, a, c)) /\ (~a => Quiet(TemplateInit(p, a, c)))
  <2>1. PICK b, e : /\ b = (TemplatePlan(p) # << >>)
                    /\ e = RemovePathPattern("path1") \o RemovePathPattern("path2") \o RemoveReleaseAnchor(c)
    BY Zenon
  <2>2. Unchecked(e)
    BY <2>1, StepKinds, IfKinds, UncheckedJoin, Zenon DEF RemovePathPattern, RemoveReleaseAnchor
  <2>3. ChecksFirst(EnsureSafeToApply \o If(b, e))
    BY <2>2, StepKinds, IfKinds, PlainChecksFirst, ChecksFirstJoin, Zenon DEF EnsureSafeToApply
  <2>4. TemplateInit(p, a, c) = If(a, EnsureSafeToApply \o If(b, e))
    BY <2>1, Zenon DEF TemplateInit
  <2>5. QED
    BY <2>3, <2>4, StepKinds, IfKinds, PlainChecksFirst, Zenon DEF If
<1>9. QED
  BY <1>1, <1>2, <1>3, <1>5, <1>6, <1>7, <1>8, Zenon

\* devx.rs
LEMMA DevxFit ==
  /\ ChecksFirst(GenerateAgeKey) /\ ChecksFirst(CreateMigration) /\ Quiet(ScanVuln) /\ ChecksFirst(GenSbom)
  /\ ChecksFirst(SignImage) /\ Quiet(VerifyImage) /\ ChecksFirst(CleanSweep) /\ Quiet(K6Baseline)
  /\ \A i \in BOOLEAN : ChecksFirst(SetupHakari(i)) /\ ChecksFirst(SetupCoverage(i))
<1>1. ChecksFirst(GenerateAgeKey)
  BY StepKinds, QuietJoin, PlainChecksFirst, ChecksFirstJoin, Zenon DEF GenerateAgeKey
<1>2. ChecksFirst(CreateMigration)
  BY StepKinds, QuietJoin, PlainChecksFirst, ChecksFirstJoin, Zenon DEF CreateMigration
<1>3. Quiet(ScanVuln) /\ Quiet(VerifyImage) /\ Quiet(K6Baseline)
  BY StepKinds, QuietJoin, Zenon DEF ScanVuln, VerifyImage, K6Baseline
<1>4. ChecksFirst(GenSbom) /\ ChecksFirst(SignImage) /\ ChecksFirst(CleanSweep)
  BY StepKinds, PlainChecksFirst, ChecksFirstJoin, Zenon DEF GenSbom, SignImage, CleanSweep
<1>5. ASSUME NEW i \in BOOLEAN PROVE Unchecked(SetupHakari(i)) /\ Unchecked(SetupCoverage(i))
  BY StepKinds, IfKinds, UncheckedJoin, Zenon DEF SetupHakari, SetupCoverage
<1>6. QED
  BY <1>1, <1>2, <1>3, <1>4, <1>5, PlainChecksFirst, Zenon

\* Every row of the table fits.
LEMMA CommandsFit ==
  \A c \in Commands : Fit(c)
<1>1. \A d \in BOOLEAN : Fit(Cmd("reconcile", d, Reconcile(d)))
  BY SecretsFit, CmdFits, Zenon
<1>2. /\ Fit(Changes("flux", SetupFluxSecret)) /\ Fit(Changes("encrypt", Encrypt))
      /\ Fit(Changes("edit", Edit)) /\ Fit(Reads("validate", ValidateSecrets))
  BY SecretsFit, ChangesFit, ReadsFit, Zenon
<1>3. /\ Fit(Changes("local_up", LocalUp)) /\ Fit(Changes("local_down", LocalDown))
      /\ Fit(Reads("local_status", LocalStatus)) /\ Fit(Reads("local_logs", LocalLogs))
      /\ Fit(Changes("observability_up", ObservabilityUp))
      /\ Fit(Changes("observability_down", ObservabilityDown))
      /\ Fit(Reads("observability_status", ObservabilityStatus))
  BY StacksFit, ChangesFit, ReadsFit, Zenon
<1>4. \A d \in {"none", "client", "server"}, v \in BOOLEAN : Fit(Cmd("k3s_deploy", d # "none", K3sDeploy(d, v)))
  BY ClusterFits, CmdFits, Zenon
<1>5. \A a \in BOOLEAN : Fit(Cmd("k3s_bootstrap", ~a, K3sBootstrap(a)))
  BY ClusterFits, CmdFits, PlainChecksFirst, Zenon
<1>6. Fit(Changes("auth", RunAuth(Effect("auth_stack")))) /\ Fit(Changes("auth", AuthBootstrap))
  BY StacksFit, RowFits, Zenon DEF Changes
<1>7. \A a \in BOOLEAN : Fit(Cmd("migrate", ~a, MigrateUp(a)))
  BY OpsFit, CmdFits, PlainChecksFirst, Zenon
<1>8. \A a \in BOOLEAN, d \in {"down", "reset", "status"} : Fit(Cmd("migrate", ~a, Migrate(d, a)))
  BY OpsFit, CmdFits, PlainChecksFirst, Zenon
<1>9. \A a \in BOOLEAN : Fit(Cmd("bootstrap_vps", ~a, BootstrapVps(a)))
  BY OpsFit, CmdFits, PlainChecksFirst, Zenon
<1>10. /\ Fit(Changes("deploy_service", DeployService)) /\ Fit(Changes("stop_service", StopService))
       /\ Fit(Reads("service_logs", ServiceLogs))
  BY OpsFit, ChangesFit, ReadsFit, Zenon
<1>11. \A a, b \in BOOLEAN, p \in {"backend_core", "full_research"} : Fit(Cmd("template_init", ~a, TemplateInit(p, a, b)))
  BY OpsFit, CmdFits, Zenon
<1>12. /\ Fit(Changes("age_key", GenerateAgeKey)) /\ Fit(Changes("migration", CreateMigration))
       /\ Fit(Reads("scan_vuln", ScanVuln)) /\ Fit(Changes("gen_sbom", GenSbom))
       /\ Fit(Changes("sign_image", SignImage)) /\ Fit(Reads("verify_image", VerifyImage))
       /\ Fit(Changes("clean_sweep", CleanSweep)) /\ Fit(Reads("k6_baseline", K6Baseline))
  BY DevxFit, ChangesFit, ReadsFit, Zenon
<1>13. \A i \in BOOLEAN : Fit(Changes("setup", SetupHakari(i))) /\ Fit(Changes("setup", SetupCoverage(i)))
  BY DevxFit, ChangesFit, Zenon
<1>14. QED
  BY <1>1, <1>2, <1>3, <1>4, <1>5, <1>6, <1>7, <1>8, <1>9, <1>10, <1>11, <1>12, <1>13 DEF Commands

-----------------------------------------------------------------------------
(* The interpreter.  Taken(n) says that the running command has taken the  *)
(* first n steps of its script: the checks among them held, the effects    *)
(* among them took, and without an effect among them nothing is touched.   *)
Taken(n) ==
    /\ n + Len(script) = Len(command.steps)
    /\ \A i \in DOMAIN script : script[i] = command.steps[n + i]
    /\ \A i \in 1..n :
          /\ command.steps[i].do = "check" => command.steps[i].on \notin missing
          /\ command.steps[i].do = "effect" => target[command.steps[i].on] = release
    /\ touched # {} => \E i \in 1..n : command.steps[i].do = "effect"
OpsInv ==
    /\ release \in Nat /\ target \in [Targets -> Nat]
    /\ Fit(command) /\ On(command.steps, "effect") \subseteq Targets
    /\ touched \subseteq On(command.steps, "effect")
    /\ outcome = "running" => Script(script) /\ \E n \in Nat : Taken(n)
    /\ RefusalTouchesNothing /\ SuccessIsComplete

\* Where a script has its effects and checks.
LEMMA OnFact ==
  ASSUME NEW s, NEW k, Script(s)
  PROVE  \A x : x \in On(s, k) <=> \E i \in DOMAIN s : s[i].do = k /\ s[i].on = x
<1>1. DOMAIN s = 1..Len(s)
  BY ScriptNumbers
<1>2. QED
  BY <1>1, Zenon DEF On

\* The invariant in the initial states.
LEMMA OpsStart ==
  OpsInit => OpsInv
<1>1. SUFFICES ASSUME OpsInit PROVE OpsInv
  OBVIOUS
<1>2. release \in Nat /\ target \in [Targets -> Nat]
  BY <1>1 DEF OpsInit, Untouched
<1>3. Fit(command)
  BY <1>1, ReadsFit, StepKinds, Zenon DEF OpsInit, Reads
<1>4. command.steps = << >> /\ DOMAIN << >> = {}
  BY <1>1 DEF OpsInit, Cmd
<1>5. Script(command.steps)
  BY <1>3, Zenon DEF Fit
<1>6. On(command.steps, "effect") = {}
  BY <1>4, <1>5, OnFact
<1>7. touched = {} /\ outcome = "none"
  BY <1>1 DEF OpsInit
<1>8. outcome # "running" /\ outcome # "refused" /\ outcome # "ok"
  BY <1>7
<1>9. QED
  BY <1>2, <1>3, <1>6, <1>7, <1>8 DEF OpsInv, RefusalTouchesNothing, SuccessIsComplete

\* A new release between two commands judges none of them.
LEMMA NewReleaseKeeps ==
  ASSUME OpsInv, NewRelease
  PROVE  OpsInv'
<1>1. /\ release' \in Nat /\ target' = target /\ command' = command /\ touched' = touched
      /\ outcome' # "running" /\ outcome' # "refused" /\ outcome' # "ok"
  BY DEF OpsInv, NewRelease
<1>2. QED
  BY <1>1, Zenon DEF OpsInv, RefusalTouchesNothing, SuccessIsComplete

\* A command begins with all of its steps before it.
LEMMA BeginKeeps ==
  ASSUME OpsInv, NEW c \in Commands, NEW m, Begin(c, m)
  PROVE  OpsInv'
<1>1. /\ release' = release /\ target' = target /\ command' = c /\ script' = c.steps /\ touched' = {}
      /\ outcome' # "refused" /\ outcome' # "ok"
  BY DEF Begin
<1>2. Fit(c) /\ Script(c.steps)
  BY CommandsFit, Zenon DEF Fit
<1>3. On(c.steps, "effect") \subseteq Targets
  BY Zenon DEF Targets
<1>4. Taken(0)'
  <2>1. PICK s : s = c.steps
    OBVIOUS
  <2>2. Len(s) \in Nat /\ DOMAIN s = 1..Len(s)
    BY <1>2, <2>1, ScriptNumbers
  <2>3. script' = s /\ command'.steps = s /\ touched' = {}
    BY <1>1, <2>1
  <2>4. 0 + Len(s) = Len(s) /\ (\A i \in DOMAIN s : s[i] = s[0 + i]) /\ 1..0 = {}
    BY <2>2
  <2>5. QED
    BY <2>3, <2>4 DEF Taken
<1>5. Script(script') /\ \E n \in Nat : Taken(n)'
  <2>1. 0 \in Nat
    OBVIOUS
  <2>2. QED
    BY <1>1, <1>2, <1>4, <2>1, Zenon
<1>6. QED
  BY <1>1, <1>2, <1>3, <1>5, Zenon DEF OpsInv, RefusalTouchesNothing, SuccessIsComplete

\* The step at hand is the one after those taken.
LEMMA AtHand ==
  ASSUME OpsInv, outcome = "running", script # << >>, NEW n \in Nat, Taken(n)
  PROVE  /\ n + 1 \in DOMAIN command.steps /\ Head(script) = command.steps[n + 1]
         /\ DOMAIN command.steps = 1..Len(command.steps) /\ Len(command.steps) \in Nat
         /\ Script(Tail(script)) /\ (n + 1) + Len(Tail(script)) = Len(command.steps)
         /\ \A i \in DOMAIN Tail(script) : Tail(script)[i] = command.steps[(n + 1) + i]
<1>1. PICK s : s = command.steps
  OBVIOUS
<1>2. Script(s) /\ Script(script)
  BY <1>1, Zenon DEF OpsInv, Fit
<1>3. Len(s) \in Nat /\ DOMAIN s = 1..Len(s)
  BY <1>2, ScriptNumbers
<1>4. n + Len(script) = Len(s) /\ \A i \in DOMAIN script : script[i] = s[n + i]
  BY <1>1, Zenon DEF Taken
<1>5. PICK S : script \in Seq(S)
  BY <1>2, Zenon DEF Script
<1>6. /\ Len(script) \in Nat \ {0} /\ DOMAIN script = 1..Len(script) /\ Head(script) = script[1]
      /\ Tail(script) \in Seq(S) /\ Len(Tail(script)) = Len(script) - 1
      /\ DOMAIN Tail(script) = 1..(Len(script) - 1)
      /\ \A i \in 1..(Len(script) - 1) : Tail(script)[i] = script[i + 1]
  BY <1>5
<1>7. n + 1 \in DOMAIN s /\ Head(script) = s[n + 1] /\ (n + 1) + Len(Tail(script)) = Len(s)
  BY <1>3, <1>4, <1>6
<1>8. ASSUME NEW i \in DOMAIN Tail(script) PROVE Tail(script)[i] = s[(n + 1) + i]
  <2>1. i + 1 \in DOMAIN script /\ Tail(script)[i] = script[i + 1]
    BY <1>6
  <2>2. script[i + 1] = s[n + (i + 1)]
    BY <1>4, <2>1
  <2>3. n + (i + 1) = (n + 1) + i
    BY <1>6
  <2>4. QED
    BY <2>1, <2>2, <2>3
<1>9. Script(Tail(script))
  BY <1>6, Zenon DEF Script
<1>10. QED
  BY <1>1, <1>3, <1>7, <1>8, <1>9

\* An effect of the running command is on one of the targets.
LEMMA EffectTarget ==
  ASSUME OpsInv, NEW i \in DOMAIN command.steps, command.steps[i].do = "effect"
  PROVE  command.steps[i].on \in On(command.steps, "effect") /\ command.steps[i].on \in Targets
<1>1. Script(command.steps)
  BY Zenon DEF OpsInv, Fit
<1>2. command.steps[i].on \in On(command.steps, "effect")
  BY <1>1, OnFact, Zenon
<1>3. QED
  BY <1>2, Zenon DEF OpsInv

\* A step that succeeds is one more taken; an effect does not undo another.
LEMMA StepSucceedsKeeps ==
  ASSUME OpsInv, StepSucceeds
  PROVE  OpsInv'
<1>1. /\ outcome = "running" /\ outcome' = "running" /\ script # << >> /\ script' = Tail(script)
      /\ release' = release /\ command' = command /\ missing' = missing
  BY DEF StepSucceeds
<1>2. PICK n \in Nat : Taken(n)
  BY <1>1, Zenon DEF OpsInv
<1>3. PICK s, h : s = command.steps /\ h = Head(script)
  OBVIOUS
<1>4. /\ n + 1 \in DOMAIN s /\ h = s[n + 1] /\ DOMAIN s = 1..Len(s) /\ Len(s) \in Nat
      /\ Script(Tail(script)) /\ (n + 1) + Len(Tail(script)) = Len(s)
      /\ \A i \in DOMAIN Tail(script) : Tail(script)[i] = s[(n + 1) + i]
  BY <1>1, <1>2, <1>3, AtHand
<1>5. /\ h.do = "check" => h.on \notin missing
      /\ target' = IF h.do = "effect" THEN [target EXCEPT ![h.on] = release] ELSE target
      /\ touched' = IF h.do = "effect" THEN touched \cup {h.on} ELSE touched
  BY <1>3, Zenon DEF StepSucceeds
<1>6. /\ release \in Nat /\ target \in [Targets -> Nat] /\ touched \subseteq On(s, "effect")
      /\ On(s, "effect") \subseteq Targets /\ Fit(command)
  BY <1>3, Zenon DEF OpsInv
<1>7. h.do = "effect" => h.on \in On(s, "effect") /\ h.on \in Targets
  BY <1>3, <1>4, EffectTarget
<1>8. target' \in [Targets -> Nat] /\ touched' \subseteq On(s, "effect")
  BY <1>5, <1>6, <1>7
<1>9. \A t \in Targets : target[t] = release => target'[t] = release
  BY <1>5, <1>6
<1>10. h.do = "effect" => target'[h.on] = release
  BY <1>5, <1>6, <1>7
<1>11. ASSUME NEW i \in 1..(n + 1)
       PROVE  /\ s[i].do = "check" => s[i].on \notin missing
              /\ s[i].do = "effect" => target'[s[i].on] = release
  <2>1. CASE i = n + 1
    BY <1>4, <1>5, <1>10, <2>1
  <2>2. CASE i # n + 1
    <3>1. i \in 1..n /\ i \in DOMAIN s
      BY <1>4, <2>2
    <3>2. /\ s[i].do = "check" => s[i].on \notin missing
          /\ s[i].do = "effect" => target[s[i].on] = release
      BY <1>2, <1>3, <3>1, Zenon DEF Taken
    <3>3. s[i].do = "effect" => s[i].on \in Targets
      BY <1>3, <3>1, EffectTarget
    <3>4. QED
      BY <1>9, <3>2, <3>3, Zenon
  <2>3. QED
    BY <2>1, <2>2, Zenon
<1>12. touched' # {} => \E i \in 1..(n + 1) : s[i].do = "effect"
  <2>1. CASE h.do = "effect"
    BY <1>4, <2>1
  <2>2. CASE h.do # "effect"
    <3>1. touched # {} => \E i \in 1..n : s[i].do = "effect"
      BY <1>2, <1>3, Zenon DEF Taken
    <3>2. \A i \in 1..n : i \in 1..(n + 1)
      OBVIOUS
    <3>3. QED
      BY <1>5, <2>2, <3>1, <3>2, Zenon
  <2>3. QED
    BY <2>1, <2>2, Zenon
<1>13. Taken(n + 1)'
  BY <1>1, <1>3, <1>4, <1>11, <1>12 DEF Taken
<1>14. Script(script') /\ \E k \in Nat : Taken(k)'
  <2>1. n + 1 \in Nat
    OBVIOUS
  <2>2. QED
    BY <1>1, <1>4, <1>13, <2>1, Zenon
<1>15. outcome' # "refused" /\ outcome' # "ok"
  BY <1>1
<1>16. On(command.steps, "effect") = On(s, "effect")
  BY <1>3, Zenon
<1>17. QED
  BY <1>1, <1>6, <1>8, <1>14, <1>15, <1>16 DEF OpsInv, RefusalTouchesNothing, SuccessIsComplete

\* A check that fails after an effect would repeat one that held, so only the
\* auth commands refuse with something touched.
LEMMA StepFailsKeeps ==
  ASSUME OpsInv, StepFails
  PROVE  OpsInv'
<1>1. /\ outcome = "running" /\ script # << >> /\ release' = release /\ command' = command /\ missing' = missing
  BY DEF StepFails
<1>2. PICK n \in Nat : Taken(n)
  BY <1>1, Zenon DEF OpsInv
<1>3. PICK s, h : s = command.steps /\ h = Head(script)
  OBVIOUS
<1>4. n + 1 \in DOMAIN s /\ h = s[n + 1] /\ DOMAIN s = 1..Len(s) /\ Len(s) \in Nat
  BY <1>1, <1>2, <1>3, AtHand
<1>5. /\ h.do = "check" => h.on \in missing
      /\ outcome' = IF h.do = "check" THEN "refused" ELSE "failed"
      /\ IF h.do = "effect"
         THEN target' \in {target, [target EXCEPT ![h.on] = release]} /\ touched' = touched \cup {h.on}
         ELSE target' = target /\ touched' = touched
  BY <1>3 DEF StepFails
<1>6. /\ release \in Nat /\ target \in [Targets -> Nat] /\ touched \subseteq On(s, "effect")
      /\ On(s, "effect") \subseteq Targets /\ Fit(command)
  BY <1>3, Zenon DEF OpsInv
<1>7. h.do = "effect" => h.on \in On(s, "effect") /\ h.on \in Targets
  BY <1>3, <1>4, EffectTarget
<1>8. target' \in [Targets -> Nat] /\ touched' \subseteq On(s, "effect")
  BY <1>5, <1>6, <1>7
<1>9. ASSUME outcome' = "refused", command.name # "auth" PROVE touched' = {}
  <2>1. h.do = "check" /\ touched' = touched /\ h.on \in missing
    BY <1>5, <1>9
  <2>2. SUFFICES ASSUME touched # {} PROVE FALSE
    BY <2>1
  <2>3. PICK i \in 1..n : s[i].do = "effect"
    BY <1>2, <1>3, <2>2, Zenon DEF Taken
  <2>4. i \in DOMAIN s /\ i < n + 1
    BY <1>4
  <2>5. PICK k \in DOMAIN s : k < i /\ s[k] = s[n + 1]
    BY <1>3, <1>4, <1>6, <1>9, <2>1, <2>3, <2>4, Zenon DEF Fit, ChecksFirst
  <2>6. k \in 1..n
    BY <1>4, <2>5
  <2>7. s[k].do = "check" => s[k].on \notin missing
    BY <1>2, <1>3, <2>6, Zenon DEF Taken
  <2>8. QED
    BY <1>4, <2>1, <2>5, <2>7
<1>10. outcome' # "running" /\ outcome' # "ok"
  BY <1>5
<1>11. On(command.steps, "effect") = On(s, "effect")
  BY <1>3, Zenon
<1>12. QED
  BY <1>1, <1>6, <1>8, <1>9, <1>10, <1>11 DEF OpsInv, RefusalTouchesNothing, SuccessIsComplete

\* With no step left, every effect has been taken.
LEMMA FinishKeeps ==
  ASSUME OpsInv, Finish
  PROVE  OpsInv'
<1>1. /\ outcome = "running" /\ outcome' = "ok" /\ script = << >> /\ release' = release /\ command' = command
      /\ target' = target /\ touched' = touched
  BY DEF Finish
<1>2. PICK n \in Nat : Taken(n)
  BY <1>1, Zenon DEF OpsInv
<1>3. PICK s : s = command.steps
  OBVIOUS
<1>4. Script(s) /\ n + Len(script) = Len(s)
  BY <1>2, <1>3, Zenon DEF OpsInv, Fit, Taken
<1>5. DOMAIN s = 1..n
  <2>1. DOMAIN s = 1..Len(s)
    BY <1>4, ScriptNumbers
  <2>2. n = Len(s)
    BY <1>1, <1>4
  <2>3. QED
    BY <2>1, <2>2
<1>6. \A i \in 1..n : s[i].do = "effect" => target[s[i].on] = release
  BY <1>2, <1>3, Zenon DEF Taken
<1>7. \A t \in On(s, "effect") : target[t] = release
  BY <1>4, <1>5, <1>6, OnFact
<1>8. outcome' # "running" /\ outcome' # "refused"
  BY <1>1
<1>9. On(command.steps, "effect") = On(s, "effect")
  BY <1>3, Zenon
<1>10. QED
  BY <1>1, <1>7, <1>8, <1>9 DEF OpsInv, RefusalTouchesNothing, SuccessIsComplete

\* The operations commands (repo-tools' secrets, infra, ops, template and devx
\* commands): a plan or a dry run touches nothing, a command that refuses has
\* touched nothing (but for the auth commands), and one that returns success
\* has brought every one of its targets to the current release.
THEOREM OpsCorrect ==
  OpsInit /\ [][OpsNext]_opsVars => []OutcomeTellsEffects
<1>1. OpsInit => OpsInv
  BY OpsStart
<1>2. ASSUME OpsInv, [OpsNext]_opsVars PROVE OpsInv'
  <2>1. CASE NewRelease
    BY <1>2, <2>1, NewReleaseKeeps, Zenon
  <2>2. ASSUME NEW c \in Commands, NEW m, Begin(c, m) PROVE OpsInv'
    BY <1>2, <2>2, BeginKeeps, Zenon
  <2>3. CASE StepSucceeds
    BY <1>2, <2>3, StepSucceedsKeeps, Zenon
  <2>4. CASE StepFails
    BY <1>2, <2>4, StepFailsKeeps, Zenon
  <2>5. CASE Finish
    BY <1>2, <2>5, FinishKeeps, Zenon
  <2>6. CASE UNCHANGED opsVars
    <3>1. /\ release' = release /\ target' = target /\ script' = script /\ command' = command
          /\ missing' = missing /\ touched' = touched /\ outcome' = outcome
      BY <2>6 DEF opsVars
    <3>2. QED
      BY <1>2, <3>1, Zenon DEF OpsInv, Taken, RefusalTouchesNothing, SuccessIsComplete
  <2>7. QED
    BY <1>2, <2>1, <2>2, <2>3, <2>4, <2>5, <2>6, Zenon DEF OpsNext
<1>3. OpsInv => OutcomeTellsEffects
  <2>1. SUFFICES ASSUME OpsInv PROVE OutcomeTellsEffects
    OBVIOUS
  <2>2. ASSUME command.dry PROVE touched = {}
    <3>1. Quiet(command.steps) /\ Script(command.steps)
      BY <2>1, <2>2, Zenon DEF OpsInv, Fit
    <3>2. \A x : x \notin On(command.steps, "effect")
      BY <3>1, OnFact DEF Quiet
    <3>3. QED
      BY <2>1, <3>2, Zenon DEF OpsInv
  <2>3. QED
    BY <2>1, <2>2, Zenon DEF OpsInv, OutcomeTellsEffects, DryRunTouchesNothing
<1>4. QED
  BY <1>1, <1>2, <1>3, PTL
=============================================================================
