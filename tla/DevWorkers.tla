----------------------------- MODULE DevWorkers -----------------------------
(***************************************************************************)
(* `repo-tools dev worker start | stop` (commands/devx.rs): background     *)
(* worker processes tracked by one pid file each.  The tool is one process *)
(* at a time and may be killed between any two of its steps, a worker may  *)
(* exit by itself, and the system may give a freed pid to another process  *)
(* of the same user.                                                       *)
(***************************************************************************)
EXTENDS Naturals

CONSTANTS
    WorkerCount,    \* entries of the WORKERS table, numbered in its order
    Pids            \* process ids

ASSUME WorkersAssumption == WorkerCount \in Nat \ {0}
ASSUME PidsAssumption == Pids \cap {"absent", "torn", "none"} = {}

Workers == 1..WorkerCount
Free == 0                   \* no process under this pid
Other == WorkerCount + 1    \* a process that is no worker

VARIABLES
    process,    \* pid -> Free, Other, or the worker running under it
    dying,      \* pids that were sent SIGTERM and have not exited yet
    pidFile,    \* worker -> "absent", "torn" or the pid written to its file
    tool,       \* the running command, or what the last one returned
    at,         \* the worker the command is at and its step for that worker
    known       \* the pid read or spawned in the current step

workerVars == <<process, dying, pidFile, tool, at, known>>

Running(w) == {p \in Pids : process[p] = w /\ p \notin dying}

WorkersTypeOK ==
    /\ process \in [Pids -> 0..WorkerCount + 1]
    /\ dying \subseteq Pids
    /\ pidFile \in [Workers -> Pids \cup {"absent", "torn"}]
    /\ tool \in {"start", "stop", "idle", "started", "stopped", "failed"}
    /\ at \in Workers \X {"read", "remove", "spawn", "write", "rewrite"}
    /\ known \in Pids \cup {"none"}

WorkersInit ==
    /\ process = [p \in Pids |-> Free]
    /\ dying = {}
    /\ pidFile = [w \in Workers |-> "absent"]
    /\ tool = "idle" /\ at = <<1, "read">> /\ known = "none"

Active == tool \in {"start", "stop"}

\* start_workers and stop_workers visit the workers in order.
BeginCommand(c) ==
    /\ ~Active
    /\ tool' = c /\ at' = <<1, "read">>
    /\ UNCHANGED <<process, dying, pidFile, known>>

\* The command is done with worker w.
Advance(w) ==
    IF w + 1 \in Workers
    THEN at' = <<w + 1, "read">> /\ UNCHANGED tool
    ELSE tool' = (IF tool = "start" THEN "started" ELSE "stopped") /\ UNCHANGED at

\* After stop_worker, start_workers spawns and stop_workers goes on.
Stopped(w) ==
    IF tool = "start" THEN at' = <<w, "spawn">> /\ UNCHANGED tool ELSE Advance(w)

\* process_exists and terminate_pid: SIGTERM to whoever has the pid.
ProcessExists(p) == process[p] # Free
TerminatePid(p) == dying \cup (IF ProcessExists(p) THEN {p} ELSE {})

\* Mutant: nothing is stopped by name.
MutStopMatching(w) == UNCHANGED dying

\* stop_processes_matching: pkill -f signals every process with this name.
StopMatching(w) == dying' = dying \cup {p \in Pids : process[p] = w}

\* stop_worker: with a pid file the process under that pid, if there is one,
\* is sent SIGTERM, whoever it belongs to; without one, the processes with the
\* worker's name.  A pid file that does not parse is an error.
StopWorker(w) ==
    /\ Active /\ at = <<w, "read">>
    /\ pidFile[w] # "torn"
    /\ IF pidFile[w] = "absent"
       THEN StopMatching(w) /\ Stopped(w) /\ UNCHANGED known
       ELSE /\ known' = pidFile[w]
            /\ dying' = TerminatePid(pidFile[w])
            /\ at' = <<w, "remove">>
            /\ UNCHANGED tool
    /\ UNCHANGED <<process, pidFile>>

\* Mutant: what the file holds is taken for a pid.
MutBadPidFile(w) ==
    /\ Active /\ at = <<w, "read">>
    /\ pidFile[w] = "torn"
    /\ known' = pidFile[w] /\ at' = <<w, "remove">>
    /\ UNCHANGED <<process, dying, pidFile, tool>>

\* read_pid fails on a torn file: start and stop both give up there.
BadPidFile(w) ==
    /\ Active /\ at = <<w, "read">>
    /\ pidFile[w] = "torn"
    /\ tool' = "failed"
    /\ UNCHANGED <<process, dying, pidFile, at, known>>

\* remove_if_exists
RemovePidFile(w) ==
    /\ Active /\ at = <<w, "remove">>
    /\ pidFile' = [pidFile EXCEPT ![w] = "absent"]
    /\ Stopped(w)
    /\ UNCHANGED <<process, dying, known>>

\* spawn_background_worker: the child runs, or spawning fails.
Spawn(w, p) ==
    /\ Active /\ at = <<w, "spawn">>
    /\ process[p] = Free
    /\ process' = [process EXCEPT ![p] = w]
    /\ known' = p /\ at' = <<w, "write">>
    /\ UNCHANGED <<dying, pidFile, tool>>

SpawnFails(w) ==
    /\ Active /\ at = <<w, "spawn">>
    /\ tool' = "failed"
    /\ UNCHANGED <<process, dying, pidFile, at, known>>

\* The pid file is created and truncated, then filled.
TruncatePidFile(w) ==
    /\ Active /\ at = <<w, "write">>
    /\ pidFile' = [pidFile EXCEPT ![w] = "torn"]
    /\ at' = <<w, "rewrite">>
    /\ UNCHANGED <<process, dying, tool, known>>

FillPidFile(w) ==
    /\ Active /\ at = <<w, "rewrite">>
    /\ pidFile' = [pidFile EXCEPT ![w] = known]
    /\ Advance(w)
    /\ UNCHANGED <<process, dying, known>>

\* The tool is killed between two steps.
KillTool ==
    /\ Active
    /\ tool' = "failed"
    /\ UNCHANGED <<process, dying, pidFile, at, known>>

\* A process exits, by itself or because of the signal it was sent.
ProcessExits(p) ==
    /\ process[p] # Free
    /\ process' = [process EXCEPT ![p] = Free]
    /\ dying' = dying \ {p}
    /\ UNCHANGED <<pidFile, tool, at, known>>

\* Another program of the same user is given a free pid.
OtherStarts(p) ==
    /\ process[p] = Free
    /\ process' = [process EXCEPT ![p] = Other]
    /\ UNCHANGED <<dying, pidFile, tool, at, known>>

WorkersNext ==
    \/ \E c \in {"start", "stop"} : BeginCommand(c)
    \/ \E w \in Workers :
          \/ StopWorker(w) \/ BadPidFile(w) \/ RemovePidFile(w)
          \/ SpawnFails(w) \/ TruncatePidFile(w) \/ FillPidFile(w)
          \/ \E p \in Pids : Spawn(w, p)
    \/ KillTool
    \/ \E p \in Pids : ProcessExits(p) \/ OtherStarts(p)

-----------------------------------------------------------------------------
\* start_workers stops a worker before it spawns it again, by pid file or, when
\* an earlier start was killed before it wrote one, by name: however often
\* start is run, killed and rerun, no worker has two background processes that
\* were not told to stop.
OneInstance == \A w \in Workers : \A p, q \in Running(w) : p = q

\* `dev worker stop` that returned success has signalled every background
\* worker: none is left running under a pid the tool has lost, even after a
\* killed start or a pid file whose pid was given to somebody else.
StopStops == tool = "stopped" => \A w \in Workers : Running(w) = {}

\* Neither start nor stop loses a worker it has spawned.
NoStrayWorker ==
  OneInstance /\ StopStops
=============================================================================
