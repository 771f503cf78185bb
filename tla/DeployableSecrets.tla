------------------------- MODULE DeployableSecrets --------------------------
(***************************************************************************)
(* How repo-tools turns the SOPS-encrypted secrets into the environment of *)
(* a deployable (commands/secrets.rs): `export-env`, `run` and             *)
(* `verify-counter-db-credentials`.  Every deployable has a secret file of *)
(* its own; the shared file counter-db-credentials holds one database      *)
(* entry (URL and token) per deployable, which must all name one database. *)
(* An entry is abstracted to "none" (absent or empty), "unusable" (a local *)
(* path, another scheme or a placeholder token) or a database.             *)
(***************************************************************************)
EXTENDS Naturals

CONSTANTS
    Deployables,    \* the deployables that share the counter database
    Databases       \* databases an entry can name

ASSUME DatabasesAssumption == Databases \cap {"none", "unusable", "no_file"} = {}

Entries == Databases \cup {"none", "unusable"}

VARIABLES
    shared,     \* counter-db-credentials: the entry of each deployable
    own,        \* the database entry in a deployable's own secret, "no_file"
                \*   when that secret does not exist
    envFile,    \* the entry in the environment last exported, "no_file" if none
    current,    \* deployables whose environment was exported since the last edit
    verified    \* verify-counter-db-credentials passed since the last edit

secretVars == <<shared, own, envFile, current, verified>>

SecretsTypeOK ==
    /\ shared \in [Deployables -> Entries]
    /\ own \in [Deployables -> Entries \cup {"no_file"}]
    /\ envFile \in [Deployables -> Entries \cup {"no_file"}]
    /\ current \subseteq Deployables /\ verified \in BOOLEAN

SecretsInit ==
    /\ shared = [d \in Deployables |-> "none"]
    /\ own = [d \in Deployables |-> "no_file"]
    /\ envFile = own /\ current = {} /\ verified = FALSE

\* edit and encrypt: the author changes an entry of either file.
EditShared(d, e) ==
    /\ shared' = [shared EXCEPT ![d] = e]
    /\ current' = {} /\ verified' = FALSE
    /\ UNCHANGED <<own, envFile>>

EditOwn(d, e) ==
    /\ own' = [own EXCEPT ![d] = e]
    /\ current' = current \ {d}
    /\ UNCHANGED <<shared, envFile, verified>>

\* Mutant: the merge accepts two values for one key.
MutMergeConflicts(d) == FALSE

\* merge_counter_db_credentials_exports: a key in both files with different
\* values is an error, so neither value silently wins.
MergeConflicts(d) ==
    own[d] # "none" /\ shared[d] # "none" /\ own[d] # shared[d]

\* collect_deployable_exports: the deployable's own secret must exist; with the
\* shared credentials included, their entry is added to it.
Collect(d, includeShared) ==
    IF includeShared /\ own[d] = "none" THEN shared[d] ELSE own[d]

Collects(d, includeShared) ==
    own[d] # "no_file" /\ (includeShared => ~MergeConflicts(d))

\* export_env: always with the shared credentials; nothing is written when the
\* collection fails.  write_env_file truncates the file before it writes it.
ExportEnv(d) ==
    /\ Collects(d, TRUE)
    /\ envFile' = [envFile EXCEPT ![d] = Collect(d, TRUE)]
    /\ current' = current \cup {d}
    /\ UNCHANGED <<shared, own, verified>>

ExportRefused(d) ==
    /\ ~Collects(d, TRUE)
    /\ UNCHANGED secretVars

\* verify_counter_db_credentials: every entry is there and usable, and all of
\* them name the same database.
Verifies ==
    \E db \in Databases : \A d \in Deployables : shared[d] = db

Verify ==
    /\ verified' = Verifies
    /\ UNCHANGED <<shared, own, envFile, current>>

\* run_with_secrets with a database state: disabled and local_mock are refused,
\* local_real leaves the shared credentials out, the external states include
\* them.  The program gets the collected environment; no file is written.
IncludesShared(dbState) == dbState \in {"external_single", "external_distributed"}
RunEnv(d, dbState) ==
    IF dbState \in {"disabled", "local_mock"} \/ ~Collects(d, IncludesShared(dbState))
    THEN "no_file" ELSE Collect(d, IncludesShared(dbState))

SecretsNext ==
    \/ \E d \in Deployables, e \in Entries : EditShared(d, e) \/ EditOwn(d, e)
    \/ \E d \in Deployables : ExportEnv(d) \/ ExportRefused(d)
    \/ Verify

-----------------------------------------------------------------------------
\* The deployables of the counter chain meet in one database: once the shared
\* credentials are verified, every environment exported since the last edit
\* (systemd, podman), and every environment `run` builds with an external
\* database, names that database - a deployable's own secret cannot divert it.
OneDatabase ==
    verified =>
        \A d, e \in Deployables :
            /\ d \in current => envFile[d] = shared[e]
            /\ RunEnv(d, "external_distributed") \in {"no_file", shared[e]}
=============================================================================
