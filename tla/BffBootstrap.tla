---------------------------- MODULE BffBootstrap ----------------------------
(***************************************************************************)
(* The start of web-bff: the runtime guard over the configuration, the     *)
(* migrations and the wiring of the adapters, in the order of              *)
(* bootstrap_bff_state.  A rolling update starts a second process while    *)
(* the first one runs, over the same databases; an error ends the process  *)
(* and the supervisor starts it again; the operator edits settings, which  *)
(* a process reads once, when it starts.                                   *)
(***************************************************************************)
EXTENDS Integers, Sequences, FiniteSets

CONSTANTS
  Servers,          \* the processes of the deployment
  MaxSettingEdits,  \* bound: edits of the settings
  MaxBootFaults     \* bound: failing statements and killed processes

VARIABLES
  setting,     \* the environment the next process reads
  edits,       \* edits so far
  config,      \* server -> the Config it has read
  stage,       \* server -> where its bootstrap is
  cursor,    \* server -> next element of the loop it is in
  found,       \* server -> columns PRAGMA table_info has listed
  schema,      \* database -> the tables, or SurrealDB migrations, it has
  columns,     \* database -> columns of counter_idempotency
  bootFaults   \* faults so far

bootVars == <<setting, edits, config, stage, cursor, found, schema, columns, bootFaults>>

IdempotencyColumns == <<"tenant_id", "resource", "response_digest">>
AllColumns == {"tenant_id", "resource", "response_digest"}
TenantMigrations == 1..6
Stages == {"down", "tenant", "user", "counter", "inspect", "alter", "ledgers", "billing",
           "audit", "surreal", "serving"}

(* An endpoint, an issuer, a list is set or not; "external" is a mode that *)
(* is known and not implemented, "other" is no value the code knows.       *)
Values ==
  [production |-> BOOLEAN, devHeaders |-> BOOLEAN, issuer |-> BOOLEAN,
   secret |-> {"dev", "own"}, authz |-> {"none", "openfga", "other"},
   origins |-> BOOLEAN, store |-> {"turso", "surrealdb", "other"}, surreal |-> BOOLEAN,
   database |-> {"none", "embedded", "remote"},
   commercial |-> {"disabled", "local_mock", "local_real", "external", "other"},
   billing |-> {"disabled", "creem", "other"}, creem |-> {"incomplete", "test", "live"}]

(* Config::default with a local database.                                  *)
Default ==
  [production |-> FALSE, devHeaders |-> FALSE, issuer |-> FALSE, secret |-> "dev",
   authz |-> "none", origins |-> FALSE, store |-> "turso", surreal |-> FALSE,
   database |-> "embedded", commercial |-> "disabled", billing |-> "disabled",
   creem |-> "incomplete"]

(* A production configuration with everything that can be switched on.     *)
Selling ==
  [production |-> TRUE, devHeaders |-> FALSE, issuer |-> FALSE, secret |-> "own",
   authz |-> "openfga", origins |-> TRUE, store |-> "turso", surreal |-> TRUE,
   database |-> "remote", commercial |-> "local_real", billing |-> "creem",
   creem |-> "live"]

ImplementedCommercialMode(c) == c.commercial \in {"disabled", "local_mock", "local_real"}

ValidateBillingProvider(c) ==
  c.billing = "disabled" \/ (c.billing = "creem" /\ c.creem \in {"test", "live"})

(* Outside production only the modes and the billing settings are checked. *)
ValidateRuntimeProfile(c) ==
  /\ ImplementedCommercialMode(c) /\ ValidateBillingProvider(c)
  /\ c.production =>
       /\ ~c.devHeaders /\ (c.issuer \/ c.secret # "dev") /\ c.authz # "none" /\ c.origins
       /\ c.store = "surrealdb" => c.surreal
       /\ c.commercial # "local_mock"
       /\ c.billing = "creem" => c.commercial = "local_real" /\ c.creem = "live"

-----------------------------------------------------------------------------
(* What the builders make of a configuration.                              *)
AuthzAdapter(c) == IF c.authz = "none" THEN "mock" ELSE c.authz
AuditSink(c) == IF c.database = "none" THEN "memory" ELSE "durable"
CompositionRoot(c) ==
  IF c.store = "surrealdb" THEN "surrealdb" ELSE IF c.database = "none" THEN "none" ELSE "turso"

Proceed(p, next) ==
  /\ stage' = [stage EXCEPT ![p] = next]
  /\ cursor' = [cursor EXCEPT ![p] = 1]

(* An error leaves main; what the statements before it created stays.      *)
Exit(p) == Proceed(p, "down") /\ UNCHANGED <<schema, columns>>

CreateTables(p, tables) ==
  schema' = [schema EXCEPT ![config[p].database] = @ \cup tables]

(* A process that has ended holds no configuration.                        *)
KeepsConfig ==
  config' = [p \in Servers |-> IF stage'[p] = "down" THEN Default ELSE config[p]]

KeepsSettings == KeepsConfig /\ UNCHANGED <<setting, edits, bootFaults>>

(* A start the guard refuses ends before anything is opened.               *)
Boot(p) ==
  /\ stage[p] = "down"
  /\ ValidateRuntimeProfile(setting)
  /\ config' = [config EXCEPT ![p] = setting]
  /\ Proceed(p, IF setting.database = "none" THEN "ledgers" ELSE "tenant")
  /\ UNCHANGED <<setting, edits, found, schema, columns, bootFaults>>

(* Mutant: CREATE TABLE without IF NOT EXISTS, an error once it is there.  *)
MutRunTenantMigrations(p) ==
  /\ stage[p] = "tenant"
  /\ IF "tenant" \in schema[config[p].database]
       THEN Exit(p)
       ELSE CreateTables(p, {"tenant"}) /\ Proceed(p, "user") /\ UNCHANGED columns
  /\ UNCHANGED found /\ KeepsSettings

RunTenantMigrations(p) ==
  /\ stage[p] = "tenant"
  /\ CreateTables(p, {"tenant"}) /\ Proceed(p, "user")
  /\ UNCHANGED <<found, columns>> /\ KeepsSettings

RunUserMigrations(p) ==
  /\ stage[p] = "user"
  /\ CreateTables(p, {"user"}) /\ Proceed(p, "counter")
  /\ UNCHANGED <<found, columns>> /\ KeepsSettings

(* CREATE TABLE IF NOT EXISTS brings all columns to a new table, and none  *)
(* to one an older release created.                                        *)
MigrateCounter(p) ==
  LET base == config[p].database IN
  /\ stage[p] = "counter"
  /\ CreateTables(p, {"counter"})
  /\ columns' = [columns EXCEPT ![base] = IF "counter" \in schema[base] THEN @ ELSE AllColumns]
  /\ Proceed(p, "inspect")
  /\ UNCHANGED found /\ KeepsSettings

(* PRAGMA table_info: with all columns listed there is nothing to alter.   *)
InspectColumns(p) ==
  LET present == columns[config[p].database] IN
  /\ stage[p] = "inspect"
  /\ IF present = AllColumns
       THEN Proceed(p, "ledgers") /\ UNCHANGED found
       ELSE Proceed(p, "alter") /\ found' = [found EXCEPT ![p] = present]
  /\ UNCHANGED <<schema, columns>> /\ KeepsSettings

(* The first of the columns that was not listed.                           *)
FirstMissing(listed) ==
  IdempotencyColumns[CHOOSE i \in 1..3 :
    /\ IdempotencyColumns[i] \notin listed
    /\ \A j \in 1..3 : j < i => IdempotencyColumns[j] \in listed]

(* ALTER TABLE ADD COLUMN for the next column that was not listed: an      *)
(* error when the other process has added it since.                        *)
EnsureIdempotencyColumns(p) ==
  LET base == config[p].database
      column == FirstMissing(found[p])
      done == found[p] \cup {column} = AllColumns IN
  /\ stage[p] = "alter"
  /\ IF column \in columns[base]
       THEN Exit(p) /\ found' = [found EXCEPT ![p] = {}]
       ELSE /\ columns' = [columns EXCEPT ![base] = @ \cup {column}]
            /\ found' = [found EXCEPT ![p] = IF done THEN {} ELSE @ \cup {column}]
            /\ Proceed(p, IF done THEN "ledgers" ELSE "alter")
            /\ UNCHANGED schema
  /\ KeepsSettings

(* Mutant: the commercial tables are not created.                          *)
MutInitializeCommercialLedgers(p) ==
  /\ stage[p] = "ledgers"
  /\ IF AuthzAdapter(config[p]) = "other" \/
        (config[p].commercial = "local_real" /\ config[p].database = "none")
       THEN Exit(p)
       ELSE /\ UNCHANGED schema
            /\ Proceed(p, "billing") /\ UNCHANGED columns
  /\ UNCHANGED found /\ KeepsSettings

(* build_authz_adapter, then the ledgers of the local_real mode.           *)
InitializeCommercialLedgers(p) ==
  LET real == config[p].commercial = "local_real" IN
  /\ stage[p] = "ledgers"
  /\ IF AuthzAdapter(config[p]) = "other" \/ (real /\ config[p].database = "none")
       THEN Exit(p)
       ELSE /\ IF real THEN CreateTables(p, {"commercial"}) ELSE UNCHANGED schema
            /\ Proceed(p, "billing") /\ UNCHANGED columns
  /\ UNCHANGED found /\ KeepsSettings

InitializeBillingLedgers(p) ==
  LET creem == config[p].billing = "creem" IN
  /\ stage[p] = "billing"
  /\ IF creem /\ config[p].database = "none"
       THEN Exit(p)
       ELSE /\ IF creem THEN CreateTables(p, {"billing"}) ELSE UNCHANGED schema
            /\ Proceed(p, "audit") /\ UNCHANGED columns
  /\ UNCHANGED found /\ KeepsSettings

(* build_composition_root: None without a database is no error, a store     *)
(* that is not known or not configured is.                                 *)
AfterComposition(c) ==
  IF c.store = "turso" THEN "serving"
  ELSE IF c.store = "surrealdb" /\ c.surreal THEN "surreal" ELSE "down"

(* The audit table; the rest of the wiring awaits nothing.                 *)
BuildAuditSink(p) ==
  /\ stage[p] = "audit"
  /\ IF AuditSink(config[p]) = "durable" THEN CreateTables(p, {"audit"}) ELSE UNCHANGED schema
  /\ Proceed(p, AfterComposition(config[p]))
  /\ UNCHANGED <<found, columns>> /\ KeepsSettings

(* The DEFINE ... IF NOT EXISTS statements of TENANT_MIGRATIONS.           *)
RunSurrealMigration(p) ==
  /\ stage[p] = "surreal"
  /\ schema' = [schema EXCEPT !["surrealdb"] = @ \cup {cursor[p]}]
  /\ IF cursor[p] = 6 THEN Proceed(p, "serving")
       ELSE cursor' = [cursor EXCEPT ![p] = @ + 1] /\ UNCHANGED stage
  /\ UNCHANGED <<found, columns>> /\ KeepsSettings

(* A statement fails, or the process is killed, also while it serves.      *)
Fault(p) ==
  /\ stage[p] # "down" /\ bootFaults < MaxBootFaults
  /\ bootFaults' = bootFaults + 1
  /\ Exit(p)
  /\ found' = [found EXCEPT ![p] = {}]
  /\ KeepsConfig /\ UNCHANGED <<setting, edits>>

EditSetting ==
  /\ edits < MaxSettingEdits
  /\ edits' = edits + 1
  /\ \E key \in DOMAIN Values : \E value \in Values[key] \ {setting[key]} :
       setting' = [setting EXCEPT ![key] = value]
  /\ UNCHANGED <<config, stage, cursor, found, schema, columns, bootFaults>>

BootStep(p) ==
  \/ Boot(p) \/ RunTenantMigrations(p) \/ RunUserMigrations(p)
  \/ MigrateCounter(p) \/ InspectColumns(p) \/ EnsureIdempotencyColumns(p)
  \/ InitializeCommercialLedgers(p) \/ InitializeBillingLedgers(p)
  \/ BuildAuditSink(p) \/ RunSurrealMigration(p)

BootNext == EditSetting \/ \E p \in Servers : BootStep(p) \/ Fault(p)

(* New databases, or the tables of the release that had no such columns.   *)
BootInit ==
  /\ setting \in {Default, Selling} /\ edits = 0
  /\ config = [p \in Servers |-> Default]
  /\ stage = [p \in Servers |-> "down"]
  /\ cursor = [p \in Servers |-> 1]
  /\ found = [p \in Servers |-> {}]
  /\ \E tables \in {{}, {"tenant", "user", "counter"}} :
       schema = [base \in {"embedded", "remote", "surrealdb"} |->
                   IF base = "surrealdb" THEN {} ELSE tables]
  /\ columns = [base \in {"embedded", "remote"} |-> {}]
  /\ bootFaults = 0

(* A task that is ready is polled, and the supervisor restarts a process   *)
(* that has ended.                                                         *)
BootFairness == \A p \in Servers : WF_bootVars(BootStep(p))

-----------------------------------------------------------------------------
(* Settings, stages, loop positions and schemas stay what they are.        *)
BootTypeOK ==
  /\ \A key \in DOMAIN Values :
       setting[key] \in Values[key] /\ \A p \in Servers : config[p][key] \in Values[key]
  /\ edits \in 0..MaxSettingEdits /\ bootFaults \in 0..MaxBootFaults
  /\ stage \in [Servers -> Stages] /\ cursor \in [Servers -> TenantMigrations]
  /\ found \in [Servers -> SUBSET AllColumns]
  /\ columns \in [{"embedded", "remote"} -> SUBSET AllColumns]
  /\ schema["surrealdb"] \subseteq TenantMigrations
  /\ \A base \in {"embedded", "remote"} :
       schema[base] \subseteq {"tenant", "user", "counter", "commercial", "billing", "audit"}

(* No request of a serving process meets a table or a column that is not   *)
(* there: whatever starts failed half way before, under whatever settings, *)
(* and whatever the other process has altered meanwhile, all that the      *)
(* wired adapters read and write has been created in the database they are *)
(* wired to - in production also the entitlements the billing webhook      *)
(* grants, which belong to another feature's ledger.                       *)
ServingHasItsTables ==
  \A p \in Servers : stage[p] = "serving" =>
    LET c == config[p]
        tables == schema[c.database] IN
    /\ CompositionRoot(c) = "surrealdb" => schema["surrealdb"] = TenantMigrations
    /\ c.database # "none" =>
         {"tenant", "user", "counter", "audit"} \subseteq tables /\ columns[c.database] = AllColumns
    /\ c.commercial = "local_real" => c.database # "none" /\ "commercial" \in tables
    /\ c.billing = "creem" => c.database # "none" /\ "billing" \in tables
    /\ c.billing = "creem" /\ c.production => "commercial" \in tables

(* The guard and the builders agree on what production is: a process that  *)
(* serves under that profile runs on no stand-in - not the mock authorizer,*)
(* the mock entitlements, the development secret or the test billing       *)
(* environment - whatever the settings say by now.                         *)
ProductionIsReal ==
  \A p \in Servers : stage[p] = "serving" /\ config[p].production =>
    LET c == config[p] IN
    /\ AuthzAdapter(c) = "openfga" /\ c.commercial # "local_mock"
    /\ ~c.devHeaders /\ (c.issuer \/ c.secret = "own")
    /\ c.billing = "creem" => c.creem = "live"

(* A process serves only over the tables it needs and, in production, only *)
(* with real adapters.                                                     *)
ServingIsSound ==
  ServingHasItsTables /\ ProductionIsReal

(* Settings from which every builder gets what it asks for.                *)
Complete(c) ==
  /\ ValidateRuntimeProfile(c) /\ AuthzAdapter(c) # "other"
  /\ (c.commercial = "local_real" \/ c.billing = "creem") => c.database # "none"
  /\ c.store = "turso" \/ (c.store = "surrealdb" /\ c.surreal)

(* No failed start stands in the way of the next: once the settings are    *)
(* complete and statements have stopped failing, every process ends up     *)
(* serving, although two processes alter one table and a start may have    *)
(* stopped between any two migrations.                                     *)
EveryServerServes ==
  <>[](Complete(setting) => \A p \in Servers : stage[p] = "serving")
=============================================================================
