------------------------------- MODULE Pipeline -------------------------------
(***************************************************************************)
(* The chain of Dagster assets (orchestration/assets.py) and its run log, seen *)
(* from the warehouse: what a build of Gold is, Gold says; here it is a number  *)
(* with a quality.  A job executes consecutive stages, each under               *)
(* _track_asset_run; jobs may overlap, fail at any stage, end in the middle of  *)
(* one, and another job may take up the work from any stage.  Beside them an    *)
(* operator releases migrations, applies them (pipelines/common/migrations.py)   *)
(* and drops schemas, alembic_version or the whole database.                     *)
(***************************************************************************)
EXTENDS Integers, Sequences

CONSTANTS
  Jobs,         \* executions of the job, each with a run_id of its own
  Stages,       \* the assets, in the order of their dependencies
  Needs,        \* revision -> the schemas whose tables it creates or alters
  Once,         \* the schemas with a table some revision cannot alter a second time (0005)
  MaxBuilds,    \* bound: builds of Gold
  MaxErrors,    \* bound: exceptions nothing in this module causes
  MaxCrashes,   \* bound: jobs that end in the middle of a stage
  MaxDrops      \* bound: what the operator drops

\* _EXPECTED_SCHEMAS
SCHEMAS == {"bronze", "silver", "gold", "marts", "meta"}

\* The revisions on disk are 1..head; the first creates the schemas
ASSUME PipelineAssumption ==
  /\ Stages \in Seq(STRING) /\ Stages # << >>
  /\ \A i, j \in DOMAIN Stages : Stages[i] = Stages[j] => i = j
  /\ DOMAIN Needs \subseteq Nat \ {0} /\ 1 \in DOMAIN Needs
  /\ \A r \in DOMAIN Needs : Needs[r] \subseteq SCHEMAS /\ (r - 1 \in DOMAIN Needs \/ r = 1)
  /\ Once \subseteq SCHEMAS
  /\ {MaxBuilds, MaxErrors, MaxCrashes, MaxDrops} \subseteq Nat

VARIABLES
  at,         \* the stage each job is at
  step,       \* what it does there
  frame,      \* the builds of its program_df and year_level_df
  log,        \* dagster_pipeline_runs
  store,      \* the build in the Gold store
  warehouse,  \* the build in the schema gold
  features,   \* the builds the two feature tables were computed from, likewise
  quality,    \* build -> its quality
  head,       \* the last revision on disk
  version,    \* alembic_version
  schemas,    \* the schemas that exist
  bootstrap,  \* how apply_migrations last ended
  used        \* how much of each bound has been used

vars == <<at, step, frame, log, store, warehouse, features, quality, head, version, schemas,
          bootstrap, used>>

database == <<head, version, schemas, bootstrap>>
data == <<store, warehouse, features, quality>>

Limit == [errors |-> MaxErrors, crashes |-> MaxCrashes, drops |-> MaxDrops]

Use(e) ==
  /\ used[e] < Limit[e]
  /\ used' = [used EXCEPT ![e] = @ + 1]

\* No build: the table is empty
None == 0

NoTables == [program |-> None, year_level |-> None]

\* dbt test passes only on a good build; an empty one has no facts
QUALITIES == {"good", "bad", "empty"}

Go(j, s) == step' = [step EXCEPT ![j] = s]

Row(j, status) == [job |-> j, stage |-> Stages[at[j]], status |-> status]

(***************************************************************************)
(* _track_asset_run                                                         *)
(***************************************************************************)

Inside(j) == step[j] \notin {"idle", "ready", "over"}

\* The connection to the log is open until the stage is over
LockFree == \A j \in Jobs : ~Inside(j)

\* A job is started at its first stage, or where another one failed
Launch(j) ==
  /\ step[j] = "idle"
  /\ at' \in {[at EXCEPT ![j] = i] : i \in DOMAIN Stages}
  /\ Go(j, "ready")
  /\ UNCHANGED <<frame, log, data, database, used>>

\* The RUNNING row, then the handler
Begin(j) ==
  /\ step[j] = "ready"
  /\ LockFree
  /\ log' = Append(log, Row(j, "RUNNING"))
  /\ Go(j, "handler")
  /\ UNCHANGED <<at, frame, data, database, used>>

\* get_connection raises while another process has the log open: the stage fails, and no row
\* says so
Refused(j) ==
  /\ step[j] = "ready"
  /\ ~LockFree
  /\ Go(j, "over")
  /\ UNCHANGED <<at, frame, log, data, database, used>>

\* Mutant of End: every stage has a next one
NeverOver(j, status) ==
  /\ log' = Append(log, Row(j, status))
  /\ frame' = [frame EXCEPT ![j] = NoTables]
  /\ IF status = "SUCCESS"
       THEN at' = [at EXCEPT ![j] = @ + 1] /\ Go(j, "ready")
       ELSE UNCHANGED at /\ Go(j, "over")

\* The terminal row; Dagster goes on to the next stage after a success
End(j, status) ==
  /\ log' = Append(log, Row(j, status))
  /\ frame' = [frame EXCEPT ![j] = NoTables]
  /\ IF status = "SUCCESS" /\ at[j] < Len(Stages)
       THEN at' = [at EXCEPT ![j] = @ + 1] /\ Go(j, "ready")
       ELSE UNCHANGED at /\ Go(j, "over")

\* Any other exception of the handler
Raise(j) ==
  /\ Inside(j)
  /\ Use("errors")
  /\ End(j, "FAILED")
  /\ UNCHANGED <<data, database>>

\* The process ends: the RUNNING row stays the last word
Crash(j) ==
  /\ Inside(j)
  /\ Use("crashes")
  /\ Go(j, "over")
  /\ frame' = [frame EXCEPT ![j] = NoTables]
  /\ UNCHANGED <<at, log, data, database>>

(***************************************************************************)
(* The handlers                                                             *)
(***************************************************************************)

In(j, stage) == step[j] = "handler" /\ Stages[at[j]] = stage

\* A new build replaces the Gold store
gold(j) ==
  /\ In(j, "gold")
  /\ Len(quality) < MaxBuilds
  /\ \E q \in QUALITIES : quality' = Append(quality, q)
  /\ store' = Len(quality')
  /\ End(j, "SUCCESS")
  /\ UNCHANGED <<warehouse, features, database, used>>

\* assert_up_to_date and the tables; the schemas are not asked for
MayLoad == version = head /\ "gold" \in schemas /\ store # None

\* load_gold_to_postgres: one transaction, then the row
warehouseLoad(j) ==
  /\ In(j, "warehouse")
  /\ MayLoad
  /\ warehouse' = store
  /\ Go(j, "loaded")
  /\ UNCHANGED <<at, frame, log, store, features, quality, database, used>>

warehouseEnd(j) ==
  /\ step[j] = "loaded"
  /\ End(j, "SUCCESS")
  /\ UNCHANGED <<data, database, used>>

warehouseFails(j) ==
  /\ In(j, "warehouse")
  /\ ~MayLoad
  /\ End(j, "FAILED")
  /\ UNCHANGED <<data, database, used>>

\* Mutant of TestsPass: the exit code is not looked at
RunsOnly == TRUE

\* dbt run needs the tables; dbt test looks at what is in them
TestsPass == warehouse # None /\ "marts" \in schemas /\ quality[warehouse] = "good"

\* run_dbt(["run"]), run_dbt(["test"]); the views are derived from the warehouse
dbt(j) ==
  /\ In(j, "dbt")
  /\ End(j, IF TestsPass THEN "SUCCESS" ELSE "FAILED")
  /\ UNCHANGED <<data, database, used>>

\* No rows to compute from
Empty(b) == IF b = None THEN TRUE ELSE quality[b] = "empty"

\* build_and_store_ml_features reads the warehouse twice, for a table each
ReadProgramFacts(j) ==
  /\ In(j, "features")
  /\ warehouse # None
  /\ frame' = [frame EXCEPT ![j].program = warehouse]
  /\ Go(j, "read")
  /\ UNCHANGED <<at, log, data, database, used>>

ReadYearLevelFacts(j) ==
  /\ step[j] = "read"
  /\ ~Empty(frame[j].program) /\ ~Empty(warehouse)
  /\ frame' = [frame EXCEPT ![j].year_level = warehouse]
  /\ Go(j, "program")
  /\ UNCHANGED <<at, log, data, database, used>>

\* No tables, or nothing in one of them: FeatureEngineeringError
NoFacts(j) ==
  /\ \/ In(j, "features") /\ warehouse = None
     \/ step[j] = "read" /\ (Empty(frame[j].program) \/ Empty(warehouse))
  /\ End(j, "FAILED")
  /\ UNCHANGED <<data, database, used>>

\* replace_table_contents for each of the two tables, a transaction each, or MissingTableError
WriteProgramFeatures(j) ==
  /\ step[j] = "program"
  /\ IF "gold" \in schemas
       THEN /\ features' = [features EXCEPT !.program = frame[j].program]
            /\ Go(j, "year level")
            /\ UNCHANGED <<at, frame, log>>
       ELSE UNCHANGED features /\ End(j, "FAILED")
  /\ UNCHANGED <<store, warehouse, quality, database, used>>

WriteYearLevelFeatures(j) ==
  /\ step[j] = "year level"
  /\ IF "gold" \in schemas
       THEN /\ features' = [features EXCEPT !.year_level = frame[j].year_level]
            /\ Go(j, "stored")
            /\ UNCHANGED <<at, frame, log>>
       ELSE UNCHANGED features /\ End(j, "FAILED")
  /\ UNCHANGED <<store, warehouse, quality, database, used>>

featuresEnd(j) ==
  /\ step[j] = "stored"
  /\ End(j, "SUCCESS")
  /\ UNCHANGED <<data, database, used>>

\* The other stages leave these tables alone
OtherStage(j) ==
  /\ step[j] = "handler" /\ Stages[at[j]] \notin {"gold", "warehouse", "dbt", "features"}
  /\ End(j, "SUCCESS")
  /\ UNCHANGED <<data, database, used>>

(***************************************************************************)
(* Migrations                                                               *)
(***************************************************************************)

\* A release of the repository brings a revision
Release ==
  /\ head + 1 \in DOMAIN Needs
  /\ head' = head + 1
  /\ UNCHANGED <<at, step, frame, log, data, version, schemas, bootstrap, used>>

\* Mutant of SchemasMissing: what alembic_version says is believed
BelievesVersion == FALSE

\* _expected_schemas_missing, asked only when there is nothing to apply
SchemasMissing == version = head /\ schemas # SCHEMAS

\* The revisions to apply.  The first creates the schemas that do not exist; from another
\* version on they are taken to exist, and from none at all the tables are taken not to.
Pending == {r \in DOMAIN Needs : version < r /\ r <= head}

Fails(r) == IF version > 0 THEN ~(Needs[r] \subseteq schemas) ELSE Once \cap schemas # {}

\* One transaction for all revisions, committed at the end
apply_migrations ==
  LET raises == SchemasMissing \/ \E r \in Pending : Fails(r)
  IN  /\ IF raises
           THEN UNCHANGED <<version, schemas>>
           ELSE /\ version' = head
                /\ schemas' = IF version = 0 THEN SCHEMAS ELSE schemas
      /\ bootstrap' = [returned |-> ~raises, applied |-> Pending # {} /\ version > 0]
      /\ bootstrap' # bootstrap \/ version' # version
      /\ UNCHANGED <<at, step, frame, log, data, head, used>>

\* By hand: DROP SCHEMA ... CASCADE, while alembic_version stays in public
DropSchema(s) ==
  /\ s \in schemas
  /\ Use("drops")
  /\ schemas' = schemas \ {s}
  /\ IF s = "gold" THEN warehouse' = None /\ features' = NoTables
     ELSE UNCHANGED <<warehouse, features>>
  /\ bootstrap' = [returned |-> FALSE, applied |-> FALSE]
  /\ UNCHANGED <<at, step, frame, log, store, quality, head, version>>

\* Or alembic_version, as the error of apply_migrations advises
DropVersion ==
  /\ version > 0
  /\ Use("drops")
  /\ version' = 0
  /\ bootstrap' = [returned |-> FALSE, applied |-> FALSE]
  /\ UNCHANGED <<at, step, frame, log, data, head, schemas>>

\* Or the whole database
DropDatabase ==
  /\ version > 0
  /\ Use("drops")
  /\ version' = 0 /\ schemas' = {}
  /\ warehouse' = None /\ features' = NoTables
  /\ bootstrap' = [returned |-> FALSE, applied |-> FALSE]
  /\ UNCHANGED <<at, step, frame, log, store, quality, head>>

Init ==
  /\ at = [j \in Jobs |-> 1] /\ step = [j \in Jobs |-> "idle"]
  /\ frame = [j \in Jobs |-> NoTables]
  /\ log = << >> /\ store = None /\ warehouse = None /\ features = NoTables
  /\ quality = << >>
  /\ head = 1 /\ version = 0 /\ schemas = {}
  /\ bootstrap = [returned |-> FALSE, applied |-> FALSE]
  /\ used = [errors |-> 0, crashes |-> 0, drops |-> 0]

Step(j) ==
  \/ Begin(j) \/ Refused(j) \/ Raise(j) \/ Crash(j)
  \/ gold(j) \/ warehouseLoad(j) \/ warehouseEnd(j) \/ warehouseFails(j) \/ dbt(j)
  \/ ReadProgramFacts(j) \/ ReadYearLevelFacts(j) \/ NoFacts(j) \/ WriteProgramFeatures(j) \/ WriteYearLevelFeatures(j)
  \/ featuresEnd(j) \/ OtherStage(j)

Next ==
  \/ \E j \in Jobs : Launch(j) \/ Step(j)
  \/ Release \/ apply_migrations \/ DropVersion \/ DropDatabase
  \/ \E s \in SCHEMAS : DropSchema(s)

Spec == Init /\ [][Next]_vars

(***************************************************************************)
(* Properties                                                               *)
(***************************************************************************)

STEPS == {"idle", "ready", "handler", "loaded", "read", "program", "year level", "stored", "over"}

STATUSES == {"RUNNING", "SUCCESS", "FAILED"}

\* The builds made so far, and what a pair of feature tables may be computed from
Builds == 0 .. Len(quality)

Tables == [program : Builds, year_level : Builds]

LogRows == [job : Jobs, stage : {Stages[i] : i \in DOMAIN Stages}, status : STATUSES]

\* The type of every variable: a job is at a stage there is, what a job or a table holds is a
\* build that was made, alembic_version names a revision on disk.
TypeOK ==
  /\ at \in [Jobs -> DOMAIN Stages] /\ step \in [Jobs -> STEPS]
  /\ frame \in [Jobs -> Tables]
  /\ log \in Seq(LogRows)
  /\ quality \in Seq(QUALITIES)
  /\ store \in Builds /\ warehouse \in Builds /\ features \in Tables
  /\ head \in DOMAIN Needs /\ version \in 0 .. head /\ schemas \subseteq SCHEMAS
  /\ bootstrap \in [returned : BOOLEAN, applied : BOOLEAN]
  /\ used \in [DOMAIN Limit -> Nat] /\ \A e \in DOMAIN Limit : used[e] <= Limit[e]

\* The tests have passed since anything last touched the warehouse
TestedBefore(n) ==
  \E d \in 1 .. n : /\ log[d].stage = "dbt" /\ log[d].status = "SUCCESS"
                   /\ \A k \in d .. n : log[k].stage # "warehouse"

\* What the last row of the stage features may be relied on for.  When it is SUCCESS, the rows
\* of the two feature tables come from one build, although each table is replaced in a
\* transaction of its own and jobs overlap and end between the two (a drop leaves a table
\* empty); and when no row of the stage warehouse follows the last success of dbt, that build
\* has passed the tests: an overlap that lets features be computed from an untested warehouse
\* is one the log shows.
FeaturesAreWhatTheLogSays ==
  \A n \in DOMAIN log :
    /\ log[n].stage = "features" /\ log[n].status = "SUCCESS"
    /\ \A k \in n + 1 .. Len(log) : log[k].stage # "features"
    => LET builds == {features.program, features.year_level} \ {None}
       IN  /\ \A b, c \in builds : b = c
           /\ TestedBefore(n) => \A b \in builds : quality[b] = "good"

\* apply_migrations returns only over a database that has every schema, whatever was dropped
\* before it, unless it had revisions to apply on top of an earlier version: then it does not
\* look (_expected_schemas_missing is called only at head).
ReturnMeansRebuilt ==
  bootstrap.returned /\ ~bootstrap.applied => schemas = SCHEMAS /\ version > 0
=============================================================================
