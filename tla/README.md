# TLA+ verification of the university analytics platform

This directory models the parts of the platform whose correctness depends on the
order of steps, on failures and on concurrency, checks the models with TLC and
proves the main results with TLAPS for every value of the constants. File names
without a directory are modules of this directory; all other paths are
relative to the root of the repository.

## 1. The system

A batch pipeline, started by hand or twice a year (`orchestration/definitions.py`),
turns simulated registrar extracts into a star schema and per-program forecasts:

    data_generator (CSV) -> bronze -> silver -> validation -> gold -> warehouse
      -> dbt -> features -> training -> evaluation -> forecast -> forecast_rollup

Each arrow is a dependency between two Dagster assets (`orchestration/assets.py`).
Stages communicate through stored data only: Parquet objects in a bucket (or a
directory), a DuckDB log, and PostgreSQL schemas `silver` and `gold`. The log is locked while a stage runs but not between stages, and nothing prevents two pipelines, or a pipeline and a
script run by hand, from overlapping.

| Component | State | Operations | Interacts with | Hard behaviour | What makes it correct |
|---|---|---|---|---|---|
| data generator (`data_generator/generators`) | per-student simulation; CSV partitions; manifest | students, admissions, progression, validation, noise, manifest | writes what bronze reads, what Silver's checks assume | a long legal sequence of semesters per student; leftovers of earlier runs; a crash between two files | the records of a student agree with each other, with Silver's checks and with the disk; a passed manifest is true |
| bronze ingestion (`pipelines/ingestion`, `common/metadata.py`, `common/storage.py`) | objects per batch; append-only ingestion log | `ingest_all`, `ingest_one`, `audit_bronze` | CSV -> objects; silver reads the objects of all batches | crash between object and log row, repeated ingestion, changed source, store and log lost separately | at most one success per unit in the log, and none without its object; what is reported is stored; the store only grows |
| silver (`pipelines/silver`) | Parquet per entity, quarantine files | `clean_all`, `process_enrollment`; by hand `run_business_validation` | reads bronze, feeds gold and the `silver` schema | files written before a gate raises, stale quarantine, checks against tables being rewritten, overlap of pipelines | every row is kept, superseded or quarantined; the latest version wins; a bad batch stops; the rules settle |
| gold (`pipelines/gold`) | dimensions (SCD2 for students), facts, KPI tables | `build_dimensions`, `build_facts`, `build_kpi` | reads silver, feeds the warehouse | version intervals, as-of joins, surrogate keys | intervals of a student tile time; a fact finds exactly one version |
| warehouse load (`load_*_to_postgres.py`, `common/postgres.py`) | `silver`, `gold` schemas | delete-and-insert of many tables in one transaction | read by dbt, features, forecasting | deferred foreign keys, failure halfway | readers see the old or the new star, never a mixture |
| features (`build_ml_features.py`) | two feature tables | rebuild | read by training and forecast | read twice and replaced separately while the warehouse changes | both tables come from one tested warehouse, or the log shows it |
| walk-forward evaluation (`train_prophet.py`, `baselines.py`, `count_model.py`) | none | folds, errors per algorithm | called by the deployment | boundaries of folds and seasons | only earlier periods train a fold |
| **deployment and registry** (`deploy_forecast.py`, `model_registry.py`) | `gold.model_registry`, `gold.fact_forecast`, artifacts | gate, evaluate, compare, record, publish | reads features, feeds rollup | overlap of runs, swallowed errors, end between two commits, stale reads | see section 3 |
| **rollup** (`rollup_forecast.py`) | college and campus rows of `gold.fact_forecast` | read champions' forecasts, upsert totals | reads what deployments write | a transaction per row, overlap, rows left behind | see section 3 |
| orchestration (`orchestration/`) | run log in DuckDB | start, succeed, fail a stage | wraps every stage, holds the lock on the log meanwhile | jobs overlap between stages, are refused, end, or start in the middle | what the log says of a stage is true of the tables |
| migrations (`common/migrations.py`, `migrations/`) | `alembic_version`, schemas | upgrade, assert up to date | gate for the loads | a version that survives what it describes | an upgrade that returns leaves every schema |
| settings, errors, logging, schemas, dbt, dashboard | none of their own | - | - | - | - |

`PROJECT.json` lists every component with its status and, under `hazards`, the
places in the code where something can go wrong that tests would hardly reach.

## 2. Modules

| Module | Models | Used by |
|---|---|---|
| `WalkForward` | the pure decisions: folds, eligible algorithms, ranking, buildability, promotion, retrain gate | `DeployForecasts` |
| `ChampionBoard` | abstract: what registry and forecast table promise their readers | `DeployForecasts` (refines it), `ForecastRollup` (uses it) |
| `DeployForecasts` | `deploy_forecasts` by any number of concurrent runs, one action per database call | |
| `ForecastRollup` | `build_rollups` by any number of runs beside `ChampionBoard` | |
| `BronzeStore` | abstract: an append-only store of timed objects, which may be lost as a whole | `Bronze` (refines it), `Silver` (uses it) |
| `Bronze` | `ingest_all` with the run log and the object store, one action per read or write | |
| `Silver` | `clean_all`, `process_enrollment` and the assets around them, beside `BronzeStore` | |
| `BusinessRules` | `run_business_validation` and `load_silver_to_postgres` beside the cleaning that replaces their input | |
| `StudentLifecycle` | `simulate_student` and the rules it draws from, one semester at a time | `GenerateDataset` |
| `GenerateDataset` | `generate_full_dataset`, stage by stage, several times over one directory | |
| `Pipeline` | the chain of assets with its run log, the feature tables, dbt as a gate, and the migrations | |
| `StudentVersions` | the versions of a student in `dim_student` and the condition of the as-of join | `Gold`, `Warehouse` |
| `Warehouse` | abstract: readers see the whole star of one snapshot of Silver, without surrogate keys | `Gold` |
| `Gold` | `build_all_dimensions`, `build_all_facts`, `build_kpi` and `load_gold_to_postgres` by overlapping pipelines | |
| `MCDeployForecasts`, `MCForecastRollup`, `MCBronze`, `MCSilver`, `MCGold`, `MCBusinessRules`, `MCGenerateDataset`, `MCPipeline` | finite instances | the configurations |
| `DeployForecasts_proofs`, `ForecastRollup_proofs`, `Bronze_proofs`, `Silver_proofs`, `BusinessRules_proofs`, `Gold_proofs`, `GenerateDataset_proofs`, `Pipeline_proofs` | theorems | |

### WalkForward

Operators only. A history is a set of period ordinals; an error (MAE) is a natural
number, counted in thirds of the last digit `NUMERIC(14, 4)` keeps, so that
`DbMae` can round down, up, or not at all. Which algorithms end with a defined
error follows from the folds: `Folds` needs one earlier period, `SeasonalFolds`
the same semester one year before; `count_model` may be absent because each of
its fits may fail. The order of `select_champion_algorithm` is (error, rank); the
set it returns is empty exactly where the code raises `ValueError`.

### DeployForecasts

| Variable | Code |
|---|---|
| `features` | rows of `gold.ml_program_forecast_features`, as program -> periods |
| `registry`, `champions` | `gold.model_registry`; index = key; `champions` = rows with `is_champion` |
| `forecasts` | program-grain rows of `gold.fact_forecast` |
| `pc`, `at` | position of each run in the body of the loop, and the (program, metric) it is at |
| `snap` | the data frame `load_series` returned |
| `cand` | `candidate`, `decision` |
| `txn` | the registry transaction: champion rows the UPDATE's snapshot saw, rows it has locked |
| `key` | `model_registry_key`; 0 after a swallowed failure |
| `used` | how much of each bound has been spent |

A run goes through `Launch` (load), and per series `SkipInsufficientHistory` or
`RetrainGate`, `Evaluate` or `NothingToEvaluate`, then `RecordRejected`, or
`BeginPromotion`, `DemoteChampion`, `CommitPromotion` / `PromotionConflict` and
`WriteForecast` / `ForecastRefused`. `RecordFault` is a registry transaction that
raises (swallowed, key 0), a failing `Read` answers `None` as the code does,
and `Abort` is the end of a run anywhere: a killed process, a failed fit or a
failed forecast INSERT. PostgreSQL is modelled at READ COMMITTED: an UPDATE sees
the champions of its snapshot, waits for locks another transaction holds on them,
and then updates those that still are champions; the partial unique index is
checked at the INSERT.

Abstractions: forecast values and pickled artifacts are left out; a model's
version string is identified with its registry key (two runs finishing a series in
the same second would collide; the swallowed INSERT failure is one of the causes
of `RecordFault`); rows are stamped in the order they are inserted.

### ForecastRollup

A total is represented by the set of program forecasts it sums, of which the stored
sums and `covered_entity_count` are functions. Reading is one statement;
each `WriteRow` is one transaction; college rows precede campus rows.
Deployments act as `ChampionBoard` allows; `Overlapping = FALSE` restricts them to
what `RetrainedWhenDue` guarantees of deployments that do not overlap.

### Bronze

| Variable | Code |
|---|---|
| `backend` | `STORAGE_BACKEND`: `LocalFileStorage` or `S3Storage` |
| `source` | state of each source file: contents, absent, malformed (empty or without a required column), unreadable (the CSV parser raises) |
| `objects` | `bronze/<entity>/<partition>/batch_id=<...>`; a file cut short by a crash, or an S3 object of another size than was put, is `Torn` |
| `log` | `pipeline_run_log`, rows of the stages `bronze_ingestion` and `bronze_schema_validation` |
| `run`, `batch`, `results` | locals of `ingest_all` and `ingest_one`; a batch id is the number of the run |
| `asset` | how the Dagster asset `bronze` last ended |

A unit is an (entity, partition_key) pair; `ingest_all` visits them in a fixed order. Per
unit: `NoSourceFile`, `Skip`, or `Begin` (which logs drift) and `Load`, then `Write`,
`RecordSuccess`, `Report`; `Reject` is what the `except` clause catches, `ParserError`,
`WriteNotVerified` and `Abort` end the run. `S3Storage.write_bytes` raises when `head_object` does not confirm the put, and removes
nothing: `UnverifiedOutcomes` leaves no object, one of another size, or the whole one under the key. `Return` is the fail-loud guard of the asset.
DuckDB gives one process the file exclusively, so runs do not overlap; sources
change at any step, store and log are lost between runs.

### Silver

| Variable | Code |
|---|---|
| `objects` | the Bronze store, as `BronzeStore` lets it grow; `stamp` is `_ingested_at` |
| `files` | `silver/<entity>/data.parquet` and `silver_quarantine/enrollment/data.parquet` |
| `pc`, `at`, `failed` | the asset a pipeline is in, the entity `clean_all` is at, whether one failed |
| `work` | the data frames and counts of `process_enrollment` between two writes |
| `basis` | history variable: the newest object when the enrollment table was last cleaned |

A pipeline goes through `Start`, `BeginSilver`, `CleanEntity` or `MissingEntity` per entity,
`Validate` (or `NothingToValidate`), `WriteTable`, `WriteQuarantine`, `Gate`, `Gold`;
`Resume` executes the validation stage alone (Dagster's re-execution from the failed step, or
the script), `Crash` ends a stage anywhere. Only one process has the log open at a time,
hence stages exclude each other (`LockFree`) while pipelines do not. A row is a
record of the fields deduplication and checks compare; `Raw` stands for the
normalisation of a status, with `UNKNOWN` for the tagged values. `ROW_NUMBER` picks any
of the rows with the latest time (`dedupe_enrollment` returns the possible results).
Only whole objects are read; log rows of these stages are left out since nothing reads them.

### Gold, StudentVersions, Warehouse

| Variable | Code |
|---|---|
| `silver` | which snapshot the Parquet tables of `silver/` hold; the tables of a snapshot are sets of rows |
| `gold` | `gold/<table>/data.parquet`, for the files that exist |
| `warehouse` | the tables of the PostgreSQL schema `gold` that a load replaces |
| `registry` | `gold.model_registry`: the program keys of its rows, with the program each stood for when written |
| `pc`, `queue` | where each pipeline is, and the tables its stage has computed and not yet written |
| `basis` | history variable: the snapshot the store is the star of, `Building`, or `Lost` |

`Start`, `BuildDimensions`, `BuildFacts`, `BuildKpi` and one `Write` per table are the `gold` asset;
`Load` / `LoadRefused` is the `warehouse` asset, which a pipeline also executes by itself (`Reload`).
`BuildFacts` reads the dimensions back from the store and `BuildKpi` the facts, as the code does.
`Crash` ends a stage between any two tables; `DimensionsRaise` and `FactsRaise` are the exceptions of the
builders. Silver and the stages exclude each other by the lock on the DuckDB log; pipelines do
not. `Accepted` is what the COMMIT checks: foreign keys within the star and from the registry
(deferred since migration 0010 and 0015), the unique indexes of migration 0005, NOT NULL.

Surrogate keys are positions in the sorted rows (`Keyed`), computed anew by every build. A semester is its
`period_ordinal`; its key is that plus one. A version has a program, the semesters it is
valid from and to, and `current` (`_is_current`); `from`/`to` of consecutive shifts follow the code's
running `current_valid_from`. A student row whose entry or shift is outside the calendar raises. `Warehouse` says the
same in terms of students and programs alone: `InProgram` is the program of the last shift not after
the semester.

Abstractions: the dimensions that do not depend on Silver (periods, levels, gender, calendar) are
constants, `dim_college` is represented by `CollegeOf`; a row has the college of its program; a KPI row
has its counts, of which the rates are functions; momentum is left out; a file is
replaced at once. `SilverAssumption` requires of the snapshots that shifts do not precede the
semester of entry, that rows have a position, by which rows of one sort key are ordered, and that a student has one enrollment per semester,
which `dedupe_enrollment` sees to (`GoldReadsValidated` of `Silver`). Only when another pipeline's silver stage has left the table cleaned and not
validated (section 5) could two rows reach `build_fact_retention`, whose lookup would then raise `ValueError` (`build_facts.py:240-241`).

### BusinessRules

| Variable | Code |
|---|---|
| `files`, `quarantine` | `silver/<table>/data.parquet`, `silver_quarantine/<entity>/business_rules.parquet` |
| `queue` | the tables `clean_all` has still to replace |
| `pc`, `at`, `programs`, `work` | where `run_business_validation` is, its `program_df`, and the frames of the entity |
| `loaded`, `warehouse` | the list `loaded` of `load_silver_to_postgres`, and the schema `silver` |
| `history` | history variable: what the first run found, and how the runs since the last cleaning ended |

A run is `BeginRules` (or `MissingDimension`), then per entity `CheckEntity` or `SkipEntity`, `WriteTable`,
`WriteQuarantine`; `CrashRules` ends it anywhere. Each check is the set of rows it removes, applied in the
code's order to what the checks before it left; `Exceeds` compares with the rows read. Rules and cleaning exclude each
other through the log; the load (`BeginLoad`, `ReadTable` per file, `CommitLoad`) does not hold it. `CommitLoad`
checks the constraints of migration 0004 (deferred by 0010). Cleaning is represented by the tables it leaves (`Batches`).
A row has the columns the checks and constraints compare, one count standing for `COUNT_COLUMNS`.

### StudentLifecycle, GenerateDataset

`Semester(j)` is one iteration of the loop of `simulate_student`: the records of the student `j` so far and the loop's locals
(`idx`, `tenure`, `level`, `program`). Probabilities that may be neither 0 nor 1 leave both outcomes open, so a run of the model is any
seed's. The stages of `generate_full_dataset` are actions on `disk`; a partition is the `at` of its lines.
Student ids repeat from run to run, as `make_student_id` makes them. `WriteEvents` replaces the partitions it has records for
and leaves the others, `_clean_output_dir` empties the directory, `apply_all_noise` hits any `MaxNoise` rows with each kind
of noise, and `Crash` and `RejectConfig` end a run before any stage; the next run of `plan` starts over the same directory.

### Pipeline

| Variable | Code |
|---|---|
| `at`, `step`, `frame` | the asset each job is at, its position in it, and the two data frames of `build_and_store_ml_features` |
| `log` | `dagster_pipeline_runs` |
| `store`, `warehouse`, `features` | which build of Gold the store, the schema `gold` and each feature table hold |
| `quality` | history variable: whether a build is good, fails the dbt tests, or is empty |
| `head`, `version`, `schemas` | last revision on disk, `alembic_version`, existing schemas |
| `bootstrap` | whether `apply_migrations` last returned, and whether it had applied something to an older version |

`Begin`, `Refused`, `End`, `Raise` and `Crash` are `_track_asset_run` around the handlers `gold`,
`warehouseLoad`, `dbt`, `ReadProgramFacts` ... `WriteYearLevelFeatures`. A job may start at any stage (Dagster's re-execution
from a failed step, or a selection), once. A revision is the set of schemas it touches and whether it can be
repeated: 0001 creates schemas, 0005 adds constraints without IF NOT EXISTS. The upgrade is one transaction. What a build is
inside is `Gold`'s matter; what the later assets do is `DeployForecasts`' and `ForecastRollup`'s.

## 3. Runs

| Run | Instance | Shows |
|---|---|---|
| `deploy_concurrent` | 2 runs (symmetric), 1 series, histories of 3-5 periods, errors {1,4}, one rebuild, one failed read, one failed transaction, one early end | `OneChampionPerSeries`, `ForecastsMatchRegistry` (every forecast has its model, and, while no run was ended early, every promoted model its forecast), `TrainedSeriesHaveChampion`, `RegistryIsHistory`, and the refinement `ImplementsBoard`, all in the presence of every fault |
| `deploy_sequential` | 1 run repeated, 2 series with programs of their own, one of them graduation_count, errors {1,2,4}, two rebuilds, one failed transaction | `RetrainedWhenDue` (a series is trained when its data has new periods, and only then), `ChampionNeverRegresses`, `StopsOnlyAtDiscontinued`, and the liveness property `EvaluableSeriesGetForecast` |
| `rollup` | 2 runs, 2 programs in 2 colleges, 2 semesters, 3 models, one early end | `NoProgramCountedTwice`, `TotalsBecomeCurrent` |
| `deploy_aborted` | violation | a run ended between two commits leaves a champion that never gets its forecast (`ChampionEventuallyPublished`); README.md:120 promises that every job can be safely re-run |
| `bronze` | 3 runs of 2 units, one semester-scoped, 2 contents, both backends, one change, one loss of the store and one of the log, one fault | `OneSuccessPerUnit`, `ReportedUnitsStored`, `SucceededAssetIsComplete`, `RerunAddsNothing`, and the refinement `ImplementsStore` |
| `silver` | 1 pipeline started twice, 5 ingestions of 4 units, one validation alone, one crash | `GoldReadsValidated`, `LatestIngestedWins`, and, while no validation is repeated alone, `NothingDroppedOnFullRuns` and `FailClosedOnFullRuns` |
| `gold` | 2 pipelines, 3 semesters, 11 snapshots (a program and a student in the middle of the sort order, a second shift, two graduations with a shift between them, seven kinds of bad rows), 2 refreshes of Silver, 2 builds, 1 separate load, 1 crash, 1 model | `VersionsTileTime`; `LoadsOneBuild` (a load never mixes tables of two builds) and `LoadsWholeStar` (what it shows is `Warehouse`'s star of the snapshot), unless a build was lost in the middle; `LoadsWhatFits` (a load of a whole star takes place exactly if the Silver rows are `Loadable` and the registry's keys still exist: the constraints, which speak of surrogate keys of one build, mean what one would say of students, programs and semesters) |
| `business_rules` | 3 runs of the rules, 2 cleanings, 1 load, 1 crash; 7 states of Silver with a program of an unknown college and bad rows on both sides of the tolerance | `NothingLostOnFirstRun` (unless cut short) and `RerunSettles`: two complete runs leave facts and programs in agreement, a run after a complete one is not stopped by the gate, and a load after two meets no constraint the rules look at |
| `generation` | 1 student of any program over 6 semesters (programs of 1, 4 and 5 years); two runs over one directory with 1-3 students, with and without clearing, validation and noise; every refused configuration; 1 crash | `RecordsTellOneStory`, `CleanRowsPassSilver`, `DiskHoldsTheRun`, `PassedManifestIsSound` |
| `pipeline` | 2 jobs (symmetric) over 5 stages, 2 builds of any quality, 3 revisions, one error, one crash, one drop | `FeaturesAreWhatTheLogSays`, `ReturnMeansRebuilt` |
| `gold_retention` | violation | a student who shifts and stays enrolled is counted as not retained (`RetainedIffContinues`) |
| `gold_keys` | violation | a program added in the middle of the sort order makes a registered model that of another program (`ReferencesKeepMeaning`) |

Why the bounds suffice. Two runs produce every race on a series: it takes one run
between a read and a write of another; symmetry is sound because runs are only
compared for equality, and no temporal property with fairness is checked in that run.
A rebuild each of growing and shrinking the history, three lengths around the
threshold of four periods, and errors on both sides of a rounding step reach every
branch of the gate, of the ranking and of the promotion. One fault of each kind is
enough to reach each swallowed exception and each early end, and combinations of
different faults occur. In `rollup`, three models let one program have a retired and a
current champion while the other has one. In `bronze`, three runs are a first ingestion, one after a
loss or a crash, and one that must find everything in order again. In `silver`, five ingestions
give every unit once and one twice, the two enrollment files hold every kind of bad row the four checks
know, and four rows put the tolerance of a quarter between one bad row and two. In `gold`, two builds and a
separate load let a load fall before, between and after the tables of either build; three semesters
hold a first, a middle and a last one, with one and two shifts of a student, two of them in one semester, and one in the semester of
entry; the bad snapshots reach the exceptions of both builders (a shift after the calendar, a level without a
row), the unique indexes, the foreign keys of programs and NOT NULL; foreign keys also fail on stores lost in the middle and when a program
of the registry disappears. In `business_rules`, enrollment tables of four rows put one bad row within the tolerance and two beyond
it, and three runs are one that removes, one that removes what the first left, and one that a load may overlap. In `generation`, six semesters
hold an entry, a shift, a year end at every level, the graduation of the short program and the window's end for the others; the second run over the
directory has other students, a longer or shorter window, or neither noise nor clearing. In `pipeline`, two jobs and two builds give every
overlap of a warehouse stage with the dbt and features stages of the other; three revisions give a first bootstrap, one that needs a
schema and one that does not. Every passing run fires every action of its
module except those its bounds switch off; the runs cover for each other.

Fairness. `FairSpec` asks of each run only weak fairness of its own progress (`Step`,
`LoadForecasts \/ WriteRow`): the pipeline is scheduled every semester and can be
started by hand, and a started process executes its statements. No fairness is
assumed of rebuilds, faults or ends of runs, and their number is bounded, so
"eventually" means once failures cease. `TotalsBecomeCurrent` is conditional on
deployments pausing, since a rollup is stale as soon as the next champion is published.

## 4. Proofs

All theorems hold for every value of the constants allowed by the named assumptions
(`ConstantsAssumption`, `RollupAssumption`, `BronzeAssumption`, `PeriodsAssumption`,
`SilverAssumption`, `ProgramsAssumption`, `ConfigsAssumption`, `RulesAssumption`, `PipelineAssumption`): any number of runs, series, programs, students, shifts, snapshots,
histories, errors and faults.

* `DeployForecasts_proofs` begins with the pure decisions of `WalkForward`: the ranking is a strict total order on any set of evaluated
  algorithms (rank breaks ties), so a winner exists and is unique; the deployed
  algorithm is the best of those that can be built (`DeployedIsBestBuildable`), exists
  whenever there is a fold (`EvaluationDeploys`; since prophet, naive and
  historical_avg can always be built); rounding is monotone, so what is promoted
  is never stored with a larger error (`PromotionNeverWorsens`). This is the true form
  of the sentence in model_registry.py:53-55, which claims the winner is at least as good
  as every baseline: after a fallback it is only the best of the buildable ones.
  Then `deploy_forecasts`: `TypeCorrect` proves types together with `WorkHasHistory` (a
  run past the gate has a non-empty history, so `Last` is defined). The safety
  properties are not inductive: that a promotion is safe depends on what the open
  transaction saw and locked, and that a forecast is traceable on what the pending key
  stands for. `IInv` adds `RunInv`, which says for every run what its `cand`, `txn` and
  `key` mean at its position in the loop. One step per action proves that `IInv` is
  preserved; `OneChampionCorrect`, `ChampionPresent` and the first half of `ForecastsCorrect` follow. Its second half,
  `PromotedAnnounced`, is proved on top: between the two commits of a promotion only the end of the run can come in, so
  that `deploy_aborted` shows the only way a promoted model stays without its forecast. `PassedCorrect` needs that an idle
  run is past no series (`BehindCovered`): each way to the next series (too short, up to date, rejected, written) leaves
  the current one trained on what the run read, and only the swallowed loss of a rejected record does not.
  `HistoryCorrect` is an action property proved from types. `BoardCorrect` is the refinement:
  the initial state maps to an initial state, `RecordRejected` to `Reject`,
  `CommitPromotion` to `Promote`, `WriteForecast` to `Publish`, and everything else to
  a stutter. `StopCorrect` follows from the definition of the folds and `WorkHasHistory`.
  With one run and no failed reads (`Undisturbed`), `RetrainingCorrect` and `ChampionCorrect` from `SeqInv`: what the run read is still what
  the tables hold when it writes.
* `Bronze_proofs`: everything the run `bronze` checks, from one invariant. None of the properties is
  inductive: that a success is logged after its object needs `Written` and `Loaded` (what the
  run holds at its position), that reports are true needs `LogVouches` (until the store is lost, a success in the log has a whole object) and `Written`, that the
  asset is complete needs `Visited` (every unit before the current one has a result), that a
  run adds nothing twice needs `Entitled` (the reason found at the check still holds at the write), and
  `ImplementsStore` needs `Ordered` (objects come from earlier batches or from units already visited),
  from which `StampOrder` derives that a new object is later than all others.
* `ForecastRollup_proofs`: types (which contain that totals sum published forecasts only) and
  `NoProgramCountedTwiceCorrect`, from the fact that what a run has read holds at most one
  forecast per program.
* `Silver_proofs`: types, which need that Bronze holds one object per ingestion, hence that the newest object is the last
  ingestion (`NewestIs`), and that everything counted is finite; and, for pipelines one after the other (`OneAtATime`), all that the run `silver`
  checks, from `IInv`. `TableInv` carries the latest version of a key through both deduplications: dropping exact duplicates may keep an
  older row of another content beside it (`HasLatest`), the second one keeps only rows that are not older than any cleaned one (`OnlyLatest`). It holds of
  a table validated before, so `LatestCorrect` and `ValidatedCorrect` cover validations repeated alone. `CheckedAgain`
  is why four checks in sequence may be asked again of the result: three look at each row by itself, the fourth finds less in fewer rows. `KeepInv`, which needs
  that no validation was repeated, says where the keys of the cleaned rows are at each step; the bound of `FailClosedCorrect` follows since a key that
  is gone has a quarantined row (`KeysFinite`).
* `Gold_proofs` begins with the versions of a student, `VersionsTile`. The code closes a version in the semester before the shift that
  opens the next, skips what shifts in the semester of entry would close, and gives
  a semester with several shifts versions of no semester. The proof takes the first shift after
  the semester in question (`EarliestExists`, from the well-foundedness of finite sets): the
  version it closes covers the semester, all others end before or begin after it.
  `GoldInvariant` says table by table that what the stage holding the lock has written and
  still has to write are tables of `Built(Snapshots[silver])` (`Done`, `StageInv`), which needs that
  facts depend on the dimensions of the store only (`FactsReadDimensions`), that no two stages
  overlap (`OneStage`) and that Silver does not change under the lock. With the last write the store
  is the whole build, hence `OneBuildCorrect`. `TileCorrect` adds `DimensionInv` (a dimension in
  the store comes from a snapshot whose versions are all in the calendar), that sorting numbers
  versions one to one (`VersionKeys`), and that the unique index leaves one master per student.
  `WholeStarCorrect`, that a load shows readers the star `Warehouse` defines without keys, resolves the keys of
  `Built` again. `Means` says what accepted dimensions mean (`DimensionMeans`): keys of programs are one to one, every semester of a
  student is covered by one row, under the program of that time, and that row covers the next semester too unless the student shifts in it. From
  it `JoinMeans` gives each known row one version and every other row none, so the facts say the rows of the
  snapshot one to one (`EnrollmentsSay`, `OutcomesSay`, `ShiftsSay`; the foreign keys exclude programs of key NULL), the same
  key next semester is the same student without a shift (`GoesMeans`), and counts agree because a
  one-to-one image has as many elements (`SameCount`). NOT NULL is needed for the KPIs, which else have groups
  without enrollments, and the grain for the students retained. `RaiseInv` carries that only a snapshot whose dimensions
  could be built becomes a whole store.
  `LoadsFitCorrect` turns this around: `AcceptedIsLoadable` shows that the COMMIT of a whole star succeeds exactly if the snapshot is
  `Loadable`. Its halves are `ForeignKeysFit` (a key is NULL exactly if its program is not in the snapshot, for the rows that are joined),
  `GrainFits` (two outcomes of a student have one key exactly if no shift lies between them, by `StaysInVersion`, which looks for the first
  semester a version does not cover) and `RatesFit` (a group of the KPIs has enrollments exactly if the college has some in the semester).
  `AppendingKeepsMeaning` says where the violation of `gold_keys` stops: a key is a position (`SortedPositions`), positions agree
  between snapshots whose programs differ only at the end of the sort order (`KeysAgree`; a key that falls away while the registry
  uses it is refused by the foreign key), and what store and warehouse hold is keyed as in some snapshot (`MeaningInv`). The
  condition `ProgramsOnlyAppended` is one on the data; the code does not see to it.
* `GenerateDataset_proofs`: `OneStory` and `SilverAccepts`, for any programs, durations, windows and plans. Neither is
  inductive, since both are about the rows alone and the next row depends on the loop's locals. `JourneyInv` says what these are
  to the rows: `Clock` (semester and tenure count the rows), `Current` (the last row has the current program), `ShiftsTold`,
  `OutcomesTold` (an outcome only after the loop has ended) and `LevelsTold` (levels rise by at most one and stay under the cap of the program of
  entry). An iteration appends one row: `EndInv` and `StayInv` show that the old rows keep their meaning (`SameBefore`)
  and that the new one has it.
  `ManifestCorrect` and `DiskCorrect` extend this to the files, for any cohorts, plans, noise and crashes. `VerdictInv` says that what the
  validation accepted is still what a run holds when it writes its manifest; `CleanInv` says of a run over an emptied directory
  which records are on disk at each stage: `PlacedInv` and `FunnelInv` for students and admissions, and
  `EventInv` for the entities `WriteEvents` replaces one by one, before (`Pending`) and after it came to them.
* `BusinessRules_proofs`: all that the run `business_rules` checks, for any tables the cleaning may leave. `RunInv` says that what a run has
  checked refers to the programs it read at its beginning, at each position of its loop. `RerunSettles` counts complete runs since the last
  cleaning, and is not inductive: after one complete run a table is free of what the checks remove, but beside
  the program table as the run found it, which the run has replaced meanwhile. `SettledInv` says that what passed beside all programs still passes beside fewer, except for rows
  of the programs removed (`program_id` is a key), which the second run removes by the check that has no gate. `LoadInv` is why a load of files read one by one meets every constraint: what it read stays true, because the runs keep the
  dimensions settled. `FirstInv` says where each row of the first run is at each position.
* `Pipeline_proofs`: types; `BootstrapCorrect`, since with nothing to apply a version there is must be the last one
  (`NothingPending`) and then the schemas are looked at; and `FeaturesCorrect`. The property speaks of old rows and of tables others
  may have replaced since, and needs `IInv`: at most one job is inside a stage and its RUNNING row is the last row
  (`OneInside`, `RunningIsLast`), so that nothing is loaded while features are read or written; what the warehouse holds has passed the tests
  when no warehouse row follows them (`WarehouseTested`: the load comes after its own RUNNING row); and the two
  frames are one build (`FrameInv`), which a drop may only make empty. While tables are being replaced the last row is RUNNING and claims
  nothing; `EndInv` closes the argument, `QuietInv` covers what ends without a row.

Every invariant and action property of a passing run is proved. Only model-checked: liveness
(`EvaluableSeriesGetForecast`, `TotalsBecomeCurrent`), since neither ENABLED nor fairness is within the reach of the prover;
and the violations, which are counterexamples of an instance. In `Silver`, the theorems
are about pipelines one after the other, as the run is; section 5 says what overlapping ones do.

## 5. Where the code and its documents disagree

Shown by a run: `deploy_aborted`, `gold_retention`, `gold_keys` (section 3). The other disagreements met while modelling are
left to this list; the passing properties are stated up to them.

* A failed read of the champion is swallowed (`model_registry.py:226`) and taken for "no champion": a worse
  candidate is promoted, against `model_registry.py:17-19`. `deploy_sequential`, which checks
  `ChampionNeverRegresses`, has no failed reads; `deploy_concurrent` has.
* `rollup_forecast.py:12-13` says the parts always add up to the whole. Rows of a semester its programs no longer forecast are
  never removed: a campus row is overwritten without a college whose row stays. `TotalsBecomeCurrent` is about the semesters some
  champion forecasts.
* "Fail closed" (docs/03_Data_Engineering.md:122): `process_enrollment` replaces its own input before it compares rates, so
  executing the stage again after its gate failed passes. `FailClosedOnFullRuns` is stated for runs in which validation is not repeated alone.
* Two overlapping pipelines in `Silver`: the silver stage of the second replaces the validated table before the gold stage
  of the first reads it (`GoldReadsValidated` holds for pipelines one after the other).
* A build of Gold lost in the middle leaves new dimensions beside old facts; another load shows the mixture whenever its keys
  exist. `LoadsOneBuild` and `LoadsWholeStar` are stated up to that case.
* A torn object of `LocalFileStorage` counts as stored. So does an object `S3Storage.write_bytes` has refused: the message says it is
  "treating this as a failed write" (`storage.py:185-191`), but the object stays under its key. When a unit was logged as a success, the
  store was lost, and the next run's write of the unit was refused in this way or ended in the middle, a third run finds the success
  in the log and a key in the store and reports `SKIPPED_ALREADY_INGESTED` over an object that is not the file. `ReportedUnitsStored` vouches
  for skipped units only up to the first loss of the store, and for ingested ones always. The audit computes the key of an object from the first success of a unit and reports
  it missing after a loss and repair.
* `business_rules.py` is called by no asset, although docs/19:155 and docs/18:102 describe it so, and `assets.py` imports
  `load_silver_to_postgres` without calling it. docs/19 section 6.1 has any check over 25% escalate; the college, count, program and
  shifter checks have no gate. A second run overwrites the quarantine file of the first ("quarantine, don't silently drop",
  `business_rules.py:15`), a run cut short between table and quarantine loses the rows, and an old quarantine file stays when nothing is bad.
* A run of the rules that the gate has stopped may pass when it is simply started again: it replaced the program table before it came to
  the facts, and rows of a program it removed are quarantined by a check without a gate before the check with one counts them
  (snapshot `GhostGate` of `MCBusinessRules`).
* `assets.py:261` says a snapshot that failed its tests does not reach features. With overlapping jobs it may; the log then shows a
  warehouse row after the last success of dbt, which is the exception `FeaturesAreWhatTheLogSays` makes. A job refused by the lock of the log
  fails without any row.
* `apply_migrations` asks for missing schemas only when there is nothing to apply; with a revision on top of an older version it
  may return over a database without a schema that revision does not touch (`migrations.py:97-113` says "must either fully
  rebuild or fail loudly"). Its advice to drop `alembic_version` alone fails loudly where the tables of migration 0005 survived.
* `generate_all.py`: with `clean=False` partitions of an earlier run stay, and after a crash so does its "passed" manifest; the
  manifest and the noise are written before the exception of a failed validation, and a bad noise configuration is refused after
  everything else is on disk; the validator always reads the default volumes.
* The cap of a year level and the clock of completion are those of the program of entry, the plausible level of Silver is that of the current
  one: a shift to a shorter program makes rows the rules quarantine (`CleanRowsPassSilver` exempts shifters).
* `build_ml_features.py:152-156` says a row is never dropped. A program without enrollment and graduation in a semester has none,
  so that its lag is not the semester before.

## 6. Not modelled, and why

Numerical content (Prophet, GLM fits, intervals, probabilities, KPI values, the window SQL of the features): data the control flow
does not depend on beyond what is listed above. Model artifacts and the evaluation report: files nothing
reads back. dbt and Alembic: external programs, of which the outcome is modelled. Settings, error classes, logging, schemas, the
dashboard: no state of their own. `audit_bronze` only reads. Text hygiene, type coercion and the schema reports of Silver block nothing; the
college, program, graduation and shifter tables are cleaned like the others. The rates and momentum of the KPI tables
and the static dimensions are left out of `Gold`. Loads and feature builds started by hand, outside of Dagster, take
no lock. `BusinessRules` has such a load of the `silver` schema; in `Gold` (`load_gold_to_postgres.py:96-104`) and `Pipeline` every load is a Dagster stage,
so a load by hand while a build is writing, which could mix two builds, is not covered by `LoadsOneBuild` (its mutant shows it). Durations of programs are whole
years in `StudentLifecycle`; `round(nominal_duration_years * 2)` of a fraction is not covered. Two generators over one directory at the same time.

## 7. What could be added

Models: overlapping pipelines in `Silver` with the property the log can carry, as in `Pipeline`; a composition of
`GenerateDataset` with `Bronze`, in which a regenerated extract meets a log that calls its units ingested.
