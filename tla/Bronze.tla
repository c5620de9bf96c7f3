-------------------------------- MODULE Bronze --------------------------------
(***************************************************************************)
(* ingest_all and ingest_one (pipelines/ingestion/ingest_to_bronze.py) with   *)
(* the run log in DuckDB (common/metadata.py) and the object store            *)
(* (common/storage.py).  Log and store fail independently: either may be lost *)
(* while the other survives, and a run may end between a write to one and a   *)
(* write to the other.  A run holds the exclusive lock of the DuckDB file     *)
(* from its first to its last step, so runs do not overlap; the source        *)
(* files change underneath them at any time.  The two reference units, whose   *)
(* configuration is validated before the first unit, are units with a source  *)
(* that is always well formed.                                               *)
(***************************************************************************)
EXTENDS Integers

CONSTANTS
  NumUnits,        \* (entity, partition_key) units, visited in the order 1..NumUnits
  SemesterScoped,  \* units whose source file may legitimately be absent
  Contents,        \* what a well-formed source file may hold
  Suspect,         \* contents that violate the per-field schema
  Backends,        \* values of STORAGE_BACKEND considered: "local", "minio"
  MaxRuns,         \* bound: runs of ingest_all
  MaxChanges,      \* bound: changes of a source file
  MaxLosses,       \* bound: losses of the store, and as many of the log
  MaxFaults        \* bound: writes that cannot be verified, runs that end in the middle

Units == 1..NumUnits

\* States of a source file other than well-formed: no such file, empty or
\* lacking a required column, and one that read_csv raises on
NoFile == "no file"
Malformed == "malformed"
Unreadable == "unreadable"

\* An object that does not hold the bytes that were written
Torn == "torn"

SourceStates == Contents \cup {NoFile, Malformed, Unreadable}

ASSUME BronzeAssumption ==
  /\ NumUnits \in Nat \ {0}
  /\ SemesterScoped \subseteq Units
  /\ Contents \cap {NoFile, Malformed, Unreadable, Torn} = {}
  /\ Suspect \subseteq Contents
  /\ Backends \subseteq {"local", "minio"}
  /\ MaxRuns \in Nat /\ MaxChanges \in Nat /\ MaxLosses \in Nat /\ MaxFaults \in Nat

VARIABLES
  backend,   \* STORAGE_BACKEND of this deployment
  source,    \* unit -> the state of its source
  objects,   \* the objects in the store; the key is made of unit and batch
  log,       \* pipeline_run_log
  run,       \* the run in progress: its step, unit, force flag and loaded content
  batch,     \* runs started so far; the last one's number stands for its batch_id
  results,   \* the list of summaries ingest_all is building
  asset,     \* how the bronze asset last ended
  used       \* how much of each bound has been used

vars == <<backend, source, objects, log, run, batch, results, asset, used>>

(***************************************************************************)
(* Types                                                                    *)
(***************************************************************************)

STAGE == "bronze_ingestion"
SCHEMA_VALIDATION_STAGE == "bronze_schema_validation"

Object == [unit: Units, batch: 1..MaxRuns, content: Contents \cup {Torn}]

LogRow == [stage: {STAGE, SCHEMA_VALIDATION_STAGE}, unit: Units, batch: 1..MaxRuns,
           status: {"SUCCESS", "FAILED", "DRIFT_DETECTED"}]

Statuses == {"SUCCESS", "SKIPPED_ALREADY_INGESTED", "NO_SOURCE_FILE", "FAILED"}

\* Not an element of Contents: nothing loaded yet
Nothing == NoFile

Idle == [step |-> "idle", unit |-> 1, force |-> FALSE, content |-> Nothing]

NoResults == [u \in Units |-> "pending"]

Limit == [changes |-> MaxChanges, stores |-> MaxLosses, logs |-> MaxLosses, faults |-> MaxFaults]

Use(e) ==
  /\ used[e] < Limit[e]
  /\ used' = [used EXCEPT ![e] = @ + 1]

TypeOK ==
  /\ backend \in Backends
  /\ source \in [Units -> SourceStates]
  /\ objects \subseteq Object
  /\ log \subseteq LogRow
  /\ run \in [step: {"idle", "check", "load", "write", "record", "report", "done"},
              unit: Units, force: BOOLEAN, content: Contents \cup {Nothing}]
  /\ batch \in 0..MaxRuns
  /\ results \in [Units -> Statuses \cup {"pending"}]
  /\ asset \in {"none", "succeeded", "failed"}
  /\ used \in [DOMAIN Limit -> Nat]

(***************************************************************************)
(* The two stores                                                           *)
(***************************************************************************)

\* Mutant of Put: a key without the batch id
PutWithoutBatchId(u, b, c) ==
  {o \in objects : o.unit # u} \cup {[unit |-> u, batch |-> b, content |-> c]}

\* The key has a batch_id component, so a write never meets an older object
Put(u, b, c) == objects \cup {[unit |-> u, batch |-> b, content |-> c]}

\* list_keys under the prefix of the unit, whatever the batch
list_keys(u) == {o \in objects : o.unit = u}

Row(stage, status) == [stage |-> stage, unit |-> run.unit, batch |-> batch, status |-> status]

has_successful_run(u) ==
  \E r \in log : r.stage = STAGE /\ r.unit = u /\ r.status = "SUCCESS"

\* Mutant of record_success_once: insert without the check
record_success == log \cup {Row(STAGE, "SUCCESS")}

\* Check and insert in one transaction: a later batch of the unit adds no row
record_success_once ==
  IF has_successful_run(run.unit) THEN log ELSE log \cup {Row(STAGE, "SUCCESS")}

(***************************************************************************)
(* ingest_all                                                               *)
(***************************************************************************)

Launch(force) ==
  /\ run.step = "idle"
  /\ batch < MaxRuns
  /\ batch' = batch + 1
  /\ run' = [Idle EXCEPT !.step = "check", !.force = force]
  /\ results' = NoResults
  /\ UNCHANGED <<backend, source, objects, log, asset, used>>

\* Mutant of Conclude: one unit too many
ConcludeTooFar(status) ==
  /\ results' = [results EXCEPT ![run.unit] = status]
  /\ run' = [run EXCEPT !.step = "check", !.unit = @ + 1, !.content = Nothing]

\* Append the unit's summary and go on to the next one
Conclude(status) ==
  /\ results' = [results EXCEPT ![run.unit] = status]
  /\ run' = IF run.unit = NumUnits
            THEN [run EXCEPT !.step = "done", !.content = Nothing]
            ELSE [run EXCEPT !.step = "check", !.unit = @ + 1, !.content = Nothing]

\* An exception nothing in ingest_all catches, or the end of the process
EndRun ==
  /\ run' = Idle
  /\ results' = NoResults
  /\ asset' = "failed"

NoSource == run.unit \in SemesterScoped /\ source[run.unit] = NoFile

NoSourceFile ==
  /\ run.step = "check"
  /\ NoSource
  /\ Conclude("NO_SOURCE_FILE")
  /\ UNCHANGED <<backend, source, objects, log, batch, asset, used>>

\* Mutants of AlreadyIngested: trust the log; look for this run's batch only
LoggedOnly(u) == has_successful_run(u)
IngestedInBatch(u) == has_successful_run(u) /\ \E o \in list_keys(u) : o.batch = batch

\* Logged and present: both must agree
AlreadyIngested(u) == has_successful_run(u) /\ list_keys(u) # {}

Skip ==
  /\ run.step = "check"
  /\ ~NoSource
  /\ ~run.force
  /\ AlreadyIngested(run.unit)
  /\ Conclude("SKIPPED_ALREADY_INGESTED")
  /\ UNCHANGED <<backend, source, objects, log, batch, asset, used>>

\* A success in the log without any object is drift: log it and ingest again
Begin ==
  /\ run.step = "check"
  /\ ~NoSource
  /\ run.force \/ ~AlreadyIngested(run.unit)
  /\ log' = IF ~run.force /\ has_successful_run(run.unit)
            THEN log \cup {Row(STAGE, "DRIFT_DETECTED")} ELSE log
  /\ run' = [run EXCEPT !.step = "load"]
  /\ UNCHANGED <<backend, source, objects, batch, results, asset, used>>

\* load_fn and _validate_file_level: the gate in front of the store
Load ==
  /\ run.step = "load"
  /\ source[run.unit] \in Contents
  /\ run' = [run EXCEPT !.step = "write", !.content = source[run.unit]]
  /\ UNCHANGED <<backend, source, objects, log, batch, results, asset, used>>

\* IngestionError and FileNotFoundError are caught: the other units go on
Reject ==
  /\ run.step = "load"
  /\ source[run.unit] \in {NoFile, Malformed}
  /\ log' = log \cup {Row(STAGE, "FAILED")}
  /\ Conclude("FAILED")
  /\ UNCHANGED <<backend, source, objects, batch, asset, used>>

\* A parser error is not caught
ParserError ==
  /\ run.step = "load"
  /\ source[run.unit] = Unreadable
  /\ EndRun
  /\ UNCHANGED <<backend, source, objects, log, batch, used>>

Write ==
  /\ run.step = "write"
  /\ objects' = Put(run.unit, batch, run.content)
  /\ run' = [run EXCEPT !.step = "record"]
  /\ UNCHANGED <<backend, source, log, batch, results, asset, used>>

\* What the server may hold after a put that S3Storage.write_bytes does not trust:
\* nothing new, an object of another size, or the whole object, of which only the
\* confirmation failed
UnverifiedOutcomes ==
  {objects, Put(run.unit, batch, Torn), Put(run.unit, batch, run.content)}

\* put_object raises, or head_object finds no object or another size: MinioError,
\* which is not caught.  Nothing removes what the put has left under the key.
WriteNotVerified ==
  /\ run.step = "write"
  /\ backend = "minio"
  /\ Use("faults")
  /\ objects' \in UnverifiedOutcomes
  /\ EndRun
  /\ UNCHANGED <<backend, source, log, batch>>

RecordSuccess ==
  /\ run.step = "record"
  /\ log' = record_success_once
  /\ run' = [run EXCEPT !.step = "report"]
  /\ UNCHANGED <<backend, source, objects, batch, results, asset, used>>

\* _run_schema_validation: a verdict in the log that blocks nothing
Report ==
  /\ run.step = "report"
  /\ log' = log \cup {Row(SCHEMA_VALIDATION_STAGE,
                          IF run.content \in Suspect THEN "FAILED" ELSE "SUCCESS")}
  /\ Conclude("SUCCESS")
  /\ UNCHANGED <<backend, source, objects, batch, asset, used>>

\* Mutant of AnyFailed: raise only when nothing was ingested
AllFailed == \A u \in Units : results[u] = "FAILED"

AnyFailed == \E u \in Units : results[u] = "FAILED"

\* The bronze asset raises when a unit failed
Return ==
  /\ run.step = "done"
  /\ asset' = IF AnyFailed THEN "failed" ELSE "succeeded"
  /\ run' = Idle
  /\ results' = NoResults
  /\ UNCHANGED <<backend, source, objects, log, batch, used>>

(***************************************************************************)
(* The world                                                                *)
(***************************************************************************)

\* The process ends; a file of LocalFileStorage may be left half-written
Abort ==
  /\ run.step # "idle"
  /\ Use("faults")
  /\ EndRun
  /\ \/ UNCHANGED objects
     \/ /\ run.step = "write" /\ backend = "local"
        /\ objects' = Put(run.unit, batch, Torn)
  /\ UNCHANGED <<backend, source, log, batch>>

ChangeSource(u) ==
  /\ Use("changes")
  /\ \E s \in SourceStates \ {source[u]} : source' = [source EXCEPT ![u] = s]
  /\ UNCHANGED <<backend, objects, log, run, batch, results, asset>>

\* A fresh volume or bucket under an old log
LoseObjects ==
  /\ run.step = "idle"
  /\ objects # {}
  /\ Use("stores")
  /\ objects' = {}
  /\ UNCHANGED <<backend, source, log, run, batch, results, asset>>

\* A fresh meta.duckdb beside old objects
LoseLog ==
  /\ run.step = "idle"
  /\ log # {}
  /\ Use("logs")
  /\ log' = {}
  /\ UNCHANGED <<backend, source, objects, run, batch, results, asset>>

Init ==
  /\ backend \in Backends
  /\ source \in [Units -> SourceStates]
  /\ objects = {}
  /\ log = {}
  /\ run = Idle
  /\ batch = 0
  /\ results = NoResults
  /\ asset = "none"
  /\ used = [e \in DOMAIN Limit |-> 0]

IngestOne ==
  \/ Skip \/ Begin \/ Load \/ Reject \/ ParserError
  \/ Write \/ WriteNotVerified \/ RecordSuccess \/ Report

Next ==
  \/ \E force \in BOOLEAN : Launch(force)
  \/ NoSourceFile \/ IngestOne \/ Return
  \/ Abort \/ LoseObjects \/ LoseLog
  \/ \E u \in Units : ChangeSource(u)

Spec == Init /\ [][Next]_vars

(***************************************************************************)
(* Properties                                                               *)
(***************************************************************************)

\* The log holds at most one success of a unit, however often the unit is written
\* again: forced, after drift, or after a run that ended between object and row
\* (record_success_once)
OneSuccessPerUnit ==
  \A r1, r2 \in log :
    r1.stage = STAGE /\ r2.stage = STAGE /\ r1.status = "SUCCESS" /\ r2.status = "SUCCESS"
      /\ r1.unit = r2.unit => r1 = r2

\* A success is logged only once the whole object of that batch is in the store
\* (the verified write comes before record_success_once)
LoggedWhenStored ==
  [][\A r \in log' \ log : r.stage = STAGE /\ r.status = "SUCCESS" =>
       \E o \in objects : o.unit = r.unit /\ o.batch = r.batch /\ o.content # Torn]_vars

\* What ingest_all reports as ingested in this batch is whole, and what it skips as
\* ingested before has an object.  list_keys does not look into the objects, so the
\* object of a skipped unit is known to be whole only as long as the store was never
\* lost: then every success in the log still has its own object.  After a loss the
\* log's old success and the remains of a failed write are enough to be skipped.
ReportedUnitsStored ==
  \A u \in Units :
    /\ results[u] = "SUCCESS" =>
         \E o \in list_keys(u) : o.batch = batch /\ o.content # Torn
    /\ results[u] = "SKIPPED_ALREADY_INGESTED" =>
         \E o \in list_keys(u) : used["stores"] = 0 => o.content # Torn

\* The bronze asset succeeds only if every unit has an object in the store, except semester
\* files that did not exist: Silver never starts on a store with a hole that
\* the run knew about (the fail-loud guard of the asset)
SucceededAssetIsComplete ==
  [][run.step = "done" /\ run'.step = "idle" /\ asset' = "succeeded" =>
       \A u \in Units : list_keys(u) # {} \/ (u \in SemesterScoped /\ results[u] = "NO_SOURCE_FILE")]_vars

\* "Re-run ingestion, get the same end state": a run that is not forced adds no
\* object for a unit that is both logged as a success and in the store
RerunAddsNothing ==
  [][\A o \in objects' \ objects :
       run.force \/ ~has_successful_run(o.unit) \/ list_keys(o.unit) = {}]_vars

\* Batches are numbered in the order of their start, units within a batch in the
\* order they are visited: together they order the ingestion times
Stamp(o) == o.batch * NumUnits + o.unit

Store == INSTANCE BronzeStore WITH
  Stamps <- 1..(MaxRuns + 1) * NumUnits,
  Contents <- Contents \cup {Torn},
  objects <- {[unit |-> o.unit, stamp |-> Stamp(o), content |-> o.content] : o \in objects}

\* The store only grows, by objects later than all others, or is lost: no ingestion
\* overwrites or deletes what another has written (bronze keys hold the batch id)
ImplementsStore == Store!Spec
=============================================================================
