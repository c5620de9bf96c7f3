-------------------------------- MODULE Silver --------------------------------
(***************************************************************************)
(* The path of enrollment records from Bronze to Gold: clean_all              *)
(* (pipelines/silver/clean_entities.py), process_enrollment                   *)
(* (validate_and_dedupe.py, progression_validation.py) and the Dagster assets *)
(* silver, validation and gold that call them (orchestration/assets.py).      *)
(* Every stage reads and overwrites whole files, a pipeline may fail or end   *)
(* between any two writes, a stage may be executed again by itself, and        *)
(* pipelines may overlap; a stage, though, holds the lock of the DuckDB log    *)
(* while it executes, so stages do not.                                      *)
(***************************************************************************)
EXTENDS Integers, FiniteSets, Sequences

CONSTANTS
  Pipelines,    \* runs of the Dagster job
  NumUnits,     \* Bronze units, in the order of ingestion
  EntityOf,     \* unit -> the entity it belongs to
  Files,        \* unit -> the contents its source file may have, sets of rows
  Raw,          \* raw enrollment_status -> its canonical value or "UNKNOWN"
  LastSemester, \* the end of the observed window
  MaxIngests,   \* bound: objects added to Bronze
  MaxStarts,    \* bound: pipelines started
  MaxResumes,   \* bound: executions of the validation stage by itself
  MaxCrashes    \* bound: pipelines that end in the middle of a stage

Units == 1..NumUnits

\* The entities validation reads, in the order clean_all writes them.  college,
\* program, graduation and shifter are cleaned alike and read by Gold only.
ENTITIES == <<"student", "enrollment", "dropout">>

Entities == {ENTITIES[i] : i \in DOMAIN ENTITIES}

ASSUME SilverAssumption ==
  /\ NumUnits \in Nat \ {0}
  /\ EntityOf \in [Units -> Entities]
  /\ \A u \in Units : \A c \in Files[u] :
       /\ IsFiniteSet(c)
       /\ \A row \in c : /\ row.student \in STRING /\ row.sem \in Nat /\ row.level \in Nat
                        /\ Raw[row.status] \in STRING
  /\ LastSemester \in Nat
  /\ MaxIngests \in Nat /\ MaxStarts \in Nat /\ MaxResumes \in Nat /\ MaxCrashes \in Nat

VARIABLES
  objects,   \* the Bronze store
  files,     \* the Silver store: key -> rows, for the files that exist
  pc,        \* where each pipeline is
  at,        \* the entity a pipeline is cleaning
  failed,    \* some entity could not be cleaned
  work,      \* what validation has computed: rows kept and quarantined, counts
  basis,     \* history: the newest object when enrollment was last cleaned
  used       \* how much of each bound has been used

vars == <<objects, files, pc, at, failed, work, basis, used>>

Bronze == INSTANCE BronzeStore WITH
  Stamps <- 1..MaxIngests, Contents <- UNION {Files[u] : u \in Units}

NoWork == [valid |-> {}, bad |-> <<{}, {}, {}, {}>>, rowsIn |-> 0, duplicates |-> 0]

Limit == [ingests |-> MaxIngests, starts |-> MaxStarts,
          resumes |-> MaxResumes, crashes |-> MaxCrashes]

Use(e) ==
  /\ used[e] < Limit[e]
  /\ used' = [used EXCEPT ![e] = @ + 1]

\* Write rows to a key of the Silver store, whether or not it exists
Overwrite(key, rows) ==
  files' = [k \in DOMAIN files \cup {key} |-> IF k = key THEN rows ELSE files[k]]

(***************************************************************************)
(* Cleaning                                                                 *)
(***************************************************************************)

\* A row of enrollment.  One of dropout names a semester in the same way, one of
\* student has the semester of entry there; both leave the other fields constant.
Clean(row, t) ==
  [student |-> row.student, sem |-> row.sem, status |-> Raw[row.status],
   level |-> row.level, stamp |-> t]

KeyOf(r) == <<r.student, r.sem>>

Business(r) == [r EXCEPT !.stamp = 0]

ObjectsOf(e, store) == {o \in store : EntityOf[o.unit] = e}

\* Every batch of every partition of the entity
read_all_bronze(e, store) ==
  UNION {{Clean(row, o.stamp) : row \in o.content} : o \in ObjectsOf(e, store)}

\* Mutant of drop_exact_duplicates: keep the first
KeepFirst(R) ==
  {r \in R : \A q \in R : Business(q) = Business(r) => q.stamp >= r.stamp}

\* Of rows that differ in nothing but audit columns, the last ingested
drop_exact_duplicates(R) ==
  {r \in R : \A q \in R : Business(q) = Business(r) => q.stamp <= r.stamp}

(***************************************************************************)
(* Validation                                                               *)
(***************************************************************************)

LatestOf(T) == {r \in T : \A q \in T : KeyOf(q) = KeyOf(r) => q.stamp <= r.stamp}

\* Mutant of dedupe_enrollment: RANK() instead of ROW_NUMBER()
DedupeByRank(T) == {LatestOf(T)}

\* ROW_NUMBER() = 1: one row per key, any of those ingested at the same time
dedupe_enrollment(T) ==
  {D \in SUBSET LatestOf(T) :
     /\ {KeyOf(r) : r \in D} = {KeyOf(r) : r \in T}
     /\ \A r, q \in D : KeyOf(r) = KeyOf(q) => r = q}

UnknownStatus(T) == {r \in T : r.status = "UNKNOWN"}

\* Not a known student, before the student's entry, or after the observed window
OutsideCohortRange(T, students) ==
  {r \in T : r.sem > LastSemester \/
     ~\E s \in students : /\ s.student = r.student /\ s.sem <= r.sem
                          /\ \A q \in students : q.student = s.student => q.stamp <= s.stamp}

InconsistentDropout(T, dropouts) ==
  {r \in T : (r.status = "DROPPED") # (\E d \in dropouts : KeyOf(d) = KeyOf(r))}

ImpossibleTransition(T) ==
  {r \in T : \E p \in T : /\ p.student = r.student /\ r.sem = p.sem + 1
                          /\ r.level \notin {p.level, p.level + 1}}

\* The four checks one after the other, each on what the ones before it left
Checked(D, students, dropouts) ==
  LET a == UnknownStatus(D)
      b == OutsideCohortRange(D \ a, students)
      c == InconsistentDropout(D \ (a \cup b), dropouts)
      d == ImpossibleTransition(D \ (a \cup b \cup c))
  IN  <<a, b, c, d>>

\* Mutant of Quarantined: the last check forgotten
WithoutProgression(w) == w.bad[1] \cup w.bad[2] \cup w.bad[3]

Quarantined(w) == w.bad[1] \cup w.bad[2] \cup w.bad[3] \cup w.bad[4]

\* More than MAX_QUARANTINE_RATE = 25% of the rows read
Exceeds(n, rowsIn) == 4 * n > rowsIn

\* Mutant of GateFails: a tolerance for each check instead of all together
AnyCheckExceeds(w) ==
  \/ \E i \in 1..4 : Exceeds(Cardinality(w.bad[i]), w.rowsIn)
  \/ Exceeds(w.duplicates, w.rowsIn)

GateFails(w) ==
  \/ Exceeds(Cardinality(Quarantined(w)), w.rowsIn)
  \/ Exceeds(w.duplicates, w.rowsIn)

(***************************************************************************)
(* The stages of a pipeline                                                 *)
(***************************************************************************)

\* Nobody holds the log's lock
LockFree == \A r \in Pipelines : pc[r] \in {"idle", "silver", "validation", "gold"}

Go(r, step) == pc' = [pc EXCEPT ![r] = step]

\* A new object in Bronze.  Ingestion needs the lock too.
Ingest(u) ==
  /\ LockFree
  /\ Use("ingests")
  /\ \E c \in Files[u] : Bronze!Add(u, used'.ingests, c)
  /\ UNCHANGED <<files, pc, at, failed, work, basis>>

Start(r) ==
  /\ pc[r] = "idle"
  /\ Use("starts")
  /\ Go(r, "silver")
  /\ UNCHANGED <<objects, files, at, failed, work, basis>>

\* The validation stage by itself: the script, or a pipeline executed again from
\* the stage that failed
Resume(r) ==
  /\ pc[r] = "idle"
  /\ Use("resumes")
  /\ Go(r, "validation")
  /\ UNCHANGED <<objects, files, at, failed, work, basis>>

BeginSilver(r) ==
  /\ pc[r] = "silver"
  /\ LockFree
  /\ Go(r, "clean")
  /\ at' = [at EXCEPT ![r] = 1]
  /\ failed' = [failed EXCEPT ![r] = FALSE]
  /\ UNCHANGED <<objects, files, work, basis, used>>

\* Mutant of NextEntity: one entity too many
EntityTooFar(r) ==
  IF at[r] <= Len(ENTITIES)
  THEN at' = [at EXCEPT ![r] = @ + 1] /\ UNCHANGED pc
  ELSE UNCHANGED at /\ Go(r, IF failed'[r] THEN "idle" ELSE "validation")

\* After the last entity the asset raises if one has failed
NextEntity(r) ==
  IF at[r] < Len(ENTITIES)
  THEN at' = [at EXCEPT ![r] = @ + 1] /\ UNCHANGED pc
  ELSE UNCHANGED at /\ Go(r, IF failed'[r] THEN "idle" ELSE "validation")

Newest == IF objects = {} THEN 0
          ELSE CHOOSE t \in {o.stamp : o \in objects} : \A o \in objects : o.stamp <= t

CleanEntity(r) ==
  LET e == ENTITIES[at[r]]
  IN  /\ pc[r] = "clean"
      /\ ObjectsOf(e, objects) # {}
      /\ Overwrite(e, drop_exact_duplicates(read_all_bronze(e, objects)))
      /\ basis' = IF e = "enrollment" THEN Newest ELSE basis
      /\ UNCHANGED failed
      /\ NextEntity(r)
      /\ UNCHANGED <<objects, work, used>>

\* FileNotFoundError: recorded, and the other entities go on
MissingEntity(r) ==
  /\ pc[r] = "clean"
  /\ ObjectsOf(ENTITIES[at[r]], objects) = {}
  /\ failed' = [failed EXCEPT ![r] = TRUE]
  /\ NextEntity(r)
  /\ UNCHANGED <<objects, files, work, basis, used>>

Validate(r) ==
  /\ pc[r] = "validation"
  /\ LockFree
  /\ Entities \subseteq DOMAIN files
  /\ \E D \in dedupe_enrollment(files["enrollment"]) :
       LET bad == Checked(D, files["student"], files["dropout"])
       IN  work' = [work EXCEPT ![r] =
             [valid |-> D \ (bad[1] \cup bad[2] \cup bad[3] \cup bad[4]), bad |-> bad,
              rowsIn |-> Cardinality(files["enrollment"]),
              duplicates |-> Cardinality(files["enrollment"]) - Cardinality(D)]]
  /\ Go(r, "table")
  /\ UNCHANGED <<objects, files, at, failed, basis, used>>

\* A file is missing: the stage fails before it writes anything
NothingToValidate(r) ==
  /\ pc[r] = "validation"
  /\ LockFree
  /\ ~(Entities \subseteq DOMAIN files)
  /\ Go(r, "idle")
  /\ UNCHANGED <<objects, files, at, failed, work, basis, used>>

\* The result replaces the table it was computed from
WriteTable(r) ==
  /\ pc[r] = "table"
  /\ Overwrite("enrollment", work[r].valid)
  /\ Go(r, "quarantine")
  /\ UNCHANGED <<objects, at, failed, work, basis, used>>

\* Written only when there is something to write
WriteQuarantine(r) ==
  /\ pc[r] = "quarantine"
  /\ IF Quarantined(work[r]) = {} THEN UNCHANGED files
     ELSE Overwrite("quarantine", Quarantined(work[r]))
  /\ Go(r, "gate")
  /\ UNCHANGED <<objects, at, failed, work, basis, used>>

Gate(r) ==
  /\ pc[r] = "gate"
  /\ Go(r, IF GateFails(work[r]) THEN "idle" ELSE "gold")
  /\ work' = [work EXCEPT ![r] = NoWork]
  /\ UNCHANGED <<objects, files, at, failed, basis, used>>

\* The gold asset reads the enrollment table
MayReadGold(r) == pc[r] = "gold" /\ LockFree

Gold(r) ==
  /\ MayReadGold(r)
  /\ Go(r, "idle")
  /\ UNCHANGED <<objects, files, at, failed, work, basis, used>>

Crash(r) ==
  /\ pc[r] \in {"clean", "table", "quarantine", "gate"}
  /\ Use("crashes")
  /\ Go(r, "idle")
  /\ work' = [work EXCEPT ![r] = NoWork]
  /\ UNCHANGED <<objects, files, at, failed, basis>>

Init ==
  /\ Bronze!Init
  /\ files = << >>
  /\ pc = [r \in Pipelines |-> "idle"]
  /\ at = [r \in Pipelines |-> 1]
  /\ failed = [r \in Pipelines |-> FALSE]
  /\ work = [r \in Pipelines |-> NoWork]
  /\ basis = 0
  /\ used = [ingests |-> 0, starts |-> 0, resumes |-> 0, crashes |-> 0]

Step(r) ==
  \/ BeginSilver(r) \/ CleanEntity(r) \/ MissingEntity(r)
  \/ Validate(r) \/ NothingToValidate(r)
  \/ WriteTable(r) \/ WriteQuarantine(r) \/ Gate(r) \/ Gold(r)

Next ==
  \/ \E u \in Units : Ingest(u)
  \/ \E r \in Pipelines : Start(r) \/ Resume(r) \/ Step(r) \/ Crash(r)

Spec == Init /\ [][Next]_vars

(***************************************************************************)
(* Properties                                                               *)
(***************************************************************************)

SilverRow == [student : STRING, sem : Nat, status : STRING, level : Nat, stamp : 0..MaxIngests]

Works == [valid : SUBSET SilverRow, bad : [1..4 -> SUBSET SilverRow], rowsIn : Nat, duplicates : Nat]

\* The type of every variable: what the store holds and a pipeline has computed are rows of
\* Silver, and a pipeline that cleans is at one of the entities.
TypeOK ==
  /\ \A o \in objects : o.unit \in Units /\ o.stamp \in 1..MaxIngests
  /\ DOMAIN files \subseteq Entities \cup {"quarantine"}
  /\ \A k \in DOMAIN files : files[k] \subseteq SilverRow
  /\ pc \in [Pipelines -> {"idle", "silver", "clean", "validation",
                           "table", "quarantine", "gate", "gold"}]
  /\ at \in [Pipelines -> DOMAIN ENTITIES]
  /\ failed \in [Pipelines -> BOOLEAN]
  /\ work \in [Pipelines -> Works]
  /\ basis \in 0..MaxIngests
  /\ used \in [{"ingests", "starts", "resumes", "crashes"} -> Nat]

\* What cleaning had before it when it last wrote the enrollment table
BasisRows == read_all_bronze("enrollment", {o \in objects : o.stamp <= basis})

Keys(R) == {KeyOf(r) : r \in R}

GoldInput == files["enrollment"]

\* "Applies validation and deduplication before gold modeling begins": whenever Gold
\* may read the table, it has one row per student and semester, and every row has
\* passed the checks against the other tables
GoldReadsValidated ==
  (\E r \in Pipelines : MayReadGold(r)) =>
     /\ \A r, q \in GoldInput : KeyOf(r) = KeyOf(q) => r = q
     /\ \A i \in 1..4 : Checked(GoldInput, files["student"], files["dropout"])[i] = {}

\* A correction ingested later replaces what it corrects, through both steps of
\* deduplication and whatever was ingested again in between
LatestIngestedWins ==
  (\E r \in Pipelines : MayReadGold(r)) =>
     \A r \in GoldInput : \A q \in BasisRows : KeyOf(q) = KeyOf(r) => q.stamp <= r.stamp

\* Every record of Bronze that does not reach Gold is in the quarantine file: none is
\* silently dropped, however a table is deduplicated, filtered and rewritten
NothingDropped ==
  (\E r \in Pipelines : MayReadGold(r)) =>
     Keys(BasisRows) \subseteq
        Keys(GoldInput) \cup (IF "quarantine" \in DOMAIN files THEN Keys(files["quarantine"]) ELSE {})

\* "Fail closed": Gold never gets a table from which more than a quarter of the
\* cleaned rows has been removed as bad
FailClosed ==
  (\E r \in Pipelines : MayReadGold(r)) =>
     ~Exceeds(Cardinality(Keys(BasisRows) \ Keys(GoldInput)),
              Cardinality(drop_exact_duplicates(BasisRows)))

\* Both hold when every validation follows a cleaning.  Validation overwrites its own
\* input before it writes the quarantine file and before it raises, so repeating it
\* alone after a crash or a failed gate works on what is left.
NothingDroppedOnFullRuns == used.resumes = 0 => NothingDropped

FailClosedOnFullRuns == used.resumes = 0 => FailClosed
=============================================================================
