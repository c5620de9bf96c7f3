--------------------------------- MODULE Gold ---------------------------------
(***************************************************************************)
(* From Silver to the readers: build_all_dimensions, build_all_facts and       *)
(* build_kpi (pipelines/gold/) write the star schema file by file, and          *)
(* load_gold_to_postgres replaces the tables of the warehouse by it in one      *)
(* transaction.  The gold asset and the warehouse asset are separate stages of  *)
(* a pipeline; either may fail or end in the middle, be executed again, or       *)
(* overlap with another pipeline's, except that a stage holds the lock of the   *)
(* DuckDB log.  Surrogate keys are positions in a sorted table, computed anew    *)
(* by every build, and the registry of models refers to them from outside.      *)
(***************************************************************************)
EXTENDS StudentVersions, Sequences

CONSTANTS
  Pipelines,     \* runs of the Dagster job
  Snapshots,     \* the Silver tables at different times
  CollegeOf,     \* program -> its college
  YearLevels,    \* the levels of dim_year_level
  MaxRefreshes,  \* bound: times the Silver tables are replaced
  MaxStarts,     \* bound: executions of the gold stage
  MaxReloads,    \* bound: executions of the warehouse stage by itself
  MaxCrashes,    \* bound: stages that end in the middle
  MaxModels      \* bound: models registered

\* Rows are finitely many and have positions, identifiers are ordered like numbers, a
\* student has one enrollment per semester (dedupe_enrollment), and no shift of a student
\* precedes the semester of entry
ASSUME SilverAssumption ==
  /\ DOMAIN Snapshots \subseteq Nat \ {0}
  /\ \A i \in DOMAIN Snapshots :
       LET T == Snapshots[i]
       IN  /\ IsFiniteSet(T.program) /\ T.program \subseteq Int
           /\ IsFiniteSet(T.student) /\ IsFiniteSet(T.shifter) /\ IsFiniteSet(T.enrollment)
           /\ IsFiniteSet(T.graduation) /\ IsFiniteSet(T.dropout)
           /\ \A e, f \in T.enrollment : e.student = f.student /\ e.sem = f.sem => e = f
           /\ \A s \in T.student : {s.student, s.row, s.entry} \subseteq Int
           /\ \A x \in T.shifter : {x.sem, x.row} \subseteq Int
           /\ \A s, t \in T.student : s.row = t.row => s = t
           /\ \A x, y \in T.shifter : x.row = y.row => x = y
           /\ \A s \in T.student, x \in T.shifter : s.student = x.student => s.entry <= x.sem

VARIABLES
  silver,     \* the snapshot the Silver tables hold
  gold,       \* the Gold store: table -> rows, for the files that exist
  warehouse,  \* the gold schema of the warehouse
  registry,   \* gold.model_registry: the program keys of its rows and what they stood for
  pc,         \* where each pipeline is
  queue,      \* the tables its stage has built and not yet written
  basis,      \* history: the snapshot the Gold store is the star of, if it is one
  used        \* how much of each bound has been used

\* Values of basis: a stage is writing the store, or ended before it was finished
Building == 0
Lost == -1

vars == <<silver, gold, warehouse, registry, pc, queue, basis, used>>

Limit == [refreshes |-> MaxRefreshes, starts |-> MaxStarts, reloads |-> MaxReloads,
          crashes |-> MaxCrashes, models |-> MaxModels]

Use(e) ==
  /\ used[e] < Limit[e]
  /\ used' = [used EXCEPT ![e] = @ + 1]

(***************************************************************************)
(* Dimensions                                                               *)
(***************************************************************************)

\* A table with the position of a row in the sorted rows as its key
Keyed(S, Less(_, _)) ==
  [k \in 1..Cardinality(S) |-> CHOOSE x \in S : Cardinality({y \in S : Less(y, x)}) = k - 1]

\* 0 stands for NULL
KeyOf(dim, x) == IF \E k \in DOMAIN dim : dim[k] = x THEN CHOOSE k \in DOMAIN dim : dim[k] = x ELSE 0

build_dim_program(T) == Keyed(T.program, LAMBDA p, q : p < q)

ShiftsOf(s, T) == {x \in T.shifter : x.student = s.student}

Versions(T) == UNION {VersionsOf(s, ShiftsOf(s, T)) : s \in T.student}

\* KeyError: a program, or a semester a version begins in, is not in its dimension
DimensionsRaise(T) == \E v \in Versions(T) : v.program \notin T.program \/ v.from \notin Periods

VersionBefore(v, w) ==
  \/ v.student < w.student
  \/ v.student = w.student /\ v.file < w.file
  \/ v.student = w.student /\ v.file = w.file /\ v.number < w.number

build_dim_student(T) ==
  LET rows == Keyed(Versions(T), VersionBefore)
  IN  [k \in DOMAIN rows |->
        [student |-> rows[k].student, program |-> KeyOf(build_dim_program(T), rows[k].program),
         from |-> rows[k].from, to |-> rows[k].to, current |-> rows[k].current]]

Dimensions(T) == <<[name |-> "dim_program", rows |-> build_dim_program(T)],
                   [name |-> "dim_student", rows |-> build_dim_student(T)]>>

(***************************************************************************)
(* Facts, built from Silver rows and the dimensions in the Gold store d      *)
(***************************************************************************)

\* Mutant of resolve_student_key_as_of: the current version, whenever the row is from
CurrentVersion(rows, d) ==
  {p \in rows \X (DOMAIN d.dim_student) :
     /\ p[1].sem \in Periods
     /\ d.dim_student[p[2]].student = p[1].student /\ d.dim_student[p[2]].current}

\* Inner joins: a row of an unknown semester or student finds no version
resolve_student_key_as_of(rows, d) ==
  {p \in rows \X (DOMAIN d.dim_student) :
     /\ p[1].sem \in Periods
     /\ d.dim_student[p[2]].student = p[1].student
     /\ Covers(d.dim_student[p[2]], p[1].sem)}

\* The guards against rows that are "silently dropped"
FactsRaise(T, d) ==
  \E p \in resolve_student_key_as_of(T.enrollment, d) :
    KeyOf(d.dim_program, p[1].program) = 0 \/ p[1].level \notin YearLevels

build_fact_enrollment(T, d) ==
  {[student |-> p[2], program |-> KeyOf(d.dim_program, p[1].program),
    college |-> CollegeOf[p[1].program], sem |-> p[1].sem,
    status |-> p[1].status, level |-> p[1].level]
     : p \in resolve_student_key_as_of(T.enrollment, d)}

\* fact_graduation and fact_dropout
build_fact_outcome(rows, d) ==
  {[student |-> p[2], program |-> KeyOf(d.dim_program, p[1].program),
    college |-> CollegeOf[p[1].program], sem |-> p[1].sem]
     : p \in resolve_student_key_as_of(rows, d)}

build_fact_shifter(T, d) ==
  {[student |-> p[2], from |-> KeyOf(d.dim_program, p[1].from),
    to |-> KeyOf(d.dim_program, p[1].to), sem |-> p[1].sem]
     : p \in resolve_student_key_as_of(T.shifter, d)}

\* By student_key: the same version of the student, in the next semester
build_fact_retention(fe) ==
  {[student |-> f.student, program |-> f.program, college |-> f.college, sem |-> f.sem,
    retained |-> \E g \in fe : /\ g.student = f.student /\ g.sem = f.sem + 1
                               /\ g.status \in {"ENROLLED", "GRADUATED"}]
     : f \in {f \in fe : f.status # "GRADUATED" /\ f.sem < LastPeriod}}

Facts(T, d) ==
  LET fe == build_fact_enrollment(T, d)
  IN  <<[name |-> "fact_enrollment", rows |-> fe],
        [name |-> "fact_graduation", rows |-> build_fact_outcome(T.graduation, d)],
        [name |-> "fact_dropout", rows |-> build_fact_outcome(T.dropout, d)],
        [name |-> "fact_shifter", rows |-> build_fact_shifter(T, d)],
        [name |-> "fact_retention", rows |-> build_fact_retention(fe)]>>

\* Per college and semester, of any fact; a count that is missing is 0
build_fact_institution_kpi(d) ==
  LET In(rows, g) == {f \in rows : <<f.college, f.sem>> = g}
      \* counted for the college of the program the student leaves
      left == {[college |-> CollegeOf[d.dim_program[f.from]], sem |-> f.sem, shift |-> f]
                 : f \in {f \in d.fact_shifter : f.from # 0}}
      groups == {<<f.college, f.sem>> : f \in d.fact_enrollment \cup d.fact_graduation
                                        \cup d.fact_dropout \cup d.fact_retention \cup left}
  IN  {[college |-> g[1], sem |-> g[2],
        enrolled |-> Cardinality(In(d.fact_enrollment, g)),
        graduated |-> Cardinality(In(d.fact_graduation, g)),
        dropped |-> Cardinality(In(d.fact_dropout, g)),
        shifted |-> Cardinality(In(left, g)),
        retained |-> Cardinality({f \in In(d.fact_retention, g) : f.retained})] : g \in groups}

DimensionTables == {"dim_program", "dim_student"}
FactTables == {"fact_enrollment", "fact_graduation", "fact_dropout", "fact_shifter", "fact_retention"}
Tables == DimensionTables \cup FactTables \cup {"fact_institution_kpi"}

(***************************************************************************)
(* The constraints of the warehouse, checked at the COMMIT of a load         *)
(***************************************************************************)

\* At most one row per value of key
Unique(rows, Key(_)) == \A f, g \in rows : Key(f) = Key(g) => f = g

\* Mutant of RegistryKeysExist: no constraint from outside
NoOutsideReferences(w) == TRUE

\* The foreign keys of program_key in tables a load does not replace
RegistryKeysExist(w) == {m.key : m \in registry} \subseteq DOMAIN w.dim_program

ForeignKeys(w) ==
  LET programs == DOMAIN w.dim_program
  IN  /\ \A k \in DOMAIN w.dim_student : w.dim_student[k].program \in programs
      /\ \A t \in FactTables : \A f \in w[t] : f.student \in DOMAIN w.dim_student
      /\ \A t \in FactTables \ {"fact_shifter"} : \A f \in w[t] : f.program \in programs
      /\ \A f \in w.fact_shifter : {f.from, f.to} \subseteq programs

Grain(w) ==
  /\ \A j, k \in DOMAIN w.dim_student :
       /\ w.dim_student[j].student = w.dim_student[k].student
       /\ w.dim_student[j].current /\ w.dim_student[k].current
       => j = k
  /\ \A t \in {"fact_enrollment", "fact_shifter", "fact_retention"} :
       Unique(w[t], LAMBDA f : <<f.student, f.sem>>)
  /\ \A t \in {"fact_graduation", "fact_dropout"} : Unique(w[t], LAMBDA f : f.student)

\* Without enrollments the counts and rates of a KPI row are NULL
NotNull(w) == \A g \in w.fact_institution_kpi : g.enrolled > 0

Accepted(w) == ForeignKeys(w) /\ RegistryKeysExist(w) /\ Grain(w) /\ NotNull(w)

(***************************************************************************)
(* The stages of a pipeline                                                 *)
(***************************************************************************)

Go(r, step) == pc' = [pc EXCEPT ![r] = step]

InStage(r) == pc[r] \in {"facts", "kpi"} \/ queue[r] # << >>

LockFree == \A r \in Pipelines : ~InStage(r)

\* The stages before Gold replace the Silver tables
Refresh ==
  /\ LockFree
  /\ Use("refreshes")
  /\ silver' \in DOMAIN Snapshots
  /\ UNCHANGED <<gold, warehouse, registry, pc, queue, basis>>

Start(r) ==
  /\ pc[r] = "idle"
  /\ Use("starts")
  /\ Go(r, "dimensions")
  /\ UNCHANGED <<silver, gold, warehouse, registry, queue, basis>>

\* The warehouse stage by itself
Reload(r) ==
  /\ pc[r] = "idle"
  /\ Use("reloads")
  /\ Go(r, "load")
  /\ UNCHANGED <<silver, gold, warehouse, registry, queue, basis>>

BuildDimensions(r) ==
  /\ pc[r] = "dimensions"
  /\ LockFree
  /\ IF DimensionsRaise(Snapshots[silver])
     THEN Go(r, "idle") /\ UNCHANGED queue
     ELSE Go(r, "facts") /\ queue' = [queue EXCEPT ![r] = Dimensions(Snapshots[silver])]
  /\ UNCHANGED <<silver, gold, warehouse, registry, basis, used>>

\* One table replaces its file
Write(r) ==
  /\ queue[r] # << >>
  /\ LET table == Head(queue[r])
     IN  /\ gold' = [t \in DOMAIN gold \cup {table.name} |->
                       IF t = table.name THEN table.rows ELSE gold[t]]
         /\ basis' = IF table.name = "fact_institution_kpi" THEN silver ELSE Building
  /\ queue' = [queue EXCEPT ![r] = Tail(@)]
  /\ UNCHANGED <<silver, warehouse, registry, pc, used>>

\* Mutant of BuildFacts: does not wait until the dimensions are written
BuildFactsEarly(r) ==
  /\ pc[r] = "facts"
  /\ "dim_program" \in DOMAIN gold /\ "dim_student" \in DOMAIN gold
  /\ queue' = [queue EXCEPT ![r] = @ \o Facts(Snapshots[silver], gold)]
  /\ Go(r, "kpi")
  /\ UNCHANGED <<silver, gold, warehouse, registry, basis, used>>

BuildFacts(r) ==
  /\ pc[r] = "facts"
  /\ queue[r] = << >>
  /\ IF FactsRaise(Snapshots[silver], gold)
     THEN Go(r, "idle") /\ basis' = Lost /\ UNCHANGED queue
     ELSE /\ Go(r, "kpi")
          /\ queue' = [queue EXCEPT ![r] = Facts(Snapshots[silver], gold)]
          /\ UNCHANGED basis
  /\ UNCHANGED <<silver, gold, warehouse, registry, used>>

BuildKpi(r) ==
  /\ pc[r] = "kpi"
  /\ queue[r] = << >>
  /\ queue' = [queue EXCEPT ![r] =
       <<[name |-> "fact_institution_kpi", rows |-> build_fact_institution_kpi(gold)]>>]
  /\ Go(r, "load")
  /\ UNCHANGED <<silver, gold, warehouse, registry, basis, used>>

\* Mutant of MayLoad: without the lock
MayLoadUnlocked(r) == pc[r] = "load" /\ queue[r] = << >>

MayLoad(r) == pc[r] = "load" /\ LockFree

\* Every table is emptied and filled in one transaction
Load(r) ==
  /\ MayLoad(r)
  /\ DOMAIN gold = Tables
  /\ Accepted(gold)
  /\ warehouse' = gold
  /\ Go(r, "idle")
  /\ UNCHANGED <<silver, gold, registry, queue, basis, used>>

\* A file is missing, or the transaction is rolled back
LoadRefused(r) ==
  /\ MayLoad(r)
  /\ ~(DOMAIN gold = Tables /\ Accepted(gold))
  /\ Go(r, "idle")
  /\ UNCHANGED <<silver, gold, warehouse, registry, queue, basis, used>>

Crash(r) ==
  /\ InStage(r)
  /\ Use("crashes")
  /\ Go(r, "idle")
  /\ queue' = [queue EXCEPT ![r] = << >>]
  /\ basis' = IF basis = Building THEN Lost ELSE basis
  /\ UNCHANGED <<silver, gold, warehouse, registry>>

\* A deployment registers a model of a program of the warehouse
record_candidate(k) ==
  /\ Use("models")
  /\ registry' = registry \cup {[key |-> k, program |-> warehouse.dim_program[k]]}
  /\ UNCHANGED <<silver, gold, warehouse, pc, queue, basis>>

Init ==
  /\ silver \in DOMAIN Snapshots
  /\ gold = << >>
  /\ warehouse = [t \in Tables |-> IF t \in DimensionTables THEN << >> ELSE {}]
  /\ registry = {}
  /\ pc = [r \in Pipelines |-> "idle"]
  /\ queue = [r \in Pipelines |-> << >>]
  /\ basis = Lost
  /\ used = [refreshes |-> 0, starts |-> 0, reloads |-> 0, crashes |-> 0, models |-> 0]

Step(r) ==
  BuildDimensions(r) \/ Write(r) \/ BuildFacts(r) \/ BuildKpi(r) \/ Load(r) \/ LoadRefused(r)

Next ==
  \/ Refresh
  \/ \E r \in Pipelines : Start(r) \/ Reload(r) \/ Step(r) \/ Crash(r)
  \/ \E k \in DOMAIN warehouse.dim_program : record_candidate(k)

Spec == Init /\ [][Next]_vars

(***************************************************************************)
(* Properties                                                               *)
(***************************************************************************)

\* The tables a stage writes before it goes on
TablesOf(step) ==
  CASE step = "facts" -> DimensionTables
    [] step = "kpi"   -> FactTables
    [] step = "load"  -> {"fact_institution_kpi"}
    [] OTHER          -> {}

TypeOK ==
  /\ silver \in DOMAIN Snapshots
  /\ DOMAIN gold \subseteq Tables
  /\ DOMAIN warehouse = Tables
  /\ pc \in [Pipelines -> {"idle", "dimensions", "facts", "kpi", "load"}]
  /\ \A r \in Pipelines : \A i \in DOMAIN queue[r] : queue[r][i].name \in TablesOf(pc[r])
  /\ basis \in {Building, Lost} \cup DOMAIN Snapshots
  /\ used \in [{"refreshes", "starts", "reloads", "crashes", "models"} -> Nat]

\* What the rows of a star say once their keys are resolved
Star(w) ==
  LET Student(k) == w.dim_student[k].student
      As(k) == w.dim_program[w.dim_student[k].program]
      Outcome(rows) == {[student |-> Student(f.student), sem |-> f.sem, as |-> As(f.student),
                         program |-> w.dim_program[f.program]] : f \in rows}
  IN  [members |-> {<<Student(p[1]), p[2], As(p[1])>> :
                      p \in {p \in (DOMAIN w.dim_student) \X Periods : Covers(w.dim_student[p[1]], p[2])}},
       enrollment |-> {[student |-> Student(f.student), sem |-> f.sem, as |-> As(f.student),
                        program |-> w.dim_program[f.program], status |-> f.status, level |-> f.level]
                         : f \in w.fact_enrollment},
       graduation |-> Outcome(w.fact_graduation),
       dropout |-> Outcome(w.fact_dropout),
       shifter |-> {[student |-> Student(f.student), sem |-> f.sem, as |-> As(f.student),
                     from |-> w.dim_program[f.from], to |-> w.dim_program[f.to]] : f \in w.fact_shifter},
       retention |-> {[student |-> Student(f.student), sem |-> f.sem, as |-> As(f.student),
                       retained |-> f.retained] : f \in w.fact_retention},
       kpi |-> w.fact_institution_kpi]

Readers == INSTANCE Warehouse WITH star <- Star(warehouse)

\* "Requires knowing what a student's dimension attributes were at the time of each fact
\* event": from the first semester of a student on, each semester is covered by exactly
\* one version, whatever shifts there are, so the as-of join neither loses nor doubles
VersionsTileTime ==
  LET dim == warehouse.dim_student
  IN  \A j \in DOMAIN dim : \A t \in dim[j].from..LastPeriod :
        Cardinality({k \in DOMAIN dim : dim[k].student = dim[j].student /\ Covers(dim[k], t)}) = 1

\* The tables one build makes of the snapshot T
Built(T) ==
  LET d == [dim_program |-> build_dim_program(T), dim_student |-> build_dim_student(T)]
      fe == build_fact_enrollment(T, d)
      star == [dim_program |-> d.dim_program, dim_student |-> d.dim_student,
               fact_enrollment |-> fe,
               fact_graduation |-> build_fact_outcome(T.graduation, d),
               fact_dropout |-> build_fact_outcome(T.dropout, d),
               fact_shifter |-> build_fact_shifter(T, d),
               fact_retention |-> build_fact_retention(fe)]
  IN  [t \in Tables |->
        IF t = "fact_institution_kpi" THEN build_fact_institution_kpi(star) ELSE star[t]]

\* Unless the last build was lost in the middle, what a load puts in place are the tables
\* of one build from one snapshot: pipelines that overlap, stages that were executed
\* again and Silver tables that changed meanwhile never mix tables of two builds
LoadsOneBuild ==
  [][basis # Lost => \/ UNCHANGED warehouse
                     \/ basis \in DOMAIN Snapshots /\ warehouse' = Built(Snapshots[basis])]_vars

\* Unless the last build was lost in the middle, a load shows readers the star of the
\* snapshot the store was built from, whoever built it, and no other step shows them
\* anything: every record of the known semesters once, under the program the student was
\* in, in all tables and in the counts of the KPIs, however keys are renumbered
LoadsWholeStar ==
  [][basis # Lost => \/ UNCHANGED warehouse
                     \/ basis \in DOMAIN Snapshots /\ Readers!Publish(basis)]_vars

\* A semester counts for a college only if someone is enrolled in it
Populated(T, program, t) ==
  \E e \in Readers!Enrolled(T) : CollegeOf[e.program] = CollegeOf[program] /\ e.sem = t

\* Outcomes of one student are told apart by a shift between them
ToldApart(T, a, b) ==
  \E x \in T.shifter : x.student = a.student /\ a.sem < x.sem /\ x.sem <= b.sem

\* What must be true of the Silver tables, without any key, for their star to be loaded:
\* students have one master, known programs, one shift per semester and one outcome of
\* each kind between two shifts, and where a college has an event it has an enrollment
Loadable(T) ==
  /\ \A s, t \in T.student : s.student = t.student => s = t
  /\ \A r \in T.enrollment \cup T.graduation \cup T.dropout :
       Readers!Known(T, r) => r.program \in T.program
  /\ \A x \in T.shifter : Readers!Known(T, x) => {x.from, x.to} \subseteq T.program
  /\ \A x, y \in Readers!Shifted(T) : x.student = y.student /\ x.sem = y.sem => x = y
  /\ \A rows \in {T.graduation, T.dropout} : \A a, b \in Readers!Outcomes(T, rows) :
       a.student = b.student => a = b \/ ToldApart(T, a, b) \/ ToldApart(T, b, a)
  /\ \A r \in Readers!Outcomes(T, T.graduation \cup T.dropout) : Populated(T, r.program, r.sem)
  /\ \A x \in Readers!Shifted(T) : Populated(T, x.from, x.sem)

\* "If it referenced a row that's genuinely gone, the COMMIT-time check still correctly
\* raises", and nothing else does: a load of the star of one snapshot replaces the
\* reader's star if the Silver tables are loadable and no registered key is beyond the
\* programs they have, and leaves it as it is otherwise
LoadsWhatFits ==
  [][\A r \in Pipelines :
       pc[r] = "load" /\ LockFree /\ pc'[r] = "idle" /\ basis \in DOMAIN Snapshots =>
         LET T == Snapshots[basis]
         IN  IF Loadable(T) /\ \A m \in registry : m.key \in 1..Cardinality(T.program)
             THEN warehouse' = Built(T) ELSE UNCHANGED warehouse]_vars

\* "students continuing into next semester / students enrolled this semester": a student
\* is retained exactly if enrolled, or graduating, in the next semester
RetainedIffContinues ==
  LET Who(k) == warehouse.dim_student[k].student
  IN  \A f \in warehouse.fact_retention :
        f.retained <=> \E g \in warehouse.fact_enrollment :
          /\ Who(g.student) = Who(f.student) /\ g.sem = f.sem + 1
          /\ g.status \in {"ENROLLED", "GRADUATED"}

\* A reload "is fine as long as an identical row (same surrogate key) exists again": the
\* key of a registered model goes on naming the program the model was trained on
ReferencesKeepMeaning == \A m \in registry : warehouse.dim_program[m.key] = m.program
=============================================================================
