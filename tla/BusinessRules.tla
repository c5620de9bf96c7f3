----------------------------- MODULE BusinessRules -----------------------------
(***************************************************************************)
(* run_business_validation (pipelines/silver/business_rules.py) checks the     *)
(* Silver tables against each other: entity after entity it overwrites the     *)
(* table by the rows that pass and the quarantine file by those that do not.   *)
(* load_silver_to_postgres reads the same tables one by one and replaces the   *)
(* schema silver of the warehouse.  Both are started by hand, before, during   *)
(* and after the cleaning that replaces the tables; the checks and the          *)
(* cleaning hold the lock of the DuckDB log, the load does not.                *)
(***************************************************************************)
EXTENDS Integers, FiniteSets, Sequences

CONSTANTS
  Batches,       \* Silver as cleaning may leave it: table -> rows, of the tables it can clean
  Years,         \* DEFAULT_OBSERVED_ACADEMIC_YEARS
  BufferYears,   \* years beyond the nominal duration
  MaxRefreshes,  \* bound: cleanings
  MaxRuns,       \* bound: runs of the checks
  MaxLoads,      \* bound: loads of the silver schema
  MaxCrashes     \* bound: runs and cleanings that end in the middle

\* SILVER_TABLES
TABLES == <<"college", "program", "student", "enrollment", "graduation", "dropout", "shifter">>

FACTS == {"enrollment", "graduation", "dropout"}

\* The entities in the order they are checked
CHECKED == <<"program", "enrollment", "graduation", "dropout", "shifter">>

Tables == {TABLES[i] : i \in DOMAIN TABLES}

Entities == {CHECKED[i] : i \in DOMAIN CHECKED}

SEMESTERS == {1, 2}

\* program_id is a key of program, and rows are finitely many
ASSUME RulesAssumption ==
  /\ \A b \in Batches :
       /\ DOMAIN b \subseteq Tables
       /\ \A t \in DOMAIN b : IsFiniteSet(b[t])
       /\ "program" \in DOMAIN b =>
            \A p, q \in b["program"] : p.program = q.program => p = q
  /\ BufferYears \in Nat
  /\ MaxRefreshes \in Nat /\ MaxRuns \in Nat /\ MaxLoads \in Nat /\ MaxCrashes \in Nat

VARIABLES
  files,       \* silver/<table>/data.parquet, for the files that exist
  quarantine,  \* silver_quarantine/<entity>/business_rules.parquet, likewise
  queue,       \* the tables the cleaning has still to write, with their rows
  pc,          \* where the run of the checks is
  at,          \* the entity it is at
  programs,    \* program_df: the program table as it was when the run began
  work,        \* what it has computed of the entity: working, all_bad
  loaded,      \* the tables the load has read so far
  warehouse,   \* the schema silver
  history,     \* of the tables since the last cleaning: see NewHistory
  used         \* how much of each bound has been used

vars == <<files, quarantine, queue, pc, at, programs, work, loaded, warehouse, history, used>>

Limit == [refreshes |-> MaxRefreshes, runs |-> MaxRuns, loads |-> MaxLoads, crashes |-> MaxCrashes]

Use(e) ==
  /\ used[e] < Limit[e]
  /\ used' = [used EXCEPT ![e] = @ + 1]

NoWork == [valid |-> {}, bad |-> {}]

NotLoading == [on |-> FALSE, tables |-> << >>]

\* The tables the first run found, the runs begun and completed since, whether one was stopped
\* by the gate after another had completed, whether one ended in the middle, and whether the
\* load began after two completed ones
NewHistory ==
  [basis |-> << >>, begun |-> 0, completed |-> 0, regated |-> FALSE, torn |-> FALSE,
   settledLoad |-> FALSE]

Put(store, key, rows) == [k \in DOMAIN store \cup {key} |-> IF k = key THEN rows ELSE store[k]]

RowsOf(store, key) == IF key \in DOMAIN store THEN store[key] ELSE {}

(***************************************************************************)
(* The checks: each is the set of the rows it quarantines                   *)
(***************************************************************************)

check_program_belongs_to_college(T, colleges) ==
  {r \in T : r.college \notin {c.college : c \in colleges}}

\* Mutant of check_program_college_consistency: an unknown program has no college to disagree with
KnownProgramsOnly(T, P) == {r \in T : \E p \in P : p.program = r.program /\ p.college # r.college}

\* The program is unknown or registered with another college
check_program_college_consistency(T, P) ==
  {r \in T : ~\E p \in P : p.program = r.program /\ p.college = r.college}

check_semester_valid(T) == {r \in T : r.sem \notin SEMESTERS}

check_academic_year_valid(T) == {r \in T : r.year \notin Years}

\* count stands for the COUNT_COLUMNS of the entity
check_counts_non_negative(T) == {r \in T : r.count < 0}

\* duration is nominal_duration_years rounded up
check_year_level_valid(T, P) ==
  {r \in T : ~\E p \in P : /\ p.program = r.program
                           /\ 1 <= r.level /\ r.level <= p.duration + BufferYears}

\* The checks one after the other, each on what the ones before it left.  A shifter has two
\* programs and no college, and only enrollment has a year level.
Bad(e, T, P) ==
  LET a == IF e \in FACTS THEN check_program_college_consistency(T, P) ELSE {}
      b == check_semester_valid(T \ a)
      c == check_academic_year_valid(T \ (a \cup b))
      d == IF e \in FACTS THEN check_counts_non_negative(T \ (a \cup b \cup c)) ELSE {}
      f == IF e = "enrollment" THEN check_year_level_valid(T \ (a \cup b \cup c \cup d), P) ELSE {}
  IN  [college |-> a, semester |-> b, year |-> c, counts |-> d, level |-> f]

NoneBad == [college |-> {}, semester |-> {}, year |-> {}, counts |-> {}, level |-> {}]

\* Mutant of AllBad: a frame left out of the concatenation
WithoutCounts(b) == b.college \cup b.semester \cup b.year \cup b.level

AllBad(b) == b.college \cup b.semester \cup b.year \cup b.counts \cup b.level

\* More than MAX_QUARANTINE_RATE = 25% of the rows read
Exceeds(bad, T) == 4 * Cardinality(bad) > Cardinality(T)

\* _enforce_quality_gate, for the three checks it is called for
GateFails(e, b, T) ==
  e \in FACTS /\ (Exceeds(b.semester, T) \/ Exceeds(b.year, T) \/ Exceeds(b.level, T))

(***************************************************************************)
(* A run of the checks                                                      *)
(***************************************************************************)

\* Nobody holds the lock of the log
LockFree == pc = "idle" /\ DOMAIN queue = {}

Compute(T, b) == work' = [valid |-> T \ UNION {b[c] : c \in DOMAIN b}, bad |-> AllBad(b)]

\* The dimensions are read once; program is checked first
BeginRules ==
  /\ LockFree
  /\ Use("runs")
  /\ {"college", "program"} \subseteq DOMAIN files
  /\ programs' = files["program"]
  /\ Compute(files["program"],
             [NoneBad EXCEPT !.college = check_program_belongs_to_college(files["program"],
                                                                         files["college"])])
  /\ at' = 1
  /\ pc' = "table"
  /\ history' = [history EXCEPT !.begun = @ + 1, !.basis = IF history.begun = 0 THEN files ELSE @]
  /\ UNCHANGED <<files, quarantine, queue, loaded, warehouse>>

\* A missing dimension ends the run before it does anything
MissingDimension ==
  /\ LockFree
  /\ Use("runs")
  /\ ~({"college", "program"} \subseteq DOMAIN files)
  /\ UNCHANGED <<files, quarantine, queue, pc, at, programs, work, loaded, warehouse, history>>

\* Mutant of NextEntity: one entity too many
EntityTooFar ==
  IF at <= Len(CHECKED)
    THEN at' = at + 1 /\ pc' = "check" /\ UNCHANGED history
    ELSE UNCHANGED at /\ pc' = "idle" /\ history' = [history EXCEPT !.completed = @ + 1]

\* The entity after this one, or the end of the run
NextEntity ==
  IF at < Len(CHECKED)
    THEN at' = at + 1 /\ pc' = "check" /\ UNCHANGED history
    ELSE UNCHANGED at /\ pc' = "idle" /\ history' = [history EXCEPT !.completed = @ + 1]

\* FileNotFoundError: the entity is passed over
SkipEntity ==
  /\ pc = "check"
  /\ CHECKED[at] \notin DOMAIN files
  /\ NextEntity
  /\ UNCHANGED <<files, quarantine, queue, programs, work, loaded, warehouse, used>>

\* Checked against the programs the run began with, not those it has kept
CheckEntity ==
  /\ pc = "check"
  /\ CHECKED[at] \in DOMAIN files
  /\ LET e == CHECKED[at]
         b == Bad(e, files[e], programs)
     IN  IF GateFails(e, b, files[e])
           THEN /\ pc' = "idle"
                /\ history' = [history EXCEPT !.regated = @ \/ history.completed > 0]
                /\ UNCHANGED work
           ELSE /\ pc' = "table"
                /\ Compute(files[e], b)
                /\ UNCHANGED history
  /\ UNCHANGED <<files, quarantine, queue, at, programs, loaded, warehouse, used>>

\* The result replaces the table it was computed from
WriteTable ==
  /\ pc = "table"
  /\ files' = Put(files, CHECKED[at], work.valid)
  /\ pc' = "quarantine"
  /\ UNCHANGED <<quarantine, queue, at, programs, work, loaded, warehouse, history, used>>

\* Overwritten, and only when there is something to write
WriteQuarantine ==
  /\ pc = "quarantine"
  /\ quarantine' = IF work.bad = {} THEN quarantine ELSE Put(quarantine, CHECKED[at], work.bad)
  /\ NextEntity
  /\ work' = NoWork
  /\ UNCHANGED <<files, queue, programs, loaded, warehouse, used>>

CrashRules ==
  /\ pc # "idle"
  /\ Use("crashes")
  /\ pc' = "idle"
  /\ work' = NoWork
  /\ history' = [history EXCEPT !.torn = TRUE]
  /\ UNCHANGED <<files, quarantine, queue, at, programs, loaded, warehouse>>

(***************************************************************************)
(* The cleaning: modelled in Silver, here by the tables it leaves           *)
(***************************************************************************)

Refresh(b) ==
  /\ LockFree
  /\ Use("refreshes")
  /\ queue' = b
  /\ history' = NewHistory
  /\ UNCHANGED <<files, quarantine, pc, at, programs, work, loaded, warehouse>>

\* In the order of TABLES
RefreshTable ==
  /\ \E i \in DOMAIN TABLES :
       /\ TABLES[i] \in DOMAIN queue
       /\ \A k \in DOMAIN TABLES : k < i => TABLES[k] \notin DOMAIN queue
       /\ files' = Put(files, TABLES[i], queue[TABLES[i]])
       /\ queue' = [t \in DOMAIN queue \ {TABLES[i]} |-> queue[t]]
  /\ UNCHANGED <<quarantine, pc, at, programs, work, loaded, warehouse, history, used>>

CrashRefresh ==
  /\ DOMAIN queue # {}
  /\ Use("crashes")
  /\ queue' = << >>
  /\ UNCHANGED <<files, quarantine, pc, at, programs, work, loaded, warehouse, history>>

(***************************************************************************)
(* The load of the schema silver                                            *)
(***************************************************************************)

\* The foreign keys, CHECK and UNIQUE constraints of migration 0004 that rows can fail
ProgramConstraints(T) ==
  /\ \A p \in T["program"] : \E c \in T["college"] : c.college = p.college
  /\ \A e \in FACTS : \A r \in T[e] : \E p \in T["program"] : p.program = r.program
  /\ \A e \in FACTS \cup {"shifter"} : \A r \in T[e] : r.sem \in SEMESTERS

StudentConstraints(T) ==
  /\ \A s \in T["student"] : \E p \in T["program"] : p.program = s.program
  /\ \A x \in T["shifter"] : {x.from, x.to} \subseteq {p.program : p \in T["program"]}
  /\ \A e \in FACTS \cup {"shifter"} : \A r \in T[e] : \E s \in T["student"] : s.student = r.student
  /\ \A e \in {"graduation", "dropout"} : \A r, q \in T[e] : r.student = q.student => r = q
  /\ \A e \in {"enrollment", "shifter"} : \A r, q \in T[e] :
       <<r.student, r.year, r.sem>> = <<q.student, q.year, q.sem>> => r = q

\* After assert_up_to_date; a load that is refused there changes nothing
BeginLoad ==
  /\ ~loaded.on
  /\ Use("loads")
  /\ loaded' = [NotLoading EXCEPT !.on = TRUE]
  /\ history' = [history EXCEPT !.settledLoad = history.completed >= 2]
  /\ UNCHANGED <<files, quarantine, queue, pc, at, programs, work, warehouse>>

\* One file is read, whoever else is writing, or is not there
ReadTable ==
  /\ loaded.on /\ Len(loaded.tables) < Len(TABLES)
  /\ LET t == TABLES[Len(loaded.tables) + 1]
     IN  loaded' = IF t \in DOMAIN files THEN [loaded EXCEPT !.tables = Append(@, files[t])]
                   ELSE NotLoading
  /\ UNCHANGED <<files, quarantine, queue, pc, at, programs, work, warehouse, history, used>>

AllRead == loaded.on /\ Len(loaded.tables) = Len(TABLES)

Read == [t \in Tables |-> loaded.tables[CHOOSE i \in DOMAIN TABLES : TABLES[i] = t]]

\* replace_all_table_contents: one transaction, its constraints checked at the COMMIT
CommitLoad ==
  /\ AllRead
  /\ warehouse' = IF ProgramConstraints(Read) /\ StudentConstraints(Read) THEN Read ELSE warehouse
  /\ loaded' = NotLoading
  /\ UNCHANGED <<files, quarantine, queue, pc, at, programs, work, history, used>>

Init ==
  /\ files = << >> /\ quarantine = << >> /\ queue = << >>
  /\ pc = "idle" /\ at = 1 /\ programs = {} /\ work = NoWork
  /\ loaded = NotLoading
  /\ warehouse = [t \in Tables |-> {}]
  /\ history = NewHistory
  /\ used = [refreshes |-> 0, runs |-> 0, loads |-> 0, crashes |-> 0]

Next ==
  \/ BeginRules \/ MissingDimension \/ SkipEntity \/ CheckEntity
  \/ WriteTable \/ WriteQuarantine \/ CrashRules
  \/ (\E b \in Batches : Refresh(b)) \/ RefreshTable \/ CrashRefresh
  \/ BeginLoad \/ ReadTable \/ CommitLoad

Spec == Init /\ [][Next]_vars
(***************************************************************************)
(* Properties                                                               *)
(***************************************************************************)

\* Tables hold rows of their own cleaning, the run is at an entity it has the rows of, and
\* the counters of history do not outrun the bound
TypeOK ==
  /\ DOMAIN files \subseteq Tables /\ DOMAIN quarantine \subseteq Entities
  /\ \A t \in DOMAIN files : files[t] \subseteq UNION {RowsOf(b, t) : b \in Batches}
  /\ DOMAIN queue \subseteq Tables
  /\ pc \in {"idle", "check", "table", "quarantine"} /\ at \in DOMAIN CHECKED
  /\ pc # "idle" => {"college", "program"} \subseteq DOMAIN files /\ DOMAIN queue = {}
  /\ pc \in {"table", "quarantine"} => CHECKED[at] \in DOMAIN files
  /\ work.valid \cap work.bad = {}
  /\ Len(loaded.tables) <= Len(TABLES)
  /\ DOMAIN warehouse = Tables
  /\ history.completed <= history.begun /\ history.begun <= MaxRuns
  /\ history.torn \in BOOLEAN /\ history.regated \in BOOLEAN /\ history.settledLoad \in BOOLEAN
  /\ \A e \in DOMAIN Limit : used[e] \in 0..Limit[e]

\* The facts agree with the program table about the college of a program
CollegesAgree(T) ==
  \A e \in FACTS : \A r \in RowsOf(T, e) :
    \E p \in T["program"] : p.program = r.program /\ p.college = r.college

\* The facts are checked against the programs as they were before the check of the programs
\* themselves (business_rules.py:344), so one run may leave rows of a program it has just
\* quarantined; two complete runs leave none.  After one complete run a further one is never
\* stopped by the gate (after one the gate has stopped it need not be: the programs it has
\* quarantined are gone from the checks that failed).  And a load that begins after two is not refused for anything the
\* checks look at, although it does not hold the lock and a third run may be rewriting the
\* tables while it reads them.
RerunSettles ==
  /\ history.completed >= 2 => CollegesAgree(files)
  /\ ~history.regated
  /\ history.settledLoad /\ AllRead =>
       ProgramConstraints(Read) /\ CollegesAgree(Read)

\* "quarantine, don't silently drop" (business_rules.py:15): every row the first run finds is
\* in its table or in the quarantine file whenever that run has not been cut short, wherever
\* it is.  The second run may remove rows the first one left, and then replaces the
\* quarantine file by them.
NothingLostOnFirstRun ==
  history.begun = 1 /\ ~history.torn =>
    \A e \in Entities \cap DOMAIN history.basis :
      history.basis[e] \subseteq
        RowsOf(files, e) \cup RowsOf(quarantine, e)
          \cup (IF pc = "quarantine" /\ CHECKED[at] = e THEN work.bad ELSE {})
=============================================================================
