---------------------------- MODULE GenerateDataset ----------------------------
(***************************************************************************)
(* generate_full_dataset (data_generator/generators/generate_all.py): one run *)
(* writes the student master, derives the admissions funnel from it, walks    *)
(* every student through StudentLifecycle, writes the records partition by    *)
(* partition, validates them, layers noise over them in place and records     *)
(* what happened in a manifest.  Runs follow one another over one output      *)
(* directory, with other configurations, with or without clearing it first,   *)
(* and may end between any two stages.                                        *)
(***************************************************************************)
EXTENDS StudentLifecycle, FiniteSets

CONSTANTS
  Cohorts,         \* cohort_sizes: entry years, counted from 2021
  Plans,           \* sequences of configurations the generator may be invoked with
  ExpectedYears,   \* the academic years the validator looks for
  ExpectedLabels,  \* the year levels it looks for, 5 for Super Senior
  BufferYears,     \* business_rules.check_year_level_valid
  MaxCrashes,      \* bound: runs that end between two stages
  MaxNoise         \* bound: rows hit by each kind of noise

\* The configurations of the plans
Configs == UNION {{p[i] : i \in DOMAIN p} : p \in Plans}

ADMISSION_TYPES == {"Freshman", "Transferee"}

\* rates are fractions <<n, d>>; invalid names the stage whose config file is refused
ASSUME ConfigsAssumption ==
  /\ Plans \subseteq Seq(Configs) \ {<<>>}
  /\ Cohorts \subseteq Nat /\ IsFiniteSet(Cohorts)
  /\ \A c \in Configs :
       /\ c.sizes \in [Cohorts -> Nat]
       /\ c.programs \subseteq Programs /\ c.admissions \subseteq ADMISSION_TYPES
       /\ c.rates \subseteq {r \in Nat \X Nat : 0 < r[1] /\ r[1] <= r[2]}
       /\ c.horizon \in Nat
       /\ c.clean \in BOOLEAN /\ c.validate \in BOOLEAN /\ c.noise \in BOOLEAN
  /\ BufferYears \in Nat /\ BufferYears >= 2 /\ ExtraYears <= BufferYears
  /\ MaxCrashes \in Nat

VARIABLES
  plan,      \* the invocations still to come
  config,    \* of the latest invocation
  pc,        \* the stage it is about to execute, or how it ended
  disk,      \* the output directory
  journeys,  \* the students simulated so far
  verdict,   \* validation_passed
  crashes    \* runs that were ended so far

vars == <<plan, config, pc, disk, journeys, verdict, crashes>>

EVENTS == <<"enrollment", "graduation", "dropout", "shifter">>

Stages ==
  {"students", "admissions", "progression", "simulate", "validation", "noise", "manifest"}
    \cup {EVENTS[i] : i \in DOMAIN EVENTS}

Ended == {"returned", "raised", "failed", "crashed"}

\* An empty output directory
EmptyDisk ==
  [master |-> {}, profiles |-> {}, admissions |-> {}, enrollment |-> {}, graduation |-> {},
   dropout |-> {}, shifter |-> {}, manifest |-> "none"]

\* A line of enrollment.csv in the partition of semester at
Line(at, row, noisy, copy) == [at |-> at, row |-> row, noisy |-> noisy, copy |-> copy]

Init ==
  /\ plan \in Plans
  /\ config = Head(plan)
  /\ pc = "returned"
  /\ disk = EmptyDisk
  /\ journeys = <<>>
  /\ verdict = "none"
  /\ crashes = 0

CleanOutput(c) == IF c.clean THEN EmptyDisk ELSE disk

Start ==
  /\ pc \in Ended
  /\ plan # <<>>
  /\ plan' = Tail(plan)
  /\ config' = Head(plan)
  /\ disk' = CleanOutput(Head(plan))
  /\ journeys' = <<>>
  /\ verdict' = "none"
  /\ pc' = "students"
  /\ UNCHANGED crashes

(***************************************************************************)
(* Students and admissions                                                  *)
(***************************************************************************)

\* make_student_id: the cohort and a sequence number within it, the same in every run
Ids(c) == UNION {{<<k, i>> : i \in 1..c.sizes[k]} : k \in Cohorts}

sample_entry_year_level(admission) == IF admission = "Freshman" THEN {1} ELSE {2, 3}

Draws(c) ==
  UNION {{[program |-> p, admission |-> a, level |-> level] :
            p \in c.programs, level \in sample_entry_year_level(a)} : a \in c.admissions}

\* Mutant of Student: the parts of the number are confused
SwapsNumber(id, draw) ==
  [id |-> id, cohort |-> id[2], admission |-> draw.admission, level |-> draw.level,
   program |-> draw.program]

Student(id, draw) ==
  [id |-> id, cohort |-> id[1], admission |-> draw.admission, level |-> draw.level,
   program |-> draw.program]

generate_all_students ==
  /\ pc = "students"
  /\ config.invalid # "students"
  /\ \E f \in [Ids(config) -> Draws(config)] :
       disk' = [disk EXCEPT !.master = {Student(id, f[id]) : id \in Ids(config)},
                            !.profiles = Ids(config)]
  /\ pc' = "admissions"
  /\ UNCHANGED <<plan, config, journeys, verdict, crashes>>

\* ceil(a / b)
Ceil(a, b) == (a + b - 1) \div b

derive_funnel_counts(enrolled, yield, acceptance) ==
  LET accepted == Ceil(enrolled * yield[2], yield[1])
  IN  [enrolled |-> enrolled, accepted |-> accepted,
       applicants |-> Ceil(accepted * acceptance[2], acceptance[1])]

Freshmen(k, p) == {s \in disk.master : s.admission = "Freshman" /\ s.cohort = k /\ s.program = p}

\* The cohorts and programs that have freshmen
Groups == {<<s.cohort, s.program>> : s \in {x \in disk.master : x.admission = "Freshman"}}

\* One file per year that has groups; the file of a year that has none stays as it was
generate_all_admissions ==
  /\ pc = "admissions"
  /\ config.invalid # "admissions"
  /\ \E yield, acceptance \in [Groups -> config.rates] :
       disk' = [disk EXCEPT !.admissions =
                  {a \in @ : \A g \in Groups : g[1] # a.cohort} \cup
                  {[cohort |-> g[1], program |-> g[2],
                    counts |-> derive_funnel_counts(Cardinality(Freshmen(g[1], g[2])),
                                                    yield[g], acceptance[g])] : g \in Groups}]
  /\ pc' = "progression"
  /\ UNCHANGED <<plan, config, journeys, verdict, crashes>>

(***************************************************************************)
(* Progression                                                              *)
(***************************************************************************)

\* A student without a risk profile ends the run
_read_students_and_risk ==
  /\ pc = "progression"
  /\ config.invalid # "progression"
  /\ IF \A s \in disk.master : s.id \in disk.profiles
       THEN /\ journeys' = [id \in {s.id : s \in disk.master} |->
                              EnterStudent(CHOOSE s \in disk.master : s.id = id, config.horizon)]
            /\ pc' = "simulate"
       ELSE pc' = "failed" /\ UNCHANGED journeys
  /\ UNCHANGED <<plan, config, disk, verdict, crashes>>

Before(a, b) == a[1] < b[1] \/ (a[1] = b[1] /\ a[2] < b[2])

\* One iteration of simulate_student for the student whose turn it is
SimulateSemester ==
  /\ pc = "simulate"
  /\ \E s \in DOMAIN journeys :
       /\ ~Over(journeys[s])
       /\ \A r \in DOMAIN journeys : Before(r, s) => Over(journeys[r])
       /\ \E j \in Semester(journeys[s]) : journeys' = [journeys EXCEPT ![s] = j]
  /\ UNCHANGED <<plan, config, pc, disk, verdict, crashes>>

SimulationOver ==
  /\ pc = "simulate"
  /\ \A s \in DOMAIN journeys : Over(journeys[s])
  /\ pc' = EVENTS[1]
  /\ UNCHANGED <<plan, config, disk, journeys, verdict, crashes>>

RangeOf(seq) == {seq[i] : i \in DOMAIN seq}

\* What the simulated students leave, by entity
RecordsOf(e) ==
  UNION {IF e = "enrollment"
           THEN {Line(r.sem, r, FALSE, "own") : r \in RangeOf(journeys[s].enrollment)}
           ELSE journeys[s][e] : s \in DOMAIN journeys}

SemesterOf(e, x) == IF e = "enrollment" THEN x.at ELSE x.sem

\* Where a stage of the records is followed by the next, and the last by what is enabled
AfterEvent(i) ==
  IF i < Len(EVENTS) THEN EVENTS[i + 1]
  ELSE IF config.validate THEN "validation" ELSE IF config.noise THEN "noise" ELSE "manifest"

\* _write_partitions: only partitions that have records are written; a file of an earlier
\* run in any other partition stays
WriteEvents(i) ==
  LET e == EVENTS[i]
      written == {SemesterOf(e, x) : x \in RecordsOf(e)}
  IN  /\ pc = e
      /\ disk' = [disk EXCEPT ![e] = {x \in @ : SemesterOf(e, x) \notin written} \cup RecordsOf(e)]
      /\ pc' = AfterEvent(i)
      /\ UNCHANGED <<plan, config, journeys, verdict, crashes>>

(***************************************************************************)
(* Validation                                                               *)
(***************************************************************************)

RowsOf(lines) == {x.row : x \in lines}

is_super_senior(level, p) == level > Duration[p]

\* 1 to 4 for Freshman to Senior, 5 for Super Senior
year_level_label(level, p) ==
  IF level <= 4 THEN level ELSE IF is_super_senior(level, p) THEN 5 ELSE 4

\* Every expected year, both semesters and every year level appear
CoversEverything(rows) ==
  /\ ExpectedYears \subseteq {r.sem \div 2 : r \in rows}
  /\ {0, 1} \subseteq {r.sem % 2 : r \in rows}
  /\ ExpectedLabels \subseteq {year_level_label(r.level, r.program) : r \in rows}

NoDuplicates(lines) ==
  \A x, y \in lines : x.row.student = y.row.student /\ x.row.sem = y.row.sem => x = y

Known(rows) == \A r \in rows : r.student \in {s.id : s \in disk.master}

\* find_impossible_year_level_transitions finds nothing
PossibleTransitions(rows) ==
  \A p, r \in rows :
    p.student = r.student /\ r.sem = p.sem + 1 => r.level \in {p.level, p.level + 1}

\* The rows have no duplicates, orphans or impossible transitions
SoundRecords(lines) ==
  /\ NoDuplicates(lines)
  /\ Known(RowsOf(lines) \cup disk.graduation \cup disk.dropout \cup disk.shifter)
  /\ PossibleTransitions(RowsOf(lines))

\* Mutant of build_validation_report: transitions are not looked at
OnlyCovers(lines) == CoversEverything(RowsOf(lines)) /\ NoDuplicates(lines)

build_validation_report(lines) == CoversEverything(RowsOf(lines)) /\ SoundRecords(lines)

\* The files are what a bad run left as well as this one's; they are checked as they are
Validate ==
  /\ pc = "validation"
  /\ verdict' = IF build_validation_report(disk.enrollment) THEN "passed" ELSE "failed"
  /\ pc' = IF config.noise THEN "noise" ELSE "manifest"
  /\ UNCHANGED <<plan, config, disk, journeys, crashes>>

(***************************************************************************)
(* Noise                                                                    *)
(***************************************************************************)

\* Mutant of LateCopy: the copy is dated by the partition it arrives in
RedatedCopy(x, t) == [x EXCEPT !.at = t, !.copy = "late", !.row.sem = t]

\* The row as it is, its own year and semester included, in a later partition
LateCopy(x, t) == [x EXCEPT !.at = t, !.copy = "late"]

SmallSubsets(S) == {T \in SUBSET S : Cardinality(T) <= MaxNoise}

Noised(x, hit) == IF x \in hit THEN [x EXCEPT !.noisy = TRUE] ELSE x

\* Texts of the status, duplicates in the partition and copies in a later one, for some
\* of the lines; files are read before any is written.  Typos only hit home_province.
apply_all_noise ==
  /\ pc = "noise"
  /\ config.invalid # "noise"
  /\ IF disk.enrollment = {}
       THEN pc' = "failed" /\ UNCHANGED disk
       ELSE /\ pc' = "manifest"
            /\ LET L == disk.enrollment
                   later(x) == {y.at : y \in {z \in L : z.at > x.at}}
               IN  \E hit, twice, late \in SmallSubsets(L) :
                   \E to \in [late -> {x.at : x \in L}] :
                     /\ \A x \in late : to[x] \in later(x)
                     /\ disk' = [disk EXCEPT !.enrollment =
                          {Noised(x, hit) : x \in L}
                          \cup {[Noised(x, hit) EXCEPT !.copy = "again"] : x \in twice}
                          \cup {LateCopy(Noised(x, hit), to[x]) : x \in late}]
  /\ UNCHANGED <<plan, config, journeys, verdict, crashes>>

(***************************************************************************)
(* The end of a run                                                         *)
(***************************************************************************)

\* The manifest is written whatever the verdict, and only then is a failure raised
WriteManifest ==
  /\ pc = "manifest"
  /\ disk' = [disk EXCEPT !.manifest = IF config.validate THEN verdict ELSE "not run"]
  /\ pc' = IF config.validate /\ verdict # "passed" THEN "raised" ELSE "returned"
  /\ UNCHANGED <<plan, config, journeys, verdict, crashes>>

\* Each stage loads its config first and refuses a bad one
RejectConfig ==
  /\ pc \in Stages
  /\ config.invalid = pc
  /\ pc' = "failed"
  /\ UNCHANGED <<plan, config, disk, journeys, verdict, crashes>>

Crash ==
  /\ pc \in Stages
  /\ crashes < MaxCrashes
  /\ crashes' = crashes + 1
  /\ pc' = "crashed"
  /\ UNCHANGED <<plan, config, disk, journeys, verdict>>

Next ==
  \/ Start
  \/ generate_all_students
  \/ generate_all_admissions
  \/ _read_students_and_risk
  \/ SimulateSemester
  \/ SimulationOver
  \/ \E i \in DOMAIN EVENTS : WriteEvents(i)
  \/ Validate
  \/ apply_all_noise
  \/ WriteManifest
  \/ RejectConfig
  \/ Crash

Spec == Init /\ [][Next]_vars

(***************************************************************************)
(* Properties                                                               *)
(***************************************************************************)

Ids0 == Cohorts \X (Nat \ {0})

\* The state has the shapes the stages assume: students known by cohort and number, files
\* that hold rows of programs that exist, a verdict that is only there once it was reached
TypeOK ==
  /\ config \in Configs /\ pc \in Stages \cup Ended
  /\ \A s \in disk.master : /\ s.id \in Ids0 /\ s.cohort = s.id[1] /\ s.program \in Programs
                            /\ s.level \in sample_entry_year_level(s.admission)
  /\ DOMAIN journeys \subseteq Ids0
  /\ \A x \in disk.enrollment : /\ x.at \in Nat /\ x.noisy \in BOOLEAN
                                /\ x.copy \in {"own", "again", "late"}
                                /\ x.row.program \in Programs /\ x.row.level \in Nat
  /\ disk.manifest \in {"none", "passed", "failed", "not run"}
  /\ verdict \in {"none", "passed", "failed"}
  /\ verdict # "none" => pc \notin {"students", "admissions", "progression", "simulate"}
  /\ crashes \in 0..MaxCrashes

ProgramBefore(j, i) == IF i = 1 THEN j.entry ELSE j.enrollment[i - 1].program

\* The four kinds of records of a student tell one story: an enrollment record for every
\* semester from entry on, without a gap; the program changes from one to the next exactly
\* where a shift says so, at most once; at most one outcome, of the last record's semester
\* and program, and only that record has its status
TellsOneStory(j) ==
  /\ \A i \in DOMAIN j.enrollment : j.enrollment[i].sem = j.first + i - 1
  /\ \A x, y \in j.shifter : x = y
  /\ \A i \in DOMAIN j.enrollment :
       LET r == j.enrollment[i]
       IN  {x \in j.shifter : x.sem = r.sem} =
             IF r.program = ProgramBefore(j, i) THEN {}
             ELSE {[student |-> j.student, sem |-> r.sem, from |-> ProgramBefore(j, i),
                    to |-> r.program]}
  /\ \A i \in DOMAIN j.enrollment :
       LET r == j.enrollment[i]
           here(O) == {o \in O : o.sem = r.sem /\ o.program = r.program}
       IN  /\ r.status = "DROPPED" <=> here(j.dropout) # {}
           /\ r.status = "GRADUATED" <=> here(j.graduation) # {}
           /\ i < Len(j.enrollment) => r.status = "ENROLLED"
  /\ j.graduation = {} \/ j.dropout = {}

\* The records simulate_student emits for one student never contradict each other
\* (generate_progression.py:144), whatever is drawn
RecordsTellOneStory == \A s \in DOMAIN journeys : TellsOneStory(journeys[s])

\* check_year_level_valid for one row
PlausibleLevel(r) == 1 <= r.level /\ r.level <= Duration[r.program] + BufferYears

PassesSilver(j) ==
  /\ \A i \in DOMAIN j.enrollment :
       i > 1 => j.enrollment[i].level \in {j.enrollment[i - 1].level, j.enrollment[i - 1].level + 1}
  /\ j.shifter = {} => \A i \in DOMAIN j.enrollment : PlausibleLevel(j.enrollment[i])

\* What the generator emits passes the checks Silver makes of it: no year level moves by more
\* than one up or at all down (progression_validation.py:43), and none is beyond what
\* check_year_level_valid (business_rules.py:173) holds plausible, unless the student
\* shifted: the cap is that of the program of entry, the check that of the program shifted to
CleanRowsPassSilver == \A s \in DOMAIN journeys : PassesSilver(journeys[s])

Records(e) == IF e = "enrollment" THEN RowsOf(RecordsOf(e)) ELSE RecordsOf(e)

OnDisk(e) == IF e = "enrollment" THEN RowsOf(disk[e]) ELSE disk[e]

\* Every group of freshmen in the student master has one row
\* in the admissions funnel, with its head count, and applicants >= accepted >= enrolled
\* (generate_admissions.py:84, business_rules.check_admissions_funnel)
FunnelFollowsMaster ==
  disk.admissions # {} =>
    /\ {<<a.cohort, a.program>> : a \in disk.admissions} = Groups
    /\ \A a \in disk.admissions :
         /\ a.counts.enrolled = Cardinality(Freshmen(a.cohort, a.program))
         /\ a.counts.applicants >= a.counts.accepted /\ a.counts.accepted >= a.counts.enrolled
         /\ \A b \in disk.admissions : a.cohort = b.cohort /\ a.program = b.program => a = b

\* After a run that cleared the directory, the files hold what was simulated and nothing
\* else: noise and the stages in between lose no row, change none and bring none in from
\* earlier runs, and a copy is never in a partition before its own semester.  The admissions
\* are those of the student master of the run
DiskHoldsTheRun ==
  config.clean =>
    /\ FunnelFollowsMaster
    /\ \A i \in DOMAIN EVENTS :
         OnDisk(EVENTS[i]) \in
           (IF pc \in {"validation", "noise", "manifest", "returned", "raised"} THEN {} ELSE {{}})
             \cup {Records(EVENTS[i])}
    /\ \A x \in disk.enrollment : IF x.copy = "late" THEN x.at > x.row.sem ELSE x.at = x.row.sem

\* A run that returns with a passed validation in its manifest leaves a dataset whose
\* enrollment, noise and leftovers of earlier runs included, has one record per student and
\* semester, of known students, with possible transitions and nothing expected missing
PassedManifestIsSound ==
  pc = "returned" /\ disk.manifest = "passed" =>
    LET rows == RowsOf(disk.enrollment)
    IN  /\ \A p, r \in rows : p.student = r.student /\ p.sem = r.sem => p = r
        /\ Known(rows) /\ PossibleTransitions(rows) /\ CoversEverything(rows)

=============================================================================
