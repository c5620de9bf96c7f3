---------------------------- MODULE StudentLifecycle ----------------------------
(***************************************************************************)
(* simulate_student (data_generator/generators/generate_progression.py) and   *)
(* the rules it draws from (data_generator/rules/progression_rules.py): the   *)
(* life of one student, semester by semester, and the records it leaves.      *)
(* Probabilities are abstracted to what they allow: 0 forbids an outcome, 1   *)
(* forces it, anything in between leaves it open.  The module has no          *)
(* variables; GenerateDataset walks the students of a run through it.         *)
(***************************************************************************)
EXTENDS Integers, Sequences

CONSTANTS
  Programs,   \* configs/programs.yaml
  CollegeOf,  \* program -> its college
  Duration,   \* program -> nominal_duration_years
  ExtraYears  \* stall.max_year_level_cap_extra_years

\* A shift needs a program of another college to go to: the fallback of the draw
\* covers a college of one program, not a university of one college
ASSUME ProgramsAssumption ==
  /\ Duration \in [Programs -> Nat \ {0}]
  /\ DOMAIN CollegeOf = Programs
  /\ \A p \in Programs : \E q \in Programs : CollegeOf[q] # CollegeOf[p]
  /\ ExtraYears \in Nat

\* round(nominal_duration_years * 2), of whole years only
NominalSemesters(p) == 2 * Duration[p]

max_year_level_cap(p) == Duration[p] + ExtraYears

entry_semester_index(cohort) == 2 * cohort

\* A row of student_master.csv enters the simulation; horizon is max_semester_index
EnterStudent(s, horizon) ==
  [student |-> s.id, entry |-> s.program, first |-> entry_semester_index(s.cohort),
   idx |-> entry_semester_index(s.cohort), horizon |-> horizon,
   level |-> s.level, program |-> s.program, tenure |-> 0,
   enrollment |-> <<>>, graduation |-> {}, dropout |-> {}, shifter |-> {},
   status |-> "ACTIVE"]

\* The loop has ended: a break, or the end of the window
Over(j) == j.status # "ACTIVE" \/ j.idx > j.horizon

Row(j, p, status) ==
  [student |-> j.student, sem |-> j.idx, program |-> p, status |-> status, level |-> j.level]

Outcome(j) == [student |-> j.student, sem |-> j.idx, program |-> j.program, tenure |-> j.tenure + 1]

Shift(j, q) == [student |-> j.student, sem |-> j.idx, from |-> j.program, to |-> q]

\* 0 < dropout_probability <= 0.35: every semester may be the last
DropOut(j) ==
  {[j EXCEPT !.tenure = @ + 1, !.status = "DROPPED", !.dropout = {Outcome(j)},
             !.enrollment = Append(@, Row(j, j.program, "DROPPED"))]}

\* The completion clock is that of the program of entry, whatever the student shifts to
Eligible(j) == j.tenure + 1 >= NominalSemesters(j.entry)

Graduate(j) ==
  {k \in {[j EXCEPT !.tenure = @ + 1, !.status = "GRADUATED", !.graduation = {Outcome(j)},
                    !.enrollment = Append(@, Row(j, j.program, "GRADUATED"))]} : Eligible(j)}

\* Mutant of may_shift: has_shifted is not looked at
ShiftsAgain(j) == j.level \in {1, 2}

\* shift_probability is 0 outside the first two year levels; once per student
may_shift(j) == j.shifter = {} /\ j.level \in {1, 2}

\* The same college or, when it has no other program, any; or another college
pick_shift_target_program(p) ==
  LET here == {q \in Programs \ {p} : CollegeOf[q] = CollegeOf[p]}
      away == {q \in Programs : CollegeOf[q] # CollegeOf[p]}
  IN  (IF here = {} THEN Programs \ {p} ELSE here) \cup away

\* The program a student who stays is enrolled in this semester
NextPrograms(j) == {j.program} \cup IF may_shift(j) THEN pick_shift_target_program(j.program) ELSE {}

\* Mutant of NextLevels: the cap is not looked at
Uncapped(j) == IF (j.tenure + 1) % 2 = 0 THEN {j.level, j.level + 1} ELSE {j.level}

\* At the end of a year a student at the cap stalls, any other may advance or stall
NextLevels(j) ==
  IF (j.tenure + 1) % 2 = 0 /\ j.level < max_year_level_cap(j.entry)
    THEN {j.level, j.level + 1}
    ELSE {j.level}

\* Enrolled in q for this semester, to be continued at the level
StayWith(j, q, level) ==
  [j EXCEPT !.idx = @ + 1, !.tenure = @ + 1, !.program = q, !.level = level,
            !.shifter = IF q = j.program THEN @ ELSE @ \cup {Shift(j, q)},
            !.enrollment = Append(@, Row(j, q, "ENROLLED"))]

Stay(j) == UNION {{StayWith(j, q, level) : level \in NextLevels(j)} : q \in NextPrograms(j)}

\* One iteration of the loop
Semester(j) == DropOut(j) \cup Graduate(j) \cup Stay(j)
=============================================================================
