---------------------------- MODULE StudentVersions ----------------------------
(***************************************************************************)
(* The history of a student in dim_student (pipelines/gold/                   *)
(* build_dimensions.py): one version per program, opened and closed by the    *)
(* shifts to another program, and valid from a semester to a semester.        *)
(* Semesters are numbered as in dim_academic_period.period_ordinal; the        *)
(* surrogate key of a semester is always that number plus one.                *)
(***************************************************************************)
EXTENDS Integers, FiniteSets

CONSTANT LastPeriod   \* the last semester of dim_academic_period

ASSUME PeriodsAssumption == LastPeriod \in Nat

Periods == 0..LastPeriod

\* No end in the table.  Also the key of a semester before the first one.
NoPeriod == -1

\* The order the shifts are sorted in, stable for those of one semester
Before(x, y) == x.sem < y.sem \/ (x.sem = y.sem /\ x.row < y.row)

Latest(H) == CHOOSE x \in H : \A y \in H : y = x \/ Before(y, x)

\* A shift in the semester of entry opens no version: there is nothing before it
Opening(s, H) == {x \in H : x.sem # s.entry}

\* The version student s is in after the shifts H
Version(s, H, end, current) ==
  [student |-> s.student, file |-> s.row, number |-> Cardinality(Opening(s, H)),
   program |-> IF H = {} THEN s.program ELSE Latest(H).to,
   from |-> IF Opening(s, H) = {} THEN s.entry ELSE Latest(Opening(s, H)).sem,
   to |-> end, current |-> current]

\* Mutant of EndBefore: valid to the semester of the shift itself
EndAt(y) == IF y.sem \in Periods THEN y.sem ELSE NoPeriod

EndBefore(y) == IF y.sem - 1 \in Periods THEN y.sem - 1 ELSE NoPeriod

\* One version is closed before every shift that opens one, and the last is current
VersionsOf(s, X) ==
  {Version(s, {x \in X : Before(x, y)}, EndBefore(y), FALSE) : y \in Opening(s, X)}
    \cup {Version(s, X, NoPeriod, TRUE)}

\* The condition of the as-of join
Covers(v, t) == v.from <= t /\ (v.to = NoPeriod \/ t <= v.to)

(***************************************************************************)
(* What a version means, without keys and intervals                         *)
(***************************************************************************)

\* The program of a student in a semester: that of the last shift not after it
ProgramAt(s, X, t) ==
  LET H == {x \in X : x.sem <= t} IN IF H = {} THEN s.program ELSE Latest(H).to
=============================================================================
