------------------------------- MODULE Warehouse -------------------------------
(***************************************************************************)
(* What readers of the warehouse are promised: the star they see is that of   *)
(* one snapshot of the Silver tables, as a whole.  Rows name students,         *)
(* programs and semesters themselves, so that no surrogate key occurs here.    *)
(***************************************************************************)
EXTENDS StudentVersions

CONSTANTS
  Snapshots,   \* the Silver tables at different times
  CollegeOf    \* program -> its college

VARIABLE star

ShiftsOf(s, T) == {x \in T.shifter : x.student = s.student}

\* Semesters of the calendar in which the student has entered already
Known(T, r) ==
  r.sem \in Periods /\ \E s \in T.student : s.student = r.student /\ s.entry <= r.sem

InProgram(T, r) ==
  LET s == CHOOSE x \in T.student : x.student = r.student IN ProgramAt(s, ShiftsOf(s, T), r.sem)

Enrolled(T) ==
  {[student |-> r.student, sem |-> r.sem, as |-> InProgram(T, r), program |-> r.program,
    status |-> r.status, level |-> r.level] : r \in {x \in T.enrollment : Known(T, x)}}

Outcomes(T, rows) ==
  {[student |-> r.student, sem |-> r.sem, as |-> InProgram(T, r), program |-> r.program]
     : r \in {x \in rows : Known(T, x)}}

Shifted(T) ==
  {[student |-> r.student, sem |-> r.sem, as |-> InProgram(T, r), from |-> r.from, to |-> r.to]
     : r \in {x \in T.shifter : Known(T, x)}}

\* Still enrolled, or graduating, in the next semester, without a shift to another
\* program in that semester
Continues(T, e) ==
  /\ \E f \in Enrolled(T) :
       f.student = e.student /\ f.sem = e.sem + 1 /\ f.status \in {"ENROLLED", "GRADUATED"}
  /\ ~\E x \in T.shifter : x.student = e.student /\ x.sem = e.sem + 1

Retained(T) ==
  {[student |-> e.student, sem |-> e.sem, as |-> e.as, retained |-> Continues(T, e)]
     : e \in {f \in Enrolled(T) : f.status # "GRADUATED" /\ f.sem < LastPeriod}}

Of(rows, c, t) == {r \in rows : CollegeOf[r.program] = c /\ r.sem = t}

\* The counts from which the rates of fact_institution_kpi are computed
Kpi(T) ==
  LET Row(c, t) ==
        [college |-> c, sem |-> t,
         enrolled |-> Cardinality(Of(Enrolled(T), c, t)),
         graduated |-> Cardinality(Of(Outcomes(T, T.graduation), c, t)),
         dropped |-> Cardinality(Of(Outcomes(T, T.dropout), c, t)),
         shifted |-> Cardinality({r \in Shifted(T) : CollegeOf[r.from] = c /\ r.sem = t}),
         retained |-> Cardinality({e \in Of(Enrolled(T), c, t) :
                        e.status # "GRADUATED" /\ t < LastPeriod /\ Continues(T, e)})]
  IN  {Row(CollegeOf[r.program], r.sem) : r \in Enrolled(T)}

StarOf(T) ==
  [members |-> UNION {{<<s.student, t, ProgramAt(s, ShiftsOf(s, T), t)>> : t \in s.entry..LastPeriod}
                        : s \in T.student},
   enrollment |-> Enrolled(T),
   graduation |-> Outcomes(T, T.graduation),
   dropout |-> Outcomes(T, T.dropout),
   shifter |-> Shifted(T),
   retention |-> Retained(T),
   kpi |-> Kpi(T)]

Empty ==
  [members |-> {}, enrollment |-> {}, graduation |-> {}, dropout |-> {},
   shifter |-> {}, retention |-> {}, kpi |-> {}]

Init == star = Empty

Publish(i) == star' = StarOf(Snapshots[i])

Next == \E i \in DOMAIN Snapshots : Publish(i)

Spec == Init /\ [][Next]_star
=============================================================================
