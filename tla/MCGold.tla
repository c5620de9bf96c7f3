-------------------------------- MODULE MCGold --------------------------------
(***************************************************************************)
(* Instances of Gold for TLC: three semesters, and Silver tables that gain a   *)
(* program and a student in the middle of the sort order, a second shift, and  *)
(* rows that each kind of check meets.                                         *)
(***************************************************************************)
EXTENDS Gold

MCCollegeOf == [p \in {10, 20, 30} |-> IF p = 30 THEN "c2" ELSE "c1"]

S(s, row, entry, p) == [student |-> s, row |-> row, entry |-> entry, program |-> p]
X(s, row, t, p, q) == [student |-> s, row |-> row, sem |-> t, from |-> p, to |-> q]
E(s, t, p, status, level) ==
  [student |-> s, sem |-> t, program |-> p, status |-> status, level |-> level]
O(s, t, p) == [student |-> s, sem |-> t, program |-> p]

\* Student 1 shifts in the second semester, student 3 drops out in it
First ==
  [program |-> {10, 30},
   student |-> {S(1, 1, 0, 30), S(3, 2, 0, 30)},
   shifter |-> {X(1, 1, 1, 30, 10)},
   enrollment |-> {E(1, 0, 30, "ENROLLED", 1), E(1, 1, 10, "ENROLLED", 1), E(1, 2, 10, "ENROLLED", 2),
                   E(3, 0, 30, "ENROLLED", 1), E(3, 1, 30, "DROPPED", 1)},
   graduation |-> {},
   dropout |-> {O(3, 1, 30)}]

\* Program 20 and student 2, who shifts at once, and a record after the calendar
Grown ==
  [First EXCEPT !.program = @ \cup {20}, !.student = @ \cup {S(2, 3, 1, 20)},
                !.shifter = @ \cup {X(2, 2, 1, 20, 10)},
                !.enrollment = @ \cup {E(2, 1, 10, "ENROLLED", 1), E(2, 2, 10, "ENROLLED", 1),
                                       E(1, 3, 10, "ENROLLED", 2)}]

\* Student 1 shifts again and graduates
Again ==
  [Grown EXCEPT !.shifter = @ \cup {X(1, 3, 2, 10, 20)}, !.graduation = {O(1, 2, 20)},
                !.enrollment = (@ \ {E(1, 2, 10, "ENROLLED", 2)}) \cup {E(1, 2, 20, "GRADUATED", 2)}]

Bad == <<
  \* two shifts in one semester, two masters of one student, a dropout whose enrollment
  \* record is in quarantine and the only one of its college
  [First EXCEPT !.shifter = @ \cup {X(1, 2, 1, 30, 30)}],
  [First EXCEPT !.student = @ \cup {S(3, 3, 0, 10)}],
  [First EXCEPT !.enrollment = @ \ {E(3, 1, 30, "DROPPED", 1)}],
  \* a year level that has no row in the dimension, a shift after the calendar
  [First EXCEPT !.enrollment = {E(3, 0, 30, "ENROLLED", 7)}],
  [First EXCEPT !.shifter = @ \cup {X(1, 2, 3, 10, 30)}],
  \* a dropout of an unknown program, two graduations of a student without a shift
  \* between them, and with one
  [First EXCEPT !.dropout = @ \cup {O(1, 2, 20)}],
  [First EXCEPT !.graduation = {O(1, 1, 10), O(1, 2, 10)}],
  [First EXCEPT !.graduation = {O(1, 0, 30), O(1, 2, 10)}] >>

MCSnapshots == <<First, Grown, Again>> \o Bad

\* Data as they should be, where a program is added
Good == <<First, Grown>>
=============================================================================
