---------------------------- MODULE MCBusinessRules ----------------------------
(***************************************************************************)
(* Instances of BusinessRules for TLC: one college, a program of one year and *)
(* a program of a college nobody knows, enrollment tables of four rows, so     *)
(* that one bad row is within the tolerance and two are beyond it.             *)
(***************************************************************************)
EXTENDS BusinessRules

Program(p, c) == [program |-> p, college |-> c, duration |-> 1]

F(s, p, c, sem, year, level, count) ==
  [student |-> s, program |-> p, college |-> c, sem |-> sem, year |-> year, level |-> level,
   count |-> count]

Good(s) == F(s, "draft", "COA", 1, 2021, 1, 18)

X(s, from, to, sem) == [student |-> s, from |-> from, to |-> to, sem |-> sem, year |-> 2021]

Students(S, p) == {[student |-> s, program |-> p] : s \in S}

S1to4 == {"s1", "s2", "s3", "s4"}

\* Nothing wrong
Clean ==
  [college |-> {[college |-> "COA"]}, program |-> {Program("draft", "COA")},
   student |-> Students(S1to4, "draft"),
   enrollment |-> {Good(s) : s \in S1to4}, graduation |-> {Good("s1")}, dropout |-> {},
   shifter |-> {X("s1", "draft", "draft", 1)}]

\* A program of an unknown college, with facts, a shift in a semester that is not; a negative count,
\* a fact of another college
Ghost ==
  [Clean EXCEPT !.program = @ \cup {Program("ghost", "NONE")},
                !.enrollment = {Good("s1"), F("s2", "ghost", "NONE", 1, 2021, 1, 18),
                                F("s3", "draft", "COA", 1, 2021, 1, -1),
                                F("s4", "draft", "NONE", 1, 2021, 1, 18)},
                !.graduation = {F("s2", "ghost", "NONE", 1, 2021, 1, 18)},
                !.shifter = {X("s1", "draft", "draft", 9)}]

\* A level, a semester and a year that one table tolerates and another does not
Levels == [Clean EXCEPT !.enrollment = {Good("s1"), Good("s2"), Good("s3"),
                                        F("s4", "draft", "COA", 1, 2021, 4, 18)},
                        !.dropout = {F("s4", "draft", "COA", 9, 2021, 1, 18)}]

Semesters == [Clean EXCEPT !.enrollment = {Good("s1"), Good("s2"), F("s3", "draft", "COA", 9, 2021, 1, 18),
                                           F("s4", "draft", "COA", 1, 2030, 1, 18)}]

\* A gate that fails for rows of a program of an unknown college
GhostGate == [Ghost EXCEPT !.enrollment = {Good("s1"), F("s2", "ghost", "NONE", 9, 2021, 1, 18),
                                           F("s3", "ghost", "NONE", 9, 2021, 1, 18)}]

Only(b, T) == [t \in T |-> b[t]]

MCBatches ==
  {Clean, Ghost, Levels, Semesters, GhostGate,
   \* no graduation, and no program, could be cleaned
   Only(Ghost, Tables \ {"graduation"}), Only(Clean, {"college", "enrollment"})}
=============================================================================
