------------------------------- MODULE MCSilver -------------------------------
(***************************************************************************)
(* Instances of Silver for TLC: two students and two semesters, one unit for  *)
(* the student master, one enrollment file per semester, one dropout file.    *)
(* The file of the second semester may correct a record of the first one.     *)
(***************************************************************************)
EXTENDS Silver

MCEntityOf == <<"student", "enrollment", "enrollment", "dropout">>

MCRaw == [s \in {"ENROLLED", "enrolled", "DROPPED", "???"} |->
            CASE s = "enrolled" -> "ENROLLED" [] s = "???" -> "UNKNOWN" [] OTHER -> s]

R(s, sem, status, level) == [student |-> s, sem |-> sem, status |-> status, level |-> level]

First == {R("s1", 1, "ENROLLED", 1), R("s2", 1, "ENROLLED", 1)}
Second == {R("s1", 2, "ENROLLED", 2), R("s2", 2, "ENROLLED", 2)}

MCFiles == <<
  {{R("s1", 1, "ENROLLED", 0), R("s2", 1, "ENROLLED", 0)}},
  { First,
    \* two spellings, two versions of one record, and a student nobody knows
    {R("s1", 1, "enrolled", 1), R("s1", 1, "ENROLLED", 2), R("s3", 1, "ENROLLED", 1)} },
  { \* a correction of the first semester, and nothing wrong
    Second \cup {R("s1", 1, "ENROLLED", 2)},
    \* an unknown status
    {R("s1", 2, "ENROLLED", 2), R("s2", 2, "???", 2)},
    \* a dropout, and a jump in year level
    {R("s1", 2, "ENROLLED", 3), R("s2", 2, "DROPPED", 1)} },
  {{R("s2", 2, "DROPPED", 0)}} >>
=============================================================================
