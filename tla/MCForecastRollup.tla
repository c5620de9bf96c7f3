--------------------------- MODULE MCForecastRollup ---------------------------
(***************************************************************************)
(* Instances of ForecastRollup: two or three programs in two colleges, models *)
(* trained up to one of two successive semesters.                            *)
(***************************************************************************)
EXTENDS ForecastRollup, TLC

\* Two programs of one college, one of another
MCCollegeOf == [p \in Programs |-> IF p <= 2 THEN "ccs" ELSE "cba"]

\* Two runs of the same program are interchangeable
MCSymmetry == Permutations(Rollups)
=============================================================================
