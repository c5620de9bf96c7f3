-------------------------- MODULE MCDeployForecasts --------------------------
(***************************************************************************)
(* Instances of DeployForecasts for TLC: up to two programs, one or both of  *)
(* the target metrics, semesters 0..5 (the observed range 2021-1 .. 2023-2)  *)
(* and one semester beyond.                                                  *)
(***************************************************************************)
EXTENDS DeployForecasts, TLC

\* Two runs of the same program are interchangeable
MCSymmetry == Permutations(Runs)

\* One program, its enrollment_count series only
MCOneProgram == [s \in Series |-> 1]

\* One program per series
MCOwnProgram == [s \in Series |-> s]

\* Four and five periods observed, and one too few
MCHistories == {0..2, 0..3, 0..4}

\* One too few, four, and a program observed for three semesters beyond those four
MCLongHistories == {0..2, 0..3, 0..6}
=============================================================================
