--------------------------- MODULE MCGenerateDataset ---------------------------
(***************************************************************************)
(* Instances of GenerateDataset for TLC: a certificate of one year and a       *)
(* program of five in one college, a program of four years alone in another.  *)
(* One plan walks a student of any program through the whole window; the       *)
(* others run twice over one directory, with a window of one year.             *)
(***************************************************************************)
EXTENDS GenerateDataset

MCCollegeOf == [p \in {"draft", "arch", "it"} |-> IF p = "it" THEN "CICT" ELSE "COA"]

MCDuration == [p \in {"draft", "arch", "it"} |->
                CASE p = "draft" -> 1 [] p = "arch" -> 5 [] p = "it" -> 4]

Sizes(a, b) == [k \in {0, 1} |-> IF k = 0 THEN a ELSE b]

\* The three years of the window, for students of cohort k
Wide(k) ==
  [sizes |-> Sizes(1 - k, k), programs |-> {"draft", "arch", "it"}, admissions |-> ADMISSION_TYPES,
   rates |-> {<<1, 1>>}, horizon |-> 5, invalid |-> "", clean |-> TRUE, validate |-> FALSE,
   noise |-> FALSE]

\* One student and one year
Year ==
  [sizes |-> Sizes(1, 0), programs |-> {"draft"}, admissions |-> ADMISSION_TYPES,
   rates |-> {<<1, 2>>}, horizon |-> 1, invalid |-> "", clean |-> TRUE, validate |-> TRUE,
   noise |-> TRUE]

Keep(c) == [c EXCEPT !.clean = FALSE]

\* Two or three freshmen of two cohorts; draws of the funnel
Funnel ==
  [Year EXCEPT !.sizes = Sizes(2, 1), !.admissions = {"Freshman"}, !.horizon = 0, !.noise = FALSE,
               !.programs = {"draft", "it"}, !.rates = {<<1, 2>>, <<2, 3>>}]

Refused == {[Year EXCEPT !.invalid = stage] : stage \in {"students", "admissions", "progression", "noise"}}

MCPlans ==
  {<<Wide(0)>>, <<Wide(1)>>, <<Year, Keep(Year)>>, <<Keep(Year), Year>>,
   <<Funnel, Keep([Funnel EXCEPT !.sizes = Sizes(0, 1)])>>,
   <<Year, [Keep(Year) EXCEPT !.noise = FALSE, !.sizes = Sizes(0, 1), !.horizon = 2]>>}
  \cup {<<c>> : c \in Refused \cup {[Year EXCEPT !.sizes = Sizes(0, 1)]}}
=============================================================================
