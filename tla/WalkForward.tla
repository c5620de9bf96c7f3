----------------------------- MODULE WalkForward -----------------------------
(***************************************************************************)
(* The pure decisions of the forecasting code: which walk-forward folds a   *)
(* series supports, which algorithms compete, which one wins, whether it     *)
(* can be built for the next semester, whether it replaces the champion and  *)
(* whether the series is retrained at all.                                   *)
(*                                                                          *)
(* A history is the set of period ordinals for which the features table has  *)
(* a row of the program.  A mean absolute error is a natural number counted  *)
(* in thirds of the last digit NUMERIC(14,4) keeps, so that a stored error   *)
(* can be rounded down (1 |-> 0), up (2 |-> 3) or not at all (3 |-> 3).      *)
(***************************************************************************)
EXTENDS Integers, FiniteSets

\* train_prophet.py: a series needs this many distinct periods to be evaluated
MIN_HISTORY_PERIODS == 4
\* train_prophet.py: two semesters make an academic year
SEASON_LENGTH == 2
\* get_last_trained_period_ordinal returns None
NoPeriod == -1

ALGORITHM_SIMPLICITY_RANK ==
  [naive |-> 0, seasonal_naive |-> 1, historical_avg |-> 2, count_model |-> 3, prophet |-> 4]

Algorithms == DOMAIN ALGORITHM_SIMPLICITY_RANK
BASELINE_ALGORITHMS == {"naive", "historical_avg", "seasonal_naive"}

(***************************************************************************)
(* Histories and folds                                                      *)
(***************************************************************************)

\* The last period of a non-empty history
Last(history) == CHOOSE p \in history : \A q \in history : q <= p

has_sufficient_history(history) == Cardinality(history) >= MIN_HISTORY_PERIODS

\* The three fold boundaries, shared by every series of a run: max is the last
\* period of the whole table, not of the series
derive_test_period_ordinals(max) == {max - 2, max - 1, max}

\* Mutant of Folds: a fold needs as much training data as a series needs history
FoldsOfFullHistory(history, max) ==
  {t \in derive_test_period_ordinals(max) \cap history :
     has_sufficient_history({p \in history : p < t})}

\* The folds of a series: a test period it has, with something before it to train on
Folds(history, max) ==
  {t \in derive_test_period_ordinals(max) \cap history : \E p \in history : p < t}

\* The folds seasonal_naive contributes a point to: the same semester one year
\* earlier is in the training window
SeasonalFolds(history, max) == {t \in Folds(history, max) : t - SEASON_LENGTH \in history}

\* The sets of algorithms that may end with a defined (not NaN) error: every fold
\* feeds prophet, naive and historical_avg; count_model is tried on
\* graduation_count only and a fold whose fit fails is left out, so it may be absent
EvaluatedSets(history, max, isGraduationCount) ==
  LET always   == IF Folds(history, max) = {} THEN {} ELSE {"prophet", "naive", "historical_avg"}
      seasonal == IF SeasonalFolds(history, max) = {} THEN {} ELSE {"seasonal_naive"}
      counted  == IF isGraduationCount /\ always # {} THEN {{}, {"count_model"}} ELSE {{}}
  IN  {always \cup seasonal \cup c : c \in counted}

(***************************************************************************)
(* Champion selection                                                       *)
(***************************************************************************)

\* The order of select_champion_algorithm's sort key: the error, then the rank
Beats(maes, a, b) ==
  \/ maes[a] < maes[b]
  \/ /\ maes[a] = maes[b]
     /\ ALGORITHM_SIMPLICITY_RANK[a] < ALGORITHM_SIMPLICITY_RANK[b]

\* The first of the ranking over the algorithms in C; a set, empty when C is empty
\* (the code raises ValueError there)
select_champion_algorithm(maes, C) == {a \in C : \A b \in C \ {a} : Beats(maes, a, b)}

\* _next_target_period: the semester after the last one observed
NextTarget(history) == Last(history) + 1

\* _build_champion_model raises ValueError only for seasonal_naive, when the
\* semester one year before the target was not observed
Buildable(a, history) ==
  a = "seasonal_naive" => NextTarget(history) - SEASON_LENGTH \in history

\* What the deploy loop ends up with: the winner, or the next of the ranking when
\* the winner cannot be built
DeployedAlgorithm(maes, history) ==
  LET winners == select_champion_algorithm(maes, DOMAIN maes)
  IN  IF \A w \in winners : Buildable(w, history)
      THEN winners
      ELSE select_champion_algorithm(maes, DOMAIN maes \ winners)

(***************************************************************************)
(* Promotion and retraining                                                 *)
(***************************************************************************)

\* model_registry.mae is NUMERIC(14, 4): what an error reads back as
DbMae(mae) == 3 * ((mae + 1) \div 3)

\* Mutant of decide_champion_promotion: the champion is not consulted
PromoteEveryWinner(mae, championMae) == TRUE

\* A winner that is worse than the stored champion is rejected, any other promoted
decide_champion_promotion(mae, championMae) == ~(mae > championMae)

\* Mutants of should_retrain: the same period again is enough; no bootstrap
RetrainOnSamePeriod(current, lastTrained) == lastTrained = NoPeriod \/ current >= lastTrained
RetrainNeverBootstraps(current, lastTrained) == lastTrained # NoPeriod /\ current > lastTrained

should_retrain(current, lastTrained) == lastTrained = NoPeriod \/ current > lastTrained
=============================================================================
