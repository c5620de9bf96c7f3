----------------------- MODULE DeployForecasts_proofs -----------------------
(***************************************************************************)
(* Proofs about WalkForward (which algorithm is deployed, that there always  *)
(* is one, and what rounding does to the comparison with the champion), and  *)
(* about DeployForecasts, for any number of runs, series, histories and       *)
(* failures.                                                                *)
(***************************************************************************)
EXTENDS DeployForecasts, FiniteSetTheorems, SequenceTheorems, WellFoundedInduction, TLAPS

(***************************************************************************)
(* The decisions of WalkForward                                             *)
(***************************************************************************)

LEMMA RankIsInjective ==
  /\ \A a \in Algorithms : ALGORITHM_SIMPLICITY_RANK[a] \in 0..4
  /\ \A a, b \in Algorithms : ALGORITHM_SIMPLICITY_RANK[a] = ALGORITHM_SIMPLICITY_RANK[b] => a = b
BY DEF Algorithms, ALGORITHM_SIMPLICITY_RANK

\* Two algorithms never tie: the ranking has at most one first.
LEMMA SelectionIsUnique ==
  ASSUME NEW C \in SUBSET Algorithms, NEW maes \in [Algorithms -> Nat],
         NEW a \in select_champion_algorithm(maes, C), NEW b \in select_champion_algorithm(maes, C)
  PROVE  a = b
BY RankIsInjective DEF select_champion_algorithm, Beats

\* ... and it has one as soon as there is anything to rank.
LEMMA SelectionExists ==
  ASSUME NEW C \in SUBSET Algorithms, C # {}, NEW D \in SUBSET Algorithms, C \subseteq D,
         NEW maes \in [D -> Nat]
  PROVE  select_champion_algorithm(maes, C) # {}
<1> DEFINE weight(a) == 5 * maes[a] + ALGORITHM_SIMPLICITY_RANK[a]
           W == {weight(a) : a \in C}
<1>1. \A a \in C : weight(a) \in Nat
  BY RankIsInjective
<1>2. W \subseteq Nat /\ W # {}
  BY <1>1
<1>3. PICK w \in W : \A v \in W : ~(v < w)
  <2> DEFINE less == OpToRel(<, Nat)
  <2>1. PICK w \in W : \A v \in W : <<v, w>> \notin less
    <3> HIDE DEF less
    <3>1. IsWellFoundedOn(less, Nat)
      BY NatLessThanWellFounded DEF less
    <3> QED
      BY <1>2, <3>1, WFMin
  <2>2. \A v \in W : v < w => <<v, w>> \in less
    BY <1>2 DEF OpToRel
  <2> QED
    BY <2>1, <2>2
<1>4. PICK a \in C : w = weight(a)
  BY <1>3
<1>5. ASSUME NEW b \in C \ {a}
      PROVE  Beats(maes, a, b)
  <2>1. weight(a) <= weight(b) /\ a # b
    <3>1. weight(b) \in W /\ ~(weight(b) < weight(a))
      BY <1>3, <1>4
    <3>2. weight(a) \in Nat /\ weight(b) \in Nat
      BY <1>1
    <3> HIDE DEF weight
    <3> QED
      BY <3>1, <3>2
  <2>2. /\ maes[a] \in Nat /\ maes[b] \in Nat
        /\ ALGORITHM_SIMPLICITY_RANK[a] \in 0..4 /\ ALGORITHM_SIMPLICITY_RANK[b] \in 0..4
        /\ ALGORITHM_SIMPLICITY_RANK[a] # ALGORITHM_SIMPLICITY_RANK[b]
    BY <2>1, RankIsInjective
  <2> QED
    BY <2>1, <2>2 DEF Beats
<1> QED
  BY <1>5 DEF select_champion_algorithm

\* Only seasonal_naive can be impossible to build.
LEMMA OthersAreBuildable ==
  ASSUME NEW a, NEW h, a # "seasonal_naive"
  PROVE  Buildable(a, h)
BY DEF Buildable

\* Whatever deploy_forecasts deploys was evaluated, can be built, and comes before
\* every other algorithm that can.
THEOREM DeployedIsBestBuildable ==
  ASSUME NEW C \in SUBSET Algorithms, NEW maes \in [C -> Nat], NEW h,
         NEW a \in DeployedAlgorithm(maes, h)
  PROVE  /\ a \in C
         /\ Buildable(a, h)
         /\ \A b \in C \ {a} : Buildable(b, h) => Beats(maes, a, b)
<1> DEFINE winners == select_champion_algorithm(maes, C)
<1>0. DOMAIN maes = C
  OBVIOUS
<1>1. CASE \A w \in winners : Buildable(w, h)
  BY <1>0, <1>1 DEF DeployedAlgorithm, select_champion_algorithm
<1>2. CASE ~ \A w \in winners : Buildable(w, h)
  <2>1. "seasonal_naive" \in winners /\ ~Buildable("seasonal_naive", h)
    BY <1>2, OthersAreBuildable
  <2>2. a \in select_champion_algorithm(maes, C \ winners)
    BY <1>0, <1>2 DEF DeployedAlgorithm
  <2>3. \A w \in winners : w = "seasonal_naive"
    BY <2>1, RankIsInjective DEF select_champion_algorithm, Beats
  <2>4. a \in C /\ a # "seasonal_naive"
    BY <2>1, <2>2 DEF select_champion_algorithm
  <2>5. ASSUME NEW b \in C \ {a}, Buildable(b, h)
        PROVE  Beats(maes, a, b)
    BY <2>1, <2>2, <2>3, <2>5 DEF select_champion_algorithm
  <2> QED
    BY <2>4, <2>5, OthersAreBuildable
<1> QED
  BY <1>1, <1>2

\* A series with at least one fold always ends with an algorithm to deploy: neither
\* the selection nor the fallback runs out of candidates.
THEOREM EvaluationDeploys ==
  ASSUME NEW h, NEW max, NEW isGraduationCount,
         NEW C \in EvaluatedSets(h, max, isGraduationCount), C # {},
         NEW maes \in [C -> Nat]
  PROVE  DeployedAlgorithm(maes, h) # {}
<1>1. "naive" \in C /\ C \subseteq Algorithms
  BY DEF EvaluatedSets, SeasonalFolds, Algorithms, ALGORITHM_SIMPLICITY_RANK
<1> DEFINE winners == select_champion_algorithm(maes, C)
<1>2. CASE \A w \in winners : Buildable(w, h)
  BY <1>1, <1>2, SelectionExists DEF DeployedAlgorithm
<1>3. CASE ~ \A w \in winners : Buildable(w, h)
  <2>1. "seasonal_naive" \in winners
    BY <1>3, OthersAreBuildable
  <2>2. "naive" \notin winners
    BY <1>1, <2>1 DEF select_champion_algorithm, Beats, ALGORITHM_SIMPLICITY_RANK
  <2>3. select_champion_algorithm(maes, C \ winners) # {}
    BY <1>1, <2>2, SelectionExists
  <2> QED
    BY <1>3, <2>3 DEF DeployedAlgorithm
<1> QED
  BY <1>2, <1>3

\* Rounding keeps order, and a stored error reads back as itself.
LEMMA DbMaeKeepsOrder ==
  ASSUME NEW m \in Nat, NEW n \in Nat
  PROVE  /\ DbMae(m) \in Nat
         /\ DbMae(DbMae(m)) = DbMae(m)
         /\ m <= n => DbMae(m) <= DbMae(n)
BY DEF DbMae

\* A candidate promoted over a champion is stored with an error no larger than the
\* champion's, although the comparison was made before the candidate's was rounded.
THEOREM PromotionNeverWorsens ==
  ASSUME NEW m \in Nat, NEW n \in Nat, decide_champion_promotion(m, DbMae(n))
  PROVE  DbMae(m) <= DbMae(n)
<1>1. DbMae(n) \in Nat /\ DbMae(DbMae(n)) = DbMae(n)
  BY DbMaeKeepsOrder
<1>2. m <= DbMae(n)
  BY <1>1 DEF decide_champion_promotion
<1> QED
  BY <1>1, <1>2, DbMaeKeepsOrder

(***************************************************************************)
(* Histories, as DeployForecasts hands them to WalkForward                  *)
(***************************************************************************)

\* The periods of any histories have a last one, at or after each of theirs.
LEMMA LastOfHistories ==
  ASSUME NEW H, H \subseteq Histories, H # {}
  PROVE  /\ Last(UNION H) \in UNION H
         /\ Last(UNION H) \in Nat
         /\ \A q \in UNION H : q <= Last(UNION H)
<1>1. PICK p \in UNION H : \A q \in UNION H : q <= p
  BY ConstantsAssumption DEF ConstantsAssumption
<1>2. Last(UNION H) \in UNION H /\ \A q \in UNION H : q <= Last(UNION H)
  BY <1>1 DEF Last
<1> QED
  BY <1>2, ConstantsAssumption DEF ConstantsAssumption

\* The last period of a history the features table may hold is one of its periods.
LEMMA LastOfHistory ==
  ASSUME NEW h \in Histories
  PROVE  Last(h) \in h /\ Last(h) \in Nat /\ \A q \in h : q <= Last(h)
<1>1. UNION {h} = h
  OBVIOUS
<1> QED
  BY <1>1, LastOfHistories

\* A series with enough history has some.
LEMMA SufficientIsNonEmpty ==
  ASSUME NEW h, has_sufficient_history(h)
  PROVE  h # {}
BY FS_EmptySet DEF has_sufficient_history, MIN_HISTORY_PERIODS

\* What deploy_forecasts deploys is one of the algorithms it evaluated.
LEMMA DeployedIsEvaluated ==
  ASSUME NEW maes, NEW h, NEW a \in DeployedAlgorithm(maes, h)
  PROVE  a \in DOMAIN maes
BY DEF DeployedAlgorithm, select_champion_algorithm

(***************************************************************************)
(* Type correctness                                                         *)
(***************************************************************************)

\* A run past the gate works on a series with enough history.
WorkHasHistory ==
  \A r \in Runs : pc[r] \notin {"idle", "gate"} => has_sufficient_history(History(r))

TypeInv == TypeOK /\ WorkHasHistory

\* The half of the type invariant that concerns the runs
RunsTyped ==
  /\ pc \in [Runs -> Steps]
  /\ at \in [Runs -> Series]
  /\ snap \in [Runs -> [Programs -> Histories \cup {{}}]]
  /\ cand \in [Runs -> Candidate]
  /\ txn \in [Runs -> Txn]
  /\ key \in [Runs -> Nat]

LEMMA HistoryOfWork ==
  ASSUME TypeInv, NEW r \in Runs, pc[r] \notin {"idle", "gate"}
  PROVE  Last(History(r)) \in Nat
<1>1. ProgramOf[at[r]] \in Programs
  BY ConstantsAssumption DEF TypeInv, TypeOK, ConstantsAssumption
<1>2. History(r) \in Histories \cup {{}}
  BY <1>1 DEF TypeInv, TypeOK, History
<1>3. History(r) # {}
  BY SufficientIsNonEmpty DEF TypeInv, WorkHasHistory
<1> QED
  BY <1>2, <1>3, LastOfHistory

LEMMA RestingValues == NoCandidate \in Candidate /\ NoTxn \in Txn /\ NoKey \in Nat
BY DEF NoCandidate, Candidate, NoTxn, Txn, NoKey

LEMMA EndRunTyped ==
  ASSUME TypeInv, NEW r \in Runs, EndRun(r)
  PROVE  RunsTyped' /\ WorkHasHistory'
<1>1. 1 \in Series
  BY ConstantsAssumption DEF ConstantsAssumption, Series
<1>2. EmptyTable \in [Programs -> Histories \cup {{}}]
  BY DEF EmptyTable
<1>3. RunsTyped'
  BY <1>1, <1>2, RestingValues DEF TypeInv, TypeOK, RunsTyped, EndRun, Steps
<1>4. WorkHasHistory'
  BY DEF TypeInv, TypeOK, WorkHasHistory, EndRun, History
<1> QED
  BY <1>3, <1>4

LEMMA NextSeriesTyped ==
  ASSUME TypeInv, NEW r \in Runs, NextSeries(r)
  PROVE  RunsTyped' /\ WorkHasHistory'
<1>1. CASE at[r] = NumSeries
  BY <1>1, EndRunTyped DEF NextSeries
<1>2. CASE at[r] # NumSeries
  <2>1. at[r] + 1 \in Series
    BY <1>2, ConstantsAssumption DEF ConstantsAssumption, TypeInv, TypeOK, Series
  <2>2. RunsTyped'
    <3>1. at' \in [Runs -> Series] /\ pc' \in [Runs -> Steps]
      BY <1>2, <2>1 DEF NextSeries, TypeInv, TypeOK, Steps
    <3>2. cand' \in [Runs -> Candidate] /\ txn' \in [Runs -> Txn] /\ key' \in [Runs -> Nat]
      BY <1>2, RestingValues DEF NextSeries, TypeInv, TypeOK
    <3> QED
      BY <1>2, <3>1, <3>2 DEF NextSeries, TypeInv, TypeOK, RunsTyped
  <2>3. WorkHasHistory'
    BY <1>2 DEF NextSeries, TypeInv, TypeOK, WorkHasHistory, History
  <2> QED
    BY <2>2, <2>3
<1> QED
  BY <1>1, <1>2

\* A run that only moves on within its series keeps its history.
LEMMA SameSeriesKeepsHistory ==
  ASSUME TypeInv, NEW r \in Runs, NEW step \in Steps,
         pc' = [pc EXCEPT ![r] = step], UNCHANGED <<at, snap>>,
         step \in {"idle", "gate"} \/ has_sufficient_history(History(r))
  PROVE  WorkHasHistory'
BY DEF TypeInv, TypeOK, WorkHasHistory, History

UsedTyped == used \in [Events -> Nat] /\ \A e \in Events : used[e] <= Limit[e]

LEMMA SpendTyped ==
  ASSUME TypeInv, NEW e \in Events, Spend(e)
  PROVE  UsedTyped'
<1>1. Limit \in [Events -> Nat]
  BY ConstantsAssumption DEF ConstantsAssumption, Limit, Events
<1>2. UsedTyped
  BY DEF TypeInv, TypeOK, UsedTyped
<1>3. used' \in [Events -> Nat]
  BY <1>2 DEF UsedTyped, Spend
<1>4. ASSUME NEW d \in Events
      PROVE  used'[d] <= Limit[d]
  <2>1. CASE d = e
    BY <1>1, <1>2, <2>1 DEF UsedTyped, Spend
  <2>2. CASE d # e
    BY <1>2, <2>2 DEF UsedTyped, Spend
  <2> QED
    BY <2>1, <2>2
<1> QED
  BY <1>3, <1>4 DEF UsedTyped

\* A registry read leaves the budget within its bounds.
LEMMA ReadTyped ==
  ASSUME TypeInv, NEW answers, NEW v, Read(answers, v)
  PROVE  UsedTyped'
<1>1. CASE v \in answers
  BY <1>1 DEF Read, TypeInv, TypeOK, UsedTyped
<1>2. CASE v \notin answers
  BY <1>2, SpendTyped DEF Read, Events
<1> QED
  BY <1>1, <1>2

\* The row a run records is well formed.
LEMMA CandidateRowTyped ==
  ASSUME TypeInv, NEW r \in Runs, pc[r] \notin {"idle", "gate"}
  PROVE  CandidateRow(r) \in Row
<1>1. cand[r].mae \in Nat /\ cand[r].promote \in BOOLEAN /\ at[r] \in Series
  BY DEF TypeInv, TypeOK, Candidate
<1>2. DbMae(cand[r].mae) \in Nat
  BY <1>1 DEF DbMae
<1> QED
  BY <1>1, <1>2, HistoryOfWork DEF CandidateRow, Row

\* What TypeOK says of the tables
TablesTyped ==
  /\ features \in [Programs -> Histories \cup {{}}]
  /\ registry \in Seq(Row)
  /\ champions \subseteq DOMAIN registry
  /\ forecasts \subseteq Forecast

LEMMA TypeOKParts ==
  /\ TypeOK <=> TablesTyped /\ RunsTyped /\ UsedTyped
  /\ TypeOK' <=> TablesTyped' /\ RunsTyped' /\ UsedTyped'
BY DEF TypeOK, TablesTyped, RunsTyped, UsedTyped

\* The evaluation of a run ended with this error against this champion
EvaluatedTo(r, mae, c) ==
  cand' = [cand EXCEPT ![r] =
    [mae |-> mae,
     promote |-> c = NoKey \/ decide_champion_promotion(mae, registry[c].mae)]]

\* Every action keeps the type invariant.
LEMMA NextKeepsTypes ==
  ASSUME TypeInv, [Next]_vars
  PROVE  TypeInv'
<1> USE DEF dbVars, runVars
<1> SUFFICES TablesTyped' /\ RunsTyped' /\ UsedTyped' /\ WorkHasHistory'
  BY TypeOKParts DEF TypeInv
<1>0. TablesTyped /\ RunsTyped /\ UsedTyped /\ WorkHasHistory
  BY TypeOKParts DEF TypeInv
<1>1. CASE RebuildFeatures
  <2>1. TablesTyped' /\ RunsTyped'
    BY <1>0, <1>1 DEF RebuildFeatures, TablesTyped, RunsTyped
  <2>2. WorkHasHistory'
    BY <1>0, <1>1 DEF RebuildFeatures, WorkHasHistory, History
  <2> QED
    BY <1>1, <2>1, <2>2, SpendTyped DEF RebuildFeatures, Events
<1>2. ASSUME NEW r \in Runs, Launch(r)
      PROVE  TablesTyped' /\ RunsTyped' /\ UsedTyped' /\ WorkHasHistory'
  <2>1. TablesTyped' /\ RunsTyped' /\ UsedTyped'
    BY <1>0, <1>2 DEF Launch, TablesTyped, RunsTyped, UsedTyped, Steps
  <2>2. WorkHasHistory'
    BY <1>0, <1>2 DEF Launch, RunsTyped, WorkHasHistory, History
  <2> QED
    BY <2>1, <2>2
<1>3. ASSUME NEW r \in Runs, SkipInsufficientHistory(r)
      PROVE  TablesTyped' /\ RunsTyped' /\ UsedTyped' /\ WorkHasHistory'
  BY <1>0, <1>3, NextSeriesTyped DEF SkipInsufficientHistory, TablesTyped, UsedTyped
<1>4. ASSUME NEW r \in Runs, RetrainGate(r)
      PROVE  TablesTyped' /\ RunsTyped' /\ UsedTyped' /\ WorkHasHistory'
  <2>1. TablesTyped'
    BY <1>0, <1>4 DEF RetrainGate, TablesTyped
  <2>2. UsedTyped'
    BY <1>4, ReadTyped DEF RetrainGate
  <2>3. \/ NextSeries(r)
        \/ pc' = [pc EXCEPT ![r] = "evaluate"] /\ UNCHANGED <<at, snap, cand, txn, key>>
    BY <1>4 DEF RetrainGate
  <2>4. has_sufficient_history(History(r))
    BY <1>4 DEF RetrainGate
  <2>5. CASE pc' = [pc EXCEPT ![r] = "evaluate"] /\ UNCHANGED <<at, snap, cand, txn, key>>
    <3>1. RunsTyped'
      BY <1>0, <2>5 DEF RunsTyped, Steps
    <3> QED
      BY <2>1, <2>2, <2>4, <2>5, <3>1, SameSeriesKeepsHistory DEF Steps
  <2> QED
    BY <2>1, <2>2, <2>3, <2>5, NextSeriesTyped
<1>5. ASSUME NEW r \in Runs, Evaluate(r)
      PROVE  TablesTyped' /\ RunsTyped' /\ UsedTyped' /\ WorkHasHistory'
  <2>1. TablesTyped'
    BY <1>0, <1>5 DEF Evaluate, TablesTyped
  <2>2. UsedTyped'
    BY <1>5, ReadTyped DEF Evaluate
  <2>3. has_sufficient_history(History(r))
    BY <1>0, <1>5 DEF Evaluate, WorkHasHistory
  <2>4. cand' \in [Runs -> Candidate]
    <3>1. PICK C \in EvaluatedSets(History(r), DatasetMax(r), at[r] \in GraduationSeries) :
            \E maes \in [C -> Maes] : \E a \in DeployedAlgorithm(maes, History(r)) :
              \E c \in get_current_champion(at[r]) \cup {NoKey} : EvaluatedTo(r, maes[a], c)
      BY <1>5 DEF Evaluate, EvaluatedTo
    <3>2. PICK maes \in [C -> Maes] : \E a \in DeployedAlgorithm(maes, History(r)) :
            \E c \in get_current_champion(at[r]) \cup {NoKey} : EvaluatedTo(r, maes[a], c)
      BY <3>1
    <3>3. PICK a \in DeployedAlgorithm(maes, History(r)),
               c \in get_current_champion(at[r]) \cup {NoKey} : EvaluatedTo(r, maes[a], c)
      BY <3>2
    <3>4. maes[a] \in Nat
      BY DeployedIsEvaluated, ConstantsAssumption DEF ConstantsAssumption
    <3>5. [mae |-> maes[a],
           promote |-> c = NoKey \/ decide_champion_promotion(maes[a], registry[c].mae)] \in Candidate
      BY <3>4 DEF Candidate, decide_champion_promotion
    <3> QED
      BY <1>0, <3>3, <3>5 DEF RunsTyped, EvaluatedTo
  <2>5. RunsTyped'
    BY <1>0, <1>5, <2>4 DEF Evaluate, RunsTyped, Steps
  <2> QED
    BY <1>5, <2>1, <2>2, <2>3, <2>5, SameSeriesKeepsHistory DEF Evaluate, Steps
<1>6. ASSUME NEW r \in Runs, NothingToEvaluate(r)
      PROVE  TablesTyped' /\ RunsTyped' /\ UsedTyped' /\ WorkHasHistory'
  BY <1>0, <1>6, EndRunTyped DEF NothingToEvaluate, TablesTyped, UsedTyped
<1>7. ASSUME NEW r \in Runs, RecordRejected(r)
      PROVE  TablesTyped' /\ RunsTyped' /\ UsedTyped' /\ WorkHasHistory'
  <2>1. CandidateRow(r) \in Row
    BY <1>7, CandidateRowTyped DEF RecordRejected
  <2>2. registry' \in Seq(Row) /\ DOMAIN registry \subseteq DOMAIN registry'
    BY <1>0, <1>7, <2>1 DEF RecordRejected, TablesTyped
  <2>3. TablesTyped' /\ UsedTyped'
    BY <1>0, <1>7, <2>2 DEF RecordRejected, TablesTyped, UsedTyped
  <2> QED
    BY <1>7, <2>3, NextSeriesTyped DEF RecordRejected
<1>8. ASSUME NEW r \in Runs, BeginPromotion(r)
      PROVE  TablesTyped' /\ RunsTyped' /\ UsedTyped' /\ WorkHasHistory'
  <2>1. Champions(at[r]) \subseteq Nat
    BY <1>0 DEF TablesTyped, Champions
  <2>2. RunsTyped'
    BY <1>0, <1>8, <2>1 DEF BeginPromotion, RunsTyped, Steps, Txn
  <2> QED
    BY <1>0, <1>8, <2>2, SameSeriesKeepsHistory
    DEF BeginPromotion, TablesTyped, UsedTyped, WorkHasHistory, Steps
<1>9. ASSUME NEW r \in Runs, DemoteChampion(r)
      PROVE  TablesTyped' /\ RunsTyped' /\ UsedTyped' /\ WorkHasHistory'
  <2>1. txn[r].seen \cap champions \subseteq Nat
    BY <1>0 DEF TablesTyped
  <2>2. RunsTyped'
    BY <1>0, <1>9, <2>1 DEF DemoteChampion, RunsTyped, Steps, Txn
  <2> QED
    BY <1>0, <1>9, <2>2, SameSeriesKeepsHistory
    DEF DemoteChampion, TablesTyped, UsedTyped, WorkHasHistory, Steps
<1>10. ASSUME NEW r \in Runs, CommitPromotion(r)
       PROVE  TablesTyped' /\ RunsTyped' /\ UsedTyped' /\ WorkHasHistory'
  <2>1. CandidateRow(r) \in Row
    BY <1>10, CandidateRowTyped DEF CommitPromotion
  <2>2. registry' \in Seq(Row) /\ DOMAIN registry' = DOMAIN registry \cup {Len(registry) + 1}
    BY <1>0, <1>10, <2>1 DEF CommitPromotion, TablesTyped
  <2>3. TablesTyped' /\ UsedTyped'
    BY <1>0, <1>10, <2>2 DEF CommitPromotion, TablesTyped, UsedTyped
  <2>4. RunsTyped'
    BY <1>0, <1>10, RestingValues DEF CommitPromotion, TablesTyped, RunsTyped, Steps
  <2> QED
    BY <1>0, <1>10, <2>3, <2>4, SameSeriesKeepsHistory DEF CommitPromotion, WorkHasHistory, Steps
<1>11. ASSUME NEW r \in Runs, PromotionConflict(r)
       PROVE  TablesTyped' /\ RunsTyped' /\ UsedTyped' /\ WorkHasHistory'
  <2>1. RunsTyped'
    BY <1>0, <1>11, RestingValues DEF PromotionConflict, RunsTyped, Steps
  <2> QED
    BY <1>0, <1>11, <2>1, SameSeriesKeepsHistory
    DEF PromotionConflict, TablesTyped, UsedTyped, WorkHasHistory, Steps
<1>12. ASSUME NEW r \in Runs, WriteForecast(r)
       PROVE  TablesTyped' /\ RunsTyped' /\ UsedTyped' /\ WorkHasHistory'
  <2>1. NextTarget(History(r)) \in Nat
    BY <1>12, HistoryOfWork DEF WriteForecast, NextTarget
  <2>2. TablesTyped' /\ UsedTyped'
    BY <1>0, <1>12, <2>1 DEF WriteForecast, TablesTyped, RunsTyped, UsedTyped, Forecast
  <2> QED
    BY <1>12, <2>2, NextSeriesTyped DEF WriteForecast
<1>13. ASSUME NEW r \in Runs, ForecastRefused(r)
       PROVE  TablesTyped' /\ RunsTyped' /\ UsedTyped' /\ WorkHasHistory'
  BY <1>0, <1>13, EndRunTyped DEF ForecastRefused, TablesTyped, UsedTyped
<1>14. ASSUME NEW r \in Runs, RecordFault(r)
       PROVE  TablesTyped' /\ RunsTyped' /\ UsedTyped' /\ WorkHasHistory'
  <2>1. TablesTyped' /\ UsedTyped'
    BY <1>0, <1>14, SpendTyped DEF RecordFault, TablesTyped, Events
  <2>2. CASE cand[r].promote
    <3>1. RunsTyped'
      BY <1>0, <1>14, <2>2, RestingValues DEF RecordFault, RunsTyped, Steps
    <3> QED
      BY <1>0, <1>14, <2>1, <2>2, <3>1, SameSeriesKeepsHistory DEF RecordFault, WorkHasHistory, Steps
  <2>3. CASE ~cand[r].promote
    BY <1>14, <2>1, <2>3, NextSeriesTyped DEF RecordFault
  <2> QED
    BY <2>2, <2>3
<1>15. ASSUME NEW r \in Runs, Abort(r)
       PROVE  TablesTyped' /\ RunsTyped' /\ UsedTyped' /\ WorkHasHistory'
  BY <1>0, <1>15, EndRunTyped, SpendTyped DEF Abort, TablesTyped, Events
<1>16. CASE UNCHANGED vars
  BY <1>0, <1>16 DEF vars, TablesTyped, RunsTyped, UsedTyped, WorkHasHistory, History
<1> QED
  BY <1>1, <1>2, <1>3, <1>4, <1>5, <1>6, <1>7, <1>8, <1>9, <1>10, <1>11, <1>12, <1>13,
     <1>14, <1>15, <1>16 DEF Next, Step

LEMMA InitTyped == Init => TypeInv
<1> SUFFICES ASSUME Init PROVE TypeInv
  OBVIOUS
<1>1. TablesTyped
  BY DEF Init, TablesTyped
<1>2. RunsTyped
  BY RestingValues, ConstantsAssumption
  DEF Init, RunsTyped, ConstantsAssumption, Series, Steps, EmptyTable
<1>3. UsedTyped
  <2>1. Limit \in [Events -> Nat]
    BY ConstantsAssumption DEF ConstantsAssumption, Limit, Events
  <2> QED
    BY <2>1 DEF Init, UsedTyped
<1> QED
  BY <1>1, <1>2, <1>3, TypeOKParts DEF TypeInv, WorkHasHistory, Init

\* The variables of the deployment keep their types (TypeOK): in particular every
\* champion is a recorded row, a run never walks past the last series, and the
\* series a run evaluates has enough history in its own snapshot.
THEOREM TypeCorrect == Spec => [](TypeOK /\ WorkHasHistory)
BY InitTyped, NextKeepsTypes, PTL DEF Spec, TypeInv

(***************************************************************************)
(* The registry as a history                                                *)
(***************************************************************************)

\* Rows stay what they are, and a demoted row is not promoted again
HistoryKept ==
  /\ Len(registry') >= Len(registry)
  /\ DOMAIN registry \subseteq DOMAIN registry'
  /\ \A k \in DOMAIN registry : registry'[k] = registry[k]
  /\ champions' \cap DOMAIN registry \subseteq champions

LEMMA AppendKeeps ==
  ASSUME NEW S, NEW seq \in Seq(S), NEW x \in S
  PROVE  /\ Len(Append(seq, x)) = Len(seq) + 1
         /\ DOMAIN seq \subseteq DOMAIN Append(seq, x)
         /\ DOMAIN Append(seq, x) = DOMAIN seq \cup {Len(seq) + 1}
         /\ Len(seq) + 1 \notin DOMAIN seq
         /\ \A k \in DOMAIN seq : Append(seq, x)[k] = seq[k]
         /\ Append(seq, x)[Len(seq) + 1] = x
OBVIOUS

\* The only steps that touch the tables
LEMMA TableSteps ==
  ASSUME TypeInv, [Next]_vars
  PROVE  \/ UNCHANGED dbVars
         \/ \E r \in Runs : RecordRejected(r) \/ CommitPromotion(r) \/ WriteForecast(r)
<1> USE DEF dbVars
<1>1. CASE RebuildFeatures
  BY <1>1 DEF RebuildFeatures
<1>2. ASSUME NEW r \in Runs,
             \/ Launch(r) \/ SkipInsufficientHistory(r) \/ RetrainGate(r) \/ Evaluate(r)
             \/ NothingToEvaluate(r) \/ BeginPromotion(r) \/ DemoteChampion(r)
             \/ PromotionConflict(r) \/ ForecastRefused(r) \/ RecordFault(r) \/ Abort(r)
      PROVE  UNCHANGED dbVars
  BY <1>2 DEF Launch, SkipInsufficientHistory, RetrainGate, Evaluate, NothingToEvaluate,
              BeginPromotion, DemoteChampion, PromotionConflict, ForecastRefused, RecordFault, Abort
<1>3. CASE UNCHANGED vars
  BY <1>3 DEF vars
<1> QED
  BY <1>1, <1>2, <1>3 DEF Next, Step

LEMMA StepKeepsHistory ==
  ASSUME TypeInv, [Next]_vars
  PROVE  HistoryKept
<1>0. registry \in Seq(Row) /\ champions \subseteq DOMAIN registry
  BY DEF TypeInv, TypeOK
<1>1. CASE UNCHANGED dbVars
  BY <1>0, <1>1 DEF HistoryKept, dbVars
<1>2. ASSUME NEW r \in Runs, RecordRejected(r)
      PROVE  HistoryKept
  <2>1. CandidateRow(r) \in Row
    BY <1>2, CandidateRowTyped DEF RecordRejected
  <2> QED
    BY <1>0, <1>2, <2>1, AppendKeeps DEF HistoryKept, RecordRejected
<1>3. ASSUME NEW r \in Runs, CommitPromotion(r)
      PROVE  HistoryKept
  <2>1. CandidateRow(r) \in Row
    BY <1>3, CandidateRowTyped DEF CommitPromotion
  <2>2. champions' \cap DOMAIN registry \subseteq champions
    BY <1>0, <1>3, <2>1, AppendKeeps DEF CommitPromotion
  <2> QED
    BY <1>0, <1>3, <2>1, <2>2, AppendKeeps DEF HistoryKept, CommitPromotion
<1>4. ASSUME NEW r \in Runs, WriteForecast(r)
      PROVE  HistoryKept
  BY <1>0, <1>4 DEF HistoryKept, WriteForecast
<1> QED
  BY <1>1, <1>2, <1>3, <1>4, TableSteps

\* RegistryIsHistory: however runs interleave and fail, no recorded row ever
\* changes or goes away and no demoted row is promoted again.
THEOREM HistoryCorrect == Spec => RegistryIsHistory
<1>1. TypeInv /\ [Next]_vars =>
        [/\ Len(registry') >= Len(registry)
         /\ \A k \in DOMAIN registry : registry'[k] = registry[k]
         /\ champions' \cap DOMAIN registry \subseteq champions]_vars
  BY StepKeepsHistory DEF HistoryKept
<1>2. Spec => []TypeInv
  BY TypeCorrect, PTL DEF TypeInv
<1> QED
  BY <1>1, <1>2, PTL DEF Spec, RegistryIsHistory

(***************************************************************************)
(* The inductive invariant                                                  *)
(***************************************************************************)

\* What holds of one run between its statements:
\*   - the rows its transaction saw or locked belong to its series,
\*   - a candidate on its way to promotion was decided to be promoted,
\*   - a rejected one leaves a champion behind,
\*   - a key it holds is that of the row it recorded for its snapshot
RunInv(r) ==
  /\ txn[r].seen \cup txn[r].locked \subseteq RowsOf(at[r])
  /\ pc[r] \in {"demote", "insert"} => cand[r].promote
  /\ pc[r] = "record" /\ ~cand[r].promote => Champions(at[r]) # {}
  /\ pc[r] = "forecast" /\ key[r] # NoKey =>
       /\ key[r] \in RowsOf(at[r])
       /\ ~registry[key[r]].rejected
       /\ registry[key[r]].trainEnd = Last(History(r))

IInv ==
  /\ TypeInv
  /\ OneChampionPerSeries
  /\ TrainedSeriesHaveChampion
  /\ ForecastsTraceable
  /\ \A r \in Runs : RunInv(r)

RunKept(r) ==
  /\ pc'[r] = pc[r] /\ at'[r] = at[r] /\ snap'[r] = snap[r]
  /\ cand'[r] = cand[r] /\ txn'[r] = txn[r] /\ key'[r] = key[r]

\* Champions once there keep being there, series by series
ChampionsKept == \A s \in Series : Champions(s) # {} => Champions(s)' # {}

\* The tables stay consistent with each other whatever step is taken
LEMMA PromotionLeavesOneChampion ==
  ASSUME IInv, NEW r \in Runs, CommitPromotion(r)
  PROVE  OneChampionPerSeries' /\ TrainedSeriesHaveChampion' /\ ChampionsKept
<1> DEFINE new == Len(registry) + 1
<1>0. /\ registry \in Seq(Row) /\ champions \subseteq DOMAIN registry
      /\ txn[r].locked \subseteq RowsOf(at[r]) /\ CandidateRow(r) \in Row
  BY CandidateRowTyped DEF IInv, TypeInv, TypeOK, RunInv, CommitPromotion
<1>1. /\ registry' = Append(registry, CandidateRow(r))
      /\ champions' = (champions \ txn[r].locked) \cup {new}
  BY DEF CommitPromotion
<1>2. /\ DOMAIN registry' = DOMAIN registry \cup {new} /\ new \notin DOMAIN registry
      /\ \A k \in DOMAIN registry : registry'[k] = registry[k]
      /\ registry'[new] = CandidateRow(r)
  BY <1>0, <1>1, AppendKeeps
<1>3. registry'[new].series = at[r]
  BY <1>2 DEF CandidateRow
<1>4. \A k \in champions : registry[k].series = at[r] => k \in txn[r].locked
  BY DEF CommitPromotion, OtherChampion, Champions
<1>5. OneChampionPerSeries'
  <2>1. ASSUME NEW j \in champions', NEW k \in champions', registry'[j].series = registry'[k].series,
               j = new, k # new
        PROVE  FALSE
    BY <1>0, <1>1, <1>2, <1>3, <1>4, <2>1
  <2>2. ASSUME NEW j \in champions', NEW k \in champions', registry'[j].series = registry'[k].series,
               j # new, k # new
        PROVE  j = k
    BY <1>0, <1>1, <1>2, <2>2 DEF IInv, OneChampionPerSeries
  <2> QED
    BY <2>1, <2>2 DEF OneChampionPerSeries
<1>6. new \in Champions(at[r])'
  <2>1. CASE at'[r] = at[r]
    BY <1>1, <1>3, <2>1 DEF Champions
  <2> QED
    BY <2>1 DEF CommitPromotion
<1>7. ASSUME NEW s, Champions(s) # {} \/ s = at[r]
      PROVE  Champions(s)' # {}
  <2>1. CASE s = at[r]
    BY <1>1, <1>3, <2>1 DEF Champions
  <2>2. CASE s # at[r]
    <3>1. PICK k \in champions : registry[k].series = s
      BY <1>7, <2>2 DEF Champions
    <3>2. k \notin txn[r].locked
      BY <1>0, <2>2, <3>1 DEF RowsOf
    <3> QED
      BY <1>0, <1>1, <1>2, <3>1, <3>2 DEF Champions
  <2> QED
    BY <2>1, <2>2
<1>8. TrainedSeriesHaveChampion'
  <2>1. ASSUME NEW k \in DOMAIN registry'
        PROVE  \E c \in champions' : registry'[c].series = registry'[k].series
    <3>1. CASE k = new
      BY <1>1, <3>1
    <3>2. CASE k # new
      <4>1. Champions(registry[k].series) # {}
        BY <1>2, <3>2 DEF IInv, TrainedSeriesHaveChampion
      <4>2. \A s : Champions(s) # {} => \E c \in champions' : registry'[c].series = s
        BY <1>7 DEF Champions
      <4> QED
        BY <1>2, <3>2, <4>1, <4>2
    <3> QED
      BY <3>1, <3>2
  <2> QED
    BY <2>1 DEF TrainedSeriesHaveChampion, Champions
<1> QED
  BY <1>5, <1>7, <1>8 DEF ChampionsKept

LEMMA RejectionLeavesChampions ==
  ASSUME IInv, NEW r \in Runs, RecordRejected(r)
  PROVE  OneChampionPerSeries' /\ TrainedSeriesHaveChampion' /\ ChampionsKept
<1> DEFINE new == Len(registry) + 1
<1>0. /\ registry \in Seq(Row) /\ champions \subseteq DOMAIN registry
      /\ CandidateRow(r) \in Row /\ Champions(at[r]) # {}
  BY CandidateRowTyped DEF IInv, TypeInv, TypeOK, RunInv, RecordRejected
<1>1. registry' = Append(registry, CandidateRow(r)) /\ champions' = champions
  BY DEF RecordRejected
<1>2. /\ DOMAIN registry' = DOMAIN registry \cup {new} /\ new \notin DOMAIN registry
      /\ \A k \in DOMAIN registry : registry'[k] = registry[k]
      /\ registry'[new].series = at[r]
  BY <1>0, <1>1, AppendKeeps DEF CandidateRow
<1>3. OneChampionPerSeries'
  BY <1>0, <1>1, <1>2 DEF IInv, OneChampionPerSeries
<1>4. ASSUME NEW s
      PROVE  Champions(s)' = Champions(s)
  BY <1>0, <1>1, <1>2 DEF Champions
<1>5. ASSUME NEW k \in DOMAIN registry'
      PROVE  \E c \in champions' : registry'[c].series = registry'[k].series
  <2>1. \A s : Champions(s) # {} => \E c \in champions' : registry'[c].series = s
    BY <1>0, <1>1, <1>2 DEF Champions
  <2>2. CASE k = new
    BY <1>0, <1>2, <2>1, <2>2
  <2>3. CASE k # new
    BY <1>2, <2>1, <2>3 DEF IInv, TrainedSeriesHaveChampion
  <2> QED
    BY <2>2, <2>3
<1>6. TrainedSeriesHaveChampion'
  BY <1>5 DEF TrainedSeriesHaveChampion, Champions
<1> QED
  BY <1>3, <1>4, <1>6 DEF ChampionsKept

\* A forecast is written for the row its run recorded.
LEMMA WriteIsTraceable ==
  ASSUME IInv, NEW r \in Runs, WriteForecast(r)
  PROVE  ForecastsTraceable'
<1>1. /\ key[r] \in RowsOf(at[r]) /\ ~registry[key[r]].rejected
      /\ registry[key[r]].trainEnd = Last(History(r))
  BY DEF IInv, RunInv, WriteForecast
<1>2. ASSUME NEW f \in forecasts'
      PROVE  /\ f.key \in DOMAIN registry
             /\ registry[f.key].series = f.series
             /\ ~registry[f.key].rejected
             /\ f.target = registry[f.key].trainEnd + 1
  <2>1. CASE f \in forecasts
    BY <2>1 DEF IInv, ForecastsTraceable
  <2>2. CASE f = [series |-> at[r], target |-> NextTarget(History(r)), key |-> key[r]]
    BY <1>1, <2>2 DEF RowsOf, NextTarget
  <2> QED
    BY <2>1, <2>2 DEF WriteForecast
<1> QED
  BY <1>2 DEF WriteForecast, ForecastsTraceable

\* Whatever step is taken, the tables stay consistent with each other.
LEMMA TablesStayConsistent ==
  ASSUME IInv, [Next]_vars
  PROVE  OneChampionPerSeries' /\ TrainedSeriesHaveChampion' /\ ForecastsTraceable' /\ ChampionsKept
<1>0. TypeInv /\ OneChampionPerSeries /\ TrainedSeriesHaveChampion /\ ForecastsTraceable
  BY DEF IInv
<1>1. CASE UNCHANGED dbVars
  BY <1>0, <1>1
  DEF dbVars, OneChampionPerSeries, TrainedSeriesHaveChampion, ForecastsTraceable, ChampionsKept, Champions
<1>2. ASSUME NEW r \in Runs, WriteForecast(r)
      PROVE  OneChampionPerSeries' /\ TrainedSeriesHaveChampion' /\ ForecastsTraceable' /\ ChampionsKept
  <2>1. UNCHANGED <<registry, champions>>
    BY <1>2 DEF WriteForecast
  <2>2. OneChampionPerSeries' /\ TrainedSeriesHaveChampion' /\ ChampionsKept
    BY <1>0, <2>1 DEF OneChampionPerSeries, TrainedSeriesHaveChampion, ChampionsKept, Champions
  <2> QED
    BY <1>2, <2>2, WriteIsTraceable
<1>3. ASSUME UNCHANGED forecasts
      PROVE  ForecastsTraceable'
  <2>1. HistoryKept
    BY <1>0, StepKeepsHistory
  <2> QED
    BY <1>0, <1>3, <2>1 DEF HistoryKept, ForecastsTraceable
<1>4. ASSUME NEW r \in Runs, RecordRejected(r) \/ CommitPromotion(r)
      PROVE  OneChampionPerSeries' /\ TrainedSeriesHaveChampion' /\ ForecastsTraceable' /\ ChampionsKept
  <2>1. UNCHANGED forecasts
    BY <1>4 DEF RecordRejected, CommitPromotion
  <2> QED
    BY <1>3, <1>4, <2>1, RejectionLeavesChampions, PromotionLeavesOneChampion
<1> QED
  BY <1>0, <1>1, <1>2, <1>4, TableSteps

\* A step of one run leaves the others where they are.
LEMMA OthersKept ==
  ASSUME TypeInv, NEW r \in Runs, Step(r) \/ RecordFault(r) \/ Abort(r),
         NEW q \in Runs, q # r
  PROVE  RunKept(q)
<1>0. RunsTyped
  BY TypeOKParts DEF TypeInv
<1>1. ASSUME EndRun(r) PROVE RunKept(q)
  BY <1>0, <1>1 DEF EndRun, RunsTyped, RunKept
<1>2. ASSUME NextSeries(r) PROVE RunKept(q)
  <2>1. CASE at[r] = NumSeries
    BY <1>1, <1>2, <2>1 DEF NextSeries
  <2>2. CASE at[r] # NumSeries
    BY <1>0, <1>2, <2>2 DEF NextSeries, RunsTyped, RunKept
  <2> QED
    BY <2>1, <2>2
<1>3. CASE \/ SkipInsufficientHistory(r) \/ NothingToEvaluate(r) \/ RecordRejected(r)
           \/ WriteForecast(r) \/ ForecastRefused(r) \/ Abort(r)
  BY <1>1, <1>2, <1>3
  DEF SkipInsufficientHistory, NothingToEvaluate, RecordRejected, WriteForecast, ForecastRefused, Abort
<1>4. CASE Launch(r)
  BY <1>0, <1>4 DEF Launch, RunsTyped, RunKept
<1>5. CASE RetrainGate(r)
  <2>1. \/ NextSeries(r)
        \/ pc' = [pc EXCEPT ![r] = "evaluate"] /\ UNCHANGED <<at, snap, cand, txn, key>>
    BY <1>5 DEF RetrainGate
  <2> QED
    BY <1>0, <1>2, <2>1 DEF RunsTyped, RunKept
<1>6. CASE Evaluate(r)
  <2>1. cand'[q] = cand[q]
    BY <1>0, <1>6 DEF Evaluate, RunsTyped
  <2> QED
    BY <1>0, <1>6, <2>1 DEF Evaluate, RunsTyped, RunKept
<1>7. CASE BeginPromotion(r)
  BY <1>0, <1>7 DEF BeginPromotion, RunsTyped, RunKept
<1>8. CASE DemoteChampion(r)
  BY <1>0, <1>8 DEF DemoteChampion, RunsTyped, RunKept
<1>9. CASE CommitPromotion(r)
  BY <1>0, <1>9 DEF CommitPromotion, RunsTyped, RunKept
<1>10. CASE PromotionConflict(r)
  BY <1>0, <1>10 DEF PromotionConflict, RunsTyped, RunKept
<1>11. CASE RecordFault(r)
  <2>1. \/ NextSeries(r)
        \/ /\ key' = [key EXCEPT ![r] = NoKey]
           /\ txn' = [txn EXCEPT ![r] = NoTxn]
           /\ pc' = [pc EXCEPT ![r] = "forecast"]
           /\ UNCHANGED <<at, snap, cand>>
    BY <1>11 DEF RecordFault
  <2> QED
    BY <1>0, <1>2, <2>1 DEF RunsTyped, RunKept
<1> QED
  BY <1>3, <1>4, <1>5, <1>6, <1>7, <1>8, <1>9, <1>10, <1>11 DEF Step

\* A run that does not move keeps its invariant: rows stay, and so do champions.
LEMMA KeptRunInv ==
  ASSUME IInv, NEW r \in Runs, RunKept(r), HistoryKept, ChampionsKept
  PROVE  RunInv(r)'
<1>0. RunInv(r) /\ at[r] \in Series /\ TypeInv
  BY DEF IInv, TypeInv, TypeOK
<1>1. ASSUME NEW k, k \in RowsOf(at[r])
      PROVE  k \in RowsOf(at[r])' /\ registry'[k] = registry[k]
  BY <1>1 DEF RowsOf, HistoryKept, RunKept
<1>2. Champions(at[r]) # {} => Champions(at[r])' # {}
  BY <1>0 DEF ChampionsKept, Champions, RunKept
<1>3. History(r)' = History(r)
  BY DEF History, RunKept
<1> QED
  BY <1>0, <1>1, <1>2, <1>3 DEF RunInv, RunKept

\* A run between two series, or over, has nothing to keep.
LEMMA RestingRunInv ==
  ASSUME TypeInv, NEW r \in Runs, EndRun(r) \/ NextSeries(r)
  PROVE  RunInv(r)'
<1>0. RunsTyped
  BY TypeOKParts DEF TypeInv
<1>1. pc'[r] \in {"idle", "gate"} /\ txn'[r] = NoTxn
  <2>1. CASE EndRun(r)
    BY <1>0, <2>1 DEF EndRun, RunsTyped
  <2>2. CASE NextSeries(r)
    BY <1>0, <2>1, <2>2 DEF NextSeries, RunsTyped
  <2> QED
    BY <2>1, <2>2
<1> QED
  BY <1>1 DEF RunInv, NoTxn

\* The run that moves ends up with its invariant.
LEMMA MovedRunInv ==
  ASSUME IInv, NEW r \in Runs, Step(r) \/ RecordFault(r) \/ Abort(r)
  PROVE  RunInv(r)'
<1>0. TypeInv /\ RunsTyped /\ RunInv(r)
  BY TypeOKParts DEF IInv, TypeInv
<1>1. CASE \/ SkipInsufficientHistory(r) \/ NothingToEvaluate(r) \/ RecordRejected(r)
           \/ WriteForecast(r) \/ ForecastRefused(r) \/ Abort(r)
  BY <1>0, <1>1, RestingRunInv
  DEF SkipInsufficientHistory, NothingToEvaluate, RecordRejected, WriteForecast, ForecastRefused, Abort
<1>2. CASE Launch(r)
  <2>1. /\ pc'[r] = "gate"
        /\ txn'[r] = txn[r] /\ RowsOf(at[r])' = RowsOf(at[r])
    BY <1>0, <1>2 DEF Launch, RunsTyped, RowsOf, dbVars
  <2> QED
    BY <1>0, <2>1 DEF RunInv
<1>3. CASE RetrainGate(r)
  <2>1. CASE NextSeries(r)
    BY <1>0, <2>1, RestingRunInv
  <2>2. CASE pc' = [pc EXCEPT ![r] = "evaluate"] /\ UNCHANGED <<at, snap, cand, txn, key>>
    <3>1. pc'[r] = "evaluate" /\ txn'[r] = txn[r] /\ RowsOf(at[r])' = RowsOf(at[r])
      BY <1>0, <1>3, <2>2 DEF RetrainGate, RunsTyped, RowsOf, dbVars
    <3> QED
      BY <1>0, <3>1 DEF RunInv
  <2> QED
    BY <1>3, <2>1, <2>2 DEF RetrainGate
<1>4. CASE Evaluate(r)
  <2>1. PICK C \in EvaluatedSets(History(r), DatasetMax(r), at[r] \in GraduationSeries) :
          \E maes \in [C -> Maes] : \E a \in DeployedAlgorithm(maes, History(r)) :
            \E c \in get_current_champion(at[r]) \cup {NoKey} : EvaluatedTo(r, maes[a], c)
    BY <1>4 DEF Evaluate, EvaluatedTo
  <2>2. \E mae : \E c \in get_current_champion(at[r]) \cup {NoKey} : EvaluatedTo(r, mae, c)
    BY <2>1
  <2>3. PICK mae : \E c \in get_current_champion(at[r]) \cup {NoKey} : EvaluatedTo(r, mae, c)
    BY <2>2
  <2>4. PICK c \in get_current_champion(at[r]) \cup {NoKey} : EvaluatedTo(r, mae, c)
    BY <2>3
  <2>5. ~cand'[r].promote => Champions(at[r]) # {}
    <3>1. CASE c = NoKey
      BY <1>0, <2>4, <3>1 DEF EvaluatedTo, RunsTyped
    <3>2. CASE c # NoKey
      BY <2>4, <3>2 DEF get_current_champion, Latest
    <3> QED
      BY <3>1, <3>2
  <2>6. /\ pc'[r] = "record" /\ at'[r] = at[r] /\ txn'[r] = txn[r]
        /\ RowsOf(at[r])' = RowsOf(at[r]) /\ Champions(at[r])' = Champions(at[r])
    BY <1>0, <1>4 DEF Evaluate, RunsTyped, RowsOf, Champions, dbVars
  <2> QED
    BY <1>0, <2>5, <2>6 DEF RunInv
<1>5. CASE BeginPromotion(r)
  <2>1. /\ pc'[r] = "demote" /\ cand'[r] = cand[r] /\ cand[r].promote
        /\ txn'[r].seen = Champions(at[r]) /\ txn'[r].locked = txn[r].locked
        /\ RowsOf(at[r])' = RowsOf(at[r])
    BY <1>0, <1>5 DEF BeginPromotion, RunsTyped, Txn, RowsOf, dbVars
  <2>2. Champions(at[r]) \subseteq RowsOf(at[r])
    BY <1>0 DEF TypeInv, TypeOK, Champions, RowsOf
  <2> QED
    BY <1>0, <2>1, <2>2 DEF RunInv
<1>6. CASE DemoteChampion(r)
  <2>1. /\ pc'[r] = "insert" /\ pc[r] = "demote" /\ cand'[r] = cand[r]
        /\ txn'[r].seen = txn[r].seen /\ txn'[r].locked \subseteq txn[r].seen
        /\ RowsOf(at[r])' = RowsOf(at[r])
    BY <1>0, <1>6 DEF DemoteChampion, RunsTyped, Txn, RowsOf, dbVars
  <2> QED
    BY <1>0, <2>1 DEF RunInv
<1>7. CASE CommitPromotion(r)
  <2>0. /\ pc[r] = "insert" /\ cand[r].promote
        /\ registry \in Seq(Row) /\ CandidateRow(r) \in Row
    BY <1>0, <1>7, CandidateRowTyped DEF CommitPromotion, RunInv, TypeInv, TypeOK
  <2>1. /\ pc'[r] = "forecast" /\ txn'[r] = NoTxn
        /\ key'[r] = Len(registry) + 1 /\ registry' = Append(registry, CandidateRow(r))
    BY <1>0, <1>7 DEF CommitPromotion, RunsTyped
  <2>2. /\ Len(registry) + 1 \in DOMAIN registry'
        /\ registry'[Len(registry) + 1] = CandidateRow(r)
    BY <2>0, <2>1, AppendKeeps
  <2>3. at' = at /\ History(r)' = History(r)
    BY <1>7 DEF CommitPromotion, History
  <2>4. /\ CandidateRow(r).series = at[r] /\ ~CandidateRow(r).rejected
        /\ CandidateRow(r).trainEnd = Last(History(r))
    BY <2>0 DEF CandidateRow
  <2>5. key'[r] \in RowsOf(at[r])'
    BY <2>1, <2>2, <2>3, <2>4 DEF RowsOf
  <2> QED
    BY <2>1, <2>2, <2>3, <2>4, <2>5 DEF RunInv, NoTxn
<1>8. CASE PromotionConflict(r)
  <2>1. pc'[r] = "forecast" /\ txn'[r] = NoTxn /\ key'[r] = NoKey
    BY <1>0, <1>8 DEF PromotionConflict, RunsTyped
  <2> QED
    BY <2>1 DEF RunInv, NoTxn
<1>9. CASE RecordFault(r)
  <2>1. CASE NextSeries(r)
    BY <1>0, <2>1, RestingRunInv
  <2>2. CASE cand[r].promote
    <3>1. pc'[r] = "forecast" /\ txn'[r] = NoTxn /\ key'[r] = NoKey
      BY <1>0, <1>9, <2>2 DEF RecordFault, RunsTyped
    <3> QED
      BY <3>1 DEF RunInv, NoTxn
  <2> QED
    BY <1>9, <2>1, <2>2 DEF RecordFault
<1> QED
  BY <1>1, <1>2, <1>3, <1>4, <1>5, <1>6, <1>7, <1>8, <1>9 DEF Step

LEMMA NextKeepsIInv ==
  ASSUME IInv, [Next]_vars
  PROVE  IInv'
<1>0. TypeInv
  BY DEF IInv
<1>1. HistoryKept
  BY <1>0, StepKeepsHistory
<1>2. OneChampionPerSeries' /\ TrainedSeriesHaveChampion' /\ ForecastsTraceable' /\ ChampionsKept
  BY TablesStayConsistent
<1>3. ASSUME NEW q \in Runs
      PROVE  RunInv(q)'
  <2>1. CASE RebuildFeatures \/ UNCHANGED vars
    <3>1. RunKept(q)
      BY <2>1 DEF RebuildFeatures, vars, runVars, RunKept
    <3> QED
      BY <1>1, <1>2, <3>1, KeptRunInv
  <2>2. ASSUME NEW r \in Runs, Step(r) \/ RecordFault(r) \/ Abort(r)
        PROVE  RunInv(q)'
    BY <1>0, <1>1, <1>2, <2>2, OthersKept, KeptRunInv, MovedRunInv
  <2> QED
    BY <2>1, <2>2 DEF Next
<1> QED
  BY <1>0, <1>1, <1>2, <1>3, NextKeepsTypes DEF IInv

LEMMA InitIInv == Init => IInv
<1> SUFFICES ASSUME Init PROVE IInv
  OBVIOUS
<1>1. OneChampionPerSeries /\ TrainedSeriesHaveChampion /\ ForecastsTraceable
  BY DEF Init, OneChampionPerSeries, TrainedSeriesHaveChampion, ForecastsTraceable
<1>2. \A r \in Runs : RunInv(r)
  BY DEF Init, RunInv, NoTxn
<1> QED
  BY <1>1, <1>2, InitTyped DEF IInv

\* The invariant holds in every reachable state.
THEOREM InvariantCorrect == Spec => []IInv
BY InitIInv, NextKeepsIInv, PTL DEF Spec

\* OneChampionPerSeries for any number of overlapping runs and any failures.
THEOREM OneChampionCorrect == Spec => []OneChampionPerSeries
BY InvariantCorrect, PTL DEF IInv

\* TrainedSeriesHaveChampion: no interleaving, swallowed read or failed
\* transaction leaves a trained series without champion.
THEOREM ChampionPresent == Spec => []TrainedSeriesHaveChampion
BY InvariantCorrect, PTL DEF IInv

\* Between the two commits of a promotion only the end of the run can come in: what a run
\* has recorded stays pending until it is written.
LEMMA NextKeepsAnnounced ==
  ASSUME IInv, PromotedAnnounced, [Next]_vars
  PROVE  PromotedAnnounced'
<1> SUFFICES ASSUME used'["abort"] = 0, NEW k \in DOMAIN registry', ~registry'[k].rejected
             PROVE  Announced(k)'
  BY DEF PromotedAnnounced
<1>0. /\ TypeInv /\ registry \in Seq(Row) /\ used \in [Events -> Nat] /\ RunsTyped
      /\ pc \in [Runs -> Steps] /\ key \in [Runs -> Nat]
  BY TypeOKParts DEF IInv, TypeInv, TypeOK
<1>1. used["abort"] = 0 /\ \A r \in Runs : ~Abort(r)
  <2>1. ASSUME NEW r \in Runs, Abort(r)
        PROVE  FALSE
    BY <1>0, <2>1 DEF Abort, Spend, Events
  <2>2. UNCHANGED used \/ \E e \in Events : used' = [used EXCEPT ![e] = @ + 1]
    BY <1>0 DEF Next, Step, vars, RebuildFeatures, Spend, Events, Launch, SkipInsufficientHistory,
                RetrainGate, Read, Evaluate, NothingToEvaluate, RecordRejected, BeginPromotion,
                DemoteChampion, CommitPromotion, PromotionConflict, RecordFault, WriteForecast,
                ForecastRefused, Abort
  <2> QED BY <1>0, <2>1, <2>2 DEF Events
<1>2. \A r, q \in Runs :
        q # r /\ (Step(r) \/ RecordFault(r) \/ Abort(r)) => pc'[q] = pc[q] /\ key'[q] = key[q]
  BY OthersKept DEF IInv, RunKept
<1>3. forecasts \subseteq forecasts'
  BY <1>0, TableSteps DEF dbVars, RecordRejected, CommitPromotion, WriteForecast
<1>4. ASSUME k \in DOMAIN registry, ~registry[k].rejected
      PROVE  Announced(k)'
  <2>1. Announced(k) /\ k # NoKey
    BY <1>0, <1>1, <1>4 DEF PromotedAnnounced, NoKey
  <2>2. CASE \E f \in forecasts : f.key = k
    BY <1>3, <2>2 DEF Announced
  <2>3. ASSUME NEW q \in Runs, pc[q] = "forecast", key[q] = k
        PROVE  Announced(k)'
    <3>1. CASE UNCHANGED <<pc, key>>
      BY <2>3, <3>1 DEF Announced
    <3>2. ASSUME NEW r \in Runs, Step(r) \/ RecordFault(r), r # q
          PROVE  Announced(k)'
      BY <1>2, <2>3, <3>2 DEF Announced
    <3>3. CASE Step(q) \/ RecordFault(q)
      <4>1. WriteForecast(q)
        BY <2>1, <2>3, <3>3 DEF Step, RecordFault, Launch, SkipInsufficientHistory, RetrainGate,
             Evaluate, NothingToEvaluate, RecordRejected, BeginPromotion, DemoteChampion,
             CommitPromotion, PromotionConflict, ForecastRefused
      <4>2. PICK f : f = [series |-> at[q], target |-> NextTarget(History(q)), key |-> key[q]]
        OBVIOUS
      <4>3. f \in forecasts' /\ f.key = k
        BY <2>3, <4>1, <4>2 DEF WriteForecast
      <4> QED BY <4>3 DEF Announced
    <3> QED BY <1>1, <3>1, <3>2, <3>3 DEF Next, RebuildFeatures, runVars, vars
  <2> QED BY <2>1, <2>2, <2>3 DEF Announced
<1>5. CASE UNCHANGED registry
  BY <1>4, <1>5
<1>6. ASSUME NEW r \in Runs, RecordRejected(r) \/ CommitPromotion(r)
      PROVE  Announced(k)'
  <2>1. registry' = Append(registry, CandidateRow(r)) /\ CandidateRow(r) \in Row
    BY <1>6, CandidateRowTyped DEF IInv, RecordRejected, CommitPromotion
  <2>2. /\ DOMAIN registry' = DOMAIN registry \cup {Len(registry) + 1}
        /\ \A j \in DOMAIN registry : registry'[j] = registry[j]
        /\ registry'[Len(registry) + 1] = CandidateRow(r)
    BY <1>0, <2>1, AppendKeeps
  <2>3. CASE k \in DOMAIN registry
    BY <1>4, <2>2, <2>3
  <2>4. CASE k = Len(registry) + 1
    <3>1. CandidateRow(r).rejected = ~cand[r].promote
      BY DEF CandidateRow
    <3>2. CommitPromotion(r)
      BY <1>6, <2>2, <2>4, <3>1 DEF RecordRejected
    <3> QED BY <1>0, <2>4, <3>2 DEF CommitPromotion, Announced
  <2> QED BY <2>2, <2>3, <2>4
<1> QED
  BY <1>0, <1>5, <1>6, TableSteps DEF dbVars, WriteForecast

\* ForecastsMatchRegistry: every published forecast belongs to a promoted row of its
\* series, trained up to the semester before its target; and no fault and no overlap but
\* the early end of a run leaves a promoted row without its forecast.
THEOREM ForecastsCorrect == Spec => []ForecastsMatchRegistry
<1>1. Init => PromotedAnnounced
  BY DEF Init, PromotedAnnounced
<1> QED
  BY <1>1, InvariantCorrect, NextKeepsAnnounced, PTL DEF Spec, IInv, ForecastsMatchRegistry

(***************************************************************************)
(* What a run leaves behind it                                              *)
(***************************************************************************)

\* A series of the snapshot of a run is covered: too short, or trained on all its periods.
Covered(r, s) ==
  has_sufficient_history(snap[r][ProgramOf[s]]) =>
    \E k \in RowsOf(s) : registry[k].trainEnd >= Last(snap[r][ProgramOf[s]])

\* All series the run is past are; a run that is over is past none.
BehindCovered(r) ==
  /\ \A s \in 1..(at[r] - 1) : Covered(r, s)
  /\ pc[r] = "idle" => at[r] = 1

PassedInv == used["write"] = 0 => \A r \in Runs : BehindCovered(r)

LEMMA CoveredKept ==
  ASSUME HistoryKept, NEW r \in Runs, snap'[r] = snap[r], NEW s, Covered(r, s)
  PROVE  Covered(r, s)'
<1>1. \A k \in RowsOf(s) : k \in RowsOf(s)' /\ registry'[k] = registry[k]
  BY DEF HistoryKept, RowsOf
<1> QED
  BY <1>1 DEF Covered

\* A run that stays at its series, or has not moved at all
LEMMA BehindKept ==
  ASSUME HistoryKept, NEW r \in Runs, snap'[r] = snap[r], at'[r] = at[r],
         pc'[r] = "idle" => pc[r] = "idle", BehindCovered(r)
  PROVE  BehindCovered(r)'
<1>1. \A s \in 1..(at[r] - 1) : Covered(r, s)'
  BY CoveredKept DEF BehindCovered
<1> QED
  BY <1>1 DEF BehindCovered

\* A run that ends is past no series
LEMMA BehindEnd ==
  ASSUME RunsTyped, NEW r \in Runs, EndRun(r)
  PROVE  BehindCovered(r)'
<1>1. at'[r] = 1
  BY DEF EndRun, RunsTyped
<1>2. 1..(at'[r] - 1) = {}
  BY <1>1
<1> QED
  BY <1>1, <1>2 DEF BehindCovered

\* The next series begins with the current one covered
LEMMA BehindNext ==
  ASSUME TypeInv, HistoryKept, NEW r \in Runs, NextSeries(r), BehindCovered(r),
         NEW here, here = at[r], snap' = snap => Covered(r, here)'
  PROVE  BehindCovered(r)'
<1>0. RunsTyped /\ at[r] \in Nat
  BY TypeOKParts DEF TypeInv, RunsTyped, Series
<1>1. CASE at[r] = NumSeries
  BY <1>0, <1>1, BehindEnd DEF NextSeries
<1>2. CASE at[r] # NumSeries
  <2>1. at'[r] = at[r] + 1 /\ snap' = snap /\ pc'[r] = "gate"
    BY <1>0, <1>2 DEF NextSeries, RunsTyped
  <2>2. \A s \in 1..(at[r] - 1) : Covered(r, s)'
    BY <2>1, CoveredKept DEF BehindCovered
  <2>3. \A s \in 1..(at'[r] - 1) : s \in 1..(at[r] - 1) \/ s = here
    BY <1>0, <2>1
  <2>4. \A s \in 1..(at'[r] - 1) : Covered(r, s)'
    BY <2>1, <2>2, <2>3
  <2> QED
    BY <2>1, <2>4 DEF BehindCovered
<1> QED
  BY <1>1, <1>2

\* The gate lets a series go only when its last row is as recent as its history.
LEMMA GateCovers ==
  ASSUME TypeInv, HistoryKept, NEW r \in Runs, RetrainGate(r), BehindCovered(r)
  PROVE  BehindCovered(r)'
<1>0. registry \in Seq(Row) /\ RunsTyped /\ Last(History(r)) \in Nat
  <2>1. History(r) # {}
    BY SufficientIsNonEmpty DEF RetrainGate
  <2>2. History(r) \in Histories \cup {{}}
    BY ConstantsAssumption DEF TypeInv, TypeOK, History, ConstantsAssumption
  <2> QED
    BY <2>1, <2>2, LastOfHistory, TypeOKParts DEF TypeInv, TypeOK
<1>1. PICK lastTrained \in get_last_trained_period_ordinal(at[r]) \cup {NoPeriod} :
        IF should_retrain(Last(History(r)), lastTrained)
        THEN pc' = [pc EXCEPT ![r] = "evaluate"] /\ UNCHANGED <<at, snap, cand, txn, key>>
        ELSE NextSeries(r)
  BY DEF RetrainGate
<1>2. CASE should_retrain(Last(History(r)), lastTrained)
  <2>1. at'[r] = at[r] /\ snap'[r] = snap[r] /\ pc'[r] = "evaluate"
    BY <1>0, <1>1, <1>2 DEF RunsTyped
  <2> QED
    BY <2>1, BehindKept
<1>3. CASE ~should_retrain(Last(History(r)), lastTrained)
  <2>1. lastTrained \in get_last_trained_period_ordinal(at[r]) /\ RowsOf(at[r]) # {}
    BY <1>3 DEF should_retrain, get_last_trained_period_ordinal
  <2>2. PICK k \in RowsOf(at[r]) : lastTrained = registry[k].trainEnd
    BY <2>1 DEF get_last_trained_period_ordinal, Latest
  <2>3. registry[k].trainEnd \in Nat
    <3>1. registry[k] \in Row
      BY <1>0 DEF RowsOf
    <3> QED
      BY <3>1 DEF Row
  <2>4. registry[k].trainEnd >= Last(History(r))
    BY <1>0, <1>3, <2>2, <2>3 DEF should_retrain
  <2>5. PICK s : s = at[r]
    OBVIOUS
  <2>6. Covered(r, s)
    BY <2>4, <2>5 DEF Covered, History
  <2>7. snap' = snap => Covered(r, s)'
    BY <2>6, CoveredKept
  <2> QED
    BY <1>1, <1>3, <2>5, <2>7, BehindNext
<1> QED
  BY <1>2, <1>3

\* Recording a rejected candidate covers its series ...
LEMMA RejectionCovers ==
  ASSUME TypeInv, HistoryKept, NEW r \in Runs, RecordRejected(r), BehindCovered(r)
  PROVE  BehindCovered(r)'
<1>1. registry \in Seq(Row) /\ CandidateRow(r) \in Row /\ registry' = Append(registry, CandidateRow(r))
  BY CandidateRowTyped DEF RecordRejected, TypeInv, TypeOK
<1>2. PICK k : k = Len(registry) + 1
  OBVIOUS
<1>3. k \in DOMAIN registry' /\ registry'[k] = CandidateRow(r)
  BY <1>1, <1>2, AppendKeeps
<1>4. Last(History(r)) \in Nat
  BY HistoryOfWork DEF RecordRejected
<1>5. PICK s : s = at[r]
  OBVIOUS
<1>6. k \in RowsOf(s)' /\ registry'[k].trainEnd >= Last(History(r))
  <2>1. CandidateRow(r).series = at[r] /\ CandidateRow(r).trainEnd = Last(History(r))
    BY DEF CandidateRow
  <2>2. registry'[k].series = s
    BY <1>3, <1>5, <2>1
  <2> QED
    BY <1>3, <1>4, <2>1, <2>2 DEF RowsOf
<1>7. snap' = snap => Covered(r, s)'
  BY <1>5, <1>6 DEF Covered, History
<1> QED
  BY <1>5, <1>7, BehindNext DEF RecordRejected

\* ... and so does the row that stands behind a forecast.
LEMMA ForecastCovers ==
  ASSUME IInv, HistoryKept, NEW r \in Runs, WriteForecast(r), BehindCovered(r)
  PROVE  BehindCovered(r)'
<1>1. TypeInv /\ key[r] \in RowsOf(at[r]) /\ registry[key[r]].trainEnd = Last(History(r))
  BY DEF IInv, RunInv, WriteForecast
<1>2. Last(History(r)) \in Nat
  BY <1>1, HistoryOfWork DEF WriteForecast
<1>3. PICK s : s = at[r]
  OBVIOUS
<1>4. Covered(r, s)
  BY <1>1, <1>2, <1>3 DEF Covered, History
<1>5. snap' = snap => Covered(r, s)'
  BY <1>4, CoveredKept
<1> QED
  BY <1>1, <1>3, <1>5, BehindNext DEF WriteForecast

LEMMA MovedCovers ==
  ASSUME IInv, HistoryKept, NEW r \in Runs, Step(r) \/ RecordFault(r) \/ Abort(r),
         BehindCovered(r), used'["write"] = 0
  PROVE  BehindCovered(r)'
<1>0. TypeInv /\ RunsTyped /\ used \in [Events -> Nat]
  BY TypeOKParts DEF IInv, TypeInv, TypeOK
<1>1. CASE NothingToEvaluate(r) \/ ForecastRefused(r) \/ Abort(r)
  BY <1>0, <1>1, BehindEnd DEF NothingToEvaluate, ForecastRefused, Abort
<1>2. CASE Launch(r)
  <2>1. at[r] = 1 /\ at' = at /\ pc'[r] = "gate"
    BY <1>0, <1>2 DEF Launch, BehindCovered, RunsTyped
  <2>2. 1..(at'[r] - 1) = {}
    BY <2>1
  <2> QED
    BY <2>1, <2>2 DEF BehindCovered
<1>3. CASE SkipInsufficientHistory(r)
  <2>1. PICK s : s = at[r]
    OBVIOUS
  <2>2. snap' = snap => Covered(r, s)'
    BY <1>3, <2>1 DEF SkipInsufficientHistory, Covered, History
  <2> QED
    BY <1>0, <1>3, <2>1, <2>2, BehindNext DEF SkipInsufficientHistory
<1>4. CASE \/ Evaluate(r) \/ BeginPromotion(r) \/ DemoteChampion(r) \/ CommitPromotion(r)
           \/ PromotionConflict(r)
  <2>1. at'[r] = at[r] /\ snap'[r] = snap[r] /\ pc'[r] # "idle"
    BY <1>0, <1>4
    DEF Evaluate, BeginPromotion, DemoteChampion, CommitPromotion, PromotionConflict, RunsTyped
  <2> QED
    BY <2>1, BehindKept
<1>5. CASE RecordFault(r)
  BY <1>0, <1>5 DEF RecordFault, Spend, Events
<1> QED
  BY <1>0, <1>1, <1>2, <1>3, <1>4, <1>5, GateCovers, RejectionCovers, ForecastCovers DEF Step

LEMMA NextKeepsPassed ==
  ASSUME IInv, PassedInv, [Next]_vars
  PROVE  PassedInv'
<1> SUFFICES ASSUME used'["write"] = 0, NEW q \in Runs
             PROVE  BehindCovered(q)'
  BY DEF PassedInv
<1>0. TypeInv /\ HistoryKept /\ used \in [Events -> Nat]
  BY StepKeepsHistory DEF IInv, TypeInv, TypeOK
<1>1. used["write"] = 0
  <2>1. UNCHANGED used \/ \E e \in Events : used' = [used EXCEPT ![e] = @ + 1]
    BY <1>0 DEF Next, Step, vars, RebuildFeatures, Spend, Events, Launch, SkipInsufficientHistory,
                RetrainGate, Read, Evaluate, NothingToEvaluate, RecordRejected, BeginPromotion,
                DemoteChampion, CommitPromotion, PromotionConflict, RecordFault, WriteForecast,
                ForecastRefused, Abort
  <2> QED
    BY <1>0, <2>1 DEF Events
<1>2. BehindCovered(q)
  BY <1>1 DEF PassedInv
<1>3. ASSUME RunKept(q)
      PROVE  BehindCovered(q)'
  BY <1>0, <1>2, <1>3, BehindKept DEF RunKept
<1>4. CASE RebuildFeatures \/ UNCHANGED vars
  BY <1>3, <1>4 DEF RebuildFeatures, vars, runVars, RunKept
<1>5. ASSUME NEW r \in Runs, Step(r) \/ RecordFault(r) \/ Abort(r)
      PROVE  BehindCovered(q)'
  BY <1>0, <1>2, <1>3, <1>5, OthersKept, MovedCovers
<1> QED
  BY <1>4, <1>5 DEF Next

\* PassedSeriesTrained: what a deployment passes it leaves up to date, for any number of
\* overlapping runs, swallowed reads, lost races and early ends.
THEOREM PassedCorrect == Spec => []PassedSeriesTrained
<1>1. Init => PassedInv
  <2> SUFFICES ASSUME Init, NEW r \in Runs PROVE BehindCovered(r)
    BY DEF PassedInv
  <2>1. at[r] = 1 /\ 1..(1 - 1) = {}
    BY DEF Init
  <2> QED
    BY <2>1 DEF BehindCovered
<1>2. PassedInv => PassedSeriesTrained
  BY DEF PassedInv, BehindCovered, Covered, PassedSeriesTrained
<1> QED
  BY <1>1, <1>2, InvariantCorrect, NextKeepsPassed, PTL DEF Spec

(***************************************************************************)
(* Refinement of the champion board                                         *)
(***************************************************************************)

\* The registry as its readers see it, and what one more row does to it
Shown == [k \in DOMAIN registry |-> ModelOf(registry[k])]

LEMMA ShownGrows ==
  ASSUME registry \in Seq(Row), NEW row \in Row, registry' = Append(registry, row)
  PROVE  Shown' = Append(Shown, ModelOf(row)) /\ Len(Shown) = Len(registry)
<1>1. /\ DOMAIN registry = 1..Len(registry) /\ Len(registry) \in Nat
      /\ DOMAIN registry' = 1..(Len(registry) + 1)
      /\ \A k \in DOMAIN registry : registry'[k] = registry[k]
      /\ registry'[Len(registry) + 1] = row
  BY AppendKeeps
<1>2. Shown \in Seq({ModelOf(m) : m \in Row}) /\ Len(Shown) = Len(registry)
  <2>1. \A k \in DOMAIN registry : registry[k] \in Row
    OBVIOUS
  <2> QED
    BY <1>1, <2>1 DEF Shown
<1>3. /\ DOMAIN Append(Shown, ModelOf(row)) = 1..(Len(registry) + 1)
      /\ \A k \in 1..Len(registry) : Append(Shown, ModelOf(row))[k] = ModelOf(registry[k])
      /\ Append(Shown, ModelOf(row))[Len(registry) + 1] = ModelOf(row)
  BY <1>1, <1>2 DEF Shown
<1>4. /\ Shown' = [k \in 1..(Len(registry) + 1) |-> ModelOf(registry'[k])]
      /\ \A k \in 1..(Len(registry) + 1) :
           ModelOf(registry'[k]) = Append(Shown, ModelOf(row))[k]
  BY <1>1, <1>3 DEF Shown
<1>5. Append(Shown, ModelOf(row)) =
        [k \in 1..(Len(registry) + 1) |-> Append(Shown, ModelOf(row))[k]]
  <2> DEFINE longer == Append(Shown, ModelOf(row))
  <2>1. longer \in Seq({ModelOf(m) : m \in Row})
    BY <1>2
  <2>2. longer = [k \in DOMAIN longer |-> longer[k]]
    <3> HIDE DEF longer
    <3>1. PICK n \in Nat : longer \in [1..n -> {ModelOf(m) : m \in Row}]
      BY <2>1, SeqDef
    <3> QED
      BY <3>1
  <2> QED
    BY <1>3, <2>2
<1> QED
  BY <1>2, <1>4, <1>5

\* The model of a candidate's row
LEMMA CandidateModel ==
  ASSUME TypeInv, NEW r \in Runs, pc[r] \notin {"idle", "gate"}
  PROVE  /\ ModelOf(CandidateRow(r)) =
              [series |-> at[r], trainEnd |-> Last(History(r)), rejected |-> ~cand[r].promote]
         /\ Last(History(r)) \in {Last(h) : h \in Histories}
<1>1. History(r) \in Histories \cup {{}} /\ History(r) # {}
  BY SufficientIsNonEmpty, ConstantsAssumption
  DEF TypeInv, TypeOK, WorkHasHistory, History, ConstantsAssumption
<1> QED
  BY <1>1 DEF ModelOf, CandidateRow

\* A promotion's commit is the board's Promote.
LEMMA CommitIsPromote ==
  ASSUME IInv, NEW r \in Runs, CommitPromotion(r)
  PROVE  Board!Promote(at[r], Last(History(r)))
<1> DEFINE new == Len(registry) + 1
<1>0. /\ registry \in Seq(Row) /\ champions \subseteq DOMAIN registry
      /\ txn[r].locked \subseteq RowsOf(at[r]) /\ CandidateRow(r) \in Row
      /\ at[r] \in Series /\ cand[r].promote = TRUE /\ TypeInv
      /\ pc[r] \notin {"idle", "gate"}
  BY CandidateRowTyped DEF IInv, TypeInv, TypeOK, RunInv, CommitPromotion, Candidate
<1>1. /\ registry' = Append(registry, CandidateRow(r))
      /\ champions' = (champions \ txn[r].locked) \cup {new}
      /\ UNCHANGED forecasts
  BY DEF CommitPromotion
<1>2. /\ new \notin DOMAIN registry
      /\ \A k \in DOMAIN registry : registry'[k] = registry[k]
      /\ registry'[new] = CandidateRow(r)
  BY <1>0, <1>1, AppendKeeps
<1>3. CandidateRow(r).series = at[r]
  BY DEF CandidateRow
<1>4. ASSUME NEW s \in Series
      PROVE  ChampionOf(s)' = IF s = at[r] THEN new ELSE ChampionOf(s)
  <2>1. CASE s = at[r]
    <3>1. OneChampionPerSeries'
      BY PromotionLeavesOneChampion
    <3>2. new \in champions' /\ registry'[new].series = s
      BY <1>1, <1>2, <1>3, <2>1
    <3>3. \A k \in champions' : registry'[k].series = s => k = new
      BY <3>1, <3>2 DEF OneChampionPerSeries
    <3>4. Champions(s)' = {new}
      BY <3>2, <3>3 DEF Champions
    <3> QED
      BY <2>1, <3>4 DEF ChampionOf
  <2>2. CASE s # at[r]
    <3>1. Champions(s)' = Champions(s)
      BY <1>0, <1>1, <1>2, <1>3, <2>2 DEF Champions, RowsOf
    <3> QED
      BY <2>2, <3>1 DEF ChampionOf
  <2> QED
    BY <2>1, <2>2
<1>5. [s \in Series |-> ChampionOf(s)]' = [[s \in Series |-> ChampionOf(s)] EXCEPT ![at[r]] = new]
  BY <1>0, <1>4
<1>6. /\ Shown' = Append(Shown, [series |-> at[r], trainEnd |-> Last(History(r)), rejected |-> FALSE])
      /\ Len(Shown) = Len(registry)
  BY <1>0, <1>1, ShownGrows, CandidateModel
<1> QED
  BY <1>1, <1>5, <1>6 DEF Board!Promote, Shown

\* A rejected candidate's insert is the board's Reject.
LEMMA RecordIsReject ==
  ASSUME IInv, NEW r \in Runs, RecordRejected(r)
  PROVE  Board!Reject(at[r], Last(History(r)))
<1>0. /\ registry \in Seq(Row) /\ champions \subseteq DOMAIN registry
      /\ CandidateRow(r) \in Row /\ Champions(at[r]) # {}
      /\ at[r] \in Series /\ cand[r].promote = FALSE /\ TypeInv
      /\ pc[r] \notin {"idle", "gate"}
  BY CandidateRowTyped DEF IInv, TypeInv, TypeOK, RunInv, RecordRejected, Candidate
<1>1. registry' = Append(registry, CandidateRow(r)) /\ UNCHANGED <<champions, forecasts>>
  BY DEF RecordRejected
<1>2. \A k \in DOMAIN registry : registry'[k] = registry[k]
  BY <1>0, <1>1, AppendKeeps
<1>3. ASSUME NEW s \in Series PROVE ChampionOf(s)' = ChampionOf(s)
  <2>1. Champions(s)' = Champions(s)
    BY <1>0, <1>1, <1>2 DEF Champions
  <2> QED
    BY <2>1 DEF ChampionOf
<1>4. ChampionOf(at[r]) # NoKey
  BY <1>0 DEF ChampionOf, Champions, NoKey
<1>5. [s \in Series |-> ChampionOf(s)]' = [s \in Series |-> ChampionOf(s)]
  BY <1>3
<1>6. Shown' = Append(Shown, [series |-> at[r], trainEnd |-> Last(History(r)), rejected |-> TRUE])
  BY <1>0, <1>1, ShownGrows, CandidateModel
<1> QED
  BY <1>0, <1>1, <1>4, <1>5, <1>6 DEF Board!Reject, Board!None, NoKey, Shown

\* A forecast's commit is the board's Publish of the row the run recorded.
LEMMA WriteIsPublish ==
  ASSUME IInv, NEW r \in Runs, WriteForecast(r)
  PROVE  Board!Publish(key[r]) /\ key[r] \in DOMAIN registry
<1>1. /\ key[r] \in RowsOf(at[r]) /\ ~registry[key[r]].rejected
      /\ registry[key[r]].trainEnd = Last(History(r))
  BY DEF IInv, RunInv, WriteForecast
<1>2. [s \in Series |-> ChampionOf(s)]' = [s \in Series |-> ChampionOf(s)] /\ Shown' = Shown
  BY DEF WriteForecast, ChampionOf, Champions, Shown
<1>3. key[r] \in DOMAIN registry /\ registry[key[r]].series = at[r]
  BY <1>1 DEF RowsOf
<1>4. /\ Shown[key[r]].series = at[r] /\ Shown[key[r]].trainEnd = Last(History(r))
      /\ ~Shown[key[r]].rejected
  BY <1>1, <1>3 DEF Shown, ModelOf
<1> QED
  BY <1>2, <1>3, <1>4 DEF WriteForecast, Board!Publish, Board!ForecastOf, NextTarget, Shown

\* ImplementsBoard: however runs interleave and fail, what readers of the registry
\* and the forecasts see is promoted, rejected and published in single steps.
THEOREM BoardCorrect == Spec => ImplementsBoard
<1>1. Init => Board!Init
  BY DEF Init, Board!Init, ChampionOf, Champions, NoKey, Board!None
<1>2. IInv /\ [Next]_vars => [Board!Next]_(Board!boardVars)
  <2> SUFFICES ASSUME IInv, [Next]_vars
               PROVE  [Board!Next]_(Board!boardVars)
    OBVIOUS
  <2>1. TypeInv /\ \A r \in Runs : at[r] \in Series
    BY DEF IInv, TypeInv, TypeOK
  <2>2. CASE UNCHANGED dbVars
    BY <2>2 DEF dbVars, Board!boardVars, ChampionOf, Champions
  <2>3. ASSUME NEW r \in Runs, RecordRejected(r) \/ CommitPromotion(r) \/ WriteForecast(r)
        PROVE  Board!Next
    <3>1. CASE WriteForecast(r)
      <4>1. DOMAIN [k \in DOMAIN registry |-> ModelOf(registry[k])] = DOMAIN registry
        OBVIOUS
      <4> QED
        BY <3>1, <4>1, WriteIsPublish DEF Board!Next
    <3>2. CASE RecordRejected(r) \/ CommitPromotion(r)
      <4>1. Last(History(r)) \in {Last(h) : h \in Histories}
        BY <2>1, <3>2, CandidateModel DEF RecordRejected, CommitPromotion
      <4> QED
        BY <2>1, <3>2, <4>1, CommitIsPromote, RecordIsReject DEF Board!Next
    <3> QED
      BY <2>3, <3>1, <3>2
  <2> QED
    BY <2>1, <2>2, <2>3, TableSteps
<1> QED
  BY <1>1, <1>2, InvariantCorrect, PTL DEF Spec, ImplementsBoard, Board!Spec

(***************************************************************************)
(* When a deployment gives up                                               *)
(***************************************************************************)

\* A history that ends in the test window has a fold: its last period, with the
\* rest to train on.
LEMMA RecentHistoryHasFold ==
  ASSUME NEW h \in Histories, has_sufficient_history(h), NEW max \in Int,
         max - 2 <= Last(h), Last(h) <= max
  PROVE  Folds(h, max) # {}
<1>1. Last(h) \in h /\ Last(h) \in Nat /\ h \subseteq Nat
  BY LastOfHistory, ConstantsAssumption DEF ConstantsAssumption
<1>2. \A q \in h : q <= Last(h)
  BY LastOfHistory
<1>3. h # {Last(h)}
  <2>1. Cardinality({Last(h)}) = 1
    BY FS_Singleton
  <2> QED
    BY <2>1 DEF has_sufficient_history, MIN_HISTORY_PERIODS
<1>4. PICK p \in h : p # Last(h)
  BY <1>1, <1>3
<1>5. p < Last(h)
  BY <1>1, <1>2, <1>4
<1>6. Last(h) \in derive_test_period_ordinals(max)
  BY <1>1 DEF derive_test_period_ordinals
<1> QED
  BY <1>1, <1>4, <1>5, <1>6 DEF Folds

\* The last period of the snapshot is at or after that of the series.
LEMMA DatasetMaxIsLast ==
  ASSUME TypeInv, NEW r \in Runs, pc[r] = "evaluate"
  PROVE  /\ DatasetMax(r) \in Nat
         /\ History(r) \in Histories
         /\ Last(History(r)) <= DatasetMax(r)
<1> DEFINE H == {snap[r][p] : p \in Programs} \ {{}}
<1>1. snap[r] \in [Programs -> Histories \cup {{}}] /\ ProgramOf[at[r]] \in Programs
  BY ConstantsAssumption DEF TypeInv, TypeOK, ConstantsAssumption
<1>2. History(r) # {}
  BY SufficientIsNonEmpty DEF TypeInv, WorkHasHistory
<1>3. History(r) \in H /\ H \subseteq Histories
  BY <1>1, <1>2 DEF History
<1>4. UNION H = UNION {snap[r][p] : p \in Programs}
  OBVIOUS
<1>5. /\ DatasetMax(r) \in Nat
      /\ \A q \in UNION H : q <= DatasetMax(r)
  BY <1>3, <1>4, LastOfHistories DEF DatasetMax
<1>6. Last(History(r)) \in UNION H
  BY <1>3, LastOfHistory
<1> QED
  BY <1>3, <1>5, <1>6

\* StopsOnlyAtDiscontinued: a series with enough history that is observed in one of
\* the dataset's last three semesters always has something to evaluate.
THEOREM StopCorrect == Spec => StopsOnlyAtDiscontinued
<1>1. ASSUME TypeInv, NEW r \in Runs, NothingToEvaluate(r)
      PROVE  Last(History(r)) < DatasetMax(r) - 2
  <2>1. pc[r] = "evaluate" /\ has_sufficient_history(History(r))
    BY <1>1 DEF NothingToEvaluate, TypeInv, WorkHasHistory
  <2>2. Folds(History(r), DatasetMax(r)) = {}
    BY <1>1 DEF NothingToEvaluate, EvaluatedSets
  <2>3. Last(History(r)) \in Nat
    BY <1>1, <2>1, HistoryOfWork
  <2> QED
    BY <1>1, <2>1, <2>2, <2>3, DatasetMaxIsLast, RecentHistoryHasFold
<1>2. TypeInv /\ [Next]_vars =>
        [\A r \in Runs : NothingToEvaluate(r) => Last(History(r)) < DatasetMax(r) - 2]_vars
  BY <1>1
<1>3. Spec => []TypeInv
  BY TypeCorrect, PTL DEF TypeInv
<1> QED
  BY <1>2, <1>3, PTL DEF Spec, StopsOnlyAtDiscontinued

(***************************************************************************)
(* Runs that do not overlap, and whose registry reads are all answered: a     *)
(* series is retrained only on new semesters, and its champion's stored error *)
(* never rises.  Failed transactions and aborted runs are allowed.            *)
(***************************************************************************)

Undisturbed == MaxReadFaults = 0 /\ \A q, r \in Runs : q = r

\* What the gate established still holds when the candidate is recorded, and the
\* decision taken against the champion still holds when it is replaced.
SeqRunInv(r) ==
  /\ pc[r] \in {"evaluate", "record", "demote", "insert"} =>
       \A k \in RowsOf(at[r]) : registry[k].trainEnd < Last(History(r))
  /\ pc[r] \in {"record", "demote", "insert"} /\ cand[r].promote =>
       \A k \in Champions(at[r]) : DbMae(cand[r].mae) <= registry[k].mae

StoredRounded == \A k \in DOMAIN registry : registry[k].mae = DbMae(registry[k].exact)

SeqInv ==
  /\ IInv
  /\ used["read"] = 0
  /\ RetrainedOnNewPeriodsOnly
  /\ StoredRounded
  /\ \A r \in Runs : SeqRunInv(r)

\* A read that raises would exceed its bound.
LEMMA ReadIsAnswered ==
  ASSUME Undisturbed, SeqInv, NEW answers, NEW v, Read(answers, v)
  PROVE  v \in answers /\ UNCHANGED used
BY DEF Undisturbed, SeqInv, Read, Spend, Limit, Events

\* No step of an undisturbed deployment spends a failed read.
LEMMA NoReadFault ==
  ASSUME Undisturbed, SeqInv, [Next]_vars
  PROVE  used'["read"] = 0
<1>0. TypeInv /\ used \in [Events -> Nat] /\ used["read"] = 0
  BY DEF SeqInv, IInv, TypeInv, TypeOK
<1>1. CASE RebuildFeatures \/ \E r \in Runs : RecordFault(r) \/ Abort(r)
  BY <1>0, <1>1 DEF RebuildFeatures, RecordFault, Abort, Spend, Events
<1>2. ASSUME NEW r \in Runs, RetrainGate(r)
      PROVE  UNCHANGED used
  BY <1>2, ReadIsAnswered DEF RetrainGate
<1>3. ASSUME NEW r \in Runs, Evaluate(r)
      PROVE  UNCHANGED used
  BY <1>3, ReadIsAnswered DEF Evaluate
<1>4. ASSUME NEW r \in Runs,
             \/ Launch(r) \/ SkipInsufficientHistory(r) \/ NothingToEvaluate(r) \/ RecordRejected(r)
             \/ BeginPromotion(r) \/ DemoteChampion(r) \/ CommitPromotion(r)
             \/ PromotionConflict(r) \/ WriteForecast(r) \/ ForecastRefused(r)
      PROVE  UNCHANGED used
  BY <1>4 DEF Launch, SkipInsufficientHistory, NothingToEvaluate, RecordRejected, BeginPromotion,
              DemoteChampion, CommitPromotion, PromotionConflict, WriteForecast, ForecastRefused
<1> QED
  BY <1>0, <1>1, <1>2, <1>3, <1>4 DEF Next, Step, vars

\* What recording the candidate of a run does to the tables
LEMMA RecordingKeeps ==
  ASSUME SeqInv, NEW r \in Runs, RecordRejected(r) \/ CommitPromotion(r)
  PROVE  RetrainedOnNewPeriodsOnly' /\ StoredRounded'
<1> DEFINE new == Len(registry) + 1
<1>0. /\ registry \in Seq(Row) /\ CandidateRow(r) \in Row
      /\ \A k \in RowsOf(at[r]) : registry[k].trainEnd < Last(History(r))
  BY CandidateRowTyped
  DEF SeqInv, IInv, TypeInv, TypeOK, RunInv, SeqRunInv, RecordRejected, CommitPromotion
<1>1. registry' = Append(registry, CandidateRow(r))
  BY DEF RecordRejected, CommitPromotion
<1>2. /\ DOMAIN registry' = DOMAIN registry \cup {new} /\ new \notin DOMAIN registry
      /\ \A k \in DOMAIN registry : k < new
      /\ \A k \in DOMAIN registry : registry'[k] = registry[k]
      /\ registry'[new] = CandidateRow(r)
  BY <1>0, <1>1, AppendKeeps
<1>3. /\ CandidateRow(r).series = at[r] /\ CandidateRow(r).trainEnd = Last(History(r))
      /\ CandidateRow(r).mae = DbMae(CandidateRow(r).exact)
  BY DEF CandidateRow
<1>4. StoredRounded'
  BY <1>2, <1>3 DEF SeqInv, StoredRounded
<1>5. ASSUME NEW j \in DOMAIN registry', NEW k \in DOMAIN registry',
             j < k, registry'[j].series = registry'[k].series
      PROVE  registry'[j].trainEnd < registry'[k].trainEnd
  <2>1. CASE k = new
    <3>1. j \in DOMAIN registry
      BY <1>2, <1>5, <2>1
    <3>2. j \in RowsOf(at[r])
      BY <1>2, <1>3, <1>5, <2>1, <3>1 DEF RowsOf
    <3> QED
      BY <1>0, <1>2, <1>3, <2>1, <3>1, <3>2
  <2>2. CASE k # new
    <3>1. j \in DOMAIN registry /\ k \in DOMAIN registry
      BY <1>0, <1>2, <1>5, <2>2
    <3> QED
      BY <1>2, <1>5, <3>1 DEF SeqInv, RetrainedOnNewPeriodsOnly
  <2> QED
    BY <2>1, <2>2
<1> QED
  BY <1>4, <1>5 DEF RetrainedOnNewPeriodsOnly

\* What the gate lets through has semesters no earlier candidate was trained on.
LEMMA GateFindsNewPeriods ==
  ASSUME Undisturbed, SeqInv, NEW r \in Runs, RetrainGate(r), pc'[r] = "evaluate"
  PROVE  \A k \in RowsOf(at[r]) : registry[k].trainEnd < Last(History(r))
<1>0. /\ registry \in Seq(Row) /\ pc \in [Runs -> Steps] /\ RunsTyped
      /\ RetrainedOnNewPeriodsOnly
  BY TypeOKParts DEF SeqInv, IInv, TypeInv, TypeOK
<1>1. PICK lastTrained \in get_last_trained_period_ordinal(at[r]) \cup {NoPeriod} :
        /\ Read(get_last_trained_period_ordinal(at[r]), lastTrained)
        /\ IF should_retrain(Last(History(r)), lastTrained)
           THEN pc' = [pc EXCEPT ![r] = "evaluate"] /\ UNCHANGED <<at, snap, cand, txn, key>>
           ELSE NextSeries(r)
  BY DEF RetrainGate
<1>2. lastTrained \in get_last_trained_period_ordinal(at[r])
  BY <1>1, ReadIsAnswered
<1>3. should_retrain(Last(History(r)), lastTrained)
  <2>1. ASSUME NextSeries(r) PROVE pc'[r] # "evaluate"
    <3>1. CASE at[r] = NumSeries
      BY <1>0, <2>1, <3>1 DEF NextSeries, EndRun
    <3>2. CASE at[r] # NumSeries
      BY <1>0, <2>1, <3>2 DEF NextSeries
    <3> QED
      BY <3>1, <3>2
  <2> QED
    BY <1>1, <2>1
<1>4. CASE RowsOf(at[r]) = {}
  BY <1>4
<1>5. CASE RowsOf(at[r]) # {}
  <2>1. PICK k \in Latest(RowsOf(at[r])) : lastTrained = registry[k].trainEnd
    BY <1>2, <1>5 DEF get_last_trained_period_ordinal
  <2>2. /\ k \in DOMAIN registry /\ registry[k].series = at[r]
        /\ registry[k].trainEnd \in Nat
    <3>1. k \in DOMAIN registry /\ registry[k].series = at[r]
      BY <2>1 DEF Latest, RowsOf
    <3>2. registry[k] \in Row
      BY <1>0, <3>1
    <3> QED
      BY <3>1, <3>2 DEF Row
  <2>3. registry[k].trainEnd < Last(History(r))
    BY <1>3, <2>1, <2>2 DEF should_retrain, NoPeriod
  <2>4. ASSUME NEW j \in RowsOf(at[r])
        PROVE  registry[j].trainEnd < Last(History(r))
    <3>1. j \in DOMAIN registry /\ registry[j].series = at[r] /\ j <= k
      BY <2>1 DEF Latest, RowsOf
    <3>2. CASE j = k
      BY <2>3, <3>2
    <3>3. CASE j # k
      <4>1. j < k
        BY <1>0, <2>2, <3>1, <3>3
      <4>2. registry[j].trainEnd < registry[k].trainEnd
        BY <1>0, <2>2, <3>1, <4>1 DEF RetrainedOnNewPeriodsOnly
      <4>3. registry[j].trainEnd \in Nat /\ Last(History(r)) \in Nat
        <5>1. registry[j] \in Row
          BY <1>0, <3>1
        <5>2. Last(History(r)) \in Nat
          <6>1. History(r) # {}
            BY SufficientIsNonEmpty DEF RetrainGate
          <6>2. History(r) \in Histories \cup {{}}
            BY <1>0, ConstantsAssumption DEF RunsTyped, History, ConstantsAssumption
          <6> QED
            BY <6>1, <6>2, LastOfHistory
        <5> QED
          BY <5>1, <5>2 DEF Row
      <4> QED
        BY <2>2, <2>3, <4>2, <4>3
    <3> QED
      BY <3>2, <3>3
  <2> QED
    BY <2>4
<1> QED
  BY <1>4, <1>5

\* A candidate is decided for promotion only when it is stored no worse than the
\* champion.
LEMMA EvaluationCompares ==
  ASSUME Undisturbed, SeqInv, NEW r \in Runs, Evaluate(r), cand'[r].promote
  PROVE  \A k \in Champions(at[r]) : DbMae(cand'[r].mae) <= registry[k].mae
<1>0. /\ registry \in Seq(Row) /\ champions \subseteq DOMAIN registry /\ cand \in [Runs -> Candidate]
      /\ OneChampionPerSeries /\ StoredRounded
  BY DEF SeqInv, IInv, TypeInv, TypeOK
<1>1. PICK C \in EvaluatedSets(History(r), DatasetMax(r), at[r] \in GraduationSeries) :
        \E maes \in [C -> Maes] : \E a \in DeployedAlgorithm(maes, History(r)) :
          \E c \in get_current_champion(at[r]) \cup {NoKey} :
            Read(get_current_champion(at[r]), c) /\ EvaluatedTo(r, maes[a], c)
  BY DEF Evaluate, EvaluatedTo
<1>2. PICK maes \in [C -> Maes] : \E a \in DeployedAlgorithm(maes, History(r)) :
        \E c \in get_current_champion(at[r]) \cup {NoKey} :
          Read(get_current_champion(at[r]), c) /\ EvaluatedTo(r, maes[a], c)
  BY <1>1
<1>3. PICK a \in DeployedAlgorithm(maes, History(r)), c \in get_current_champion(at[r]) \cup {NoKey} :
        Read(get_current_champion(at[r]), c) /\ EvaluatedTo(r, maes[a], c)
  BY <1>2
<1>4. c \in get_current_champion(at[r])
  BY <1>3, ReadIsAnswered
<1>5. maes[a] \in Nat
  BY DeployedIsEvaluated, ConstantsAssumption DEF ConstantsAssumption
<1>6. /\ cand'[r].mae = maes[a]
      /\ c = NoKey \/ decide_champion_promotion(maes[a], registry[c].mae)
  BY <1>0, <1>3 DEF EvaluatedTo
<1>7. ASSUME NEW k \in Champions(at[r])
      PROVE  DbMae(maes[a]) <= registry[k].mae
  <2>1. c \in champions /\ registry[c].series = at[r]
    BY <1>4, <1>7 DEF get_current_champion, Latest, Champions
  <2>2. k = c
    BY <1>0, <1>7, <2>1 DEF OneChampionPerSeries, Champions
  <2>3. c # NoKey /\ c \in DOMAIN registry
    BY <1>0, <2>1 DEF NoKey
  <2>4. registry[c].exact \in Nat /\ registry[c].mae = DbMae(registry[c].exact)
    <3>1. registry[c] \in Row
      BY <1>0, <2>3
    <3> QED
      BY <1>0, <2>3, <3>1 DEF StoredRounded, Row
  <2> QED
    BY <1>5, <1>6, <2>2, <2>3, <2>4, PromotionNeverWorsens
<1> QED
  BY <1>6, <1>7

\* Every step keeps the one run's part of the invariant.
LEMMA NextKeepsSeqRunInv ==
  ASSUME Undisturbed, SeqInv, [Next]_vars, NEW r \in Runs
  PROVE  SeqRunInv(r)'
<1>0. /\ TypeInv /\ RunsTyped /\ IInv /\ SeqRunInv(r)
  BY TypeOKParts DEF SeqInv, IInv, TypeInv
<1>1. ASSUME EndRun(r) \/ NextSeries(r)
      PROVE  SeqRunInv(r)'
  <2>1. CASE EndRun(r)
    BY <1>0, <2>1 DEF EndRun, RunsTyped, SeqRunInv
  <2>2. CASE NextSeries(r) /\ at[r] # NumSeries
    BY <1>0, <2>2 DEF NextSeries, RunsTyped, SeqRunInv
  <2> QED
    BY <1>1, <2>1, <2>2 DEF NextSeries
<1>2. ASSUME UNCHANGED <<registry, champions>>, at'[r] = at[r], cand'[r] = cand[r], snap'[r] = snap[r],
             \/ pc'[r] = pc[r]
             \/ pc'[r] \in {"gate", "forecast"}
             \/ pc[r] = "record" /\ pc'[r] = "demote"
             \/ pc[r] = "demote" /\ pc'[r] = "insert"
      PROVE  SeqRunInv(r)'
  <2>1. RowsOf(at[r])' = RowsOf(at[r]) /\ Champions(at[r])' = Champions(at[r])
        /\ History(r)' = History(r)
    BY <1>2 DEF RowsOf, Champions, History
  <2> QED
    BY <1>0, <1>2, <2>1 DEF SeqRunInv
<1>3. CASE RebuildFeatures \/ UNCHANGED vars
  BY <1>2, <1>3 DEF RebuildFeatures, vars, dbVars, runVars
<1>4. CASE \/ SkipInsufficientHistory(r) \/ NothingToEvaluate(r) \/ RecordRejected(r)
           \/ WriteForecast(r) \/ ForecastRefused(r) \/ Abort(r)
  BY <1>1, <1>4
  DEF SkipInsufficientHistory, NothingToEvaluate, RecordRejected, WriteForecast, ForecastRefused, Abort
<1>5. CASE Launch(r) \/ CommitPromotion(r) \/ PromotionConflict(r)
  <2>1. pc'[r] \in {"gate", "forecast"}
    BY <1>0, <1>5 DEF Launch, CommitPromotion, PromotionConflict, RunsTyped
  <2> QED
    BY <2>1 DEF SeqRunInv
<1>6. CASE BeginPromotion(r) \/ DemoteChampion(r)
  <2>1. /\ \/ pc[r] = "record" /\ pc'[r] = "demote"
           \/ pc[r] = "demote" /\ pc'[r] = "insert"
        /\ UNCHANGED <<registry, champions, at, cand, snap>>
    BY <1>0, <1>6 DEF BeginPromotion, DemoteChampion, RunsTyped, dbVars
  <2> QED
    BY <1>2, <2>1
<1>7. CASE RecordFault(r)
  <2>1. CASE NextSeries(r)
    BY <1>1, <2>1
  <2>2. CASE ~NextSeries(r)
    <3>1. pc'[r] = "forecast"
      BY <1>0, <1>7, <2>2 DEF RecordFault, RunsTyped
    <3> QED
      BY <3>1 DEF SeqRunInv
  <2> QED
    BY <2>1, <2>2
<1>8. CASE RetrainGate(r)
  <2>1. CASE NextSeries(r)
    BY <1>1, <2>1
  <2>2. CASE ~NextSeries(r)
    <3>1. pc'[r] = "evaluate" /\ UNCHANGED <<registry, champions, at, snap>>
      BY <1>0, <1>8, <2>2 DEF RetrainGate, RunsTyped, dbVars
    <3>2. \A k \in RowsOf(at[r]) : registry[k].trainEnd < Last(History(r))
      BY <1>8, <3>1, GateFindsNewPeriods
    <3> QED
      BY <3>1, <3>2 DEF SeqRunInv, RowsOf, History
  <2> QED
    BY <2>1, <2>2
<1>9. CASE Evaluate(r)
  <2>1. pc[r] = "evaluate" /\ pc'[r] = "record" /\ UNCHANGED <<registry, champions, at, snap>>
    BY <1>0, <1>9 DEF Evaluate, RunsTyped, dbVars
  <2>2. RowsOf(at[r])' = RowsOf(at[r]) /\ Champions(at[r])' = Champions(at[r])
        /\ History(r)' = History(r)
    BY <2>1 DEF RowsOf, Champions, History
  <2> QED
    BY <1>0, <1>9, <2>1, <2>2, EvaluationCompares DEF SeqRunInv
<1> QED
  BY <1>3, <1>4, <1>5, <1>6, <1>7, <1>8, <1>9 DEF Next, Step, Undisturbed

LEMMA NextKeepsSeqInv ==
  ASSUME Undisturbed, SeqInv, [Next]_vars
  PROVE  SeqInv'
<1>1. IInv /\ TypeInv
  BY DEF SeqInv, IInv
<1>2. RetrainedOnNewPeriodsOnly' /\ StoredRounded'
  <2>1. CASE UNCHANGED dbVars \/ \E r \in Runs : WriteForecast(r)
    BY <2>1 DEF SeqInv, dbVars, WriteForecast, RetrainedOnNewPeriodsOnly, StoredRounded
  <2> QED
    BY <1>1, <2>1, TableSteps, RecordingKeeps
<1> QED
  BY <1>1, <1>2, NextKeepsIInv, NoReadFault, NextKeepsSeqRunInv DEF SeqInv

LEMMA SeqInvHolds ==
  ASSUME Undisturbed
  PROVE  Spec => []SeqInv
<1>1. Init => SeqInv
  <2> SUFFICES ASSUME Init PROVE SeqInv
    OBVIOUS
  <2>1. used["read"] = 0
    BY DEF Init, Events
  <2>2. RetrainedOnNewPeriodsOnly /\ StoredRounded
    BY DEF Init, RetrainedOnNewPeriodsOnly, StoredRounded
  <2>3. \A r \in Runs : SeqRunInv(r)
    BY DEF Init, SeqRunInv
  <2> QED
    BY <2>1, <2>2, <2>3, InitIInv DEF SeqInv
<1>2. SeqInv /\ [Next]_vars => SeqInv'
  BY NextKeepsSeqInv
<1> QED
  BY <1>1, <1>2, PTL DEF Spec

\* RetrainedWhenDue, for any number of series and histories, any failed transactions
\* and aborted runs, as long as runs do not overlap and reads succeed.
THEOREM RetrainingCorrect ==
  ASSUME Undisturbed
  PROVE  Spec => []RetrainedWhenDue
BY SeqInvHolds, PassedCorrect, PTL DEF SeqInv, RetrainedWhenDue

\* ChampionNeverRegresses under the same conditions.
THEOREM ChampionCorrect ==
  ASSUME Undisturbed
  PROVE  Spec => ChampionNeverRegresses
<1>1. ASSUME SeqInv, Next, NEW j \in champions
      PROVE  \E k \in champions' : /\ registry'[k].series = registry[j].series
                                   /\ registry'[k].mae <= registry[j].mae
  <2>0. /\ TypeInv /\ IInv /\ registry \in Seq(Row) /\ champions \subseteq DOMAIN registry
        /\ registry[j].mae \in Nat /\ j \in DOMAIN registry
    <3>1. TypeInv /\ IInv /\ registry \in Seq(Row) /\ champions \subseteq DOMAIN registry
      BY <1>1 DEF SeqInv, IInv, TypeInv, TypeOK
    <3>2. registry[j] \in Row
      BY <3>1
    <3> QED
      BY <3>1, <3>2 DEF Row
  <2>1. HistoryKept
    BY <1>1, <2>0, StepKeepsHistory
  <2>2. CASE j \in champions'
    BY <2>0, <2>1, <2>2 DEF HistoryKept
  <2>3. ASSUME NEW r \in Runs, CommitPromotion(r), j \notin champions'
        PROVE  \E k \in champions' : /\ registry'[k].series = registry[j].series
                                     /\ registry'[k].mae <= registry[j].mae
    <3> DEFINE new == Len(registry) + 1
    <3>1. /\ j \in txn[r].locked /\ txn[r].locked \subseteq RowsOf(at[r])
          /\ cand[r].promote /\ pc[r] = "insert" /\ CandidateRow(r) \in Row
      BY <2>0, <2>3, CandidateRowTyped DEF IInv, RunInv, CommitPromotion
    <3>2. registry[j].series = at[r]
      BY <3>1 DEF RowsOf
    <3>3. new \in champions' /\ registry' = Append(registry, CandidateRow(r))
      BY <2>3 DEF CommitPromotion
    <3>4. registry'[new] = CandidateRow(r)
      BY <2>0, <3>1, <3>3, AppendKeeps
    <3>5. DbMae(cand[r].mae) <= registry[j].mae
      BY <1>1, <3>1, <3>2 DEF SeqInv, SeqRunInv, Champions
    <3> QED
      BY <3>2, <3>3, <3>4, <3>5 DEF CandidateRow
  <2>4. \/ j \in champions'
        \/ \E r \in Runs : CommitPromotion(r)
    BY <1>1, <2>0, TableSteps DEF dbVars, RecordRejected, WriteForecast
  <2> QED
    BY <2>2, <2>3, <2>4
<1>2. SeqInv /\ [Next]_vars =>
        [\A j \in champions : \E k \in champions' :
           /\ registry'[k].series = registry[j].series
           /\ registry'[k].mae <= registry[j].mae]_vars
  BY <1>1
<1> QED
  BY <1>2, SeqInvHolds, PTL DEF Spec, ChampionNeverRegresses
=============================================================================
