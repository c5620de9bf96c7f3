--------------------------- MODULE DeployForecasts ---------------------------
(***************************************************************************)
(* deploy_forecasts (models/forecasting/deploy_forecast.py) over the tables  *)
(* gold.model_registry and gold.fact_forecast: for every (program, metric)   *)
(* series in order, the retrain gate, the walk-forward evaluation, the       *)
(* comparison with the champion, the registry transaction and the forecast   *)
(* row.  Every database call is a step of its own, because another run, a    *)
(* rebuild of the features or the end of the process can fall between two.   *)
(***************************************************************************)
EXTENDS WalkForward, Sequences

CONSTANTS
  Runs,             \* processes that execute deploy_forecasts
  NumSeries,        \* number of (program, metric) series, visited in the order 1..NumSeries
  Programs,         \* the programs of gold.dim_program
  ProgramOf,        \* the program of each series
  GraduationSeries, \* the series whose metric is graduation_count
  Histories,        \* the period sets a program may have in the features table
  Maes,             \* the walk-forward errors an algorithm may get
  MaxRebuilds,      \* bound: rebuilds of the features table
  MaxReadFaults,    \* bound: registry reads that raise (and are swallowed)
  MaxWriteFaults,   \* bound: registry transactions that raise (and are swallowed)
  MaxAborts         \* bound: runs that end in the middle

Series == 1..NumSeries
NoKey == 0

ASSUME ConstantsAssumption ==
  /\ NumSeries \in Nat \ {0}
  /\ ProgramOf \in [Series -> Programs]
  /\ GraduationSeries \subseteq Series
  /\ \A h \in Histories : h \subseteq Nat /\ h # {}
  /\ \A H \in (SUBSET Histories) \ {{}} : \E p \in UNION H : \A q \in UNION H : q <= p
  /\ Maes \subseteq Nat
  /\ MaxRebuilds \in Nat /\ MaxReadFaults \in Nat
  /\ MaxWriteFaults \in Nat /\ MaxAborts \in Nat

VARIABLES
  features,   \* gold.ml_program_forecast_features: program -> its periods
  registry,   \* gold.model_registry without is_champion; the index is the key
  champions,  \* the keys whose is_champion is TRUE
  forecasts,  \* gold.fact_forecast, program grain
  pc,         \* where each run is
  at,         \* the series each run is working on
  snap,       \* the result of load_series, read once when the run starts
  cand,       \* the evaluated candidate: its error and the promotion decision
  txn,        \* the open registry transaction: rows its UPDATE saw, rows it locked
  key,        \* model_registry_key returned by record_candidate
  used        \* how much of each bound has been used

runVars == <<pc, at, snap, cand, txn, key>>
dbVars  == <<registry, champions, forecasts>>
vars    == <<features, dbVars, runVars, used>>

(***************************************************************************)
(* Types                                                                    *)
(***************************************************************************)

\* One trained candidate.  exact is the error the run computed, mae what the
\* column holds; rejected tells a NULL rejected_reason from a filled one.
Row == [series: Series, exact: Nat, mae: Nat, trainEnd: Nat, rejected: BOOLEAN]

\* One program-grain forecast row; model_version follows the registry key
Forecast == [series: Series, target: Nat, key: Nat]

Candidate == [mae: Nat, promote: BOOLEAN]
NoCandidate == [mae |-> 0, promote |-> FALSE]

Txn == [seen: SUBSET Nat, locked: SUBSET Nat]
NoTxn == [seen |-> {}, locked |-> {}]

EmptyTable == [p \in Programs |-> {}]

Steps == {"idle", "gate", "evaluate", "record", "demote", "insert", "forecast"}

\* The bounded events, and how often each may happen
Events == {"rebuild", "read", "write", "abort"}
Limit == [e \in Events |->
            CASE e = "rebuild" -> MaxRebuilds
              [] e = "read"    -> MaxReadFaults
              [] e = "write"   -> MaxWriteFaults
              [] e = "abort"   -> MaxAborts]

TypeOK ==
  /\ features \in [Programs -> Histories \cup {{}}]
  /\ registry \in Seq(Row)
  /\ champions \subseteq DOMAIN registry
  /\ forecasts \subseteq Forecast
  /\ pc \in [Runs -> Steps]
  /\ at \in [Runs -> Series]
  /\ snap \in [Runs -> [Programs -> Histories \cup {{}}]]
  /\ cand \in [Runs -> Candidate]
  /\ txn \in [Runs -> Txn]
  /\ key \in [Runs -> Nat]
  /\ used \in [Events -> Nat]
  /\ \A e \in Events : used[e] <= Limit[e]

(***************************************************************************)
(* What the queries return                                                  *)
(***************************************************************************)

RowsOf(s) == {k \in DOMAIN registry : registry[k].series = s}
Champions(s) == {k \in champions : registry[k].series = s}

\* ORDER BY trained_at DESC, model_registry_key DESC LIMIT 1: rows are stamped and
\* numbered as they are inserted
Latest(keys) == {k \in keys : \A j \in keys : j <= k}

get_last_trained_period_ordinal(s) ==
  IF RowsOf(s) = {} THEN {NoPeriod} ELSE {registry[k].trainEnd : k \in Latest(RowsOf(s))}

get_current_champion(s) == IF Champions(s) = {} THEN {NoKey} ELSE Latest(Champions(s))

\* Mutant of History: the table is read again at every use, not once per run
LiveHistory(r) == features[ProgramOf[at[r]]]

\* The history of the series a run is at, in the snapshot the run loaded
History(r) == snap[r][ProgramOf[at[r]]]

\* int(series_df["period_ordinal"].max()): the last period of the whole snapshot
DatasetMax(r) == Last(UNION {snap[r][p] : p \in Programs})

(***************************************************************************)
(* The loop                                                                 *)
(***************************************************************************)

\* The run ends, normally or with ForecastError; connections close, so an open
\* transaction is rolled back
EndRun(r) ==
  /\ pc' = [pc EXCEPT ![r] = "idle"]
  /\ at' = [at EXCEPT ![r] = 1]
  /\ snap' = [snap EXCEPT ![r] = EmptyTable]
  /\ cand' = [cand EXCEPT ![r] = NoCandidate]
  /\ txn' = [txn EXCEPT ![r] = NoTxn]
  /\ key' = [key EXCEPT ![r] = NoKey]

\* Mutant of NextSeries: off by one at the end of the loop
NextSeriesPastEnd(r) ==
  IF at[r] > NumSeries
  THEN EndRun(r)
  ELSE /\ pc' = [pc EXCEPT ![r] = "gate"]
       /\ at' = [at EXCEPT ![r] = @ + 1]
       /\ UNCHANGED <<snap, cand, txn, key>>

\* continue: on to the next series, or out of the loop
NextSeries(r) ==
  IF at[r] = NumSeries
  THEN EndRun(r)
  ELSE /\ pc' = [pc EXCEPT ![r] = "gate"]
       /\ at' = [at EXCEPT ![r] = @ + 1]
       /\ cand' = [cand EXCEPT ![r] = NoCandidate]
       /\ txn' = [txn EXCEPT ![r] = NoTxn]
       /\ key' = [key EXCEPT ![r] = NoKey]
       /\ UNCHANGED snap

Spend(e) == used[e] < Limit[e] /\ used' = [used EXCEPT ![e] = @ + 1]

\* A registry read yields v: one of the answers of the query, or else the default
\* that its `except Exception` substitutes when the database call raises
Read(answers, v) ==
  IF v \in answers THEN UNCHANGED used ELSE Spend("read")

(***************************************************************************)
(* Actions                                                                  *)
(***************************************************************************)

\* The features asset replaces the table: new semesters arrive, or corrected
\* data takes some away
RebuildFeatures ==
  /\ Spend("rebuild")
  /\ features' \in [Programs -> Histories]
  /\ UNCHANGED <<dbVars, runVars>>

\* load_series; an empty table has no last period (int(NaN) raises) and nothing happens
Launch(r) ==
  /\ pc[r] = "idle"
  /\ features # EmptyTable
  /\ pc' = [pc EXCEPT ![r] = "gate"]
  /\ snap' = [snap EXCEPT ![r] = features]
  /\ UNCHANGED <<features, dbVars, at, cand, txn, key, used>>

SkipInsufficientHistory(r) ==
  /\ pc[r] = "gate"
  /\ ~has_sufficient_history(History(r))
  /\ NextSeries(r)
  /\ UNCHANGED <<features, dbVars, used>>

RetrainGate(r) ==
  /\ pc[r] = "gate"
  /\ has_sufficient_history(History(r))
  /\ \E lastTrained \in get_last_trained_period_ordinal(at[r]) \cup {NoPeriod} :
       /\ Read(get_last_trained_period_ordinal(at[r]), lastTrained)
       /\ IF should_retrain(Last(History(r)), lastTrained)
          THEN pc' = [pc EXCEPT ![r] = "evaluate"] /\ UNCHANGED <<at, snap, cand, txn, key>>
          ELSE NextSeries(r)
  /\ UNCHANGED <<features, dbVars>>

\* walk_forward_evaluate, select_champion_algorithm, get_current_champion,
\* decide_champion_promotion and the fallback to a buildable algorithm
Evaluate(r) ==
  /\ pc[r] = "evaluate"
  /\ \E C \in EvaluatedSets(History(r), DatasetMax(r), at[r] \in GraduationSeries) :
       \E maes \in [C -> Maes] : \E a \in DeployedAlgorithm(maes, History(r)) :
         \E c \in get_current_champion(at[r]) \cup {NoKey} :
           /\ Read(get_current_champion(at[r]), c)
           /\ cand' = [cand EXCEPT ![r] =
                [mae |-> maes[a],
                 promote |-> c = NoKey \/ decide_champion_promotion(maes[a], registry[c].mae)]]
  /\ pc' = [pc EXCEPT ![r] = "record"]
  /\ UNCHANGED <<features, dbVars, at, snap, txn, key>>

\* select_champion_algorithm([]) raises ValueError: no fold of this series falls in
\* the dataset-wide test window, and the whole run ends with ForecastError
NothingToEvaluate(r) ==
  /\ pc[r] = "evaluate"
  /\ {} \in EvaluatedSets(History(r), DatasetMax(r), at[r] \in GraduationSeries)
  /\ EndRun(r)
  /\ UNCHANGED <<features, dbVars, used>>

CandidateRow(r) ==
  [series |-> at[r], exact |-> cand[r].mae, mae |-> DbMae(cand[r].mae),
   trainEnd |-> Last(History(r)), rejected |-> ~cand[r].promote]

\* record_candidate of a rejected candidate: one INSERT, then `continue`
RecordRejected(r) ==
  /\ pc[r] = "record"
  /\ ~cand[r].promote
  /\ registry' = Append(registry, CandidateRow(r))
  /\ NextSeries(r)
  /\ UNCHANGED <<features, champions, forecasts, used>>

\* record_candidate of a promoted one: the UPDATE takes its snapshot of the champion rows
BeginPromotion(r) ==
  /\ pc[r] = "record"
  /\ cand[r].promote
  /\ txn' = [txn EXCEPT ![r].seen = Champions(at[r])]
  /\ pc' = [pc EXCEPT ![r] = "demote"]
  /\ UNCHANGED <<features, dbVars, at, snap, cand, key, used>>

\* Mutant of DemoteChampion: the UPDATE is committed on its own
DemoteInOwnTransaction(r) ==
  /\ pc[r] = "demote"
  /\ champions' = champions \ txn[r].seen
  /\ pc' = [pc EXCEPT ![r] = "insert"]
  /\ UNCHANGED <<features, registry, forecasts, at, snap, cand, txn, key, used>>

\* ... waits for row locks other transactions hold, and demotes the rows that are
\* still champions
DemoteChampion(r) ==
  /\ pc[r] = "demote"
  /\ \A q \in Runs \ {r} : txn[q].locked \cap txn[r].seen = {}
  /\ txn' = [txn EXCEPT ![r].locked = txn[r].seen \cap champions]
  /\ pc' = [pc EXCEPT ![r] = "insert"]
  /\ UNCHANGED <<features, dbVars, at, snap, cand, key, used>>

\* Mutant of OtherChampion: the partial unique index is missing
NoUniqueIndex(r) == FALSE

\* ux_model_registry_one_champion: a champion of the series this transaction did
\* not demote
OtherChampion(r) == Champions(at[r]) \ txn[r].locked # {}

\* Mutant of CommitPromotion: the champion's row is updated in place
OverwriteChampion(r) ==
  /\ pc[r] = "insert"
  /\ ~OtherChampion(r)
  /\ \E k \in txn[r].locked \cup {Len(registry) + 1} :
       /\ registry' = IF k \in DOMAIN registry
                      THEN [registry EXCEPT ![k] = CandidateRow(r)]
                      ELSE Append(registry, CandidateRow(r))
       /\ champions' = champions \cup {k}
       /\ key' = [key EXCEPT ![r] = k]
  /\ txn' = [txn EXCEPT ![r] = NoTxn]
  /\ pc' = [pc EXCEPT ![r] = "forecast"]
  /\ UNCHANGED <<features, forecasts, at, snap, cand, used>>

\* ... INSERT and COMMIT
CommitPromotion(r) ==
  /\ pc[r] = "insert"
  /\ ~OtherChampion(r)
  /\ registry' = Append(registry, CandidateRow(r))
  /\ champions' = (champions \ txn[r].locked) \cup {Len(registry) + 1}
  /\ key' = [key EXCEPT ![r] = Len(registry) + 1]
  /\ txn' = [txn EXCEPT ![r] = NoTxn]
  /\ pc' = [pc EXCEPT ![r] = "forecast"]
  /\ UNCHANGED <<features, forecasts, at, snap, cand, used>>

\* ... or the INSERT violates the index: rollback, and the exception is swallowed
\* (the key is 0)
PromotionConflict(r) ==
  /\ pc[r] = "insert"
  /\ OtherChampion(r)
  /\ key' = [key EXCEPT ![r] = NoKey]
  /\ txn' = [txn EXCEPT ![r] = NoTxn]
  /\ pc' = [pc EXCEPT ![r] = "forecast"]
  /\ UNCHANGED <<features, dbVars, at, snap, cand, used>>

\* The registry transaction raises for any other reason: also rolled back and
\* swallowed, so a rejected candidate is skipped over and a promoted one goes on
\* with key 0
RecordFault(r) ==
  /\ pc[r] \in {"record", "demote", "insert"}
  /\ Spend("write")
  /\ IF cand[r].promote
     THEN /\ key' = [key EXCEPT ![r] = NoKey]
          /\ txn' = [txn EXCEPT ![r] = NoTxn]
          /\ pc' = [pc EXCEPT ![r] = "forecast"]
          /\ UNCHANGED <<at, snap, cand>>
     ELSE NextSeries(r)
  /\ UNCHANGED <<features, dbVars>>

\* Mutant of WriteForecast: the row names the newest model of the series instead of
\* the one whose key record_candidate returned
WriteForecastOfNewest(r) ==
  /\ pc[r] = "forecast"
  /\ key[r] # NoKey
  /\ forecasts' = forecasts \cup
       {[series |-> at[r], target |-> NextTarget(History(r)), key |-> k] : k \in Latest(RowsOf(at[r]))}
  /\ NextSeries(r)
  /\ UNCHANGED <<features, registry, champions, used>>

\* _write_forecast_row: the upsert of the promoted model's forecast
WriteForecast(r) ==
  /\ pc[r] = "forecast"
  /\ key[r] # NoKey
  /\ forecasts' = forecasts \cup
       {[series |-> at[r], target |-> NextTarget(History(r)), key |-> key[r]]}
  /\ NextSeries(r)
  /\ UNCHANGED <<features, registry, champions, used>>

\* ... with key 0 the foreign key to model_registry fails at COMMIT, which ends the run
ForecastRefused(r) ==
  /\ pc[r] = "forecast"
  /\ key[r] = NoKey
  /\ EndRun(r)
  /\ UNCHANGED <<features, dbVars, used>>

\* The process dies, Prophet fails to fit or the forecast INSERT fails: whatever
\* was not committed is lost, whatever was committed stays
Abort(r) ==
  /\ pc[r] # "idle"
  /\ Spend("abort")
  /\ EndRun(r)
  /\ UNCHANGED <<features, dbVars>>

(***************************************************************************)
(* Specification                                                            *)
(***************************************************************************)

Init ==
  /\ features \in [Programs -> Histories]
  /\ registry = <<>>
  /\ champions = {}
  /\ forecasts = {}
  /\ pc = [r \in Runs |-> "idle"]
  /\ at = [r \in Runs |-> 1]
  /\ snap = [r \in Runs |-> EmptyTable]
  /\ cand = [r \in Runs |-> NoCandidate]
  /\ txn = [r \in Runs |-> NoTxn]
  /\ key = [r \in Runs |-> NoKey]
  /\ used = [e \in Events |-> 0]

\* The run's own progress, as opposed to what befalls it
Step(r) ==
  \/ Launch(r)
  \/ SkipInsufficientHistory(r)
  \/ RetrainGate(r)
  \/ Evaluate(r)
  \/ NothingToEvaluate(r)
  \/ RecordRejected(r)
  \/ BeginPromotion(r)
  \/ DemoteChampion(r)
  \/ CommitPromotion(r)
  \/ PromotionConflict(r)
  \/ WriteForecast(r)
  \/ ForecastRefused(r)

Next ==
  \/ RebuildFeatures
  \/ \E r \in Runs : Step(r) \/ RecordFault(r) \/ Abort(r)

Spec == Init /\ [][Next]_vars

\* The deployment is launched again and again (per_semester_pipeline_run, or by
\* hand) and a launched run executes its statements
FairSpec == Spec /\ \A r \in Runs : WF_vars(Step(r))

(***************************************************************************)
(* Safety                                                                   *)
(***************************************************************************)

\* At most one champion per (program, metric), whatever runs overlap: a run's
\* UPDATE may miss the champion another run is inserting, and only the partial
\* unique index then stops the second promotion.
OneChampionPerSeries ==
  \A j, k \in champions : registry[j].series = registry[k].series => j = k

\* Every forecast can be traced to the model that made it: a recorded row of the
\* same series that was promoted, and trained on everything up to the period just
\* before the target (no forecast of a rejected candidate, of a key 0, or of
\* another run's newer data).
ForecastsTraceable ==
  \A f \in forecasts :
    /\ f.key \in DOMAIN registry
    /\ registry[f.key].series = f.series
    /\ ~registry[f.key].rejected
    /\ f.target = registry[f.key].trainEnd + 1

\* The forecast of model k is in the table, or the run that recorded it is about to write it
Announced(k) ==
  \/ \E f \in forecasts : f.key = k
  \/ \E r \in Runs : pc[r] = "forecast" /\ key[r] = k

\* Conversely every promoted model gets its forecast, whatever reads and transactions
\* fail and runs overlap, unless a run was ended early.
PromotedAnnounced ==
  used["abort"] = 0 => \A k \in DOMAIN registry : registry[k].rejected \/ Announced(k)

\* Registry and forecasts match: a forecast is that of a promoted model of its series and
\* semester, and a promoted model has its forecast or is about to have it.
ForecastsMatchRegistry == ForecastsTraceable /\ PromotedAnnounced

\* A series that was ever trained has a champion: the first candidate recorded is
\* promoted, and no demotion is committed without its successor, even when reads
\* are swallowed, transactions fail and runs overlap.
TrainedSeriesHaveChampion ==
  \A k \in DOMAIN registry : Champions(registry[k].series) # {}

\* The registry is a history: a row once recorded never changes, is never deleted,
\* and a demoted row never becomes champion again.
RegistryIsHistory ==
  [][/\ Len(registry') >= Len(registry)
     /\ \A k \in DOMAIN registry : registry'[k] = registry[k]
     /\ champions' \cap DOMAIN registry \subseteq champions]_vars

\* While reads do not fail and runs do not overlap, the stored error of a series'
\* champion never rises and the series never loses its champion.
ChampionNeverRegresses ==
  [][\A j \in champions : \E k \in champions' :
       /\ registry'[k].series = registry[j].series
       /\ registry'[k].mae <= registry[j].mae]_vars

\* While reads do not fail and runs do not overlap, a series is trained again only
\* when its data reaches beyond everything it was trained on before: no candidate
\* comes from corrected or shrunken data alone.
RetrainedOnNewPeriodsOnly ==
  \A j, k \in DOMAIN registry :
    j < k /\ registry[j].series = registry[k].series => registry[j].trainEnd < registry[k].trainEnd

\* Conversely a run that is past a series with enough history leaves it trained on all
\* the periods it read, whatever reads fail and runs overlap, unless the record of a
\* rejected candidate was lost.
PassedSeriesTrained ==
  used["write"] = 0 =>
    \A r \in Runs : \A s \in 1..(at[r] - 1) :
      has_sufficient_history(snap[r][ProgramOf[s]]) =>
        \E k \in RowsOf(s) : registry[k].trainEnd >= Last(snap[r][ProgramOf[s]])

\* A series is trained when it has new periods, and only then.
RetrainedWhenDue == RetrainedOnNewPeriodsOnly /\ PassedSeriesTrained

\* A deployment finds nothing to evaluate, and gives up all remaining series, only
\* at a program whose data stopped more than two semesters before the dataset's.
StopsOnlyAtDiscontinued ==
  [][\A r \in Runs : NothingToEvaluate(r) => Last(History(r)) < DatasetMax(r) - 2]_vars

(***************************************************************************)
(* Refinement                                                               *)
(***************************************************************************)

\* What a reader of the tables sees of a registry row, and of the champions
ModelOf(row) == [series |-> row.series, trainEnd |-> row.trainEnd, rejected |-> row.rejected]
ChampionOf(s) == IF Champions(s) = {} THEN NoKey ELSE CHOOSE k \in Champions(s) : TRUE

Board == INSTANCE ChampionBoard WITH
  Periods  <- {Last(h) : h \in Histories},
  models   <- [k \in DOMAIN registry |-> ModelOf(registry[k])],
  champion <- [s \in Series |-> ChampionOf(s)]

\* Seen by their readers, overlapping and failing deployments leave the tables as
\* if each candidate had been promoted or rejected in one step.
ImplementsBoard == Board!Spec

(***************************************************************************)
(* Liveness                                                                 *)
(***************************************************************************)

Published(s) == \E f \in forecasts : f.series = s /\ f.key \in champions

\* The program has enough history, and so has no program a history that ends
\* before the dataset-wide test window begins
Evaluable(s) ==
  LET max == Last(UNION {features[p] : p \in Programs})
  IN  /\ has_sufficient_history(features[ProgramOf[s]])
      /\ \A p \in Programs : has_sufficient_history(features[p]) => Folds(features[p], max) # {}

\* A series that in the end can be evaluated has a deployed champion with its
\* forecast, although registry transactions may fail and be swallowed and such a
\* failure ends the run: a later run gets it done.
EvaluableSeriesGetForecast == \A s \in Series : <>[]Evaluable(s) => <>[]Published(s)

\* Any run can be repeated safely: a champion whose forecast was not written when
\* its run ended gets it from a later run, or makes way for one that has it.
ChampionEventuallyPublished == \A s \in Series : Champions(s) # {} ~> Published(s)
=============================================================================
