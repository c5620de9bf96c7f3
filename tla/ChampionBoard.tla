---------------------------- MODULE ChampionBoard ----------------------------
(***************************************************************************)
(* What the registry and the forecast table promise their readers, whatever  *)
(* deployments overlap, fail or stop halfway: a growing list of models, at    *)
(* most one champion per series that is only ever replaced by a newer one,    *)
(* and forecasts that name the model they were made with.                     *)
(*                                                                          *)
(* DeployForecasts implements this specification: there, a promotion takes    *)
(* three statements of one transaction and any number of runs take them at    *)
(* the same time.  ForecastRollup reads these tables.                        *)
(***************************************************************************)
EXTENDS Naturals, Sequences

CONSTANTS
  Series,   \* the (program, metric) series
  Periods   \* the periods a training window may end with

VARIABLES
  models,     \* every model ever recorded; the index is its key
  champion,   \* the key of each series' champion, or None
  forecasts   \* the published program-grain forecasts

boardVars == <<models, champion, forecasts>>

None == 0

Model == [series: Series, trainEnd: Periods, rejected: BOOLEAN]

Init ==
  /\ models = <<>>
  /\ champion = [s \in Series |-> None]
  /\ forecasts = {}

\* A model is added behind the others and becomes the champion
Promote(s, p) ==
  /\ models' = Append(models, [series |-> s, trainEnd |-> p, rejected |-> FALSE])
  /\ champion' = [champion EXCEPT ![s] = Len(models) + 1]
  /\ UNCHANGED forecasts

\* ... or does not, because the series has one
Reject(s, p) ==
  /\ champion[s] # None
  /\ models' = Append(models, [series |-> s, trainEnd |-> p, rejected |-> TRUE])
  /\ UNCHANGED <<champion, forecasts>>

ForecastOf(k) == [series |-> models[k].series, target |-> models[k].trainEnd + 1, key |-> k]

\* A promoted model's forecast, for the semester after the last one it has seen
Publish(k) ==
  /\ ~models[k].rejected
  /\ forecasts' = forecasts \cup {ForecastOf(k)}
  /\ UNCHANGED <<models, champion>>

Next ==
  \/ \E s \in Series, p \in Periods : Promote(s, p) \/ Reject(s, p)
  \/ \E k \in DOMAIN models : Publish(k)

Spec == Init /\ [][Next]_boardVars
=============================================================================
