---------------------------- MODULE ForecastRollup ----------------------------
(***************************************************************************)
(* build_rollups (models/forecasting/rollup_forecast.py) beside the           *)
(* deployments, of which it sees what ChampionBoard promises: the champions'  *)
(* program forecasts are read once, grouped by college and target semester    *)
(* and over the whole campus, and every group is upserted in a transaction of *)
(* its own.  One metric is modelled: rows of different metrics never meet.    *)
(*                                                                          *)
(* A rollup row is represented by the set of program forecasts it sums; yhat   *)
(* and covered_entity_count are functions of that set.                       *)
(***************************************************************************)
EXTENDS Naturals, Sequences

CONSTANTS
  Programs,    \* the programs, each one series of the metric
  Colleges,
  CollegeOf,   \* the college of each program
  Campus,      \* the scope of the campus-wide rows
  Periods,     \* the periods a training window may end with
  Overlapping, \* deployments may overlap, and then train twice on the same periods
  Rollups,     \* processes that execute build_rollups
  MaxModels,   \* bound: models the deployments record
  MaxAborts    \* bound: rollups that end in the middle

ASSUME RollupAssumption ==
  /\ CollegeOf \in [Programs -> Colleges]
  /\ Campus \notin Colleges
  /\ Periods \subseteq Nat
  /\ Overlapping \in BOOLEAN
  /\ MaxModels \in Nat /\ MaxAborts \in Nat

VARIABLES
  models,      \* gold.model_registry, as ChampionBoard has it
  champion,    \* the rows with is_champion
  forecasts,   \* gold.fact_forecast, program grain
  rollups,     \* gold.fact_forecast, college and campus grain: what each row sums
  input,       \* the champion forecasts each run has read
  todo,        \* the groups each run has yet to write
  aborts       \* how many runs have ended in the middle

runVars == <<input, todo, aborts>>
vars    == <<models, champion, forecasts, rollups, input, todo, aborts>>

Board == INSTANCE ChampionBoard WITH Series <- Programs

Scopes == Colleges \cup {Campus}
Targets == {p + 1 : p \in Periods}
Groups == Scopes \X Targets

TypeOK ==
  /\ models \in Seq(Board!Model)
  /\ champion \in [Programs -> 0..Len(models)]
  /\ forecasts \subseteq [series: Programs, target: Targets, key: 1..Len(models)]
  /\ rollups \in [Groups -> SUBSET forecasts]
  /\ input \in [Rollups -> SUBSET forecasts]
  /\ todo \in [Rollups -> SUBSET Groups]
  /\ aborts \in 0..MaxAborts

(***************************************************************************)
(* Queries                                                                  *)
(***************************************************************************)

\* Mutant of ChampionForecasts: the newest forecast of each program, whichever
\* model made it
NewestForecasts ==
  {f \in forecasts : \A g \in forecasts : g.series = f.series => g.target <= f.target}

\* Mutant of ChampionForecasts: an outer join from the champions, so that one whose
\* forecast was never stored counts as well
ForecastsOfChampions == {Board!ForecastOf(champion[p]) : p \in {q \in Programs : champion[q] # 0}}

\* _CHAMPION_PROGRAM_FORECASTS_SQL: DISTINCT ON the program, latest target first
ChampionForecasts ==
  LET ofChampion == {f \in forecasts : f.key = champion[f.series]}
  IN  {f \in ofChampion : \A g \in ofChampion : g.series = f.series => g.target <= f.target}

\* The rows of one group: a scope and a target semester
Group(rows, g) ==
  {f \in rows : (g[1] = Campus \/ CollegeOf[f.series] = g[1]) /\ f.target = g[2]}

GroupsOf(rows) == {g \in Groups : Group(rows, g) # {}}

CollegesDone(r) == \A g \in todo[r] : g[1] = Campus

(***************************************************************************)
(* Actions                                                                  *)
(***************************************************************************)

\* What deployments do meanwhile.  One after the other they train a program again
\* only on newer periods (RetrainedOnNewPeriodsOnly of DeployForecasts).
Deploy ==
  /\ Len(models) < MaxModels
  /\ \E s \in Programs, p \in Periods :
       /\ Overlapping \/ \A k \in DOMAIN models : models[k].series = s => models[k].trainEnd < p
       /\ Board!Promote(s, p) \/ Board!Reject(s, p)
  /\ UNCHANGED <<rollups, runVars>>

PublishForecast ==
  /\ \E k \in DOMAIN models : Board!Publish(k)
  /\ UNCHANGED <<rollups, runVars>>

\* _load_champion_program_forecasts; with no row there is nothing to roll up
LoadForecasts(r) ==
  /\ todo[r] = {}
  /\ ChampionForecasts # {}
  /\ input' = [input EXCEPT ![r] = ChampionForecasts]
  /\ todo' = [todo EXCEPT ![r] = GroupsOf(ChampionForecasts)]
  /\ UNCHANGED <<models, champion, forecasts, rollups, aborts>>

\* Mutant of WriteRow: ON CONFLICT DO NOTHING
InsertRow(r) ==
  \E g \in todo[r] :
    /\ g[1] = Campus => CollegesDone(r)
    /\ rollups' = IF rollups[g] = {} THEN [rollups EXCEPT ![g] = Group(input[r], g)] ELSE rollups
    /\ todo' = [todo EXCEPT ![r] = @ \ {g}]
    /\ UNCHANGED <<models, champion, forecasts, input, aborts>>

\* _write_rollup_row: one group is upserted; the campus rows come after the colleges'
WriteRow(r) ==
  \E g \in todo[r] :
    /\ g[1] = Campus => CollegesDone(r)
    /\ rollups' = [rollups EXCEPT ![g] = Group(input[r], g)]
    /\ todo' = [todo EXCEPT ![r] = @ \ {g}]
    /\ UNCHANGED <<models, champion, forecasts, input, aborts>>

\* The process dies or a write raises ForecastError: the rows written stay
Abort(r) ==
  /\ todo[r] # {}
  /\ aborts < MaxAborts
  /\ aborts' = aborts + 1
  /\ todo' = [todo EXCEPT ![r] = {}]
  /\ UNCHANGED <<models, champion, forecasts, rollups, input>>

Init ==
  /\ Board!Init
  /\ rollups = [g \in Groups |-> {}]
  /\ input = [r \in Rollups |-> {}]
  /\ todo = [r \in Rollups |-> {}]
  /\ aborts = 0

Next ==
  \/ Deploy
  \/ PublishForecast
  \/ \E r \in Rollups : LoadForecasts(r) \/ WriteRow(r) \/ Abort(r)

Spec == Init /\ [][Next]_vars

\* The rollup follows every deployment and is launched again; a launched run
\* executes its statements
FairSpec == Spec /\ \A r \in Rollups : WF_vars(LoadForecasts(r) \/ WriteRow(r))

(***************************************************************************)
(* Properties                                                               *)
(***************************************************************************)

\* A row never sums two forecasts of one program, although retired champions'
\* forecasts stay in the table and overlapping deployments can leave two forecasts
\* of a program for the same semester.
NoProgramCountedTwice ==
  \A g \in Groups : \A e, f \in rollups[g] : e.series = f.series => e = f

\* Once deployments pause, every semester some champion forecasts ends up with the
\* totals of exactly the champions' forecasts, although runs overlap, write stale
\* rows and stop halfway.
TotalsBecomeCurrent ==
  \A g \in Groups :
    <>[][UNCHANGED <<champion, forecasts>>]_vars =>
      <>[](Group(ChampionForecasts, g) # {} => rollups[g] = Group(ChampionForecasts, g))
=============================================================================
