------------------------ MODULE ForecastRollup_proofs ------------------------
(***************************************************************************)
(* Proofs about ForecastRollup, for any programs, colleges and number of      *)
(* overlapping rollups and deployments.                                      *)
(***************************************************************************)
EXTENDS ForecastRollup, SequenceTheorems, TLAPS

(***************************************************************************)
(* Type correctness                                                         *)
(***************************************************************************)

\* What TypeOK says of the tables the deployments write
BoardTyped ==
  /\ models \in Seq(Board!Model)
  /\ champion \in [Programs -> 0..Len(models)]
  /\ forecasts \subseteq [series: Programs, target: Targets, key: 1..Len(models)]

\* A deployment adds to the tables and takes nothing away.
LEMMA BoardStep ==
  ASSUME BoardTyped, Deploy \/ PublishForecast
  PROVE  BoardTyped' /\ forecasts \subseteq forecasts' /\ UNCHANGED <<rollups, input, todo, aborts>>
<1>0. Len(models) \in Nat /\ DOMAIN models = 1..Len(models)
  BY DEF BoardTyped
<1>1. CASE Deploy
  <2>1. PICK s \in Programs, p \in Periods : Board!Promote(s, p) \/ Board!Reject(s, p)
    BY <1>1 DEF Deploy
  <2>2. PICK m \in Board!Model : models' = Append(models, m)
    <3>1. \A b \in BOOLEAN : [series |-> s, trainEnd |-> p, rejected |-> b] \in Board!Model
      BY DEF Board!Model
    <3> QED
      BY <2>1, <3>1 DEF Board!Promote, Board!Reject
  <2>3. models' \in Seq(Board!Model) /\ Len(models') = Len(models) + 1
    BY <2>2, AppendProperties DEF BoardTyped
  <2>4. champion' \in [Programs -> 0..Len(models')]
    BY <1>0, <2>1, <2>3 DEF Board!Promote, Board!Reject, BoardTyped
  <2>5. UNCHANGED <<forecasts, rollups, input, todo, aborts>>
    BY <1>1, <2>1 DEF Board!Promote, Board!Reject, Deploy, runVars
  <2>6. forecasts' \subseteq [series: Programs, target: Targets, key: 1..Len(models')]
    BY <1>0, <2>3, <2>5 DEF BoardTyped
  <2> QED
    BY <2>3, <2>4, <2>5, <2>6 DEF BoardTyped
<1>2. CASE PublishForecast
  <2>1. PICK k \in DOMAIN models : Board!Publish(k)
    BY <1>2 DEF PublishForecast
  <2>2. models[k] \in Board!Model
    BY <2>1 DEF BoardTyped
  <2>3. Board!ForecastOf(k) \in [series: Programs, target: Targets, key: 1..Len(models)]
    BY <1>0, <2>1, <2>2 DEF Board!ForecastOf, Board!Model, Targets
  <2> QED
    BY <1>2, <2>1, <2>3 DEF Board!Publish, PublishForecast, BoardTyped, runVars
<1> QED
  BY <1>1, <1>2

\* The tables, the totals and the runs keep their types (TypeOK): in particular a
\* total sums nothing but forecasts that are in the table.
THEOREM RollupTypeCorrect == Spec => []TypeOK
<1>1. Init => TypeOK
  BY RollupAssumption DEF Init, Board!Init, Board!None, TypeOK, RollupAssumption
<1>2. TypeOK /\ [Next]_vars => TypeOK'
  <2> SUFFICES ASSUME TypeOK, [Next]_vars
               PROVE  TypeOK'
    OBVIOUS
  <2>1. CASE Deploy \/ PublishForecast
    <3>1. BoardTyped' /\ forecasts \subseteq forecasts' /\ UNCHANGED <<rollups, input, todo, aborts>>
      BY <2>1, BoardStep DEF TypeOK, BoardTyped
    <3> QED
      BY <3>1 DEF TypeOK, BoardTyped
  <2>2. ASSUME NEW r \in Rollups, LoadForecasts(r)
        PROVE  TypeOK'
    <3>1. ChampionForecasts \subseteq forecasts
      BY DEF ChampionForecasts
    <3>2. GroupsOf(ChampionForecasts) \subseteq Groups
      BY DEF GroupsOf
    <3> QED
      BY <2>2, <3>1, <3>2 DEF LoadForecasts, TypeOK
  <2>3. ASSUME NEW r \in Rollups, WriteRow(r)
        PROVE  TypeOK'
    <3>1. PICK g \in todo[r] :
            /\ rollups' = [rollups EXCEPT ![g] = Group(input[r], g)]
            /\ todo' = [todo EXCEPT ![r] = @ \ {g}]
            /\ UNCHANGED <<models, champion, forecasts, input, aborts>>
      BY <2>3 DEF WriteRow
    <3>2. Group(input[r], g) \subseteq forecasts
      BY DEF Group, TypeOK
    <3> QED
      BY <3>1, <3>2 DEF TypeOK
  <2>4. ASSUME NEW r \in Rollups, Abort(r)
        PROVE  TypeOK'
    BY <2>4, RollupAssumption DEF Abort, TypeOK, RollupAssumption
  <2>5. CASE UNCHANGED vars
    BY <2>5 DEF vars, TypeOK
  <2> QED
    BY <2>1, <2>2, <2>3, <2>4, <2>5 DEF Next
<1> QED
  BY <1>1, <1>2, PTL DEF Spec

(***************************************************************************)
(* No program is counted twice                                              *)
(***************************************************************************)

SingleForecasts(rows) == \A e, f \in rows : e.series = f.series => e = f

\* The query returns one forecast per program: a program has one champion, and of
\* two forecasts of one model and semester there is only one.
LEMMA QueryIsSingle ==
  ASSUME TypeOK
  PROVE  SingleForecasts(ChampionForecasts)
<1>1. ASSUME NEW e \in ChampionForecasts, NEW f \in ChampionForecasts, e.series = f.series
      PROVE  e = f
  <2>1. /\ e \in forecasts /\ f \in forecasts
        /\ e.key = f.key /\ e.target <= f.target /\ f.target <= e.target
    BY <1>1 DEF ChampionForecasts
  <2>2. e.target \in Nat /\ f.target \in Nat
    BY <2>1, RollupAssumption DEF TypeOK, Targets, RollupAssumption
  <2>3. e.target = f.target
    BY <2>1, <2>2
  <2> QED
    BY <1>1, <2>1, <2>3 DEF TypeOK
<1> QED
  BY <1>1 DEF SingleForecasts

SingleInv ==
  /\ NoProgramCountedTwice
  /\ \A r \in Rollups : SingleForecasts(input[r])

\* NoProgramCountedTwice for any number of overlapping rollups and deployments.
THEOREM NoProgramCountedTwiceCorrect == Spec => []NoProgramCountedTwice
<1>1. Init => SingleInv
  BY DEF Init, SingleInv, NoProgramCountedTwice, SingleForecasts
<1>2. TypeOK /\ SingleInv /\ [Next]_vars => SingleInv'
  <2> SUFFICES ASSUME TypeOK, SingleInv, [Next]_vars
               PROVE  SingleInv'
    OBVIOUS
  <2>1. CASE Deploy \/ PublishForecast \/ UNCHANGED vars
    <3>1. UNCHANGED <<rollups, input>>
      BY <2>1 DEF Deploy, PublishForecast, runVars, vars
    <3> QED
      BY <3>1 DEF SingleInv, NoProgramCountedTwice, SingleForecasts
  <2>2. ASSUME NEW r \in Rollups, LoadForecasts(r)
        PROVE  SingleInv'
    <3>1. \A q \in Rollups : input'[q] = IF q = r THEN ChampionForecasts ELSE input[q]
      BY <2>2 DEF LoadForecasts, TypeOK
    <3>2. \A q \in Rollups : SingleForecasts(input'[q])
      BY <3>1, QueryIsSingle DEF SingleInv
    <3> QED
      BY <2>2, <3>2 DEF LoadForecasts, SingleInv, NoProgramCountedTwice, SingleForecasts
  <2>3. ASSUME NEW r \in Rollups, WriteRow(r)
        PROVE  SingleInv'
    <3>1. PICK g \in todo[r] : rollups' = [rollups EXCEPT ![g] = Group(input[r], g)]
      BY <2>3 DEF WriteRow
    <3>2. \A e, f \in Group(input[r], g) : e.series = f.series => e = f
      BY DEF Group, SingleInv, SingleForecasts
    <3>3. \A h \in Groups : rollups'[h] = IF h = g THEN Group(input[r], g) ELSE rollups[h]
      BY <3>1 DEF TypeOK
    <3>4. NoProgramCountedTwice'
      BY <3>2, <3>3 DEF NoProgramCountedTwice, SingleInv
    <3>5. input' = input
      BY <2>3 DEF WriteRow
    <3> QED
      BY <3>4, <3>5 DEF SingleInv, SingleForecasts
  <2>4. ASSUME NEW r \in Rollups, Abort(r)
        PROVE  SingleInv'
    BY <2>4 DEF Abort, SingleInv, NoProgramCountedTwice, SingleForecasts
  <2> QED
    BY <2>1, <2>2, <2>3, <2>4 DEF Next
<1> QED
  BY <1>1, <1>2, RollupTypeCorrect, PTL DEF Spec, SingleInv
=============================================================================
