---------------------------- MODULE Pipeline_proofs ----------------------------
(***************************************************************************)
(* Theorems about Pipeline, for any number of jobs, stages, revisions, builds, *)
(* failures and drops: types, what a bootstrap that returns leaves, and what    *)
(* the log says of the feature tables.                                          *)
(***************************************************************************)
EXTENDS Pipeline, SequenceTheorems, TLAPS

(***************************************************************************)
(* Types                                                                    *)
(***************************************************************************)

\* The parts of TypeOK that one action changes together
JobTypes == at \in [Jobs -> DOMAIN Stages] /\ step \in [Jobs -> STEPS] /\ frame \in [Jobs -> Tables]

LogTypes == log \in Seq(LogRows)

DataTypes ==
  /\ quality \in Seq(QUALITIES)
  /\ store \in Builds /\ warehouse \in Builds /\ features \in Tables

DatabaseTypes ==
  /\ head \in DOMAIN Needs /\ version \in 0 .. head /\ schemas \subseteq SCHEMAS
  /\ bootstrap \in [returned : BOOLEAN, applied : BOOLEAN]

BoundTypes == used \in [DOMAIN Limit -> Nat] /\ \A e \in DOMAIN Limit : used[e] <= Limit[e]

LEMMA TypeParts ==
  TypeOK <=> JobTypes /\ LogTypes /\ DataTypes /\ DatabaseTypes /\ BoundTypes
BY DEF TypeOK, JobTypes, LogTypes, DataTypes, DatabaseTypes, BoundTypes

\* Stages have names, and there is a first one
LEMMA StagesExist ==
  /\ Stages \in Seq(STRING) /\ Len(Stages) \in Nat \ {0}
  /\ DOMAIN Stages = 1 .. Len(Stages) /\ 1 \in DOMAIN Stages
<1>1. Stages \in Seq(STRING) /\ Stages # << >>
  BY PipelineAssumption
<1> QED
  BY <1>1, EmptySeq, LenProperties

\* A row of a job at a stage is a row of the log
LEMMA RowType ==
  ASSUME JobTypes, NEW j \in Jobs, NEW status \in STATUSES
  PROVE  Row(j, status) \in LogRows
BY DEF JobTypes, Row, LogRows

LEMMA AppendRow ==
  ASSUME LogTypes, NEW r \in LogRows
  PROVE  /\ Append(log, r) \in Seq(LogRows)
         /\ Len(log) \in Nat
         /\ Len(Append(log, r)) = Len(log) + 1
         /\ Append(log, r)[Len(log) + 1] = r
         /\ \A i \in 1 .. Len(log) : Append(log, r)[i] = log[i]
         /\ DOMAIN log = 1 .. Len(log)
         /\ DOMAIN Append(log, r) = 1 .. Len(log) + 1
<1>1. log \in Seq(LogRows)
  BY DEF LogTypes
<1> QED
  BY <1>1, AppendProperties, LenProperties

\* What a bound allows is counted
LEMMA UseTypes ==
  ASSUME BoundTypes, NEW e \in DOMAIN Limit, Use(e)
  PROVE  BoundTypes'
<1>1. /\ used \in [DOMAIN Limit -> Nat] /\ used[e] < Limit[e]
      /\ \A f \in DOMAIN Limit : used[f] <= Limit[f]
      /\ used' = [used EXCEPT ![e] = @ + 1]
  BY DEF BoundTypes, Use
<1>2. \A f \in DOMAIN Limit : Limit[f] \in Nat
  BY PipelineAssumption DEF Limit
<1>3. Limit' = Limit
  BY DEF Limit
<1>4. used' \in [DOMAIN Limit -> Nat]
  BY <1>1
<1>5. \A f \in DOMAIN Limit : used'[f] <= Limit[f]
  BY <1>1, <1>2
<1> QED
  BY <1>3, <1>4, <1>5 DEF BoundTypes

LEMMA GoTypes ==
  ASSUME JobTypes, NEW j \in Jobs, NEW s \in STEPS, Go(j, s)
  PROVE  step' \in [Jobs -> STEPS]
BY DEF JobTypes, Go

LEMMA NoTablesType ==
  ASSUME DataTypes
  PROVE  Len(quality) \in Nat /\ None \in Builds /\ NoTables \in Tables
<1>1. Len(quality) \in Nat
  BY LenProperties DEF DataTypes
<1> QED
  BY <1>1 DEF None, NoTables, Builds, Tables

\* The end of a stage, while a build may be added
LEMMA EndTypes ==
  ASSUME JobTypes, LogTypes, DataTypes, NEW j \in Jobs, NEW status \in STATUSES, End(j, status),
         Builds \subseteq Builds'
  PROVE  JobTypes' /\ LogTypes'
<1>1. /\ log' = Append(log, Row(j, status))
      /\ frame' = [frame EXCEPT ![j] = NoTables]
  BY DEF End
<1>2. LogTypes'
  BY <1>1, RowType, AppendRow DEF LogTypes, LogRows
<1>3. NoTables \in Tables' /\ Tables \subseteq Tables'
  BY NoTablesType DEF Tables
<1>4. frame' \in [Jobs -> Tables']
  BY <1>1, <1>3 DEF JobTypes
<1>5. at' \in [Jobs -> DOMAIN Stages] /\ step' \in [Jobs -> STEPS]
  <2>1. CASE status = "SUCCESS" /\ at[j] < Len(Stages)
    <3>1. at' = [at EXCEPT ![j] = @ + 1] /\ step' = [step EXCEPT ![j] = "ready"]
      BY <2>1 DEF End, Go
    <3>2. at[j] + 1 \in DOMAIN Stages
      BY <2>1, StagesExist DEF JobTypes
    <3> QED
      BY <3>1, <3>2 DEF JobTypes, STEPS
  <2>2. CASE ~(status = "SUCCESS" /\ at[j] < Len(Stages))
    <3>1. at' = at /\ step' = [step EXCEPT ![j] = "over"]
      BY <2>2 DEF End, Go
    <3> QED
      BY <3>1 DEF JobTypes, STEPS
  <2> QED
    BY <2>1, <2>2
<1> QED
  BY <1>2, <1>4, <1>5 DEF JobTypes

LEMMA InitTypes == Init => TypeOK
<1> SUFFICES ASSUME Init PROVE TypeOK
  OBVIOUS
<1>1. quality = << >> /\ log = << >> /\ Len(quality) = 0
  BY DEF Init
<1>2. DataTypes
  <2>1. quality \in Seq(QUALITIES)
    BY <1>1
  <2> QED
    BY <1>1, <2>1 DEF Init, DataTypes, Builds, Tables, NoTables, None
<1>3. JobTypes
  BY <1>2, NoTablesType, StagesExist DEF Init, JobTypes, STEPS
<1>4. LogTypes
  BY <1>1 DEF LogTypes
<1>5. DatabaseTypes
  BY PipelineAssumption DEF Init, DatabaseTypes
<1>6. BoundTypes
  BY PipelineAssumption DEF Init, BoundTypes, Limit
<1> QED
  BY <1>2, <1>3, <1>4, <1>5, <1>6, TypeParts

\* A job goes on to another step of its stage
LEMMA GoKeepsTypes ==
  ASSUME TypeOK, NEW j \in Jobs, NEW s \in STEPS, Go(j, s),
         UNCHANGED <<at, log, store, quality, database, used>>,
         frame' \in [Jobs -> Tables], warehouse' \in Builds, features' \in Tables
  PROVE  TypeOK'
<1>1. Builds' = Builds /\ Tables' = Tables /\ LogRows' = LogRows /\ Limit' = Limit
  BY DEF Builds, Tables, LogRows, Limit
<1>2. step' \in [Jobs -> STEPS]
  BY GoTypes, TypeParts
<1> QED
  BY <1>1, <1>2 DEF TypeOK, database

\* A stage ends; the tables are what they were
LEMMA EndKeepsTypes ==
  ASSUME TypeOK, NEW j \in Jobs, NEW status \in STATUSES, End(j, status),
         UNCHANGED <<data, database>>, used' = used \/ \E e \in DOMAIN Limit : Use(e)
  PROVE  TypeOK'
<1>1. Builds' = Builds /\ Tables' = Tables /\ LogRows' = LogRows /\ Limit' = Limit
  BY DEF Builds, Tables, LogRows, Limit, data
<1>2. JobTypes' /\ LogTypes'
  BY <1>1, EndTypes, TypeParts
<1>3. DataTypes' /\ DatabaseTypes'
  BY <1>1, TypeParts DEF DataTypes, DatabaseTypes, data, database
<1>4. BoundTypes'
  <2>1. CASE used' = used
    BY <2>1, <1>1, TypeParts DEF BoundTypes
  <2>2. CASE \E e \in DOMAIN Limit : Use(e)
    BY <2>2, UseTypes, TypeParts
  <2> QED
    BY <2>1, <2>2
<1> QED
  BY <1>2, <1>3, <1>4, TypeParts DEF TypeOK, JobTypes, LogTypes, DataTypes, DatabaseTypes, BoundTypes

\* Nothing changes but the database, and tables that are emptied
LEMMA DatabaseKeepsTypes ==
  ASSUME TypeOK, UNCHANGED <<at, step, frame, log, store, quality>>,
         warehouse' \in {warehouse, None}, features' \in {features, NoTables},
         DatabaseTypes', used' = used \/ \E e \in DOMAIN Limit : Use(e)
  PROVE  TypeOK'
<1>1. Builds' = Builds /\ Tables' = Tables /\ LogRows' = LogRows /\ Limit' = Limit
  BY DEF Builds, Tables, LogRows, Limit
<1>2. None \in Builds /\ NoTables \in Tables
  BY NoTablesType, TypeParts
<1>3. JobTypes' /\ LogTypes' /\ DataTypes'
  BY <1>1, <1>2, TypeParts DEF JobTypes, LogTypes, DataTypes
<1>4. BoundTypes'
  <2>1. CASE used' = used
    BY <2>1, <1>1, TypeParts DEF BoundTypes
  <2>2. CASE \E e \in DOMAIN Limit : Use(e)
    BY <2>2, UseTypes, TypeParts
  <2> QED
    BY <2>1, <2>2
<1> QED
  BY <1>3, <1>4 DEF TypeOK, JobTypes, LogTypes, DataTypes, DatabaseTypes, BoundTypes

LEMMA JobTypesKept ==
  ASSUME TypeOK, NEW j \in Jobs, Step(j)
  PROVE  TypeOK'
<1> USE DEF STATUSES
<1>0. /\ Builds = 0 .. Len(quality) /\ Len(quality) \in Nat /\ None \in Builds
      /\ NoTables \in Tables /\ {"errors", "crashes", "drops"} = DOMAIN Limit
  BY NoTablesType, TypeParts DEF Builds, Limit
<1>1. CASE Begin(j)
  <2>1. LogTypes'
    <3>1. log' = Append(log, Row(j, "RUNNING")) /\ LogRows' = LogRows
      BY <1>1 DEF Begin, LogRows
    <3> QED
      BY <3>1, RowType, AppendRow, TypeParts DEF LogTypes
  <2>2. step' \in [Jobs -> STEPS]
    BY <1>1, GoTypes, TypeParts DEF Begin, STEPS
  <2>3. Builds' = Builds /\ Tables' = Tables /\ Limit' = Limit
    BY <1>1 DEF Begin, Builds, Tables, Limit, data
  <2> QED
    BY <1>1, <2>1, <2>2, <2>3 DEF Begin, TypeOK, LogTypes, data, database
<1>2. CASE Refused(j)
  BY <1>2, GoKeepsTypes DEF Refused, STEPS, data, TypeOK
<1>3. CASE Raise(j)
  BY <1>3, <1>0, EndKeepsTypes DEF Raise
<1>4. CASE Crash(j)
  <2>1. step' \in [Jobs -> STEPS] /\ frame' \in [Jobs -> Tables]
    BY <1>4, <1>0, GoTypes, TypeParts DEF Crash, STEPS, JobTypes
  <2>2. BoundTypes'
    BY <1>4, <1>0, UseTypes, TypeParts DEF Crash
  <2>3. Builds' = Builds /\ Tables' = Tables /\ LogRows' = LogRows
    BY <1>4 DEF Crash, Builds, Tables, LogRows, data
  <2> QED
    BY <1>4, <2>1, <2>2, <2>3 DEF Crash, TypeOK, BoundTypes, data, database
<1>5. CASE gold(j)
  <2>1. PICK q \in QUALITIES : quality' = Append(quality, q)
    BY <1>5 DEF gold
  <2>2. quality' \in Seq(QUALITIES) /\ Len(quality') = Len(quality) + 1
    BY <2>1, AppendProperties DEF TypeOK
  <2>3. Builds \subseteq Builds' /\ Len(quality') \in Builds' /\ Tables \subseteq Tables'
    BY <1>0, <2>2 DEF Builds, Tables
  <2>4. JobTypes' /\ LogTypes'
    BY <1>5, <2>3, EndTypes, TypeParts DEF gold
  <2>5. DataTypes'
    BY <1>5, <2>2, <2>3 DEF gold, DataTypes, TypeOK
  <2>6. Limit' = Limit
    BY DEF Limit
  <2> QED
    BY <1>5, <2>4, <2>5, <2>6 DEF gold, TypeOK, JobTypes, LogTypes, DataTypes, database
<1>6. CASE warehouseLoad(j)
  BY <1>6, GoKeepsTypes DEF warehouseLoad, STEPS, TypeOK
<1>7. CASE warehouseEnd(j) \/ featuresEnd(j) \/ OtherStage(j)
  BY <1>7, EndKeepsTypes DEF warehouseEnd, featuresEnd, OtherStage
<1>8. CASE warehouseFails(j) \/ NoFacts(j)
  BY <1>8, EndKeepsTypes DEF warehouseFails, NoFacts
<1>9. CASE dbt(j)
  BY <1>9, EndKeepsTypes DEF dbt
<1>10. CASE ReadProgramFacts(j) \/ ReadYearLevelFacts(j)
  <2>1. frame' \in [Jobs -> Tables]
    BY <1>10 DEF ReadProgramFacts, ReadYearLevelFacts, TypeOK, Tables
  <2> QED
    BY <1>10, <2>1, GoKeepsTypes DEF ReadProgramFacts, ReadYearLevelFacts, STEPS, data, TypeOK
<1>11. CASE WriteProgramFeatures(j) \/ WriteYearLevelFeatures(j)
  <2>1. CASE "gold" \in schemas
    <3>1. features' \in Tables
      BY <1>11, <2>1 DEF WriteProgramFeatures, WriteYearLevelFeatures, TypeOK, Tables
    <3> QED
      BY <1>11, <2>1, <3>1, GoKeepsTypes
      DEF WriteProgramFeatures, WriteYearLevelFeatures, STEPS, TypeOK
  <2>2. CASE "gold" \notin schemas
    BY <1>11, <2>2, EndKeepsTypes DEF WriteProgramFeatures, WriteYearLevelFeatures, data
  <2> QED
    BY <2>1, <2>2
<1> QED
  BY <1>1, <1>2, <1>3, <1>4, <1>5, <1>6, <1>7, <1>8, <1>9, <1>10, <1>11 DEF Step

LEMMA LaunchTypes ==
  ASSUME TypeOK, NEW j \in Jobs, Launch(j)
  PROVE  TypeOK'
<1>1. at' \in [Jobs -> DOMAIN Stages] /\ step' \in [Jobs -> STEPS]
  <2>1. PICK i \in DOMAIN Stages : at' = [at EXCEPT ![j] = i]
    BY DEF Launch
  <2>2. "ready" \in STEPS /\ Go(j, "ready")
    BY DEF Launch, STEPS
  <2> QED
    BY <2>1, <2>2, GoTypes, TypeParts DEF TypeOK
<1>2. Builds' = Builds /\ Tables' = Tables /\ LogRows' = LogRows /\ Limit' = Limit
  BY DEF Launch, Builds, Tables, LogRows, Limit, data
<1> QED
  BY <1>1, <1>2 DEF Launch, TypeOK, data, database

LEMMA DatabaseStepTypes ==
  ASSUME TypeOK,
         \/ Release \/ apply_migrations \/ DropVersion \/ DropDatabase
         \/ \E s \in SCHEMAS : DropSchema(s)
  PROVE  TypeOK'
<1>0. {"errors", "crashes", "drops"} = DOMAIN Limit /\ head \in Nat /\ version \in 0 .. head
      /\ head \in DOMAIN Needs /\ schemas \subseteq SCHEMAS
  BY PipelineAssumption DEF Limit, TypeOK
<1>1. CASE Release
  <2>1. DatabaseTypes'
    BY <1>0, <1>1, TypeParts DEF Release, DatabaseTypes
  <2> QED
    BY <1>1, <2>1, DatabaseKeepsTypes DEF Release, data
<1>2. CASE apply_migrations
  <2>1. version' \in 0 .. head /\ schemas' \subseteq SCHEMAS /\ head' = head
        /\ bootstrap' \in [returned : BOOLEAN, applied : BOOLEAN]
    BY <1>0, <1>2 DEF apply_migrations
  <2> QED
    BY <1>0, <1>2, <2>1, DatabaseKeepsTypes DEF apply_migrations, data, DatabaseTypes
<1>3. CASE DropVersion \/ DropDatabase \/ \E s \in SCHEMAS : DropSchema(s)
  <2>1. DatabaseTypes'
    <3>1. CASE DropVersion
      BY <1>0, <3>1 DEF DropVersion, DatabaseTypes
    <3>2. CASE DropDatabase
      BY <1>0, <3>2 DEF DropDatabase, DatabaseTypes
    <3>3. CASE \E s \in SCHEMAS : DropSchema(s)
      <4>1. schemas' \subseteq schemas /\ UNCHANGED <<head, version>>
            /\ bootstrap' = [returned |-> FALSE, applied |-> FALSE]
        BY <3>3 DEF DropSchema
      <4> QED
        BY <1>0, <4>1 DEF DatabaseTypes
    <3> QED
      BY <1>3, <3>1, <3>2, <3>3
  <2> QED
    BY <1>0, <1>3, <2>1, DatabaseKeepsTypes DEF DropVersion, DropDatabase, DropSchema, data
<1> QED
  BY <1>1, <1>2, <1>3

LEMMA NextTypes == TypeOK /\ [Next]_vars => TypeOK'
<1> SUFFICES ASSUME TypeOK, [Next]_vars PROVE TypeOK'
  OBVIOUS
<1>1. CASE Next
  BY <1>1, LaunchTypes, JobTypesKept, DatabaseStepTypes DEF Next
<1>2. CASE UNCHANGED vars
  BY <1>2 DEF vars, TypeOK, Builds, Tables, LogRows, Limit
<1> QED
  BY <1>1, <1>2

\* Type correctness of the jobs, the log, the tables and the database
THEOREM PipelineTypeCorrect == Spec => []TypeOK
BY InitTypes, NextTypes, PTL DEF Spec

(***************************************************************************)
(* The bootstrap                                                            *)
(***************************************************************************)

\* Nothing to apply to a version there is: it is the last one.
LEMMA NothingPending ==
  ASSUME TypeOK, Pending = {}, version > 0
  PROVE  version = head
<1>1. head \in DOMAIN Needs /\ head \in Nat /\ version \in 0 .. head
  BY PipelineAssumption DEF TypeOK
<1>2. version < head => head \in Pending
  BY <1>1 DEF Pending
<1> QED
  BY <1>1, <1>2

LEMMA ReturnKept ==
  ASSUME TypeOK, ReturnMeansRebuilt, [Next]_vars
  PROVE  ReturnMeansRebuilt'
<1>1. CASE apply_migrations
  <2>1. head \in Nat \ {0} /\ version \in Nat
    BY PipelineAssumption DEF TypeOK
  <2>2. SUFFICES ASSUME bootstrap'.returned, ~bootstrap'.applied
                 PROVE  schemas' = SCHEMAS /\ version' > 0
    BY DEF ReturnMeansRebuilt
  <2>3. /\ ~SchemasMissing
        /\ ~(Pending # {} /\ version > 0)
        /\ version' = head
        /\ schemas' = IF version = 0 THEN SCHEMAS ELSE schemas
    BY <1>1, <2>2 DEF apply_migrations
  <2>4. CASE version = 0
    BY <2>1, <2>3, <2>4
  <2>5. CASE version > 0
    BY <2>1, <2>3, <2>5, NothingPending DEF SchemasMissing
  <2> QED
    BY <2>1, <2>4, <2>5
<1>2. CASE DropVersion \/ DropDatabase \/ \E s \in SCHEMAS : DropSchema(s)
  BY <1>2 DEF DropVersion, DropDatabase, DropSchema, ReturnMeansRebuilt
<1>3. CASE UNCHANGED <<bootstrap, schemas, version>>
  BY <1>3 DEF ReturnMeansRebuilt
<1>4. ASSUME NEW j \in Jobs, Launch(j) \/ Step(j)
      PROVE  UNCHANGED <<bootstrap, schemas, version>>
  BY <1>4 DEF Launch, Step, Begin, Refused, Raise, Crash, gold, warehouseLoad, warehouseEnd,
              warehouseFails, dbt, ReadProgramFacts, ReadYearLevelFacts, NoFacts,
              WriteProgramFeatures, WriteYearLevelFeatures, featuresEnd, OtherStage, database
<1> QED
  BY <1>1, <1>2, <1>3, <1>4 DEF Next, Release, vars

\* A bootstrap that returns, and had nothing to apply to an older version, leaves every schema.
THEOREM BootstrapCorrect == Spec => []ReturnMeansRebuilt
<1>1. Init => ReturnMeansRebuilt
  BY DEF Init, ReturnMeansRebuilt
<1>2. TypeOK /\ ReturnMeansRebuilt /\ [Next]_vars => ReturnMeansRebuilt'
  BY ReturnKept
<1> QED
  BY <1>1, <1>2, PipelineTypeCorrect, PTL DEF Spec

(***************************************************************************)
(* The features                                                             *)
(***************************************************************************)

FeatureSteps == {"read", "program", "year level", "stored"}

\* The log has one writer at a time, whose RUNNING row is the last one.
OneInside == \A i, j \in Jobs : Inside(i) /\ Inside(j) => i = j

RunningIsLast ==
  \A j \in Jobs : Inside(j) => Len(log) > 0 /\ log[Len(log)] = Row(j, "RUNNING")

StepsOfStages ==
  \A j \in Jobs :
    /\ step[j] \in FeatureSteps => Stages[at[j]] = "features"
    /\ step[j] = "loaded" => Stages[at[j]] = "warehouse"

\* Nothing of an untested build is in the warehouse after the tests
WarehouseTested == TestedBefore(Len(log)) => warehouse = None \/ quality[warehouse] = "good"

\* What the stage has read is one build, that of the warehouse unless it was emptied since, and
\* what it has written is this build, unless it was dropped since.
FrameInv(j) ==
  /\ step[j] \in FeatureSteps =>
       /\ frame[j].program # None
       /\ warehouse \in {frame[j].program, None}
       /\ TestedBefore(Len(log)) => quality[frame[j].program] = "good"
  /\ step[j] \in {"program", "year level", "stored"} => frame[j].year_level = frame[j].program
  /\ step[j] \in {"year level", "stored"} => features.program \in {frame[j].program, None}
  /\ step[j] = "stored" => features.year_level \in {frame[j].program, None}

IInv ==
  /\ TypeOK /\ OneInside /\ RunningIsLast /\ StepsOfStages /\ WarehouseTested
  /\ \A j \in Jobs : FrameInv(j)
  /\ FeaturesAreWhatTheLogSays

\* A new row leaves the tests passed only if it is theirs or they had, and it is no load.
LEMMA TestedAfterRow ==
  ASSUME TypeOK, NEW r \in LogRows, log' = Append(log, r), TestedBefore(Len(log))'
  PROVE  /\ r.stage # "warehouse"
         /\ TestedBefore(Len(log)) \/ (r.stage = "dbt" /\ r.status = "SUCCESS")
<1>1. /\ Len(log) \in Nat /\ Len(log') = Len(log) + 1 /\ log'[Len(log) + 1] = r
      /\ \A i \in 1 .. Len(log) : log'[i] = log[i]
  BY AppendRow, TypeParts
<1>2. PICK d \in 1 .. Len(log) + 1 : /\ log'[d].stage = "dbt" /\ log'[d].status = "SUCCESS"
                                     /\ \A k \in d .. Len(log) + 1 : log'[k].stage # "warehouse"
  BY <1>1 DEF TestedBefore
<1>3. r.stage # "warehouse"
  BY <1>1, <1>2
<1>4. CASE d = Len(log) + 1
  BY <1>1, <1>2, <1>3, <1>4
<1>5. CASE d \in 1 .. Len(log)
  <2>1. log[d].stage = "dbt" /\ log[d].status = "SUCCESS"
    BY <1>1, <1>2, <1>5
  <2>2. \A k \in d .. Len(log) : log[k].stage # "warehouse"
    BY <1>1, <1>2, <1>5
  <2> QED
    BY <1>3, <1>5, <2>1, <2>2 DEF TestedBefore
<1> QED
  BY <1>1, <1>2, <1>4, <1>5

\* The tests that had passed before an old row had passed before it all along.
LEMMA TestedBeforeOldRow ==
  ASSUME TypeOK, NEW r \in LogRows, log' = Append(log, r), NEW n \in 1 .. Len(log),
         TestedBefore(n)'
  PROVE  TestedBefore(n)
<1>1. /\ Len(log) \in Nat
      /\ \A i \in 1 .. Len(log) : log'[i] = log[i]
  BY AppendRow, TypeParts
<1>2. PICK d \in 1 .. n : /\ log'[d].stage = "dbt" /\ log'[d].status = "SUCCESS"
                          /\ \A k \in d .. n : log'[k].stage # "warehouse"
  BY DEF TestedBefore
<1>3. d \in 1 .. Len(log) /\ \A k \in d .. n : k \in 1 .. Len(log)
  BY <1>1, <1>2
<1> QED
  BY <1>1, <1>2, <1>3 DEF TestedBefore

\* quality grows: the builds there are keep theirs
OldBuildsKept == \A b \in 1 .. Len(quality) : quality'[b] = quality[b]

\* A row that is no success of features leaves the property to the rows before it.
LEMMA PropertyKeptByRow ==
  ASSUME TypeOK, FeaturesAreWhatTheLogSays, NEW r \in LogRows, log' = Append(log, r),
         OldBuildsKept, features' = features,
         r.stage = "features" /\ r.status = "SUCCESS" =>
           LET builds == {features.program, features.year_level} \ {None}
           IN  /\ \A b, c \in builds : b = c
               /\ TestedBefore(Len(log)) => \A b \in builds : quality[b] = "good"
  PROVE  FeaturesAreWhatTheLogSays'
<1> DEFINE builds == {features.program, features.year_level} \ {None}
<1>1. /\ Len(log) \in Nat /\ Len(log') = Len(log) + 1 /\ log'[Len(log) + 1] = r
      /\ \A i \in 1 .. Len(log) : log'[i] = log[i]
      /\ DOMAIN log = 1 .. Len(log) /\ DOMAIN log' = 1 .. Len(log) + 1
  BY AppendRow, TypeParts
<1>2. builds \subseteq 1 .. Len(quality) /\ builds' = builds
  <2>1. features.program \in 0 .. Len(quality) /\ features.year_level \in 0 .. Len(quality)
        /\ Len(quality) \in Nat
    BY NoTablesType, TypeParts DEF TypeOK, Tables, Builds
  <2> QED
    BY <2>1 DEF None
<1>3. SUFFICES ASSUME NEW n \in 1 .. Len(log) + 1,
                      log'[n].stage = "features", log'[n].status = "SUCCESS",
                      \A k \in n + 1 .. Len(log) + 1 : log'[k].stage # "features"
               PROVE  /\ \A b, c \in builds : b = c
                      /\ TestedBefore(n)' => \A b \in builds : quality'[b] = "good"
  BY <1>1, <1>2 DEF FeaturesAreWhatTheLogSays
<1>4. CASE n = Len(log) + 1
  <2>1. \A b, c \in builds : b = c
    BY <1>1, <1>3, <1>4
  <2>2. ASSUME TestedBefore(n)' PROVE TestedBefore(Len(log))
    <3>1. TestedBefore(Len(log))'
      BY <1>1, <1>4, <2>2 DEF TestedBefore
    <3>2. r.stage # "dbt"
      BY <1>1, <1>3, <1>4
    <3> QED
      BY <3>1, <3>2, TestedAfterRow
  <2> QED
    BY <1>1, <1>2, <1>3, <1>4, <2>1, <2>2 DEF OldBuildsKept
<1>5. CASE n \in 1 .. Len(log)
  <2>1. log[n].stage = "features" /\ log[n].status = "SUCCESS"
    BY <1>1, <1>3, <1>5
  <2>2. \A k \in n + 1 .. Len(log) : log[k].stage # "features"
    BY <1>1, <1>3, <1>5
  <2>3. /\ \A b, c \in builds : b = c
        /\ TestedBefore(n) => \A b \in builds : quality[b] = "good"
    BY <1>1, <1>5, <2>1, <2>2 DEF FeaturesAreWhatTheLogSays
  <2>4. TestedBefore(n)' => TestedBefore(n)
    BY <1>5, TestedBeforeOldRow
  <2> QED
    BY <1>2, <2>3, <2>4 DEF OldBuildsKept
<1> QED
  BY <1>1, <1>3, <1>4, <1>5

\* A job that is not inside has read and written nothing.
LEMMA OutsideInv ==
  ASSUME NEW i \in Jobs, ~Inside(i)'
  PROVE  FrameInv(i)'
BY DEF Inside, FrameInv, FeatureSteps

\* The end of a stage: nobody is inside any more, and the row says what it may.
LEMMA EndInv ==
  ASSUME IInv, TypeOK', NEW j \in Jobs, NEW status \in {"SUCCESS", "FAILED"},
         Inside(j), End(j, status), UNCHANGED <<warehouse, features>>, OldBuildsKept,
         Stages[at[j]] = "dbt" /\ status = "SUCCESS" => TestsPass,
         Stages[at[j]] = "features" /\ status = "SUCCESS" => step[j] = "stored"
  PROVE  IInv'
<1>1. /\ TypeOK /\ log' = Append(log, Row(j, status)) /\ Row(j, status) \in LogRows
      /\ step \in [Jobs -> STEPS] /\ warehouse \in 0 .. Len(quality) /\ Len(quality) \in Nat
      /\ features.program \in 0 .. Len(quality) /\ features.year_level \in 0 .. Len(quality)
  BY RowType, TypeParts, NoTablesType DEF IInv, TypeOK, End, STATUSES, Builds, Tables
<1>2. /\ Row(j, status).stage = Stages[at[j]] /\ Row(j, status).status = status
  BY DEF Row
<1>3. \A i \in Jobs : ~Inside(i)'
  <2>1. PICK s \in {"ready", "over"} : step' = [step EXCEPT ![j] = s]
    BY DEF End, Go
  <2>2. \A i \in Jobs : Inside(i) => i = j
    BY DEF IInv, OneInside
  <2> QED
    BY <1>1, <2>1, <2>2 DEF Inside
<1>4. OneInside' /\ RunningIsLast' /\ StepsOfStages' /\ \A i \in Jobs : FrameInv(i)'
  BY <1>3, OutsideInv DEF OneInside, RunningIsLast, StepsOfStages, Inside, FeatureSteps
<1>5. WarehouseTested'
  <2>1. SUFFICES ASSUME TestedBefore(Len(log))', warehouse # None
                 PROVE  quality'[warehouse] = "good"
    BY DEF WarehouseTested
  <2>2. quality[warehouse] = "good"
    BY <1>1, <1>2, <2>1, TestedAfterRow DEF IInv, WarehouseTested, TestsPass
  <2> QED
    BY <1>1, <2>1, <2>2 DEF OldBuildsKept, None
<1>6. FeaturesAreWhatTheLogSays'
  <2>1. ASSUME Stages[at[j]] = "features", status = "SUCCESS"
        PROVE  LET builds == {features.program, features.year_level} \ {None}
               IN  /\ \A b, c \in builds : b = c
                   /\ TestedBefore(Len(log)) => \A b \in builds : quality[b] = "good"
    BY <2>1 DEF IInv, FrameInv, FeatureSteps
  <2> QED
    BY <1>1, <1>2, <2>1, PropertyKeptByRow DEF IInv
<1> QED
  BY <1>4, <1>5, <1>6 DEF IInv

\* No row, no build, and tables that are left alone or emptied
LEMMA QuietInv ==
  ASSUME IInv, TypeOK', UNCHANGED <<log, quality>>, warehouse' \in {warehouse, None},
         features'.program \in {features.program, None},
         features'.year_level \in {features.year_level, None},
         \A i \in Jobs : Inside(i)' => step'[i] = step[i] /\ at'[i] = at[i] /\ frame'[i] = frame[i]
  PROVE  IInv'
<1>1. TestedBefore(Len(log))' <=> TestedBefore(Len(log))
  BY DEF TestedBefore
<1>2. \A i \in Jobs : Inside(i)' => Inside(i)
  BY DEF Inside
<1>3. OneInside'
  BY <1>2 DEF IInv, OneInside
<1>4. RunningIsLast'
  BY <1>2 DEF IInv, RunningIsLast, Row
<1>5. StepsOfStages'
  <2>1. \A i \in Jobs : Inside(i)' =>
          /\ step'[i] \in FeatureSteps => Stages[at'[i]] = "features"
          /\ step'[i] = "loaded" => Stages[at'[i]] = "warehouse"
    BY DEF IInv, StepsOfStages
  <2>2. \A i \in Jobs : ~Inside(i)' => step'[i] \notin FeatureSteps \cup {"loaded"}
    BY DEF Inside, FeatureSteps
  <2> QED
    BY <2>1, <2>2 DEF StepsOfStages
<1>6. WarehouseTested'
  BY <1>1 DEF IInv, WarehouseTested
<1>7. ASSUME NEW i \in Jobs PROVE FrameInv(i)'
  <2>1. CASE Inside(i)'
    BY <1>1, <2>1 DEF IInv, FrameInv
  <2>2. CASE ~Inside(i)'
    BY <2>2, OutsideInv
  <2> QED
    BY <2>1, <2>2
<1>8. FeaturesAreWhatTheLogSays'
  <2>1. {features.program, features.year_level}' \ {None} \subseteq
          {features.program, features.year_level} \ {None}
    OBVIOUS
  <2>2. \A n \in DOMAIN log : TestedBefore(n)' <=> TestedBefore(n)
    BY DEF TestedBefore
  <2> QED
    BY <2>1, <2>2 DEF IInv, FeaturesAreWhatTheLogSays
<1> QED
  BY <1>3, <1>4, <1>5, <1>6, <1>7, <1>8 DEF IInv

\* The job inside goes on to another step of its stage, and no row is written.
LEMMA GoesOnInv ==
  ASSUME IInv, TypeOK', NEW j \in Jobs, NEW s \in FeatureSteps \cup {"loaded"},
         Inside(j), Go(j, s), UNCHANGED <<at, log>>,
         s \in FeatureSteps => Stages[at[j]] = "features",
         s = "loaded" => Stages[at[j]] = "warehouse",
         WarehouseTested', FrameInv(j)', FeaturesAreWhatTheLogSays'
  PROVE  IInv'
<1>1. step \in [Jobs -> STEPS] /\ step' = [step EXCEPT ![j] = s]
  BY DEF IInv, TypeOK, Go
<1>2. /\ \A i \in Jobs : i # j => ~Inside(i)
      /\ \A i \in Jobs : Inside(i)' <=> Inside(i)
  BY <1>1 DEF IInv, OneInside, Inside, FeatureSteps
<1>3. OneInside' /\ RunningIsLast'
  BY <1>2 DEF IInv, OneInside, RunningIsLast, Row
<1>4. StepsOfStages'
  BY <1>1 DEF IInv, StepsOfStages
<1>5. \A i \in Jobs : FrameInv(i)'
  BY <1>2, OutsideInv
<1> QED
  BY <1>3, <1>4, <1>5 DEF IInv

\* While a job is inside, the last row is its RUNNING row.
LEMMA LastRow ==
  ASSUME IInv, NEW j \in Jobs, Inside(j)
  PROVE  /\ Len(log) \in Nat \ {0} /\ DOMAIN log = 1 .. Len(log)
         /\ log[Len(log)].stage = Stages[at[j]] /\ log[Len(log)].status = "RUNNING"
<1>1. Len(log) \in Nat /\ DOMAIN log = 1 .. Len(log)
  BY LenProperties DEF IInv, TypeOK
<1>2. Len(log) > 0 /\ log[Len(log)] = Row(j, "RUNNING")
  BY DEF IInv, RunningIsLast
<1> QED
  BY <1>1, <1>2 DEF Row

\* The RUNNING row: the tests passed before it, if they had passed before.
LEMMA BeginInv ==
  ASSUME IInv, TypeOK', NEW j \in Jobs, Begin(j)
  PROVE  IInv'
<1>1. /\ TypeOK /\ log' = Append(log, Row(j, "RUNNING")) /\ Row(j, "RUNNING") \in LogRows
      /\ step \in [Jobs -> STEPS] /\ step' = [step EXCEPT ![j] = "handler"]
      /\ UNCHANGED <<at, frame, warehouse, features, quality>>
  BY RowType, TypeParts DEF IInv, TypeOK, Begin, Go, STATUSES, data
<1>2. Row(j, "RUNNING").status = "RUNNING"
  BY DEF Row
<1>3. \A i \in Jobs : Inside(i)' <=> i = j
  BY <1>1 DEF Begin, LockFree, Inside
<1>4. OneInside' /\ StepsOfStages' /\ \A i \in Jobs : FrameInv(i)'
  BY <1>1, <1>3 DEF OneInside, StepsOfStages, FrameInv, Inside, FeatureSteps
<1>5. RunningIsLast'
  <2>1. Len(log') = Len(log) + 1 /\ Len(log) \in Nat /\ log'[Len(log) + 1] = Row(j, "RUNNING")
    BY <1>1, AppendRow, TypeParts
  <2>2. Row(j, "RUNNING")' = Row(j, "RUNNING")
    BY <1>1 DEF Row
  <2> QED
    BY <1>3, <2>1, <2>2 DEF RunningIsLast
<1>6. WarehouseTested'
  BY <1>1, <1>2, TestedAfterRow DEF IInv, WarehouseTested
<1>7. FeaturesAreWhatTheLogSays'
  BY <1>1, <1>2, PropertyKeptByRow DEF IInv, OldBuildsKept
<1> QED
  BY <1>4, <1>5, <1>6, <1>7 DEF IInv

\* The property depends on these three variables.
LEMMA SameClaims ==
  ASSUME FeaturesAreWhatTheLogSays, UNCHANGED <<log, features, quality>>
  PROVE  FeaturesAreWhatTheLogSays'
<1> DEFINE builds == {features.program, features.year_level} \ {None}
<1>1. builds' = builds
  OBVIOUS
<1>2. \A n \in DOMAIN log : TestedBefore(n)' <=> TestedBefore(n)
  BY DEF TestedBefore
<1>3. \A n \in DOMAIN log :
        /\ log[n].stage = "features" /\ log[n].status = "SUCCESS"
        /\ \A k \in n + 1 .. Len(log) : log[k].stage # "features"
        => /\ \A b, c \in builds : b = c
           /\ TestedBefore(n) => \A b \in builds : quality[b] = "good"
  BY DEF FeaturesAreWhatTheLogSays
<1> QED
  BY <1>1, <1>2, <1>3 DEF FeaturesAreWhatTheLogSays

\* The load: its RUNNING row follows whatever tests had passed.
LEMMA LoadInv ==
  ASSUME IInv, TypeOK', NEW j \in Jobs, warehouseLoad(j)
  PROVE  IInv'
<1>1. Inside(j) /\ Stages[at[j]] = "warehouse"
  BY DEF warehouseLoad, In, Inside
<1>2. UNCHANGED <<at, log, features, quality>> /\ Go(j, "loaded")
  BY DEF warehouseLoad
<1>3. ~TestedBefore(Len(log))
  BY <1>1, LastRow DEF TestedBefore
<1>4. WarehouseTested'
  BY <1>2, <1>3 DEF WarehouseTested, TestedBefore
<1>5. FrameInv(j)'
  <2>1. step'[j] = "loaded"
    BY <1>2 DEF IInv, TypeOK, Go
  <2> QED
    BY <2>1 DEF FrameInv, FeatureSteps
<1>6. FeaturesAreWhatTheLogSays'
  BY <1>2, SameClaims DEF IInv
<1> QED
  BY <1>1, <1>2, <1>4, <1>5, <1>6, GoesOnInv DEF FeatureSteps

\* The two reads: the second finds the build of the first, or nothing.
LEMMA ReadsInv ==
  ASSUME IInv, TypeOK', NEW j \in Jobs, ReadProgramFacts(j) \/ ReadYearLevelFacts(j)
  PROVE  IInv'
<1>0. /\ step \in [Jobs -> STEPS] /\ frame \in [Jobs -> Tables]
      /\ FrameInv(j) /\ WarehouseTested
  BY DEF IInv, TypeOK
<1>1. Inside(j) /\ Stages[at[j]] = "features"
  BY DEF ReadProgramFacts, ReadYearLevelFacts, In, Inside, IInv, StepsOfStages, FeatureSteps
<1>2. UNCHANGED <<at, log, features, warehouse, quality>>
  BY DEF ReadProgramFacts, ReadYearLevelFacts, data
<1>3. \A n \in Nat : TestedBefore(n)' <=> TestedBefore(n)
  BY <1>2 DEF TestedBefore
<1>4. Len(log) \in Nat /\ DOMAIN log = 1 .. Len(log) /\ Len(log') = Len(log)
  BY <1>1, <1>2, LastRow
<1>5. WarehouseTested'
  BY <1>0, <1>2, <1>3, <1>4 DEF WarehouseTested
<1>6. FeaturesAreWhatTheLogSays'
  BY <1>2, SameClaims DEF IInv
<1>7. CASE ReadProgramFacts(j)
  <2>1. /\ step'[j] = "read" /\ frame'[j].program = warehouse /\ warehouse # None
    BY <1>0, <1>7 DEF ReadProgramFacts, Go, Tables
  <2>2. FrameInv(j)'
    BY <1>0, <1>2, <1>3, <1>4, <2>1 DEF FrameInv, FeatureSteps, WarehouseTested
  <2>3. Go(j, "read")
    BY <1>7 DEF ReadProgramFacts
  <2> QED
    BY <1>1, <1>2, <1>5, <1>6, <2>2, <2>3, GoesOnInv DEF FeatureSteps
<1>8. CASE ReadYearLevelFacts(j)
  <2>1. /\ step[j] = "read" /\ step'[j] = "program"
        /\ frame'[j].program = frame[j].program /\ frame'[j].year_level = warehouse
    BY <1>0, <1>8 DEF ReadYearLevelFacts, Go, Tables
  <2>2. warehouse # None
    BY <1>8 DEF ReadYearLevelFacts, Empty
  <2>3. FrameInv(j)'
    BY <1>0, <1>2, <1>3, <1>4, <2>1, <2>2 DEF FrameInv, FeatureSteps
  <2>4. Go(j, "program")
    BY <1>8 DEF ReadYearLevelFacts
  <2> QED
    BY <1>1, <1>2, <1>5, <1>6, <2>3, <2>4, GoesOnInv DEF FeatureSteps
<1> QED
  BY <1>7, <1>8

\* The two writes: the row RUNNING makes no claim about what they write.
LEMMA WritesInv ==
  ASSUME IInv, TypeOK', NEW j \in Jobs, "gold" \in schemas,
         WriteProgramFeatures(j) \/ WriteYearLevelFeatures(j)
  PROVE  IInv'
<1>0. /\ step \in [Jobs -> STEPS] /\ frame \in [Jobs -> Tables] /\ features \in Tables
      /\ FrameInv(j) /\ WarehouseTested
  BY DEF IInv, TypeOK
<1>1. Inside(j) /\ Stages[at[j]] = "features"
  BY DEF WriteProgramFeatures, WriteYearLevelFeatures, Inside, IInv, StepsOfStages, FeatureSteps
<1>2. UNCHANGED <<at, log, frame, warehouse, quality>>
  BY DEF WriteProgramFeatures, WriteYearLevelFeatures
<1>3. TestedBefore(Len(log))' <=> TestedBefore(Len(log))
  BY <1>2 DEF TestedBefore
<1>4. WarehouseTested'
  BY <1>0, <1>2, <1>3 DEF WarehouseTested
<1>5. FeaturesAreWhatTheLogSays'
  <2>1. SUFFICES ASSUME NEW n \in DOMAIN log,
                        log[n].stage = "features", log[n].status = "SUCCESS",
                        \A k \in n + 1 .. Len(log) : log[k].stage # "features"
                 PROVE  FALSE
    BY <1>2 DEF FeaturesAreWhatTheLogSays
  <2>2. n = Len(log)
    BY <1>1, <2>1, LastRow
  <2> QED
    BY <1>1, <2>1, <2>2, LastRow
<1>6. CASE WriteProgramFeatures(j)
  <2>1. /\ step[j] = "program" /\ step'[j] = "year level" /\ Go(j, "year level")
        /\ features'.program = frame[j].program
    BY <1>0, <1>6 DEF WriteProgramFeatures, Go, Tables
  <2>2. FrameInv(j)'
    BY <1>0, <1>2, <1>3, <2>1 DEF FrameInv, FeatureSteps
  <2> QED
    BY <1>1, <1>2, <1>4, <1>5, <2>1, <2>2, GoesOnInv DEF FeatureSteps
<1>7. CASE WriteYearLevelFeatures(j)
  <2>1. /\ step[j] = "year level" /\ step'[j] = "stored" /\ Go(j, "stored")
        /\ features'.program = features.program /\ features'.year_level = frame[j].year_level
    BY <1>0, <1>7 DEF WriteYearLevelFeatures, Go, Tables
  <2>2. FrameInv(j)'
    BY <1>0, <1>2, <1>3, <2>1 DEF FrameInv, FeatureSteps
  <2> QED
    BY <1>1, <1>2, <1>4, <1>5, <2>1, <2>2, GoesOnInv DEF FeatureSteps
<1> QED
  BY <1>6, <1>7

LEMMA StepInv ==
  ASSUME IInv, TypeOK', NEW j \in Jobs, Step(j)
  PROVE  IInv'
<1>0. TypeOK /\ StepsOfStages /\ step \in [Jobs -> STEPS]
  BY DEF IInv, TypeOK
<1>1. CASE Begin(j)
  BY <1>1, BeginInv
<1>2. CASE Refused(j) \/ Crash(j)
  <2>1. /\ UNCHANGED <<log, quality, warehouse, features, at>>
        /\ step' = [step EXCEPT ![j] = "over"]
        /\ \A i \in Jobs : i # j => frame'[i] = frame[i]
    BY <1>2 DEF IInv, TypeOK, Refused, Crash, Go, data
  <2> QED
    BY <1>0, <2>1, QuietInv DEF Inside
<1>3. CASE Raise(j)
  BY <1>3, EndInv DEF Raise, data, OldBuildsKept
<1>4. CASE gold(j)
  <2>1. OldBuildsKept
    BY <1>4, AppendProperties, LenProperties DEF IInv, TypeOK, gold, OldBuildsKept
  <2> QED
    BY <1>4, <2>1, EndInv DEF gold, In, Inside
<1>5. CASE warehouseLoad(j)
  BY <1>5, LoadInv
<1>6. CASE warehouseEnd(j)
  <2>1. Inside(j) /\ Stages[at[j]] = "warehouse"
    BY <1>0, <1>6 DEF warehouseEnd, StepsOfStages, Inside
  <2> QED
    BY <1>6, <2>1, EndInv DEF warehouseEnd, data, OldBuildsKept
<1>7. CASE warehouseFails(j)
  BY <1>7, EndInv DEF warehouseFails, In, Inside, data, OldBuildsKept
<1>8. CASE dbt(j)
  <2>1. Inside(j) /\ Stages[at[j]] = "dbt" /\ UNCHANGED <<warehouse, features>> /\ OldBuildsKept
    BY <1>8 DEF dbt, In, Inside, data, OldBuildsKept
  <2>2. CASE TestsPass
    BY <1>8, <2>1, <2>2, EndInv DEF dbt
  <2>3. CASE ~TestsPass
    BY <1>8, <2>1, <2>3, EndInv DEF dbt
  <2> QED
    BY <2>2, <2>3
<1>9. CASE ReadProgramFacts(j) \/ ReadYearLevelFacts(j)
  BY <1>9, ReadsInv
<1>10. CASE NoFacts(j)
  BY <1>10, EndInv DEF NoFacts, In, Inside, data, OldBuildsKept
<1>11. CASE WriteProgramFeatures(j) \/ WriteYearLevelFeatures(j)
  <2>1. CASE "gold" \in schemas
    BY <1>11, <2>1, WritesInv
  <2>2. CASE "gold" \notin schemas
    BY <1>11, <2>2, EndInv DEF WriteProgramFeatures, WriteYearLevelFeatures, Inside, OldBuildsKept
  <2> QED
    BY <2>1, <2>2
<1>12. CASE featuresEnd(j)
  <2>1. Inside(j) /\ Stages[at[j]] = "features"
    BY <1>0, <1>12 DEF featuresEnd, StepsOfStages, Inside, FeatureSteps
  <2> QED
    BY <1>12, <2>1, EndInv DEF featuresEnd, data, OldBuildsKept
<1>13. CASE OtherStage(j)
  BY <1>13, EndInv DEF OtherStage, Inside, data, OldBuildsKept
<1> QED
  BY <1>1, <1>2, <1>3, <1>4, <1>5, <1>6, <1>7, <1>8, <1>9, <1>10, <1>11, <1>12, <1>13 DEF Step

LEMMA NextInv == IInv /\ [Next]_vars => IInv'
<1> SUFFICES ASSUME IInv, [Next]_vars PROVE IInv'
  OBVIOUS
<1>0. TypeOK' /\ TypeOK
  BY NextTypes DEF IInv
<1>1. ASSUME NEW j \in Jobs, Launch(j)
      PROVE  IInv'
  <2>1. step \in [Jobs -> STEPS] /\ step[j] = "idle" /\ step' = [step EXCEPT ![j] = "ready"]
        /\ UNCHANGED <<frame, log, quality, warehouse, features>>
        /\ \E i \in DOMAIN Stages : at' = [at EXCEPT ![j] = i]
    BY <1>0, <1>1 DEF TypeOK, Launch, Go, data
  <2> QED
    BY <1>0, <2>1, QuietInv DEF Inside, TypeOK
<1>2. ASSUME NEW j \in Jobs, Step(j)
      PROVE  IInv'
  BY <1>0, <1>2, StepInv
<1>3. CASE Release \/ apply_migrations \/ DropVersion
  BY <1>0, <1>3, QuietInv DEF Release, apply_migrations, DropVersion, data
<1>4. CASE DropDatabase \/ \E s \in SCHEMAS : DropSchema(s)
  BY <1>0, <1>4, QuietInv DEF DropDatabase, DropSchema, NoTables
<1>5. CASE UNCHANGED vars
  BY <1>0, <1>5, QuietInv DEF vars
<1> QED
  BY <1>1, <1>2, <1>3, <1>4, <1>5 DEF Next

\* What the log says of the feature tables, whoever else is running, and wherever it ended
THEOREM FeaturesCorrect == Spec => []FeaturesAreWhatTheLogSays
<1>1. Init => IInv
  <2> SUFFICES ASSUME Init PROVE IInv
    OBVIOUS
  <2>1. \A j \in Jobs : ~Inside(j) /\ step[j] = "idle"
    BY DEF Init, Inside
  <2>2. log = << >> /\ Len(log) = 0 /\ DOMAIN log = {} /\ warehouse = None
    BY DEF Init
  <2> QED
    BY <2>1, <2>2, InitTypes
    DEF IInv, OneInside, RunningIsLast, StepsOfStages, WarehouseTested, FrameInv, FeatureSteps,
        FeaturesAreWhatTheLogSays
<1>2. IInv => FeaturesAreWhatTheLogSays
  BY DEF IInv
<1> QED
  BY <1>1, <1>2, NextInv, PTL DEF Spec
=============================================================================
