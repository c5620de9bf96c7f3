---------------------------- MODULE Bronze_proofs ----------------------------
(***************************************************************************)
(* Proofs about Bronze: types, the five safety properties, and that it       *)
(* implements BronzeStore, for every number of units, every set of contents   *)
(* and every bound.  All follow from one inductive invariant.               *)
(***************************************************************************)
EXTENDS Bronze, TLAPS

\* A run has a batch number
Begun == run.step # "idle" => batch \in 1..MaxRuns

\* Objects come from earlier batches, or from units this batch has visited
Ordered ==
  \A o \in objects :
    \/ o.batch < batch
    \/ /\ o.batch = batch
       /\ run.step \in {"check", "load", "write"} => o.unit < run.unit
       /\ run.step \in {"record", "report"} => o.unit <= run.unit

\* What passed the gate in front of the store is well formed
Loaded == run.step \in {"write", "record", "report"} => run.content \in Contents

\* The verified write precedes the row in the log
Written ==
  run.step \in {"record", "report"} =>
    [unit |-> run.unit, batch |-> batch, content |-> run.content] \in objects

\* A unit past the check had a reason to be ingested, and still has it
Entitled ==
  run.step \in {"load", "write"} =>
    run.force \/ ~has_successful_run(run.unit) \/ list_keys(run.unit) = {}

\* As long as the store was not lost, every success in the log has its own object
LogVouches ==
  used["stores"] = 0 =>
    \A r \in log : r.stage = STAGE /\ r.status = "SUCCESS" =>
      \E o \in objects : o.unit = r.unit /\ o.batch = r.batch /\ o.content # Torn

\* Nothing is reported between runs, each unit before the current one is reported,
\* and only semester files may be reported missing
Visited ==
  /\ run.step = "idle" => results = NoResults
  /\ run.step # "idle" => \A u \in Units : u < run.unit => results[u] # "pending"
  /\ run.step = "done" => \A u \in Units : results[u] # "pending"
  /\ \A u \in Units : results[u] = "NO_SOURCE_FILE" => u \in SemesterScoped

IInv ==
  /\ TypeOK /\ Begun /\ Ordered /\ Loaded /\ Written /\ Entitled
  /\ LogVouches /\ Visited /\ OneSuccessPerUnit /\ ReportedUnitsStored
LEMMA InitIInv == Init => IInv
<1> SUFFICES ASSUME Init PROVE IInv
  OBVIOUS
<1>1. 1 \in Units /\ 0 \in 0..MaxRuns /\ Nothing \in SourceStates
  BY BronzeAssumption DEF BronzeAssumption, Units, Nothing, SourceStates
<1>2. TypeOK
  BY <1>1 DEF Init, TypeOK, Idle, NoResults, Nothing
<1>3. Begun /\ Ordered /\ Loaded /\ Written /\ Entitled /\ LogVouches
  BY DEF Init, Begun, Ordered, Loaded, Written, Entitled, LogVouches, Idle
<1>4. Visited /\ OneSuccessPerUnit /\ ReportedUnitsStored
  BY DEF Init, Visited, OneSuccessPerUnit, ReportedUnitsStored, Idle, NoResults
<1> QED
  BY <1>2, <1>3, <1>4 DEF IInv

\* Going on to the next unit, or past the last one: the types, and what is reported.
LEMMA ConcludeStep ==
  ASSUME TypeOK, Visited, run.step \notin {"idle", "done"},
         NEW status \in Statuses, Conclude(status),
         status = "NO_SOURCE_FILE" => run.unit \in SemesterScoped
  PROVE  /\ run' \in [step: {"check", "done"}, unit: Units, force: BOOLEAN, content: {Nothing}]
         /\ run'.step = "check" => run'.unit = run.unit + 1
         /\ results' \in [Units -> Statuses \cup {"pending"}]
         /\ results'[run.unit] = status
         /\ \A u \in Units \ {run.unit} : results'[u] = results[u]
         /\ Visited'
<1>1. run.unit \in Units /\ status # "pending"
  BY DEF TypeOK, Statuses
<1>2. results' = [results EXCEPT ![run.unit] = status] /\ results \in [Units -> Statuses \cup {"pending"}]
  BY DEF Conclude, TypeOK
<1>3. /\ results' \in [Units -> Statuses \cup {"pending"}]
      /\ results'[run.unit] = status
      /\ \A u \in Units \ {run.unit} : results'[u] = results[u]
  BY <1>1, <1>2
<1>4. CASE run.unit = NumUnits
  <2>1. run' = [run EXCEPT !.step = "done", !.content = Nothing]
    BY <1>4 DEF Conclude
  <2>2. run' \in [step: {"check", "done"}, unit: Units, force: BOOLEAN, content: {Nothing}] /\ run'.step = "done"
        /\ run'.unit = run.unit
    BY <2>1 DEF TypeOK
  <2>3. \A u \in Units : results'[u] # "pending"
    BY <1>1, <1>3, <1>4, BronzeAssumption DEF Visited, Units, BronzeAssumption
  <2>4. \A u \in Units : results'[u] = "NO_SOURCE_FILE" => u \in SemesterScoped
    BY <1>1, <1>3 DEF Visited
  <2>5. Visited'
    BY <2>2, <2>3, <2>4 DEF Visited
  <2> QED
    BY <1>3, <2>2, <2>5
<1>5. CASE run.unit # NumUnits
  <2>1. run' = [run EXCEPT !.step = "check", !.unit = run.unit + 1, !.content = Nothing]
    BY <1>5 DEF Conclude
  <2>2. run.unit + 1 \in Units
    BY <1>1, <1>5, BronzeAssumption DEF Units, BronzeAssumption
  <2>3. run' \in [step: {"check", "done"}, unit: Units, force: BOOLEAN, content: {Nothing}]
        /\ run'.unit = run.unit + 1 /\ run'.step = "check"
    BY <2>1, <2>2 DEF TypeOK
  <2>4. \A u \in Units : u < run'.unit => results'[u] # "pending"
    BY <1>1, <1>3, <2>3, BronzeAssumption DEF Visited, Units, BronzeAssumption
  <2>5. \A u \in Units : results'[u] = "NO_SOURCE_FILE" => u \in SemesterScoped
    BY <1>1, <1>3 DEF Visited
  <2>6. Visited'
    BY <2>3, <2>4, <2>5 DEF Visited
  <2> QED
    BY <1>3, <2>3, <2>6
<1> QED
  BY <1>4, <1>5
\* A row of the log, whatever its stage and status, has the type of one.
LEMMA RowTyped ==
  ASSUME TypeOK, Begun, run.step # "idle",
         NEW stage \in {STAGE, SCHEMA_VALIDATION_STAGE},
         NEW status \in {"SUCCESS", "FAILED", "DRIFT_DETECTED"}
  PROVE  Row(stage, status) \in LogRow
BY DEF TypeOK, Begun, Row, LogRow

\* A step that only concludes a unit keeps the invariant if what it concludes is true
\* and its row, if it adds one, is not a success of the ingestion.
LEMMA ConcludeKeeps ==
  ASSUME IInv, run.step \in {"check", "load", "report"},
         NEW status \in Statuses, Conclude(status),
         status = "NO_SOURCE_FILE" => run.unit \in SemesterScoped,
         status = "SUCCESS" => run.step = "report",
         status = "SKIPPED_ALREADY_INGESTED" => AlreadyIngested(run.unit),
         log' \subseteq LogRow,
         \A r \in log' \ log : ~(r.stage = STAGE /\ r.status = "SUCCESS"),
         UNCHANGED <<backend, source, objects, batch, asset, used>>
  PROVE  IInv'
<1>1. TypeOK /\ Begun /\ Ordered /\ Loaded /\ Written /\ LogVouches /\ Visited
      /\ OneSuccessPerUnit /\ ReportedUnitsStored
  BY DEF IInv
<1>2. /\ run' \in [step: {"check", "done"}, unit: Units, force: BOOLEAN, content: {Nothing}]
      /\ run'.step = "check" => run'.unit = run.unit + 1
      /\ results' \in [Units -> Statuses \cup {"pending"}]
      /\ results'[run.unit] = status
      /\ \A u \in Units \ {run.unit} : results'[u] = results[u]
      /\ Visited'
  BY <1>1, ConcludeStep
<1>3. TypeOK'
  BY <1>1, <1>2 DEF TypeOK
<1>4. Begun'
  BY <1>1 DEF Begun
<1>5. Ordered'
  <2> SUFFICES ASSUME NEW o \in objects'
               PROVE  \/ o.batch < batch'
                      \/ /\ o.batch = batch'
                         /\ run'.step \in {"check", "load", "write"} => o.unit < run'.unit
                         /\ run'.step \in {"record", "report"} => o.unit <= run'.unit
    BY DEF Ordered
  <2>1. o \in Object /\ o.unit \in Nat /\ run.unit \in Nat
    BY <1>1 DEF TypeOK, Object, Units
  <2>2. o.batch < batch \/ (o.batch = batch /\ o.unit <= run.unit)
    BY <1>1, <2>1 DEF Ordered
  <2> QED
    BY <1>2, <2>1, <2>2
<1>6. Loaded' /\ Written' /\ Entitled'
  BY <1>2 DEF Loaded, Written, Entitled
<1>7. LogVouches'
  BY <1>1 DEF LogVouches
<1>8. OneSuccessPerUnit'
  BY <1>1 DEF OneSuccessPerUnit
<1>9. ReportedUnitsStored'
  <2>1. \A u \in Units \ {run.unit} :
          /\ results'[u] = "SUCCESS" =>
               \E o \in objects' : o.unit = u /\ o.batch = batch' /\ o.content # Torn
          /\ results'[u] = "SKIPPED_ALREADY_INGESTED" =>
               \E o \in objects' : o.unit = u /\ (used'["stores"] = 0 => o.content # Torn)
    BY <1>1, <1>2 DEF ReportedUnitsStored, list_keys
  <2>2. CASE status = "SUCCESS"
    <3>1. run.content # Torn
      BY <1>1, <2>2, BronzeAssumption DEF Loaded, BronzeAssumption
    <3>2. \E o \in objects' : o.unit = run.unit /\ o.batch = batch' /\ o.content # Torn
      BY <1>1, <2>2, <3>1 DEF Written
    <3> QED
      BY <1>2, <2>1, <2>2, <3>2 DEF ReportedUnitsStored, list_keys
  <2>3. CASE status = "SKIPPED_ALREADY_INGESTED"
    <3>1. \E o \in objects' : o.unit = run.unit /\ (used'["stores"] = 0 => o.content # Torn)
      BY <1>1, <2>3 DEF LogVouches, AlreadyIngested, has_successful_run, list_keys
    <3> QED
      BY <1>2, <2>1, <2>3, <3>1 DEF ReportedUnitsStored, list_keys
  <2>4. CASE status \notin {"SUCCESS", "SKIPPED_ALREADY_INGESTED"}
    BY <1>2, <2>1, <2>4 DEF ReportedUnitsStored, list_keys
  <2> QED
    BY <2>2, <2>3, <2>4
<1> QED
  BY <1>2, <1>3, <1>4, <1>5, <1>6, <1>7, <1>8, <1>9 DEF IInv

\* The four ways a unit may be concluded.
LEMMA ConcludingActions ==
  ASSUME IInv, NoSourceFile \/ Skip \/ Reject \/ Report
  PROVE  IInv'
<1>1. TypeOK /\ Begun /\ log \subseteq LogRow
  BY DEF IInv, TypeOK
<1>2. CASE NoSourceFile
  <2>1. "NO_SOURCE_FILE" \in Statuses
    BY DEF Statuses
  <2> QED
    BY <1>1, <1>2, <2>1, ConcludeKeeps DEF NoSourceFile, NoSource
<1>3. CASE Skip
  <2>1. "SKIPPED_ALREADY_INGESTED" \in Statuses
    BY DEF Statuses
  <2> QED
    BY <1>1, <1>3, <2>1, ConcludeKeeps DEF Skip
<1>4. CASE Reject
  <2>1. "FAILED" \in Statuses
    BY DEF Statuses
  <2>2. Row(STAGE, "FAILED") \in LogRow
    BY <1>1, <1>4, RowTyped DEF Reject
  <2>3. Row(STAGE, "FAILED").status # "SUCCESS"
    BY DEF Row
  <2> QED
    BY <1>1, <1>4, <2>1, <2>2, <2>3, ConcludeKeeps DEF Reject
<1>5. CASE Report
  <2>1. "SUCCESS" \in Statuses
    BY DEF Statuses
  <2> DEFINE row == Row(SCHEMA_VALIDATION_STAGE, IF run.content \in Suspect THEN "FAILED" ELSE "SUCCESS")
  <2>2. row \in LogRow
    BY <1>1, <1>5, RowTyped DEF Report
  <2>3. row.stage # STAGE
    BY DEF Row, STAGE, SCHEMA_VALIDATION_STAGE
  <2>4. log' = log \cup {row} /\ run.step = "report" /\ Conclude("SUCCESS")
        /\ UNCHANGED <<backend, source, objects, batch, asset, used>>
    BY <1>5 DEF Report
  <2> HIDE DEF row
  <2> QED
    BY <1>1, <2>1, <2>2, <2>3, <2>4, ConcludeKeeps
<1> QED
  BY <1>2, <1>3, <1>4, <1>5
\* A step of one unit that reports nothing keeps what is reported.
LEMMA NothingReported ==
  ASSUME Visited, ReportedUnitsStored, run.step \notin {"idle", "done"},
         run'.step \notin {"idle", "done"}, run'.unit = run.unit,
         objects \subseteq objects', UNCHANGED <<used, batch, results>>
  PROVE  Visited' /\ ReportedUnitsStored'
<1>1. Visited'
  BY DEF Visited
<1>2. \A u \in Units :
        /\ results[u] = "SUCCESS" =>
             \E o \in objects : o.unit = u /\ o.batch = batch /\ o.content # Torn
        /\ results[u] = "SKIPPED_ALREADY_INGESTED" =>
             \E o \in objects : o.unit = u /\ (used["stores"] = 0 => o.content # Torn)
  BY DEF ReportedUnitsStored, list_keys
<1>3. ReportedUnitsStored'
  BY <1>2 DEF ReportedUnitsStored, list_keys
<1> QED
  BY <1>1, <1>3

\* Deciding that a unit must be ingested, with or without drift.
LEMMA BeginKeeps ==
  ASSUME IInv, Begin
  PROVE  IInv'
<1>1. TypeOK /\ Begun /\ Ordered /\ LogVouches /\ Visited /\ OneSuccessPerUnit /\ ReportedUnitsStored
  BY DEF IInv
<1>2. run'.step = "load" /\ run'.unit = run.unit /\ run'.force = run.force /\ run' = [run EXCEPT !.step = "load"]
  BY <1>1 DEF Begin, TypeOK
<1>3. run.step = "check" /\ UNCHANGED <<backend, source, objects, batch, results, asset, used>>
  BY DEF Begin
<1>4. log' = log \/ log' = log \cup {Row(STAGE, "DRIFT_DETECTED")}
  BY DEF Begin
<1>5. Row(STAGE, "DRIFT_DETECTED") \in LogRow
  BY <1>1, <1>3, RowTyped
<1>6. Row(STAGE, "DRIFT_DETECTED").status # "SUCCESS"
  BY DEF Row
<1>7. TypeOK'
  BY <1>1, <1>2, <1>3, <1>4, <1>5 DEF TypeOK
<1>8. Begun' /\ Ordered' /\ Loaded' /\ Written'
  BY <1>1, <1>2, <1>3 DEF Begun, Ordered, Loaded, Written
<1>9. Entitled'
  <2>1. \A u : has_successful_run(u)' => has_successful_run(u)
    BY <1>4, <1>6 DEF has_successful_run
  <2>2. run.force \/ ~has_successful_run(run.unit) \/ list_keys(run.unit) = {}
    BY DEF Begin, AlreadyIngested
  <2> QED
    BY <1>2, <1>3, <2>1, <2>2 DEF Entitled, list_keys, has_successful_run
<1>10. LogVouches' /\ OneSuccessPerUnit'
  BY <1>1, <1>3, <1>4, <1>6 DEF LogVouches, OneSuccessPerUnit
<1>11. Visited' /\ ReportedUnitsStored'
  BY <1>1, <1>2, <1>3, NothingReported
<1> QED
  BY <1>7, <1>8, <1>9, <1>10, <1>11 DEF IInv

LEMMA LoadKeeps ==
  ASSUME IInv, Load
  PROVE  IInv'
<1>1. TypeOK /\ Begun /\ Ordered /\ Entitled /\ LogVouches /\ Visited /\ OneSuccessPerUnit /\ ReportedUnitsStored
  BY DEF IInv
<1>2. run'.step = "write" /\ run'.unit = run.unit /\ run'.force = run.force
      /\ run'.content = source[run.unit] /\ source[run.unit] \in Contents
      /\ run' = [run EXCEPT !.step = "write", !.content = source[run.unit]]
  BY <1>1 DEF Load, TypeOK
<1>3. run.step = "load" /\ UNCHANGED <<backend, source, objects, log, batch, results, asset, used>>
  BY DEF Load
<1>4. TypeOK'
  BY <1>1, <1>2, <1>3 DEF TypeOK
<1>5. Begun' /\ Ordered' /\ Loaded' /\ Written' /\ LogVouches' /\ OneSuccessPerUnit'
  BY <1>1, <1>2, <1>3 DEF Begun, Ordered, Loaded, Written, LogVouches, OneSuccessPerUnit
<1>6. Entitled'
  BY <1>1, <1>2, <1>3 DEF Entitled, list_keys, has_successful_run
<1>7. Visited' /\ ReportedUnitsStored'
  BY <1>1, <1>2, <1>3, NothingReported
<1> QED
  BY <1>4, <1>5, <1>6, <1>7 DEF IInv

LEMMA WriteKeeps ==
  ASSUME IInv, Write
  PROVE  IInv'
<1> DEFINE new == [unit |-> run.unit, batch |-> batch, content |-> run.content]
<1>1. TypeOK /\ Begun /\ Ordered /\ Loaded /\ LogVouches /\ Visited /\ OneSuccessPerUnit /\ ReportedUnitsStored
  BY DEF IInv
<1>2. run'.step = "record" /\ run'.unit = run.unit /\ run'.content = run.content
      /\ run' = [run EXCEPT !.step = "record"]
  BY <1>1 DEF Write, TypeOK
<1>3. run.step = "write" /\ objects' = objects \cup {new}
      /\ UNCHANGED <<backend, source, log, batch, results, asset, used>>
  BY DEF Write, Put
<1>4. new \in Object /\ run.content # Torn
  BY <1>1, <1>3, BronzeAssumption DEF TypeOK, Begun, Loaded, Object, BronzeAssumption
<1>5. TypeOK'
  BY <1>1, <1>2, <1>3, <1>4 DEF TypeOK
<1>6. Ordered'
  <2>1. \A o \in objects : o.unit \in Nat /\ o.batch \in Nat
    BY <1>1 DEF TypeOK, Object, Units
  <2>2. run.unit \in Nat /\ batch \in Nat
    BY <1>1 DEF TypeOK, Units
  <2> QED
    BY <1>1, <1>2, <1>3, <2>1, <2>2 DEF Ordered
<1>7. Begun' /\ Loaded' /\ Written' /\ Entitled'
  BY <1>1, <1>2, <1>3 DEF Begun, Loaded, Written, Entitled
<1>8. LogVouches' /\ OneSuccessPerUnit'
  BY <1>1, <1>3, <1>4 DEF LogVouches, OneSuccessPerUnit
<1>9. Visited' /\ ReportedUnitsStored'
  BY <1>1, <1>2, <1>3, NothingReported
<1> QED
  BY <1>5, <1>6, <1>7, <1>8, <1>9 DEF IInv

LEMMA RecordKeeps ==
  ASSUME IInv, RecordSuccess
  PROVE  IInv'
<1>1. TypeOK /\ Begun /\ Ordered /\ Loaded /\ Written /\ LogVouches /\ Visited
      /\ OneSuccessPerUnit /\ ReportedUnitsStored
  BY DEF IInv
<1>2. run'.step = "report" /\ run'.unit = run.unit /\ run'.content = run.content
      /\ run' = [run EXCEPT !.step = "report"]
  BY <1>1 DEF RecordSuccess, TypeOK
<1>3. run.step = "record" /\ UNCHANGED <<backend, source, objects, batch, results, asset, used>>
  BY DEF RecordSuccess
<1>4. \/ log' = log
      \/ log' = log \cup {Row(STAGE, "SUCCESS")} /\ ~has_successful_run(run.unit)
  BY DEF RecordSuccess, record_success_once
<1>5. Row(STAGE, "SUCCESS") \in LogRow
  BY <1>1, <1>3, RowTyped
<1>6. TypeOK'
  BY <1>1, <1>2, <1>3, <1>4, <1>5 DEF TypeOK
<1>7. OneSuccessPerUnit'
  BY <1>1, <1>4 DEF OneSuccessPerUnit, has_successful_run, Row
<1>8. Begun' /\ Ordered' /\ Loaded' /\ Written' /\ Entitled'
  BY <1>1, <1>2, <1>3 DEF Begun, Ordered, Loaded, Written, Entitled
<1>9. LogVouches'
  <2>1. run.content # Torn
    BY <1>1, <1>3, BronzeAssumption DEF Loaded, BronzeAssumption
  <2>2. \E o \in objects : o.unit = run.unit /\ o.batch = batch /\ o.content # Torn
    BY <1>1, <1>3, <2>1 DEF Written
  <2>3. Row(STAGE, "SUCCESS").unit = run.unit /\ Row(STAGE, "SUCCESS").batch = batch
    BY DEF Row
  <2> QED
    BY <1>1, <1>3, <1>4, <2>2, <2>3 DEF LogVouches
<1>10. Visited' /\ ReportedUnitsStored'
  BY <1>1, <1>2, <1>3, NothingReported
<1> QED
  BY <1>6, <1>7, <1>8, <1>9, <1>10 DEF IInv
\* Between runs only the tables matter.
LEMMA IdleSuffices ==
  ASSUME run' = Idle, results' = NoResults, TypeOK', LogVouches', OneSuccessPerUnit',
         \A o \in objects' : o.batch <= batch'
  PROVE  IInv'
<1>1. run'.step = "idle"
  BY DEF Idle
<1>2. Ordered'
  BY <1>1 DEF Ordered, TypeOK, Object
<1>3. Begun' /\ Loaded' /\ Written' /\ Entitled' /\ Visited' /\ ReportedUnitsStored'
  BY <1>1 DEF Begun, Loaded, Written, Entitled, Visited, ReportedUnitsStored, NoResults
<1> QED
  BY <1>2, <1>3 DEF IInv

LEMMA BatchesBegun ==
  ASSUME TypeOK, Ordered
  PROVE  \A o \in objects : o.batch <= batch
BY DEF TypeOK, Ordered, Object

LEMMA IdleTyped == Idle \in [step: {"idle"}, unit: Units, force: BOOLEAN, content: {Nothing}]
                   /\ NoResults \in [Units -> {"pending"}]
BY BronzeAssumption DEF BronzeAssumption, Idle, NoResults, Units

LEMMA UseTyped ==
  ASSUME used \in [DOMAIN Limit -> Nat], NEW k \in {"changes", "stores", "logs", "faults"}, Use(k)
  PROVE  /\ used' \in [DOMAIN Limit -> Nat]
         /\ k # "stores" => used'["stores"] = used["stores"]
         /\ k = "stores" => used'["stores"] # 0
<1>1. k \in DOMAIN Limit /\ "stores" \in DOMAIN Limit
  BY DEF Limit
<1> QED
  BY <1>1 DEF Use

\* A run that ends, in whatever way, leaves the tables in order.
LEMMA EndingActions ==
  ASSUME IInv, ParserError \/ WriteNotVerified \/ Return \/ Abort
  PROVE  IInv'
<1>1. TypeOK /\ Begun /\ Ordered /\ Loaded /\ LogVouches /\ OneSuccessPerUnit
  BY DEF IInv
<1>2. run' = Idle /\ results' = NoResults /\ asset' \in {"none", "succeeded", "failed"}
      /\ UNCHANGED <<backend, source, log, batch>>
  BY DEF ParserError, WriteNotVerified, Return, Abort, EndRun
<1>3. used' \in [DOMAIN Limit -> Nat] /\ used'["stores"] = used["stores"]
  BY <1>1, UseTyped DEF ParserError, WriteNotVerified, Return, Abort, TypeOK
<1>4. \/ objects' = objects
      \/ /\ run.step = "write"
         /\ \E c \in Contents \cup {Torn} :
              objects' = objects \cup {[unit |-> run.unit, batch |-> batch, content |-> c]}
  BY <1>1 DEF ParserError, WriteNotVerified, UnverifiedOutcomes, Put, Return, Abort, Loaded
<1>5. objects \subseteq objects' /\ objects' \subseteq Object /\ \A o \in objects' : o.batch <= batch'
  <2>1. objects \subseteq Object /\ \A o \in objects : o.batch <= batch
    BY <1>1, BatchesBegun DEF TypeOK
  <2>2. CASE objects' = objects
    BY <1>2, <2>1, <2>2
  <2>3. ASSUME run.step = "write", NEW c \in Contents \cup {Torn},
               objects' = objects \cup {[unit |-> run.unit, batch |-> batch, content |-> c]}
        PROVE  objects \subseteq objects' /\ objects' \subseteq Object /\ \A o \in objects' : o.batch <= batch'
    <3>1. [unit |-> run.unit, batch |-> batch, content |-> c] \in Object
      BY <1>1, <2>3 DEF TypeOK, Begun, Object
    <3>2. batch <= batch
      BY <1>1 DEF TypeOK
    <3> QED
      BY <1>2, <2>1, <2>3, <3>1, <3>2
  <2> QED
    BY <1>4, <2>2, <2>3
<1>6. TypeOK'
  BY <1>1, <1>2, <1>3, <1>5, IdleTyped DEF TypeOK
<1>7. LogVouches' /\ OneSuccessPerUnit'
  BY <1>1, <1>2, <1>3, <1>5 DEF LogVouches, OneSuccessPerUnit
<1>8. run' = Idle /\ results' = NoResults /\ \A o \in objects' : o.batch <= batch'
  BY <1>2, <1>5
<1> QED
  BY <1>6, <1>7, <1>8, IdleSuffices

LEMMA LaunchKeeps ==
  ASSUME IInv, NEW force \in BOOLEAN, Launch(force)
  PROVE  IInv'
<1>1. TypeOK /\ Ordered /\ LogVouches /\ OneSuccessPerUnit
  BY DEF IInv
<1>2. batch' = batch + 1 /\ batch' \in 1..MaxRuns
  BY <1>1, BronzeAssumption DEF Launch, TypeOK, BronzeAssumption
<1>3. run' = [step |-> "check", unit |-> 1, force |-> force, content |-> Nothing]
  BY DEF Launch, Idle
<1>4. results' = NoResults /\ UNCHANGED <<backend, source, objects, log, asset, used>>
  BY DEF Launch
<1>5. TypeOK'
  <2>1. run' \in [step: {"check"}, unit: Units, force: BOOLEAN, content: {Nothing}]
    BY <1>3, BronzeAssumption DEF BronzeAssumption, Units
  <2> QED
    BY <1>1, <1>2, <1>4, <2>1, IdleTyped DEF TypeOK
<1>6. Ordered'
  <2>1. \A o \in objects : o.batch <= batch /\ o.batch \in Nat
    BY <1>1, BatchesBegun DEF TypeOK, Object
  <2> QED
    BY <1>1, <1>2, <1>4, <2>1 DEF Ordered, TypeOK
<1>7. Begun' /\ Loaded' /\ Written' /\ Entitled' /\ LogVouches' /\ OneSuccessPerUnit'
  BY <1>1, <1>2, <1>3, <1>4 DEF Begun, Loaded, Written, Entitled, LogVouches, OneSuccessPerUnit
<1>8. Visited' /\ ReportedUnitsStored'
  <2>1. \A u \in Units : ~(u < 1)
    BY DEF Units
  <2> QED
    BY <1>3, <1>4, <2>1 DEF Visited, ReportedUnitsStored, NoResults
<1> QED
  BY <1>5, <1>6, <1>7, <1>8 DEF IInv

\* The store or the log is lost between runs.
LEMMA LossKeeps ==
  ASSUME IInv, LoseObjects \/ LoseLog
  PROVE  IInv'
<1>1. TypeOK /\ Ordered /\ LogVouches /\ Visited /\ OneSuccessPerUnit
  BY DEF IInv
<1>2. run.step = "idle" /\ objects' \subseteq objects /\ log' \subseteq log
      /\ UNCHANGED <<backend, source, run, batch, results, asset>>
  BY DEF LoseObjects, LoseLog
<1>3. used' \in [DOMAIN Limit -> Nat]
  BY <1>1, UseTyped DEF LoseObjects, LoseLog, TypeOK
<1>4. TypeOK'
  BY <1>1, <1>2, <1>3 DEF TypeOK
<1>5. Ordered' /\ OneSuccessPerUnit'
  BY <1>1, <1>2 DEF Ordered, OneSuccessPerUnit
<1>6. Begun' /\ Loaded' /\ Written' /\ Entitled' /\ Visited'
  BY <1>1, <1>2 DEF Begun, Loaded, Written, Entitled, Visited
<1>7. ReportedUnitsStored'
  BY <1>1, <1>2 DEF Visited, ReportedUnitsStored, NoResults
<1>8. LogVouches'
  <2>1. CASE LoseObjects
    BY <1>1, <2>1, UseTyped DEF LoseObjects, TypeOK, LogVouches
  <2>2. CASE LoseLog
    BY <2>2 DEF LoseLog, LogVouches
  <2> QED
    BY <2>1, <2>2
<1> QED
  BY <1>4, <1>5, <1>6, <1>7, <1>8 DEF IInv

LEMMA ChangeSourceKeeps ==
  ASSUME IInv, NEW u \in Units, ChangeSource(u)
  PROVE  IInv'
<1>1. UNCHANGED <<backend, objects, log, run, batch, results, asset>> /\ used'["stores"] = used["stores"]
  BY UseTyped DEF ChangeSource, IInv, TypeOK
<1>2. TypeOK'
  BY <1>1, UseTyped DEF IInv, TypeOK, ChangeSource
<1>3. Begun' /\ Ordered' /\ Loaded' /\ Written' /\ LogVouches' /\ Visited' /\ OneSuccessPerUnit'
  BY <1>1 DEF IInv, Begun, Ordered, Loaded, Written, LogVouches, Visited, OneSuccessPerUnit
<1>4. Entitled' /\ ReportedUnitsStored'
  BY <1>1 DEF IInv, Entitled, ReportedUnitsStored, list_keys, has_successful_run
<1> QED
  BY <1>2, <1>3, <1>4 DEF IInv

LEMMA StepIInv ==
  ASSUME IInv, [Next]_vars
  PROVE  IInv'
<1>1. CASE UNCHANGED vars
  BY <1>1 DEF vars, IInv, TypeOK, Begun, Ordered, Loaded, Written, Entitled, LogVouches, Visited,
     OneSuccessPerUnit, ReportedUnitsStored, list_keys, has_successful_run
<1>2. CASE \E force \in BOOLEAN : Launch(force)
  BY <1>2, LaunchKeeps
<1>3. CASE NoSourceFile \/ Skip \/ Reject \/ Report
  BY <1>3, ConcludingActions
<1>4. CASE Begin \/ Load \/ Write \/ RecordSuccess
  BY <1>4, BeginKeeps, LoadKeeps, WriteKeeps, RecordKeeps
<1>5. CASE ParserError \/ WriteNotVerified \/ Return \/ Abort
  BY <1>5, EndingActions
<1>6. CASE LoseObjects \/ LoseLog
  BY <1>6, LossKeeps
<1>7. CASE \E u \in Units : ChangeSource(u)
  BY <1>7, ChangeSourceKeeps
<1> QED
  BY <1>1, <1>2, <1>3, <1>4, <1>5, <1>6, <1>7 DEF Next, IngestOne
\* The invariant holds in every reachable state.
THEOREM BronzeInvariant == Spec => []IInv
<1>1. IInv /\ [Next]_vars => IInv'
  BY StepIInv
<1> QED
  BY InitIInv, <1>1, PTL DEF Spec

(***************************************************************************)
(* The invariants                                                           *)
(***************************************************************************)

\* The store, the log and the run in progress keep their types (TypeOK).
THEOREM BronzeTypeCorrect == Spec => []TypeOK
<1>1. IInv => TypeOK
  BY DEF IInv
<1> QED
  BY BronzeInvariant, <1>1, PTL

\* The log never holds two successes of one unit (OneSuccessPerUnit), whatever is
\* forced, lost, interrupted or ingested again.
THEOREM AtMostOneSuccess == Spec => []OneSuccessPerUnit
<1>1. IInv => OneSuccessPerUnit
  BY DEF IInv
<1> QED
  BY BronzeInvariant, <1>1, PTL

\* What a run reports as ingested is whole in the store; what it skips has an object,
\* which is whole as long as the store was never lost (ReportedUnitsStored).
THEOREM ReportsAreStored == Spec => []ReportedUnitsStored
<1>1. IInv => ReportedUnitsStored
  BY DEF IInv
<1> QED
  BY BronzeInvariant, <1>1, PTL

(***************************************************************************)
(* The action properties                                                    *)
(***************************************************************************)

\* A success enters the log only when the whole object of that batch is in the store
\* (LoggedWhenStored).
THEOREM SuccessAfterObject == Spec => LoggedWhenStored
<1> DEFINE A == \A r \in log' \ log : r.stage = STAGE /\ r.status = "SUCCESS" =>
                  \E o \in objects : o.unit = r.unit /\ o.batch = r.batch /\ o.content # Torn
<1>1. ASSUME IInv, Next
      PROVE  A
  <2> SUFFICES ASSUME NEW r \in log' \ log, r.stage = STAGE, r.status = "SUCCESS"
               PROVE  \E o \in objects : o.unit = r.unit /\ o.batch = r.batch /\ o.content # Torn
    OBVIOUS
  <2>1. RecordSuccess /\ r = Row(STAGE, "SUCCESS")
    <3>1. \A st \in {STAGE, SCHEMA_VALIDATION_STAGE}, s \in {"SUCCESS", "FAILED", "DRIFT_DETECTED"} :
            Row(st, s).stage = st /\ Row(st, s).status = s
      BY DEF Row
    <3>2. CASE Begin \/ Reject
      BY <3>1, <3>2 DEF Begin, Reject
    <3>3. CASE Report
      BY <3>1, <3>3 DEF Report, STAGE, SCHEMA_VALIDATION_STAGE
    <3>4. CASE RecordSuccess
      BY <3>4 DEF RecordSuccess, record_success_once
    <3>5. CASE ~(Begin \/ Reject \/ Report \/ RecordSuccess)
      BY <1>1, <3>5 DEF Next, IngestOne, Launch, NoSourceFile, Skip, Load, ParserError, Write,
         WriteNotVerified, Return, Abort, LoseObjects, LoseLog, ChangeSource
    <3> QED
      BY <3>2, <3>3, <3>4, <3>5
  <2>2. [unit |-> run.unit, batch |-> batch, content |-> run.content] \in objects
    BY <1>1, <2>1 DEF IInv, Written, RecordSuccess
  <2>3. run.content # Torn
    BY <1>1, <2>1, BronzeAssumption DEF IInv, Loaded, RecordSuccess, BronzeAssumption
  <2> QED
    BY <2>1, <2>2, <2>3 DEF Row
<1>2. IInv /\ [Next]_vars => [A]_vars
  BY <1>1
<1> QED
  BY BronzeInvariant, <1>2, PTL DEF Spec, LoggedWhenStored

\* The asset succeeds only if no unit is missing from the store, but for semester
\* files that did not exist (SucceededAssetIsComplete).
THEOREM SuccessIsComplete == Spec => SucceededAssetIsComplete
<1> DEFINE Complete == \A u \in Units : list_keys(u) # {} \/ (u \in SemesterScoped /\ results[u] = "NO_SOURCE_FILE")
           A == run.step = "done" /\ run'.step = "idle" /\ asset' = "succeeded" => Complete
<1>1. ASSUME IInv, Next, run.step = "done", run'.step = "idle", asset' = "succeeded"
      PROVE  Complete
  <2>1. Return
    <3>1. ~IngestOne /\ ~NoSourceFile /\ ~LoseObjects /\ ~LoseLog
      BY <1>1 DEF IngestOne, Skip, Begin, Load, Reject, ParserError, Write, WriteNotVerified,
         RecordSuccess, Report, NoSourceFile, LoseObjects, LoseLog
    <3>2. ~Abort /\ ~(\E force \in BOOLEAN : Launch(force)) /\ ~(\E u \in Units : ChangeSource(u))
      BY <1>1 DEF Abort, EndRun, Launch, ChangeSource
    <3> QED
      BY <1>1, <3>1, <3>2 DEF Next
  <2>2. ~AnyFailed
    BY <1>1, <2>1 DEF Return
  <2>3. SUFFICES ASSUME NEW u \in Units
                 PROVE  list_keys(u) # {} \/ (u \in SemesterScoped /\ results[u] = "NO_SOURCE_FILE")
    OBVIOUS
  <2>4. results[u] \in {"SUCCESS", "SKIPPED_ALREADY_INGESTED", "NO_SOURCE_FILE"}
    BY <1>1, <2>2 DEF IInv, TypeOK, Visited, Statuses, AnyFailed
  <2>5. results[u] = "NO_SOURCE_FILE" => u \in SemesterScoped
    BY <1>1 DEF IInv, Visited
  <2>6. results[u] \in {"SUCCESS", "SKIPPED_ALREADY_INGESTED"} => \E o \in list_keys(u) : TRUE
    BY <1>1 DEF IInv, ReportedUnitsStored
  <2> QED
    BY <2>4, <2>5, <2>6
<1>2. IInv /\ [Next]_vars => [A]_vars
  BY <1>1
<1> QED
  BY BronzeInvariant, <1>2, PTL DEF Spec, SucceededAssetIsComplete
\* Only a run that ingests a unit adds an object, and only of that unit.
LEMMA WhoAdds ==
  ASSUME IInv, Next
  PROVE  \/ objects' \subseteq objects /\ objects' \in {objects, {}}
         \/ /\ run.step = "write"
            /\ \E c \in Contents \cup {Torn} :
                 objects' = objects \cup {[unit |-> run.unit, batch |-> batch, content |-> c]}
<1>1. CASE Write
  BY <1>1 DEF IInv, Loaded, Write, Put
<1>2. CASE Abort
  BY <1>2 DEF Abort, Put
<1>3. CASE LoseObjects
  BY <1>3 DEF LoseObjects
<1>4. CASE WriteNotVerified
  BY <1>4 DEF IInv, Loaded, WriteNotVerified, UnverifiedOutcomes, Put
<1>5. CASE ~(Write \/ WriteNotVerified \/ Abort \/ LoseObjects)
  BY <1>5 DEF Next, IngestOne, Launch, NoSourceFile, Skip, Begin, Load, Reject, ParserError,
     RecordSuccess, Report, Return, LoseLog, ChangeSource
<1> QED
  BY <1>1, <1>2, <1>3, <1>4, <1>5

\* A run that is not forced adds nothing for a unit that is logged and stored
\* (RerunAddsNothing).
THEOREM RerunIsIdempotent == Spec => RerunAddsNothing
<1> DEFINE A == \A o \in objects' \ objects :
                  run.force \/ ~has_successful_run(o.unit) \/ list_keys(o.unit) = {}
<1>1. ASSUME IInv, Next
      PROVE  A
  BY <1>1, WhoAdds DEF IInv, Entitled
<1>2. IInv /\ [Next]_vars => [A]_vars
  BY <1>1
<1> QED
  BY BronzeInvariant, <1>2, PTL DEF Spec, RerunAddsNothing

(***************************************************************************)
(* Refinement of BronzeStore                                                *)
(***************************************************************************)

\* Ingestion times are ordered by batch, then by unit, and stay in their range.
LEMMA StampOrder ==
  ASSUME NEW o \in Object, NEW n \in Object,
         o.batch < n.batch \/ (o.batch = n.batch /\ o.unit < n.unit)
  PROVE  Stamp(o) < Stamp(n)
<1>1. /\ NumUnits \in Nat \ {0}
      /\ o.unit \in 1..NumUnits /\ n.unit \in 1..NumUnits /\ o.batch \in Nat /\ n.batch \in Nat
  BY BronzeAssumption DEF BronzeAssumption, Object, Units
<1>2. CASE o.batch = n.batch /\ o.unit < n.unit
  <2> DEFINE k == n.batch * NumUnits
  <2>1. k \in Nat /\ Stamp(o) = k + o.unit /\ Stamp(n) = k + n.unit
    BY <1>1, <1>2, SMT DEF Stamp
  <2> QED
    BY <1>1, <1>2, <2>1
<1>3. CASE o.batch < n.batch
  <2>1. PICK d \in Nat : n.batch = o.batch + 1 + d
    <3>1. n.batch - o.batch - 1 \in Nat /\ n.batch = o.batch + 1 + (n.batch - o.batch - 1)
      BY <1>1, <1>3
    <3> QED
      BY <3>1
  <2> DEFINE k == o.batch * NumUnits
             m == d * NumUnits
  <2>2. k \in Nat /\ m \in Nat
    BY <1>1, SMT
  <2>3. n.batch * NumUnits = k + NumUnits + m
    BY <1>1, <2>1, SMT
  <2>4. Stamp(o) = k + o.unit /\ Stamp(n) = k + NumUnits + m + n.unit
    BY <2>3 DEF Stamp
  <2> HIDE DEF k, m
  <2> QED
    BY <1>1, <2>2, <2>4
<1> QED
  BY <1>2, <1>3

LEMMA StampRange ==
  ASSUME NEW o \in Object
  PROVE  Stamp(o) \in 1..(MaxRuns + 1) * NumUnits
<1>1. /\ NumUnits \in Nat \ {0} /\ MaxRuns \in Nat
      /\ o.unit \in 1..NumUnits /\ o.batch \in 1..MaxRuns
  BY BronzeAssumption DEF BronzeAssumption, Object, Units
<1>2. PICK d \in Nat : MaxRuns = o.batch + d
  <2>1. MaxRuns - o.batch \in Nat /\ MaxRuns = o.batch + (MaxRuns - o.batch)
    BY <1>1
  <2> QED
    BY <2>1
<1> DEFINE k == o.batch * NumUnits
           m == d * NumUnits
<1>3. k \in Nat /\ m \in Nat /\ Stamp(o) = k + o.unit
  BY <1>1, SMT DEF Stamp
<1>4. (MaxRuns + 1) * NumUnits = k + m + NumUnits
  BY <1>1, <1>2, SMT
<1> HIDE DEF k, m
<1>5. k + o.unit \in Nat /\ 1 <= k + o.unit /\ k + o.unit <= k + m + NumUnits
  BY <1>1, <1>3
<1> QED
  BY <1>1, <1>3, <1>4, <1>5

\* Bronze implements BronzeStore (ImplementsStore): every step adds an object later
\* than all others, loses the store, or leaves it alone.
THEOREM BronzeImplementsStore == Spec => ImplementsStore
<1> DEFINE Abs(o) == [unit |-> o.unit, stamp |-> Stamp(o), content |-> o.content]
           abs == {Abs(o) : o \in objects}
<1>1. Init => Store!Init
  BY DEF Init, Store!Init
<1>2. ASSUME IInv, Next
      PROVE  Store!Next \/ abs' = abs
  <2>1. CASE objects' = objects
    BY <2>1
  <2>2. CASE objects' = {}
    BY <2>2 DEF Store!Next, Store!Lose
  <2>3. ASSUME run.step = "write", NEW c \in Contents \cup {Torn},
               objects' = objects \cup {[unit |-> run.unit, batch |-> batch, content |-> c]}
        PROVE  Store!Next
    <3> DEFINE new == [unit |-> run.unit, batch |-> batch, content |-> c]
    <3>1. new \in Object
      BY <1>2, <2>3 DEF IInv, TypeOK, Begun, Object
    <3>2. \A o \in objects : o \in Object /\ (o.batch < new.batch \/ (o.batch = new.batch /\ o.unit < new.unit))
      BY <1>2, <2>3 DEF IInv, TypeOK, Ordered
    <3> HIDE DEF new
    <3>3. \A o \in objects : Stamp(o) < Stamp(new)
      BY <3>1, <3>2, StampOrder
    <3>4. \A a \in abs : a.stamp < Stamp(new)
      BY <3>3
    <3>5. abs' = abs \cup {Abs(new)}
      BY <2>3 DEF new, Stamp
    <3>6. new.unit \in Units /\ new.content \in Contents \cup {Torn}
      BY <3>1 DEF Object
    <3>7. Stamp(new) \in 1..(MaxRuns + 1) * NumUnits
      BY <3>1, StampRange
    <3>8. PICK u \in Units, t \in 1..(MaxRuns + 1) * NumUnits, d \in Contents \cup {Torn} :
            u = new.unit /\ t = Stamp(new) /\ d = new.content
      BY <3>6, <3>7
    <3>9. Store!Add(u, t, d)
      BY <3>4, <3>5, <3>8 DEF Store!Add
    <3> QED
      BY <3>9 DEF Store!Next
  <2> QED
    BY <1>2, <2>1, <2>2, <2>3, WhoAdds
<1>3. IInv /\ [Next]_vars => [Store!Next]_abs
  <2>1. UNCHANGED vars => abs' = abs
    BY DEF vars, Stamp
  <2> QED
    BY <1>2, <2>1
<1> QED
  BY BronzeInvariant, <1>1, <1>3, PTL DEF Spec, ImplementsStore, Store!Spec
=============================================================================
