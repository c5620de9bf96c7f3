------------------------ MODULE BusinessRules_proofs ------------------------
(***************************************************************************)
(* Proofs about BusinessRules, for any tables the cleaning may leave and any *)
(* number of cleanings, runs, loads and interruptions: the tables stay what   *)
(* some cleaning has left less rows taken away, no row is lost by a first     *)
(* run, and repeating the run settles the tables.                             *)
(***************************************************************************)
EXTENDS BusinessRules, FiniteSetTheorems, SequenceTheorems, TLAPS

(***************************************************************************)
(* The inductive invariant                                                  *)
(***************************************************************************)

Dimensions == {"college", "program"}

\* Any row any cleaning may leave
Rows == UNION {UNION {b[t] : t \in DOMAIN b} : b \in Batches}

KeyOf(P) == \A p, q \in P : p.program = q.program => p = q

\* Tables are part of what some cleaning left
FilesInv ==
  /\ DOMAIN files \subseteq Tables /\ DOMAIN quarantine \subseteq Entities
  /\ \A t \in DOMAIN files : /\ IsFiniteSet(files[t])
                             /\ files[t] \subseteq UNION {RowsOf(b, t) : b \in Batches}
  /\ "program" \in DOMAIN files => KeyOf(files["program"])
  /\ DOMAIN queue \subseteq Tables
  /\ \A t \in DOMAIN queue : \E b \in Batches : t \in DOMAIN b /\ queue[t] = b[t]

\* The run is at an entity, the cleaning and the run exclude each other, and nothing has run
\* since a cleaning that is not over
PositionInv ==
  /\ pc \in {"idle", "check", "table", "quarantine"} /\ at \in 1 .. 5
  /\ pc # "idle" => Dimensions \subseteq DOMAIN files /\ DOMAIN queue = {}
  /\ pc \in {"table", "quarantine"} => CHECKED[at] \in DOMAIN files
  /\ pc = "check" => at >= 2
  /\ DOMAIN queue # {} => history.begun = 0
  /\ work.valid \cap work.bad = {}
  /\ pc = "table" => work.valid \cup work.bad = files[CHECKED[at]]

CountersInv ==
  /\ DOMAIN history = {"basis", "begun", "completed", "regated", "torn", "settledLoad"}
  /\ history.begun \in Nat /\ history.completed \in Nat
  /\ history.completed <= history.begun /\ history.begun <= used["runs"]
  /\ pc # "idle" => history.completed < history.begun
  /\ history.torn \in BOOLEAN /\ history.regated \in BOOLEAN /\ history.settledLoad \in BOOLEAN
  /\ DOMAIN used = {"refreshes", "runs", "loads", "crashes"}
  /\ \A e \in DOMAIN used : used[e] \in 0 .. Limit[e]

ReadInv ==
  /\ DOMAIN loaded = {"on", "tables"} /\ loaded.on \in BOOLEAN
  /\ loaded.tables \in Seq(SUBSET Rows) /\ Len(loaded.tables) <= 7
  /\ DOMAIN warehouse = Tables

BaseInv == FilesInv /\ PositionInv /\ CountersInv /\ ReadInv

KnownColleges(P, C) == \A p \in P : p.college \in {c.college : c \in C}

InRange(r) == r.sem \in SEMESTERS /\ r.year \in Years

LevelFits(r, p) == 1 <= r.level /\ r.level <= p.duration + BufferYears

\* What the checks of an entity leave of its rows, against the programs P
Passed(e, T, P) ==
  /\ e # "program" => \A r \in T : InRange(r)
  /\ e \in FACTS => \A r \in T : \E p \in P : p.program = r.program /\ p.college = r.college
  /\ e = "enrollment" => \A r \in T : \E p \in P : p.program = r.program /\ LevelFits(r, p)

\* The run so far: the programs have been checked, and so have the entities before this one
RunInv ==
  pc # "idle" =>
    /\ files["program"] \subseteq programs /\ KeyOf(programs)
    /\ at = 1 /\ pc = "table" => KnownColleges(work.valid, files["college"])
    /\ at > 1 \/ pc = "quarantine" => KnownColleges(files["program"], files["college"])
    /\ at > 1 /\ pc = "table" => Passed(CHECKED[at], work.valid, programs)
    /\ \A k \in 1 .. 5 :
         (k < at \/ (k = at /\ pc = "quarantine")) /\ CHECKED[k] \in DOMAIN files =>
           Passed(CHECKED[k], files[CHECKED[k]], programs)

\* What one complete run leaves of an entity, against the programs it has kept
Settled(e, T, P) ==
  /\ e # "program" => \A r \in T : InRange(r)
  /\ e = "enrollment" => \A r \in T : \A p \in P : p.program = r.program => LevelFits(r, p)

\* After a complete run the programs stay as they are, and nothing is left for the gate
SettledInv ==
  /\ ~history.regated
  /\ history.completed >= 1 =>
       /\ Dimensions \subseteq DOMAIN files
       /\ KnownColleges(files["program"], files["college"])
       /\ \A e \in Entities \cap DOMAIN files : Settled(e, files[e], files["program"])
       /\ pc # "idle" => programs = files["program"]
       /\ pc = "table" /\ at = 1 => work.valid = files["program"]
  /\ history.completed >= 2 => CollegesAgree(files)

\* What a load that began after two complete runs has read of table i
ReadSettled(i) ==
  /\ i = 1 => loaded.tables[i] = files["college"]
  /\ i = 2 => loaded.tables[i] = files["program"]
  /\ TABLES[i] \in FACTS \cup {"shifter"} => \A r \in loaded.tables[i] : r.sem \in SEMESTERS
  /\ TABLES[i] \in FACTS =>
       \A r \in loaded.tables[i] :
         \E p \in files["program"] : p.program = r.program /\ p.college = r.college

LoadInv ==
  history.settledLoad =>
    /\ history.completed >= 2
    /\ loaded.on => \A i \in 1 .. Len(loaded.tables) : ReadSettled(i)

\* The first run has every row of an entity it has not replaced in the table, and of one it
\* is replacing in the table and its hands
FirstInv ==
  history.begun = 1 /\ ~history.torn =>
    /\ DOMAIN history.basis \subseteq DOMAIN files
    /\ pc # "idle" =>
         \A k \in 1 .. 5 :
           CHECKED[k] \in DOMAIN history.basis =>
             /\ k > at \/ (k = at /\ pc # "quarantine") =>
                  history.basis[CHECKED[k]] \subseteq files[CHECKED[k]]
             /\ k = at /\ pc = "quarantine" =>
                  history.basis[CHECKED[k]] \subseteq files[CHECKED[k]] \cup work.bad
    /\ NothingLostOnFirstRun

(***************************************************************************)
(* Lemmas                                                                   *)
(***************************************************************************)

LEMMA CheckedAre ==
  /\ DOMAIN CHECKED = 1 .. 5 /\ Len(CHECKED) = 5
  /\ CHECKED[1] = "program" /\ CHECKED[2] = "enrollment" /\ CHECKED[3] = "graduation"
  /\ CHECKED[4] = "dropout" /\ CHECKED[5] = "shifter"
  /\ Entities = {"program", "enrollment", "graduation", "dropout", "shifter"}
  /\ \A i, k \in 1 .. 5 : CHECKED[i] = CHECKED[k] => i = k
  /\ \A i \in 1 .. 5 : CHECKED[i] \in Entities /\ (CHECKED[i] = "program" <=> i = 1)
  /\ \A e \in Entities : \E i \in 1 .. 5 : CHECKED[i] = e
<1>1. /\ DOMAIN CHECKED = 1 .. 5 /\ Len(CHECKED) = 5
      /\ CHECKED[1] = "program" /\ CHECKED[2] = "enrollment" /\ CHECKED[3] = "graduation"
      /\ CHECKED[4] = "dropout" /\ CHECKED[5] = "shifter"
  BY DEF CHECKED
<1>2. \A i : i \in 1 .. 5 <=> i = 1 \/ i = 2 \/ i = 3 \/ i = 4 \/ i = 5
  OBVIOUS
<1>3. Entities = {"program", "enrollment", "graduation", "dropout", "shifter"}
  BY <1>1, <1>2 DEF Entities
<1>4. \A e \in Entities : \E i \in 1 .. 5 : CHECKED[i] = e
  BY <1>1 DEF Entities
<1>5. \A i, k \in 1 .. 5 : CHECKED[i] = CHECKED[k] => i = k
  BY <1>1, <1>2
<1>6. \A i \in 1 .. 5 : CHECKED[i] \in Entities /\ (CHECKED[i] = "program" <=> i = 1)
  BY <1>1, <1>2, <1>3
<1> QED
  BY <1>1, <1>3, <1>4, <1>5, <1>6

LEMMA TablesAre ==
  /\ DOMAIN TABLES = 1 .. 7 /\ Len(TABLES) = 7
  /\ TABLES[1] = "college" /\ TABLES[2] = "program" /\ TABLES[3] = "student"
  /\ TABLES[4] = "enrollment" /\ TABLES[5] = "graduation" /\ TABLES[6] = "dropout"
  /\ TABLES[7] = "shifter"
  /\ Tables = {"college", "program", "student", "enrollment", "graduation", "dropout", "shifter"}
  /\ \A i, k \in 1 .. 7 : TABLES[i] = TABLES[k] => i = k
  /\ \A i \in 1 .. 7 : TABLES[i] \in Tables
  /\ \A i : i \in 1 .. 7 <=> i = 1 \/ i = 2 \/ i = 3 \/ i = 4 \/ i = 5 \/ i = 6 \/ i = 7
<1>1. /\ DOMAIN TABLES = 1 .. 7 /\ Len(TABLES) = 7
      /\ TABLES[1] = "college" /\ TABLES[2] = "program" /\ TABLES[3] = "student"
      /\ TABLES[4] = "enrollment" /\ TABLES[5] = "graduation" /\ TABLES[6] = "dropout"
      /\ TABLES[7] = "shifter"
  BY DEF TABLES
<1>2. \A i : i \in 1 .. 7 <=> i = 1 \/ i = 2 \/ i = 3 \/ i = 4 \/ i = 5 \/ i = 6 \/ i = 7
  OBVIOUS
<1>3. Tables = {"college", "program", "student", "enrollment", "graduation", "dropout", "shifter"}
  BY <1>1, <1>2 DEF Tables
<1>4. \A i, k \in 1 .. 7 : TABLES[i] = TABLES[k] => i = k
  BY <1>1, <1>2
<1> QED
  BY <1>1, <1>2, <1>3, <1>4

LEMMA EntitiesAreTables == Entities \subseteq Tables
  BY CheckedAre, TablesAre

\* The checks of an entity divide its rows
LEMMA Divided ==
  ASSUME NEW e, NEW T, NEW P
  PROVE  LET b == Bad(e, T, P)
             valid == T \ UNION {b[c] : c \in DOMAIN b}
         IN  /\ valid \cup AllBad(b) = T /\ valid \cap AllBad(b) = {} /\ valid \subseteq T
             /\ \A r \in valid : /\ r \notin b.college /\ r \notin b.semester /\ r \notin b.year
                                 /\ r \notin b.level
<1> DEFINE b == Bad(e, T, P)
           valid == T \ UNION {b[c] : c \in DOMAIN b}
<1>1. /\ DOMAIN b = {"college", "semester", "year", "counts", "level"}
      /\ b.college \subseteq T /\ b.semester \subseteq T /\ b.year \subseteq T
      /\ b.counts \subseteq T /\ b.level \subseteq T
  BY DEF Bad, check_program_college_consistency, check_semester_valid, check_academic_year_valid,
         check_counts_non_negative, check_year_level_valid
<1> HIDE DEF b
<1>2. UNION {b[c] : c \in DOMAIN b} = AllBad(b)
  BY <1>1 DEF AllBad
<1>3. /\ valid \cup AllBad(b) = T /\ valid \cap AllBad(b) = {} /\ valid \subseteq T
      /\ \A r \in valid : /\ r \notin b.college /\ r \notin b.semester /\ r \notin b.year
                          /\ r \notin b.level
  BY <1>1, <1>2 DEF AllBad
<1> QED
  BY <1>3 DEF b

\* What is left has passed
LEMMA LeftPassed ==
  ASSUME NEW e \in Entities \ {"program"}, NEW T, NEW P
  PROVE  LET b == Bad(e, T, P)
         IN  Passed(e, T \ UNION {b[c] : c \in DOMAIN b}, P)
<1> DEFINE b == Bad(e, T, P)
           valid == T \ UNION {b[c] : c \in DOMAIN b}
<1>1. ASSUME NEW r \in valid
      PROVE  /\ r \in T /\ r \notin b.college /\ r \notin b.semester /\ r \notin b.year
             /\ r \notin b.level
  BY Divided
<1>2. ASSUME NEW r \in valid
      PROVE  InRange(r)
  BY <1>1 DEF InRange, Bad, check_semester_valid, check_academic_year_valid
<1>3. ASSUME e \in FACTS, NEW r \in valid
      PROVE  \E p \in P : p.program = r.program /\ p.college = r.college
  BY <1>1, <1>3 DEF Bad, check_program_college_consistency
<1>4. ASSUME e = "enrollment", NEW r \in valid
      PROVE  \E p \in P : p.program = r.program /\ LevelFits(r, p)
  <2> DEFINE a == check_program_college_consistency(T, P)
             s == check_semester_valid(T \ a)
             y == check_academic_year_valid(T \ (a \cup s))
             n == check_counts_non_negative(T \ (a \cup s \cup y))
  <2>1. /\ b.college = a /\ b.semester = s /\ b.year = y /\ b.counts = n
        /\ b.level = check_year_level_valid(T \ (a \cup s \cup y \cup n), P)
    BY <1>4 DEF Bad, FACTS
  <2>2. r \in T /\ r \notin a /\ r \notin s /\ r \notin y /\ r \notin b.level
    BY <1>1, <1>4, <2>1
  <2>3. r \notin n
    <3>1. DOMAIN b = {"college", "semester", "year", "counts", "level"}
      BY DEF Bad
    <3> QED
      BY <2>1, <3>1, <1>4
  <2>4. r \in T \ (a \cup s \cup y \cup n)
    BY <2>2, <2>3
  <2> HIDE DEF a, s, y, n
  <2> QED
    BY <2>1, <2>2, <2>4 DEF check_year_level_valid, LevelFits
<1> HIDE DEF valid
<1>5. Passed(e, valid, P)
  BY <1>2, <1>3, <1>4 DEF Passed
<1> QED
  BY <1>5 DEF valid

\* Fewer rows pass as well, and so do rows beside fewer programs once they are settled
LEMMA PassedFewer ==
  ASSUME NEW e, NEW T, NEW P, Passed(e, T, P), NEW U, U \subseteq T
  PROVE  Passed(e, U, P)
  BY DEF Passed

LEMMA PassedSettles ==
  ASSUME NEW e, NEW T, NEW P, Passed(e, T, P), KeyOf(P), NEW Q, Q \subseteq P
  PROVE  Settled(e, T, Q)
<1>1. ASSUME e = "enrollment", NEW r \in T, NEW q \in Q, q.program = r.program
      PROVE  LevelFits(r, q)
  <2>1. PICK p \in P : p.program = r.program /\ LevelFits(r, p)
    BY <1>1 DEF Passed
  <2>2. q = p
    BY <2>1, <1>1 DEF KeyOf
  <2> QED
    BY <2>1, <2>2
<1> QED
  BY <1>1 DEF Passed, Settled

\* Nothing of settled rows is left for a gate, and none of it fails
LEMMA SettledPassesGate ==
  ASSUME NEW e \in Entities \ {"program"}, NEW T, IsFiniteSet(T), NEW P, Settled(e, T, P)
  PROVE  ~GateFails(e, Bad(e, T, P), T)
<1> DEFINE b == Bad(e, T, P)
<1>1. b.semester = {} /\ b.year = {}
  BY DEF Settled, InRange, Bad, check_semester_valid, check_academic_year_valid
<1>2. b.level = {}
  <2>1. CASE e # "enrollment"
    BY <2>1 DEF Bad
  <2>2. CASE e = "enrollment"
    <3> DEFINE a == check_program_college_consistency(T, P)
    <3>1. \A r \in b.level : r \in T /\ r \notin a
                              /\ ~\E p \in P : /\ p.program = r.program
                                               /\ 1 <= r.level /\ r.level <= p.duration + BufferYears
      BY <2>2 DEF Bad, FACTS, check_year_level_valid
    <3>2. \A r \in T : r \notin a => \E p \in P : p.program = r.program
      BY DEF check_program_college_consistency
    <3> HIDE DEF a, b
    <3> QED
      BY <2>2, <3>1, <3>2 DEF Settled, LevelFits
  <2> QED
    BY <2>1, <2>2
<1>3. ~Exceeds({}, T)
  <2>1. Cardinality({}) = 0 /\ Cardinality(T) \in Nat
    BY FS_EmptySet, FS_CardinalityType
  <2> QED
    BY <2>1 DEF Exceeds
<1> HIDE DEF b
<1>4. ~GateFails(e, b, T)
  BY <1>1, <1>2, <1>3 DEF GateFails
<1> QED
  BY <1>4 DEF b

(***************************************************************************)
(* Types, positions and counters                                            *)
(***************************************************************************)

LEMMA FilesKept == FilesInv /\ UNCHANGED <<files, quarantine, queue>> => FilesInv'
  BY DEF FilesInv

LEMMA ReadKept == ReadInv /\ UNCHANGED <<loaded, warehouse>> => ReadInv'
  BY DEF ReadInv

LEMMA CountersKept ==
  ASSUME CountersInv, UNCHANGED <<history, used>>, pc' = "idle" \/ pc # "idle"
  PROVE  CountersInv'
  BY DEF CountersInv

LEMMA LimitIs ==
  /\ Limit["refreshes"] \in Nat /\ Limit["runs"] \in Nat /\ Limit["loads"] \in Nat
  /\ Limit["crashes"] \in Nat
  BY RulesAssumption DEF Limit

LEMMA Used ==
  ASSUME CountersInv, NEW e \in {"refreshes", "runs", "loads", "crashes"}, Use(e)
  PROVE  /\ DOMAIN used' = {"refreshes", "runs", "loads", "crashes"}
         /\ \A k \in DOMAIN used' : used'[k] \in 0 .. Limit[k]
         /\ used["runs"] \in Nat /\ used'["runs"] \in Nat
         /\ used["runs"] <= used'["runs"]
         /\ e = "runs" => used'["runs"] = used["runs"] + 1
<1>1. /\ DOMAIN used = {"refreshes", "runs", "loads", "crashes"}
      /\ \A k \in DOMAIN used : used[k] \in 0 .. Limit[k] /\ Limit[k] \in Nat
  BY LimitIs DEF CountersInv
<1>2. used[e] < Limit[e] /\ used' = [used EXCEPT ![e] = used[e] + 1]
  BY DEF Use
<1>3. DOMAIN used' = DOMAIN used
  BY <1>2
<1>4. ASSUME NEW k \in DOMAIN used
      PROVE  /\ used'[k] \in 0 .. Limit[k] /\ used[k] <= used'[k] /\ used[k] \in Nat /\ used'[k] \in Nat
             /\ k = e => used'[k] = used[k] + 1
  <2>1. used[k] \in 0 .. Limit[k] /\ Limit[k] \in Nat
    BY <1>1
  <2>2. CASE k = e
    <3>1. used'[k] = used[k] + 1 /\ used[k] < Limit[k]
      BY <1>1, <1>2, <2>2
    <3> QED
      BY <2>1, <3>1
  <2>3. CASE k # e
    <3>1. used'[k] = used[k]
      BY <1>1, <1>2, <2>3
    <3> QED
      BY <2>1, <2>3, <3>1
  <2> QED
    BY <2>2, <2>3
<1> QED
  BY <1>1, <1>3, <1>4

LEMMA InitBase == Init => BaseInv
<1> SUFFICES ASSUME Init PROVE BaseInv
  OBVIOUS
<1>1. FilesInv
  BY DEF Init, FilesInv
<1>2. PositionInv
  BY DEF Init, PositionInv, NoWork
<1>3. CountersInv
  <2>1. \A e \in {"refreshes", "runs", "loads", "crashes"} : 0 \in 0 .. Limit[e]
    BY LimitIs
  <2> QED
    BY <2>1 DEF Init, CountersInv, NewHistory
<1>4. ReadInv
  BY DEF Init, ReadInv, NotLoading
<1> QED
  BY <1>1, <1>2, <1>3, <1>4 DEF BaseInv

LEMMA BeginBase == BaseInv /\ BeginRules => BaseInv'
<1> SUFFICES ASSUME BaseInv, BeginRules PROVE BaseInv'
  OBVIOUS
<1>1. FilesInv' /\ ReadInv'
  BY FilesKept, ReadKept DEF BaseInv, BeginRules
<1>2. /\ pc = "idle" /\ DOMAIN queue = {} /\ Dimensions \subseteq DOMAIN files
      /\ pc' = "table" /\ at' = 1 /\ UNCHANGED <<files, queue>> /\ CHECKED[at'] = "program"
  BY CheckedAre DEF BeginRules, LockFree, Dimensions
<1>3. /\ work'.valid \cap work'.bad = {}
      /\ work'.valid \cup work'.bad = files["program"]
  <2> DEFINE b == [NoneBad EXCEPT !.college = check_program_belongs_to_college(files["program"],
                                                                             files["college"])]
  <2>1. work' = [valid |-> files["program"] \ UNION {b[c] : c \in DOMAIN b}, bad |-> AllBad(b)]
    BY DEF BeginRules, Compute
  <2>2. /\ DOMAIN b = {"college", "semester", "year", "counts", "level"}
        /\ b.college \subseteq files["program"] /\ b.semester = {} /\ b.year = {}
        /\ b.counts = {} /\ b.level = {}
    BY DEF NoneBad, check_program_belongs_to_college
  <2> HIDE DEF b
  <2>3. UNION {b[c] : c \in DOMAIN b} = b.college /\ AllBad(b) = b.college
    BY <2>2 DEF AllBad
  <2> QED
    BY <2>1, <2>2, <2>3
<1>4. PositionInv'
  BY <1>2, <1>3 DEF PositionInv, Dimensions
<1>5. CountersInv'
  <2>1. /\ history' = [history EXCEPT !.begun = @ + 1,
                                      !.basis = IF history.begun = 0 THEN files ELSE @]
        /\ Use("runs")
    BY DEF BeginRules
  <2>2. /\ DOMAIN history' = DOMAIN history
        /\ history'.begun = history.begun + 1 /\ history'.completed = history.completed
        /\ history'.torn = history.torn /\ history'.regated = history.regated
        /\ history'.settledLoad = history.settledLoad
    BY <2>1 DEF BaseInv, CountersInv
  <2>3. /\ DOMAIN used' = {"refreshes", "runs", "loads", "crashes"}
        /\ \A k \in DOMAIN used' : used'[k] \in 0 .. Limit[k]
        /\ used["runs"] \in Nat /\ used'["runs"] = used["runs"] + 1
    BY <2>1, Used DEF BaseInv
  <2> QED
    BY <2>2, <2>3 DEF BaseInv, CountersInv
<1> QED
  BY <1>1, <1>4, <1>5 DEF BaseInv

\* The end of an entity: the next one, or a run completed
LEMMA EndOfEntity ==
  ASSUME BaseInv, NextEntity, pc # "idle", UNCHANGED used
  PROVE  /\ CountersInv'
         /\ \/ pc' = "check" /\ at' = at + 1 /\ at' \in 2 .. 5 /\ UNCHANGED history
            \/ pc' = "idle" /\ at' = at /\ at = 5 /\ history' = [history EXCEPT !.completed = @ + 1]
<1>1. at \in 1 .. 5 /\ Len(CHECKED) = 5
  BY CheckedAre DEF BaseInv, PositionInv
<1>2. CASE at < Len(CHECKED)
  <2>1. at' = at + 1 /\ pc' = "check" /\ UNCHANGED history
    BY <1>2 DEF NextEntity
  <2> QED
    BY <1>1, <1>2, <2>1 DEF BaseInv, CountersInv
<1>3. CASE ~(at < Len(CHECKED))
  <2>1. at' = at /\ pc' = "idle" /\ history' = [history EXCEPT !.completed = @ + 1]
    BY <1>3 DEF NextEntity
  <2>2. /\ DOMAIN history' = DOMAIN history
        /\ history'.completed = history.completed + 1 /\ history'.begun = history.begun
        /\ history'.torn = history.torn /\ history'.regated = history.regated
        /\ history'.settledLoad = history.settledLoad
    BY <2>1 DEF BaseInv, CountersInv
  <2> QED
    BY <1>1, <1>3, <2>1, <2>2 DEF BaseInv, CountersInv
<1> QED
  BY <1>2, <1>3

LEMMA SkipBase == BaseInv /\ SkipEntity => BaseInv'
<1> SUFFICES ASSUME BaseInv, SkipEntity PROVE BaseInv'
  OBVIOUS
<1>1. FilesInv' /\ ReadInv'
  BY FilesKept, ReadKept DEF BaseInv, SkipEntity
<1>2. /\ CountersInv'
      /\ \/ pc' = "check" /\ at' \in 2 .. 5 /\ UNCHANGED history
         \/ pc' = "idle" /\ at' \in 1 .. 5 /\ history' = [history EXCEPT !.completed = @ + 1]
  BY EndOfEntity DEF SkipEntity, BaseInv, PositionInv
<1>3. history'.begun = history.begun
  BY <1>2 DEF BaseInv, CountersInv
<1>4. PositionInv'
  BY <1>2, <1>3 DEF SkipEntity, BaseInv, PositionInv
<1> QED
  BY <1>1, <1>2, <1>4 DEF BaseInv

LEMMA CheckBase == BaseInv /\ CheckEntity => BaseInv'
<1> SUFFICES ASSUME BaseInv, CheckEntity PROVE BaseInv'
  OBVIOUS
<1>1. FilesInv' /\ ReadInv'
  BY FilesKept, ReadKept DEF BaseInv, CheckEntity
<1> DEFINE e == CHECKED[at]
           b == Bad(e, files[e], programs)
<1>2. CASE GateFails(e, b, files[e])
  <2>1. /\ pc' = "idle" /\ history' = [history EXCEPT !.regated = @ \/ history.completed > 0]
        /\ UNCHANGED <<files, queue, at, work, used>>
    BY <1>2 DEF CheckEntity
  <2>2. /\ DOMAIN history' = DOMAIN history
        /\ history'.begun = history.begun /\ history'.completed = history.completed
        /\ history'.torn = history.torn /\ history'.settledLoad = history.settledLoad
        /\ history'.regated = (history.regated \/ history.completed > 0)
    BY <2>1 DEF BaseInv, CountersInv
  <2>3. CountersInv'
    BY <2>1, <2>2 DEF BaseInv, CountersInv
  <2>4. PositionInv'
    BY <2>1, <2>2 DEF BaseInv, PositionInv
  <2> QED
    BY <1>1, <2>3, <2>4 DEF BaseInv
<1>3. CASE ~GateFails(e, b, files[e])
  <2>1. /\ pc = "check" /\ pc' = "table" /\ UNCHANGED <<files, queue, at, history, used>>
        /\ e \in DOMAIN files
        /\ work' = [valid |-> files[e] \ UNION {b[c] : c \in DOMAIN b}, bad |-> AllBad(b)]
    BY <1>3 DEF CheckEntity, Compute
  <2>2. work'.valid \cap work'.bad = {} /\ work'.valid \cup work'.bad = files[e]
    BY <2>1, Divided
  <2>3. CountersInv'
    BY <2>1, CountersKept DEF BaseInv
  <2>4. PositionInv'
    BY <2>1, <2>2 DEF BaseInv, PositionInv
  <2> QED
    BY <1>1, <2>3, <2>4 DEF BaseInv
<1> QED
  BY <1>2, <1>3

\* Replacing the table of an entity: rows go, and only rows of that entity
LEMMA TableStep ==
  ASSUME BaseInv, WriteTable
  PROVE  /\ CHECKED[at] \in DOMAIN files /\ DOMAIN files' = DOMAIN files
         /\ files'[CHECKED[at]] = work.valid
         /\ \A k \in DOMAIN files : k # CHECKED[at] => files'[k] = files[k]
         /\ \A t \in DOMAIN files : files'[t] \subseteq files[t]
         /\ files'["college"] = files["college"]
         /\ at = 1 => files'["program"] = work.valid
         /\ at > 1 => files'["program"] = files["program"]
<1> DEFINE e == CHECKED[at]
<1>1. pc = "table" /\ files' = Put(files, e, work.valid)
  BY DEF WriteTable
<1>2. e \in DOMAIN files /\ work.valid \subseteq files[e] /\ Dimensions \subseteq DOMAIN files
  BY <1>1 DEF BaseInv, PositionInv
<1>3. /\ DOMAIN files' = DOMAIN files /\ files'[e] = work.valid
      /\ \A k \in DOMAIN files : k # e => files'[k] = files[k]
  BY <1>1, <1>2 DEF Put
<1>4. at \in 1 .. 5 /\ (e = "program" <=> at = 1) /\ e # "college"
  BY CheckedAre DEF BaseInv, PositionInv
<1> HIDE DEF e
<1>5. files'["college"] = files["college"] /\ (at > 1 => files'["program"] = files["program"])
  BY <1>2, <1>3, <1>4 DEF Dimensions
<1>6. \A t \in DOMAIN files : files'[t] \subseteq files[t]
  BY <1>2, <1>3
<1>7. at = 1 => files'["program"] = work.valid
  BY <1>3, <1>4
<1> QED
  BY <1>2, <1>3, <1>5, <1>6, <1>7 DEF e

LEMMA TableBase == BaseInv /\ WriteTable => BaseInv'
<1> SUFFICES ASSUME BaseInv, WriteTable PROVE BaseInv'
  OBVIOUS
<1> DEFINE e == CHECKED[at]
<1>1. /\ pc = "table" /\ pc' = "quarantine" /\ files' = Put(files, e, work.valid)
      /\ UNCHANGED <<quarantine, queue, at, work, loaded, warehouse, history, used>>
  BY DEF WriteTable
<1>2. /\ e \in DOMAIN files /\ DOMAIN files' = DOMAIN files /\ files'[e] = work.valid
      /\ \A k \in DOMAIN files : k # e => files'[k] = files[k]
      /\ \A t \in DOMAIN files : files'[t] \subseteq files[t]
  BY TableStep
<1>3. FilesInv'
  <2>1. \A t \in DOMAIN files' : /\ IsFiniteSet(files'[t])
                                 /\ files'[t] \subseteq UNION {RowsOf(b, t) : b \in Batches}
    BY <1>2, FS_Subset DEF BaseInv, FilesInv
  <2>2. "program" \in DOMAIN files' => KeyOf(files'["program"])
    BY <1>2 DEF BaseInv, FilesInv, KeyOf
  <2> QED
    BY <1>1, <1>2, <2>1, <2>2 DEF BaseInv, FilesInv
<1>4. PositionInv'
  BY <1>1, <1>2 DEF BaseInv, PositionInv
<1>5. CountersInv' /\ ReadInv'
  BY <1>1, CountersKept, ReadKept DEF BaseInv
<1> QED
  BY <1>3, <1>4, <1>5 DEF BaseInv

LEMMA QuarantineBase == BaseInv /\ WriteQuarantine => BaseInv'
<1> SUFFICES ASSUME BaseInv, WriteQuarantine PROVE BaseInv'
  OBVIOUS
<1>1. /\ CountersInv'
      /\ \/ pc' = "check" /\ at' \in 2 .. 5 /\ UNCHANGED history
         \/ pc' = "idle" /\ at' \in 1 .. 5 /\ history' = [history EXCEPT !.completed = @ + 1]
  BY EndOfEntity DEF WriteQuarantine, BaseInv, PositionInv
<1>2. history'.begun = history.begun
  BY <1>1 DEF BaseInv, CountersInv
<1>3. PositionInv'
  BY <1>1, <1>2 DEF WriteQuarantine, BaseInv, PositionInv, NoWork
<1>4. FilesInv' /\ ReadInv'
  <2>1. DOMAIN quarantine' \subseteq Entities
    <3>1. CHECKED[at] \in Entities
      BY CheckedAre DEF BaseInv, PositionInv
    <3> QED
      BY <3>1 DEF Put, WriteQuarantine, BaseInv, FilesInv
  <2> QED
    BY <2>1, ReadKept DEF WriteQuarantine, BaseInv, FilesInv
<1> QED
  BY <1>1, <1>3, <1>4 DEF BaseInv

LEMMA CrashBase == BaseInv /\ (CrashRules \/ CrashRefresh) => BaseInv'
<1>1. ASSUME BaseInv, CrashRules PROVE BaseInv'
  <2>1. /\ history' = [history EXCEPT !.torn = TRUE] /\ Use("crashes") /\ pc' = "idle"
        /\ work' = NoWork /\ UNCHANGED <<files, quarantine, queue, at, loaded, warehouse>>
    BY <1>1 DEF CrashRules
  <2>2. /\ DOMAIN history' = DOMAIN history
        /\ history'.begun = history.begun /\ history'.completed = history.completed
        /\ history'.torn = TRUE /\ history'.settledLoad = history.settledLoad
        /\ history'.regated = history.regated
    BY <1>1, <2>1 DEF BaseInv, CountersInv
  <2>3. /\ DOMAIN used' = {"refreshes", "runs", "loads", "crashes"}
        /\ \A k \in DOMAIN used' : used'[k] \in 0 .. Limit[k]
        /\ used["runs"] \in Nat /\ used'["runs"] \in Nat /\ used["runs"] <= used'["runs"]
    BY <1>1, <2>1, Used DEF BaseInv
  <2>4. CountersInv'
    BY <1>1, <2>1, <2>2, <2>3 DEF BaseInv, CountersInv
  <2>5. PositionInv'
    BY <1>1, <2>1, <2>2 DEF BaseInv, PositionInv, NoWork
  <2> QED
    BY <1>1, <2>1, <2>4, <2>5, FilesKept, ReadKept DEF BaseInv
<1>2. ASSUME BaseInv, CrashRefresh PROVE BaseInv'
  <2>1. /\ DOMAIN queue' = {} /\ Use("crashes")
        /\ UNCHANGED <<files, quarantine, pc, at, work, loaded, warehouse, history>>
    BY <1>2 DEF CrashRefresh
  <2>2. /\ DOMAIN used' = {"refreshes", "runs", "loads", "crashes"}
        /\ \A k \in DOMAIN used' : used'[k] \in 0 .. Limit[k]
        /\ used["runs"] \in Nat /\ used'["runs"] \in Nat /\ used["runs"] <= used'["runs"]
    BY <1>2, <2>1, Used DEF BaseInv
  <2>3. CountersInv'
    BY <1>2, <2>1, <2>2 DEF BaseInv, CountersInv
  <2>4. PositionInv' /\ FilesInv'
    BY <1>2, <2>1 DEF BaseInv, PositionInv, FilesInv
  <2> QED
    BY <1>2, <2>1, <2>3, <2>4, ReadKept DEF BaseInv
<1> QED
  BY <1>1, <1>2

LEMMA RefreshBase ==
  ASSUME BaseInv, NEW b \in Batches, Refresh(b)
  PROVE  BaseInv'
<1>1. /\ pc = "idle" /\ queue' = b /\ history' = NewHistory /\ Use("refreshes")
      /\ UNCHANGED <<files, quarantine, pc, at, work, loaded, warehouse>>
  BY DEF Refresh, LockFree
<1>2. DOMAIN b \subseteq Tables
  BY RulesAssumption
<1>3. /\ DOMAIN used' = {"refreshes", "runs", "loads", "crashes"}
      /\ \A k \in DOMAIN used' : used'[k] \in 0 .. Limit[k] /\ used'["runs"] \in Nat
  BY <1>1, Used DEF BaseInv
<1>4. CountersInv'
  BY <1>1, <1>3 DEF CountersInv, NewHistory
<1>5. PositionInv'
  BY <1>1 DEF BaseInv, PositionInv, NewHistory
<1>6. FilesInv'
  BY <1>1, <1>2 DEF BaseInv, FilesInv
<1> QED
  BY <1>1, <1>4, <1>5, <1>6, ReadKept DEF BaseInv

LEMMA RefreshTableBase == BaseInv /\ RefreshTable => BaseInv'
<1> SUFFICES ASSUME BaseInv, RefreshTable PROVE BaseInv'
  OBVIOUS
<1>1. PICK i \in DOMAIN TABLES :
        /\ TABLES[i] \in DOMAIN queue
        /\ files' = Put(files, TABLES[i], queue[TABLES[i]])
        /\ queue' = [t \in DOMAIN queue \ {TABLES[i]} |-> queue[t]]
  BY DEF RefreshTable
<1> DEFINE n == TABLES[i]
<1>2. /\ pc = "idle" /\ history.begun = 0
      /\ UNCHANGED <<quarantine, pc, at, work, loaded, warehouse, history, used>>
  BY <1>1 DEF RefreshTable, BaseInv, PositionInv
<1>3. PICK b \in Batches : n \in DOMAIN b /\ queue[n] = b[n]
  BY <1>1 DEF BaseInv, FilesInv
<1>4. /\ IsFiniteSet(b[n]) /\ n \in Tables /\ (n = "program" => KeyOf(b[n]))
      /\ b[n] \subseteq UNION {RowsOf(c, n) : c \in Batches}
  BY <1>1, <1>3, RulesAssumption DEF KeyOf, RowsOf
<1>5. /\ DOMAIN files' = DOMAIN files \cup {n} /\ files'[n] = b[n]
      /\ \A k \in DOMAIN files : k # n => files'[k] = files[k]
  BY <1>1, <1>3 DEF Put
<1>6. FilesInv'
  <2>1. \A t \in DOMAIN files' : /\ IsFiniteSet(files'[t])
                                 /\ files'[t] \subseteq UNION {RowsOf(c, t) : c \in Batches}
    BY <1>4, <1>5 DEF BaseInv, FilesInv
  <2>2. "program" \in DOMAIN files' => KeyOf(files'["program"])
    BY <1>4, <1>5 DEF BaseInv, FilesInv
  <2>3. DOMAIN queue' \subseteq DOMAIN queue /\ \A t \in DOMAIN queue' : queue'[t] = queue[t]
    BY <1>1
  <2> QED
    BY <1>2, <1>4, <1>5, <2>1, <2>2, <2>3 DEF BaseInv, FilesInv
<1>7. PositionInv'
  BY <1>2 DEF BaseInv, PositionInv
<1> QED
  BY <1>2, <1>6, <1>7, CountersKept, ReadKept DEF BaseInv

LEMMA FilesAreRows ==
  ASSUME FilesInv, NEW t \in DOMAIN files
  PROVE  files[t] \in SUBSET Rows
  BY DEF FilesInv, RowsOf, Rows

LEMMA BeginLoadBase == BaseInv /\ BeginLoad => BaseInv'
<1> SUFFICES ASSUME BaseInv, BeginLoad PROVE BaseInv'
  OBVIOUS
<1>1. /\ loaded' = [NotLoading EXCEPT !.on = TRUE] /\ Use("loads")
      /\ history' = [history EXCEPT !.settledLoad = history.completed >= 2]
      /\ UNCHANGED <<files, quarantine, queue, pc, at, work, warehouse>>
  BY DEF BeginLoad
<1>2. /\ DOMAIN history' = DOMAIN history
      /\ history'.begun = history.begun /\ history'.completed = history.completed
      /\ history'.torn = history.torn /\ history'.regated = history.regated
      /\ history'.settledLoad = (history.completed >= 2)
  BY <1>1 DEF BaseInv, CountersInv
<1>3. /\ DOMAIN used' = {"refreshes", "runs", "loads", "crashes"}
      /\ \A k \in DOMAIN used' : used'[k] \in 0 .. Limit[k]
      /\ used["runs"] \in Nat /\ used'["runs"] \in Nat /\ used["runs"] <= used'["runs"]
  BY <1>1, Used DEF BaseInv
<1>4. CountersInv'
  BY <1>1, <1>2, <1>3 DEF BaseInv, CountersInv
<1>5. PositionInv' /\ FilesInv'
  BY <1>1, <1>2, FilesKept DEF BaseInv, PositionInv
<1>6. ReadInv'
  BY <1>1 DEF BaseInv, ReadInv, NotLoading
<1> QED
  BY <1>4, <1>5, <1>6 DEF BaseInv

\* Reading one table more
LEMMA ReadOne ==
  ASSUME BaseInv, ReadTable, TABLES[Len(loaded.tables) + 1] \in DOMAIN files
  PROVE  /\ loaded.on /\ loaded'.on = loaded.on /\ DOMAIN loaded' = {"on", "tables"}
         /\ loaded'.tables \in Seq(SUBSET Rows)
         /\ Len(loaded'.tables) = Len(loaded.tables) + 1
         /\ Len(loaded'.tables) \in 1 .. 7 /\ Len(loaded'.tables) <= 7
         /\ \A i \in 1 .. Len(loaded.tables) : loaded'.tables[i] = loaded.tables[i]
         /\ loaded'.tables[Len(loaded'.tables)] = files[TABLES[Len(loaded'.tables)]]
<1> DEFINE t == TABLES[Len(loaded.tables) + 1]
<1>1. /\ loaded.on /\ Len(loaded.tables) < 7
      /\ loaded' = [loaded EXCEPT !.tables = Append(loaded.tables, files[t])]
  BY TablesAre DEF ReadTable
<1>2. /\ loaded'.on = loaded.on /\ DOMAIN loaded' = {"on", "tables"}
      /\ loaded'.tables = Append(loaded.tables, files[t])
  BY <1>1 DEF BaseInv, ReadInv
<1>3. files[t] \in SUBSET Rows /\ loaded.tables \in Seq(SUBSET Rows)
  BY FilesAreRows DEF BaseInv, ReadInv
<1>4. /\ Len(loaded.tables) \in Nat /\ Len(loaded'.tables) = Len(loaded.tables) + 1
      /\ loaded'.tables \in Seq(SUBSET Rows)
      /\ \A i \in 1 .. Len(loaded.tables) : loaded'.tables[i] = loaded.tables[i]
      /\ loaded'.tables[Len(loaded.tables) + 1] = files[t]
  BY <1>2, <1>3, AppendProperties, LenProperties
<1> HIDE DEF t
<1>5. Len(loaded'.tables) \in 1 .. 7 /\ Len(loaded'.tables) <= 7
  BY <1>1, <1>4
<1> QED
  BY <1>1, <1>2, <1>4, <1>5 DEF t

LEMMA ReadTableBase == BaseInv /\ ReadTable => BaseInv'
<1> SUFFICES ASSUME BaseInv, ReadTable PROVE BaseInv'
  OBVIOUS
<1>1. UNCHANGED <<files, quarantine, queue, pc, at, work, warehouse, history, used>>
  BY DEF ReadTable
<1>2. FilesInv' /\ PositionInv' /\ CountersInv'
  BY <1>1, FilesKept, CountersKept DEF BaseInv, PositionInv, CountersInv
<1>3. CASE TABLES[Len(loaded.tables) + 1] \in DOMAIN files
  <2>1. loaded'.on = loaded.on
    BY <1>3, ReadOne
  <2>2. /\ DOMAIN loaded' = {"on", "tables"} /\ loaded'.tables \in Seq(SUBSET Rows)
        /\ Len(loaded'.tables) <= 7
    BY <1>3, ReadOne
  <2>3. loaded'.on \in BOOLEAN
    <3>1. loaded.on \in BOOLEAN
      BY DEF BaseInv, ReadInv
    <3> QED
      BY <2>1, <3>1, Zenon
  <2>4. Len(loaded'.tables) <= 7
    BY <2>2, Zenon
  <2>5. DOMAIN warehouse' = Tables
    BY <1>1 DEF BaseInv, ReadInv
  <2>6. ReadInv'
    BY <2>3, <2>4, <2>5, <2>2, Zenon DEF ReadInv
  <2> QED
    BY <1>2, <2>6 DEF BaseInv
<1>4. CASE ~(TABLES[Len(loaded.tables) + 1] \in DOMAIN files)
  <2>1. loaded' = NotLoading
    BY <1>4 DEF ReadTable
  <2> QED
    BY <1>1, <1>2, <2>1 DEF BaseInv, ReadInv, NotLoading
<1> QED
  BY <1>3, <1>4

LEMMA CommitLoadBase == BaseInv /\ CommitLoad => BaseInv'
<1> SUFFICES ASSUME BaseInv, CommitLoad PROVE BaseInv'
  OBVIOUS
<1>1. /\ UNCHANGED <<files, quarantine, queue, pc, at, work, history, used>>
      /\ loaded' = NotLoading /\ warehouse' \in {Read, warehouse}
  BY DEF CommitLoad
<1>2. FilesInv' /\ PositionInv' /\ CountersInv'
  BY <1>1, FilesKept, CountersKept DEF BaseInv, PositionInv, CountersInv
<1>3. DOMAIN warehouse' = Tables
  BY <1>1 DEF Read, BaseInv, ReadInv
<1> QED
  BY <1>1, <1>2, <1>3 DEF BaseInv, ReadInv, NotLoading

LEMMA MissingBase == BaseInv /\ MissingDimension => BaseInv'
<1> SUFFICES ASSUME BaseInv, MissingDimension PROVE BaseInv'
  OBVIOUS
<1>1. /\ UNCHANGED <<files, quarantine, queue, pc, at, work, loaded, warehouse, history>>
      /\ Use("runs")
  BY DEF MissingDimension
<1>2. /\ DOMAIN used' = {"refreshes", "runs", "loads", "crashes"}
      /\ \A k \in DOMAIN used' : used'[k] \in 0 .. Limit[k]
      /\ used["runs"] \in Nat /\ used'["runs"] \in Nat /\ used["runs"] <= used'["runs"]
  BY <1>1, Used DEF BaseInv
<1>3. CountersInv'
  BY <1>1, <1>2 DEF BaseInv, CountersInv
<1>4. PositionInv'
  BY <1>1 DEF BaseInv, PositionInv
<1> QED
  BY <1>1, <1>3, <1>4, FilesKept, ReadKept DEF BaseInv

LEMMA NextBase == BaseInv /\ [Next]_vars => BaseInv'
<1> SUFFICES ASSUME BaseInv, [Next]_vars PROVE BaseInv'
  OBVIOUS
<1>1. CASE UNCHANGED vars
  BY <1>1, FilesKept, ReadKept DEF vars, BaseInv, PositionInv, CountersInv
<1>2. ASSUME NEW b \in Batches, Refresh(b) PROVE BaseInv'
  BY <1>2, RefreshBase
<1> QED
  BY <1>1, <1>2, BeginBase, MissingBase, SkipBase, CheckBase, TableBase, QuarantineBase, CrashBase,
     RefreshTableBase, BeginLoadBase, ReadTableBase, CommitLoadBase DEF Next

LEMMA AlwaysBase == Spec => []BaseInv
<1> QED
  BY InitBase, NextBase, PTL DEF Spec

\* In every reachable state files, quarantine and warehouse hold tables the module has, files
\* only rows that some cleaning left, a run or a cleaning that holds the lock of the log
\* excludes the other (business_rules.py and run_silver.py open the log for as long as they
\* run), and the counters of the history do not outrun the number of runs.
THEOREM RulesTypeCorrect == Spec => []TypeOK
<1>1. ASSUME BaseInv PROVE TypeOK
  <2>1. DOMAIN Limit = {"refreshes", "runs", "loads", "crashes"} /\ Limit["runs"] = MaxRuns
    BY DEF Limit
  <2>2. history.begun <= MaxRuns
    <3>1. used["runs"] \in 0 .. MaxRuns /\ history.begun <= used["runs"] /\ history.begun \in Nat
      BY <1>1, <2>1 DEF BaseInv, CountersInv
    <3> QED
      BY <3>1, RulesAssumption
  <2>3. Len(TABLES) = 7 /\ DOMAIN CHECKED = 1 .. 5
    BY TablesAre, CheckedAre
  <2> QED
    BY <1>1, <2>1, <2>2, <2>3 DEF BaseInv, FilesInv, PositionInv, CountersInv, ReadInv, TypeOK, Dimensions
<1> QED
  BY <1>1, AlwaysBase, PTL

(***************************************************************************)
(* What a run has checked                                                   *)
(***************************************************************************)

LEMMA RunKept == RunInv /\ UNCHANGED <<files, pc, at, programs, work>> => RunInv'
  BY DEF RunInv

LEMMA BeginRun == BaseInv /\ BeginRules => RunInv'
<1> SUFFICES ASSUME BaseInv, BeginRules PROVE RunInv'
  OBVIOUS
<1> DEFINE gone == check_program_belongs_to_college(files["program"], files["college"])
           b == [NoneBad EXCEPT !.college = gone]
<1>1. /\ pc' = "table" /\ at' = 1 /\ UNCHANGED files /\ programs' = files["program"]
      /\ work' = [valid |-> files["program"] \ UNION {b[c] : c \in DOMAIN b}, bad |-> AllBad(b)]
      /\ "program" \in DOMAIN files
  BY DEF BeginRules, Compute
<1>2. b.college = gone /\ "college" \in DOMAIN b
  BY DEF NoneBad
<1> HIDE DEF b
<1>3. KnownColleges(work'.valid, files["college"])
  BY <1>1, <1>2 DEF KnownColleges, check_program_belongs_to_college
<1>4. KeyOf(programs')
  BY <1>1 DEF BaseInv, FilesInv
<1> QED
  BY <1>1, <1>3, <1>4 DEF RunInv

LEMMA CheckRun == BaseInv /\ RunInv /\ CheckEntity => RunInv'
<1> SUFFICES ASSUME BaseInv, RunInv, CheckEntity, pc' # "idle" PROVE RunInv'
  BY DEF RunInv
<1> DEFINE e == CHECKED[at]
           b == Bad(e, files[e], programs)
<1>1. /\ pc = "check" /\ pc' = "table" /\ UNCHANGED <<files, at, programs>>
      /\ work' = [valid |-> files[e] \ UNION {b[c] : c \in DOMAIN b}, bad |-> AllBad(b)]
  BY DEF CheckEntity, Compute
<1>2. at \in 2 .. 5 /\ e \in Entities \ {"program"}
  BY <1>1, CheckedAre DEF BaseInv, PositionInv
<1>3. Passed(e, work'.valid, programs)
  BY <1>1, <1>2, LeftPassed
<1> HIDE DEF b
<1> QED
  BY <1>1, <1>2, <1>3 DEF RunInv

LEMMA TableRun == BaseInv /\ RunInv /\ WriteTable => RunInv'
<1> SUFFICES ASSUME BaseInv, RunInv, WriteTable PROVE RunInv'
  OBVIOUS
<1>1. pc = "table" /\ pc' = "quarantine" /\ UNCHANGED <<at, programs, work>> /\ at \in 1 .. 5
  BY DEF WriteTable, BaseInv, PositionInv
<1>2. /\ DOMAIN files' = DOMAIN files /\ Dimensions \subseteq DOMAIN files
      /\ files'[CHECKED[at]] = work.valid
      /\ \A k \in DOMAIN files : k # CHECKED[at] => files'[k] = files[k]
      /\ files'["program"] \subseteq files["program"]
      /\ files'["college"] = files["college"]
      /\ at = 1 => files'["program"] = work.valid
      /\ at > 1 => files'["program"] = files["program"]
  BY <1>1, TableStep DEF BaseInv, PositionInv, Dimensions
<1>3. KnownColleges(files'["program"], files'["college"])
  BY <1>1, <1>2 DEF RunInv
<1>4. ASSUME NEW k \in 1 .. 5, k <= at, CHECKED[k] \in DOMAIN files
      PROVE  Passed(CHECKED[k], files'[CHECKED[k]], programs)
  <2>1. CASE k < at
    <3>1. CHECKED[k] # CHECKED[at]
      BY <1>1, <2>1, CheckedAre
    <3> QED
      BY <1>1, <1>2, <1>4, <2>1, <3>1 DEF RunInv
  <2>2. CASE k = at /\ at > 1
    BY <1>1, <1>2, <2>2 DEF RunInv
  <2>3. CASE k = at /\ at = 1
    BY <2>3, CheckedAre DEF Passed, FACTS
  <2> QED
    BY <1>1, <1>4, <2>1, <2>2, <2>3
<1>5. files'["program"] \subseteq programs /\ KeyOf(programs)
  BY <1>1, <1>2 DEF RunInv
<1> QED
  BY <1>1, <1>2, <1>3, <1>4, <1>5 DEF RunInv

\* The entities before the next one are checked, for one that is passed over has no table
LEMMA NextRun ==
  ASSUME BaseInv, RunInv, NextEntity, UNCHANGED <<files, programs>>, pc # "idle",
         pc = "quarantine" \/ (pc = "check" /\ CHECKED[at] \notin DOMAIN files), UNCHANGED used
  PROVE  RunInv'
<1>1. CASE pc' = "idle"
  BY <1>1 DEF RunInv
<1>2. CASE pc' = "check" /\ at' = at + 1
  <2>1. at \in 1 .. 5 /\ (pc = "check" => at > 1)
    BY DEF BaseInv, PositionInv
  <2> QED
    BY <1>2, <2>1 DEF RunInv
<1> QED
  BY <1>1, <1>2, EndOfEntity

LEMMA NextRunInv == BaseInv /\ RunInv /\ [Next]_vars => RunInv'
<1> SUFFICES ASSUME BaseInv, RunInv, [Next]_vars PROVE RunInv'
  OBVIOUS
<1>1. ASSUME SkipEntity PROVE RunInv'
  BY <1>1, NextRun DEF SkipEntity
<1>2. ASSUME WriteQuarantine PROVE RunInv'
  BY <1>2, NextRun DEF WriteQuarantine
<1>3. ASSUME CrashRules PROVE RunInv'
  BY <1>3 DEF CrashRules, RunInv
<1>4. ASSUME NEW b \in Batches, Refresh(b) PROVE RunInv'
  BY <1>4 DEF Refresh, LockFree, RunInv
<1>5. ASSUME RefreshTable \/ CrashRefresh PROVE RunInv'
  <2>1. DOMAIN queue # {} /\ UNCHANGED pc
    BY <1>5 DEF RefreshTable, CrashRefresh
  <2> QED
    BY <2>1 DEF BaseInv, PositionInv, RunInv
<1>6. ASSUME MissingDimension \/ BeginLoad \/ ReadTable \/ CommitLoad PROVE RunInv'
  BY <1>6, RunKept DEF MissingDimension, BeginLoad, ReadTable, CommitLoad
<1>7. ASSUME UNCHANGED vars PROVE RunInv'
  BY <1>7, RunKept DEF vars
<1> QED
  BY <1>1, <1>2, <1>3, <1>4, <1>5, <1>6, <1>7, BeginRun, CheckRun, TableRun DEF Next

(***************************************************************************)
(* What complete runs leave                                                 *)
(***************************************************************************)

LEMMA FactsAre == FACTS \subseteq Entities \ {"program"} /\ FACTS \cup {"shifter"} \subseteq Entities
  BY CheckedAre DEF FACTS

LEMMA SettledKept ==
  ASSUME SettledInv, UNCHANGED <<files, programs, work, pc, at>>,
         history'.completed = history.completed, history'.regated = history.regated
  PROVE  SettledInv'
  BY DEF SettledInv

\* The cleaning undoes what runs have settled, and is not over while the queue is not empty
LEMMA NoneCompleted ==
  ASSUME BaseInv, DOMAIN queue # {}
  PROVE  pc = "idle" /\ history.begun = 0 /\ history.completed = 0
  BY DEF BaseInv, PositionInv, CountersInv

LEMMA BeginSettled == BaseInv /\ SettledInv /\ BeginRules => SettledInv'
<1> SUFFICES ASSUME BaseInv, SettledInv, BeginRules PROVE SettledInv'
  OBVIOUS
<1> DEFINE gone == check_program_belongs_to_college(files["program"], files["college"])
           b == [NoneBad EXCEPT !.college = gone]
<1>1. /\ UNCHANGED files /\ programs' = files["program"]
      /\ work'.valid = files["program"] \ UNION {b[c] : c \in DOMAIN b}
      /\ history' = [history EXCEPT !.begun = @ + 1,
                                    !.basis = IF history.begun = 0 THEN files ELSE @]
  BY DEF BeginRules, Compute
<1>2. history'.completed = history.completed /\ history'.regated = history.regated
  BY <1>1 DEF BaseInv, CountersInv
<1>3. ASSUME history.completed >= 1 PROVE work'.valid = files["program"]
  <2>1. gone = {}
    BY <1>3 DEF SettledInv, KnownColleges, check_program_belongs_to_college
  <2>2. \A c \in DOMAIN b : b[c] = {}
    BY <2>1 DEF NoneBad
  <2> HIDE DEF b
  <2> QED
    BY <1>1, <2>2
<1> HIDE DEF b
<1> QED
  BY <1>1, <1>2, <1>3 DEF SettledInv

LEMMA CheckSettled == BaseInv /\ SettledInv /\ CheckEntity => SettledInv'
<1> SUFFICES ASSUME BaseInv, SettledInv, CheckEntity PROVE SettledInv'
  OBVIOUS
<1> DEFINE e == CHECKED[at]
           b == Bad(e, files[e], programs)
<1>1. pc = "check" /\ UNCHANGED <<files, programs, at>> /\ e \in DOMAIN files
  BY DEF CheckEntity
<1>2. at \in 2 .. 5 /\ e \in Entities \ {"program"} /\ IsFiniteSet(files[e])
  BY <1>1, CheckedAre DEF BaseInv, PositionInv, FilesInv
<1>3. CASE GateFails(e, b, files[e])
  <2>1. ~(history.completed >= 1)
    <3>1. ASSUME history.completed >= 1 PROVE Settled(e, files[e], programs)
      BY <1>1, <1>2, <3>1 DEF SettledInv
    <3> QED
      BY <1>2, <1>3, <3>1, SettledPassesGate
  <2>2. pc' = "idle" /\ history' = [history EXCEPT !.regated = @ \/ history.completed > 0]
    BY <1>3 DEF CheckEntity
  <2>3. history'.completed = history.completed /\ history.completed \in Nat
    BY <2>2 DEF BaseInv, CountersInv
  <2>4. ~history'.regated
    <3>1. history'.regated = (history.regated \/ history.completed > 0)
      BY <2>2 DEF BaseInv, CountersInv
    <3>2. ~(history.completed > 0)
      BY <2>1, <2>3
    <3> QED
      BY <3>1, <3>2 DEF SettledInv
  <2> QED
    BY <2>1, <2>3, <2>4 DEF SettledInv
<1>4. CASE ~GateFails(e, b, files[e])
  <2>1. UNCHANGED history
    BY <1>4 DEF CheckEntity
  <2> QED
    BY <1>1, <1>2, <2>1 DEF SettledInv
<1> QED
  BY <1>3, <1>4

\* A later run takes rows away, never a program
LEMMA TableSettled == BaseInv /\ SettledInv /\ WriteTable => SettledInv'
<1> SUFFICES ASSUME BaseInv, SettledInv, WriteTable PROVE SettledInv'
  OBVIOUS
<1>1. /\ pc = "table" /\ pc' = "quarantine" /\ UNCHANGED <<at, programs, work, history>>
      /\ at \in 1 .. 5
  BY DEF WriteTable, BaseInv, PositionInv
<1> SUFFICES ASSUME history.completed >= 1 PROVE SettledInv'
  <2>1. history.completed \in Nat
    BY DEF BaseInv, CountersInv
  <2> QED
    BY <1>1, <2>1 DEF SettledInv
<1>2. /\ DOMAIN files' = DOMAIN files /\ files'["college"] = files["college"]
      /\ \A t \in DOMAIN files : files'[t] \subseteq files[t]
  BY TableStep
<1>3. files'["program"] = files["program"]
  BY <1>1, TableStep DEF SettledInv
<1>4. \A e \in Entities \cap DOMAIN files' : Settled(e, files'[e], files'["program"])
  BY <1>2, <1>3 DEF SettledInv, Settled
<1>5. history.completed >= 2 => CollegesAgree(files')
  BY <1>2, <1>3 DEF SettledInv, CollegesAgree, RowsOf
<1> QED
  BY <1>1, <1>2, <1>3, <1>4, <1>5 DEF SettledInv

\* The end of a run settles what it has checked
LEMMA CompletedSettles ==
  ASSUME BaseInv, RunInv, SettledInv, UNCHANGED <<files, programs>>, pc # "idle", at = 5,
         pc = "quarantine" \/ (pc = "check" /\ CHECKED[at] \notin DOMAIN files),
         pc' = "idle", history' = [history EXCEPT !.completed = @ + 1]
  PROVE  SettledInv'
<1>1. /\ history'.completed = history.completed + 1 /\ history'.regated = history.regated
      /\ history.completed \in Nat /\ Dimensions \subseteq DOMAIN files
  BY DEF BaseInv, CountersInv, PositionInv
<1>2. \A e \in Entities \cap DOMAIN files : Passed(e, files[e], programs)
  <2> SUFFICES ASSUME NEW e \in Entities \cap DOMAIN files PROVE Passed(e, files[e], programs)
    OBVIOUS
  <2>1. PICK k \in 1 .. 5 : CHECKED[k] = e
    BY CheckedAre
  <2>2. k < at \/ (k = at /\ pc = "quarantine")
    BY <2>1
  <2> QED
    BY <2>1, <2>2 DEF RunInv
<1>3. /\ files["program"] \subseteq programs /\ KeyOf(programs)
      /\ KnownColleges(files["program"], files["college"])
  BY DEF RunInv
<1>4. \A e \in Entities \cap DOMAIN files : Settled(e, files[e], files["program"])
  BY <1>2, <1>3, PassedSettles
<1>5. history.completed >= 1 => CollegesAgree(files)
  <2> SUFFICES ASSUME history.completed >= 1, NEW e \in FACTS, NEW r \in RowsOf(files, e)
               PROVE  \E p \in files["program"] : p.program = r.program /\ p.college = r.college
    BY DEF CollegesAgree
  <2>1. e \in Entities \cap DOMAIN files /\ r \in files[e]
    BY FactsAre DEF RowsOf
  <2>2. programs = files["program"]
    BY DEF SettledInv
  <2> QED
    BY <1>2, <2>1, <2>2 DEF Passed
<1> QED
  BY <1>1, <1>3, <1>4, <1>5 DEF SettledInv

LEMMA EndSettled ==
  ASSUME BaseInv, RunInv, SettledInv, NextEntity, UNCHANGED <<files, programs>>, pc # "idle",
         pc = "quarantine" \/ (pc = "check" /\ CHECKED[at] \notin DOMAIN files), UNCHANGED used
  PROVE  SettledInv'
<1>1. CASE pc' = "check" /\ UNCHANGED history
  BY <1>1 DEF SettledInv
<1>2. CASE pc' = "idle" /\ at = 5 /\ history' = [history EXCEPT !.completed = @ + 1]
  BY <1>2, CompletedSettles
<1> QED
  BY <1>1, <1>2, EndOfEntity

LEMMA NextSettled == BaseInv /\ RunInv /\ SettledInv /\ [Next]_vars => SettledInv'
<1> SUFFICES ASSUME BaseInv, RunInv, SettledInv, [Next]_vars PROVE SettledInv'
  OBVIOUS
<1>1. ASSUME SkipEntity PROVE SettledInv'
  BY <1>1, EndSettled DEF SkipEntity
<1>2. ASSUME WriteQuarantine PROVE SettledInv'
  BY <1>2, EndSettled DEF WriteQuarantine
<1>3. ASSUME CrashRules PROVE SettledInv'
  <2>1. history'.completed = history.completed /\ history'.regated = history.regated
    BY <1>3 DEF CrashRules, BaseInv, CountersInv
  <2> QED
    BY <1>3, <2>1 DEF CrashRules, SettledInv
<1>4. ASSUME NEW b \in Batches, Refresh(b) PROVE SettledInv'
  BY <1>4 DEF Refresh, NewHistory, SettledInv
<1>5. ASSUME RefreshTable \/ CrashRefresh PROVE SettledInv'
  <2>1. history.completed = 0 /\ UNCHANGED history
    BY <1>5, NoneCompleted DEF RefreshTable, CrashRefresh
  <2> QED
    BY <2>1 DEF SettledInv
<1>6. ASSUME BeginLoad PROVE SettledInv'
  <2>1. history'.completed = history.completed /\ history'.regated = history.regated
    BY <1>6 DEF BeginLoad, BaseInv, CountersInv
  <2> QED
    BY <1>6, <2>1, SettledKept DEF BeginLoad
<1>7. ASSUME MissingDimension \/ ReadTable \/ CommitLoad PROVE SettledInv'
  BY <1>7, SettledKept DEF MissingDimension, ReadTable, CommitLoad
<1>8. ASSUME UNCHANGED vars PROVE SettledInv'
  BY <1>8, SettledKept DEF vars
<1> QED
  BY <1>1, <1>2, <1>3, <1>4, <1>5, <1>6, <1>7, <1>8, BeginSettled, CheckSettled, TableSettled DEF Next

(***************************************************************************)
(* What a load reads of settled tables                                      *)
(***************************************************************************)

LEMMA LoadKept ==
  ASSUME LoadInv, UNCHANGED <<files, loaded>>, history'.settledLoad = history.settledLoad,
         history.completed \in Nat,
         history'.completed = history.completed \/ history'.completed = history.completed + 1
  PROVE  LoadInv'
<1> SUFFICES ASSUME history'.settledLoad PROVE LoadInv'
  BY DEF LoadInv
<1>1. history.completed >= 2 /\ history'.completed >= 2
  BY DEF LoadInv
<1> QED
  BY <1>1 DEF LoadInv, ReadSettled

\* The load does not exclude the checks, but they leave what it has read of the dimensions
LEMMA TableLoad == BaseInv /\ SettledInv /\ LoadInv /\ WriteTable => LoadInv'
<1> SUFFICES ASSUME BaseInv, SettledInv, LoadInv, WriteTable, history.settledLoad PROVE LoadInv'
  BY DEF WriteTable, LoadInv
<1>1. pc = "table" /\ UNCHANGED <<loaded, history>> /\ at \in 1 .. 5 /\ history.completed >= 2
  BY DEF WriteTable, BaseInv, PositionInv, LoadInv
<1>2. history.completed \in Nat
  BY DEF BaseInv, CountersInv
<1>3. files'["program"] = files["program"] /\ files'["college"] = files["college"]
  BY <1>1, <1>2, TableStep DEF SettledInv
<1> QED
  BY <1>1, <1>3 DEF LoadInv, ReadSettled

LEMMA ReadLoad == BaseInv /\ SettledInv /\ LoadInv /\ ReadTable => LoadInv'
<1> SUFFICES ASSUME BaseInv, SettledInv, LoadInv, ReadTable, history.settledLoad PROVE LoadInv'
  BY DEF ReadTable, LoadInv
<1>1. UNCHANGED <<files, history>> /\ loaded.on /\ history.completed >= 2
  BY DEF ReadTable, LoadInv
<1>2. CASE TABLES[Len(loaded.tables) + 1] \notin DOMAIN files
  <2>1. loaded' = NotLoading
    BY <1>2 DEF ReadTable
  <2> QED
    BY <1>1, <2>1 DEF LoadInv, NotLoading
<1>3. CASE TABLES[Len(loaded.tables) + 1] \in DOMAIN files
  <2>0. PICK n \in 1 .. 7 : n = Len(loaded'.tables)
    BY <1>3, ReadOne
  <2> DEFINE t == TABLES[n]
  <2>1. /\ n = Len(loaded.tables) + 1 /\ loaded'.tables[n] = files[t]
        /\ \A i \in 1 .. Len(loaded.tables) : loaded'.tables[i] = loaded.tables[i]
    BY <1>3, <2>0, ReadOne
  <2>2. Len(loaded.tables) \in Nat
    BY LenProperties DEF BaseInv, ReadInv
  <2>3. t \in DOMAIN files
    BY <1>3, <2>1
  <2>4. ASSUME t \in FACTS \cup {"shifter"} PROVE \A r \in files[t] : r.sem \in SEMESTERS
    <3>1. t \in Entities /\ t # "program"
      BY <2>4, FactsAre, CheckedAre DEF FACTS
    <3>2. Settled(t, files[t], files["program"])
      BY <1>1, <2>3, <3>1 DEF SettledInv, BaseInv, CountersInv
    <3> QED
      BY <3>1, <3>2 DEF Settled, InRange
  <2>5. ASSUME t \in FACTS
        PROVE  \A r \in files[t] :
                 \E p \in files["program"] : p.program = r.program /\ p.college = r.college
    BY <1>1, <2>3, <2>5 DEF SettledInv, CollegesAgree, RowsOf
  <2>6. ReadSettled(n)'
    <3>1. n = 1 => t = "college"
      BY TablesAre
    <3>2. n = 2 => t = "program"
      BY TablesAre
    <3> QED
      BY <1>1, <2>1, <2>4, <2>5, <3>1, <3>2 DEF ReadSettled
  <2>7. ASSUME NEW i \in 1 .. Len(loaded.tables) PROVE ReadSettled(i)'
    <3>1. ReadSettled(i)
      BY <1>1 DEF LoadInv
    <3> QED
      BY <1>1, <2>1, <3>1 DEF ReadSettled
  <2>8. \A i \in 1 .. n : ReadSettled(i)'
    <3>1. \A i \in 1 .. n : i = n \/ i \in 1 .. Len(loaded.tables)
      BY <2>1, <2>2
    <3> QED
      BY <2>6, <2>7, <3>1
  <2> QED
    BY <1>1, <2>0, <2>8 DEF LoadInv
<1> QED
  BY <1>2, <1>3

LEMMA EndLoad ==
  ASSUME BaseInv, LoadInv, NextEntity, UNCHANGED <<files, loaded, used>>, pc # "idle"
  PROVE  LoadInv'
<1>1. UNCHANGED history \/ history' = [history EXCEPT !.completed = @ + 1]
  BY EndOfEntity
<1>2. /\ history'.settledLoad = history.settledLoad /\ history.completed \in Nat
      /\ history'.completed = history.completed \/ history'.completed = history.completed + 1
  BY <1>1 DEF BaseInv, CountersInv
<1> QED
  BY <1>2, LoadKept

LEMMA NextLoad == BaseInv /\ SettledInv /\ LoadInv /\ [Next]_vars => LoadInv'
<1> SUFFICES ASSUME BaseInv, SettledInv, LoadInv, [Next]_vars PROVE LoadInv'
  OBVIOUS
<1> USE DEF BaseInv, CountersInv
<1>1. ASSUME BeginRules PROVE LoadInv'
  <2>1. /\ UNCHANGED <<files, loaded>>
        /\ history' = [history EXCEPT !.begun = @ + 1,
                                      !.basis = IF history.begun = 0 THEN files ELSE @]
    BY <1>1 DEF BeginRules
  <2>2. history'.settledLoad = history.settledLoad /\ history'.completed = history.completed
    BY <2>1
  <2> QED
    BY <2>1, <2>2, LoadKept
<1>2. ASSUME CheckEntity PROVE LoadInv'
  <2>1. /\ UNCHANGED <<files, loaded>>
        /\ \/ UNCHANGED history
           \/ history' = [history EXCEPT !.regated = @ \/ history.completed > 0]
    BY <1>2 DEF CheckEntity
  <2>2. history'.settledLoad = history.settledLoad /\ history'.completed = history.completed
    BY <2>1
  <2> QED
    BY <2>1, <2>2, LoadKept
<1>3. ASSUME SkipEntity PROVE LoadInv'
  BY <1>3, EndLoad DEF SkipEntity
<1>4. ASSUME WriteQuarantine PROVE LoadInv'
  BY <1>4, EndLoad DEF WriteQuarantine
<1>5. ASSUME CrashRules PROVE LoadInv'
  <2>1. UNCHANGED <<files, loaded>> /\ history' = [history EXCEPT !.torn = TRUE]
    BY <1>5 DEF CrashRules
  <2>2. history'.settledLoad = history.settledLoad /\ history'.completed = history.completed
    BY <2>1
  <2> QED
    BY <2>1, <2>2, LoadKept
<1>6. ASSUME NEW b \in Batches, Refresh(b) PROVE LoadInv'
  BY <1>6 DEF Refresh, NewHistory, LoadInv
<1>7. ASSUME RefreshTable \/ CrashRefresh PROVE LoadInv'
  <2>1. history.completed = 0 /\ UNCHANGED history
    BY <1>7, NoneCompleted DEF RefreshTable, CrashRefresh
  <2> QED
    BY <2>1 DEF LoadInv
<1>8. ASSUME BeginLoad PROVE LoadInv'
  <2>1. /\ loaded'.tables = << >>
        /\ history' = [history EXCEPT !.settledLoad = history.completed >= 2]
    BY <1>8 DEF BeginLoad, NotLoading
  <2>2. history'.settledLoad = (history.completed >= 2) /\ history'.completed = history.completed
    BY <2>1
  <2>3. Len(loaded'.tables) = 0
    BY <2>1
  <2> QED
    BY <2>2, <2>3 DEF LoadInv
<1>9. ASSUME MissingDimension \/ UNCHANGED vars PROVE LoadInv'
  BY <1>9, LoadKept DEF MissingDimension, vars
<1>10. ASSUME CommitLoad PROVE LoadInv'
  BY <1>10 DEF CommitLoad, NotLoading, LoadInv
<1> QED
  BY <1>1, <1>2, <1>3, <1>4, <1>5, <1>6, <1>7, <1>8, <1>9, <1>10, TableLoad, ReadLoad DEF Next

LEMMA ReadIs ==
  ASSUME AllRead, NEW i \in 1 .. 7
  PROVE  Read[TABLES[i]] = loaded.tables[i] /\ DOMAIN Read = Tables
<1> DEFINE j == CHOOSE k \in DOMAIN TABLES : TABLES[k] = TABLES[i]
<1>1. j \in DOMAIN TABLES /\ TABLES[j] = TABLES[i]
  BY TablesAre
<1>2. j = i
  BY <1>1, TablesAre
<1> HIDE DEF j
<1>3. TABLES[i] \in Tables
  BY TablesAre
<1>4. Read[TABLES[i]] = loaded.tables[j]
  BY <1>3 DEF Read, j
<1> QED
  BY <1>2, <1>4 DEF Read

\* A load of settled tables is refused for nothing the checks look at
LEMMA SettledLoadFits ==
  ASSUME BaseInv, SettledInv, LoadInv, history.settledLoad, AllRead
  PROVE  ProgramConstraints(Read) /\ CollegesAgree(Read)
<1>1. \A i \in 1 .. 7 : ReadSettled(i)
  BY TablesAre DEF LoadInv, AllRead
<1>2. \A i \in 1 .. 7 : Read[TABLES[i]] = loaded.tables[i] /\ DOMAIN Read = Tables
  BY ReadIs
<1>3. /\ Read["college"] = files["college"] /\ Read["program"] = files["program"]
  BY <1>1, <1>2, TablesAre DEF ReadSettled
<1>4. ASSUME NEW e \in FACTS \cup {"shifter"}
      PROVE  \E i \in 1 .. 7 : TABLES[i] = e /\ Read[e] = loaded.tables[i] /\ ReadSettled(i)
  BY <1>1, <1>2, TablesAre DEF FACTS
<1>5. ASSUME NEW e \in FACTS \cup {"shifter"}, NEW r \in Read[e]
      PROVE  r.sem \in SEMESTERS
  BY <1>4 DEF ReadSettled
<1>6. ASSUME NEW e \in FACTS, NEW r \in Read[e]
      PROVE  \E p \in Read["program"] : p.program = r.program /\ p.college = r.college
  BY <1>3, <1>4 DEF ReadSettled
<1>7. KnownColleges(files["program"], files["college"])
  BY DEF SettledInv, LoadInv, BaseInv, CountersInv
<1>8. \A p \in Read["program"] : \E c \in Read["college"] : c.college = p.college
  BY <1>3, <1>7 DEF KnownColleges
<1>9. FACTS \subseteq Tables
  BY TablesAre DEF FACTS
<1> QED
  BY <1>2, <1>5, <1>6, <1>8, <1>9 DEF ProgramConstraints, CollegesAgree, RowsOf

\* Repeating the checks settles the tables.  The facts are checked against the programs as
\* they were before the check of the programs (business_rules.py:344), so one complete run may
\* leave facts of a program it has quarantined; after two, every fact agrees with the program
\* table about the college.  Once a run has completed no later one is stopped by the gate, and
\* a load (load_silver_to_postgres.py) that begins after two satisfies every constraint of
\* migration 0004 the checks look at, whatever run of the checks it overlaps with.
THEOREM RerunCorrect == Spec => []RerunSettles
<1>1. Init => RunInv /\ SettledInv /\ LoadInv
  BY DEF Init, RunInv, SettledInv, LoadInv, NewHistory
<1>2. BaseInv /\ SettledInv /\ LoadInv => RerunSettles
  BY SettledLoadFits DEF RerunSettles, SettledInv
<1>3. Spec => [](BaseInv /\ RunInv /\ SettledInv /\ LoadInv)
  BY <1>1, InitBase, NextBase, NextRunInv, NextSettled, NextLoad, PTL DEF Spec
<1> QED
  BY <1>2, <1>3, PTL

(***************************************************************************)
(* The rows of the first run                                                *)
(***************************************************************************)

\* Where a row the first run found may be
LEMMA FoundAgain ==
  ASSUME NothingLostOnFirstRun, history.begun = 1, ~history.torn,
         NEW e \in Entities \cap DOMAIN history.basis
  PROVE  history.basis[e] \subseteq
           RowsOf(files, e) \cup RowsOf(quarantine, e)
             \cup (IF pc = "quarantine" /\ CHECKED[at] = e THEN work.bad ELSE {})
  BY DEF NothingLostOnFirstRun

LEMMA FirstKept ==
  ASSUME FirstInv, UNCHANGED <<files, quarantine, pc, at, work>>,
         history'.begun = history.begun, history'.basis = history.basis,
         history'.torn = history.torn
  PROVE  FirstInv'
<1> SUFFICES ASSUME history.begun = 1, ~history.torn PROVE FirstInv'
  BY DEF FirstInv, NothingLostOnFirstRun
<1>1. NothingLostOnFirstRun'
  BY DEF FirstInv, NothingLostOnFirstRun
<1> QED
  BY <1>1 DEF FirstInv

LEMMA BeginFirst == BaseInv /\ BeginRules => FirstInv'
<1> SUFFICES ASSUME BaseInv, BeginRules, history'.begun = 1 PROVE FirstInv'
  BY DEF FirstInv, NothingLostOnFirstRun
<1>1. /\ UNCHANGED <<files, quarantine>> /\ pc' = "table" /\ at' = 1
      /\ history' = [history EXCEPT !.begun = @ + 1,
                                    !.basis = IF history.begun = 0 THEN files ELSE @]
  BY DEF BeginRules
<1>2. history'.basis = files
  <2>1. history'.begun = history.begun + 1 /\ history.begun \in Nat
    BY <1>1 DEF BaseInv, CountersInv
  <2>2. history.begun = 0
    BY <2>1
  <2> QED
    BY <1>1, <2>2 DEF BaseInv, CountersInv
<1>3. NothingLostOnFirstRun'
  BY <1>1, <1>2 DEF NothingLostOnFirstRun, RowsOf
<1> QED
  BY <1>1, <1>2, <1>3 DEF FirstInv

LEMMA CheckFirst == BaseInv /\ FirstInv /\ CheckEntity => FirstInv'
<1> SUFFICES ASSUME BaseInv, FirstInv, CheckEntity PROVE FirstInv'
  OBVIOUS
<1>1. /\ pc = "check" /\ pc' \in {"idle", "table"} /\ UNCHANGED <<files, quarantine, at>>
      /\ \/ UNCHANGED history
         \/ history' = [history EXCEPT !.regated = @ \/ history.completed > 0]
  BY DEF CheckEntity
<1>2. /\ history'.begun = history.begun /\ history'.basis = history.basis
      /\ history'.torn = history.torn
  BY <1>1 DEF BaseInv, CountersInv
<1> SUFFICES ASSUME history.begun = 1, ~history.torn PROVE FirstInv'
  BY <1>2 DEF FirstInv, NothingLostOnFirstRun
<1>3. NothingLostOnFirstRun'
  BY <1>1, <1>2 DEF FirstInv, NothingLostOnFirstRun
<1> QED
  BY <1>1, <1>2, <1>3 DEF FirstInv

\* The rows taken from the table are in the hands of the run
LEMMA TableFirst == BaseInv /\ FirstInv /\ WriteTable => FirstInv'
<1> SUFFICES ASSUME BaseInv, FirstInv, WriteTable, history.begun = 1, ~history.torn
             PROVE  FirstInv'
  BY DEF WriteTable, FirstInv, NothingLostOnFirstRun
<1> DEFINE e == CHECKED[at]
<1>1. /\ pc = "table" /\ pc' = "quarantine" /\ UNCHANGED <<quarantine, at, work, history>>
      /\ at \in 1 .. 5 /\ work.valid \cup work.bad = files[e]
  BY DEF WriteTable, BaseInv, PositionInv
<1>2. /\ e \in DOMAIN files /\ DOMAIN files' = DOMAIN files /\ files'[e] = work.valid
      /\ \A k \in DOMAIN files : k # e => files'[k] = files[k]
  BY TableStep
<1>3. DOMAIN history.basis \subseteq DOMAIN files
  BY DEF FirstInv
<1>4. e \in DOMAIN history.basis => history.basis[e] \subseteq files'[e] \cup work.bad
  BY <1>1, <1>2 DEF FirstInv
<1>5. ASSUME NEW k \in 1 .. 5, k > at, CHECKED[k] \in DOMAIN history.basis
      PROVE  history.basis[CHECKED[k]] \subseteq files'[CHECKED[k]]
  <2>1. CHECKED[k] # e
    BY <1>1, <1>5, CheckedAre
  <2> QED
    BY <1>1, <1>2, <1>3, <1>5, <2>1 DEF FirstInv
<1> HIDE DEF e
<1>6. NothingLostOnFirstRun'
  <2> SUFFICES ASSUME NEW x \in Entities \cap DOMAIN history.basis
               PROVE  history.basis[x] \subseteq
                        RowsOf(files', x) \cup RowsOf(quarantine, x)
                          \cup (IF e = x THEN work.bad ELSE {})
    BY <1>1 DEF NothingLostOnFirstRun, e
  <2>1. CASE x = e
    BY <1>2, <1>4, <2>1 DEF RowsOf
  <2>2. CASE x # e
    <3>1. history.basis[x] \subseteq RowsOf(files, x) \cup RowsOf(quarantine, x)
      BY <1>1, FoundAgain DEF FirstInv
    <3>2. RowsOf(files', x) = RowsOf(files, x)
      BY <1>2, <2>2 DEF RowsOf
    <3> QED
      BY <3>1, <3>2
  <2> QED
    BY <2>1, <2>2
<1>7. ASSUME NEW k \in 1 .. 5, CHECKED[k] \in DOMAIN history.basis
      PROVE  /\ k > at => history.basis[CHECKED[k]] \subseteq files'[CHECKED[k]]
             /\ k = at => history.basis[CHECKED[k]] \subseteq files'[CHECKED[k]] \cup work.bad
  BY <1>4, <1>5, <1>7 DEF e
<1> QED
  BY <1>1, <1>2, <1>3, <1>6, <1>7 DEF FirstInv

\* The entity is done: what it has lost is in the quarantine file
LEMMA QuarantineFirst == BaseInv /\ FirstInv /\ WriteQuarantine => FirstInv'
<1> SUFFICES ASSUME BaseInv, FirstInv, WriteQuarantine PROVE FirstInv'
  OBVIOUS
<1> DEFINE e == CHECKED[at]
<1>1. /\ pc = "quarantine" /\ UNCHANGED files /\ at \in 1 .. 5
      /\ quarantine' = IF work.bad = {} THEN quarantine ELSE Put(quarantine, e, work.bad)
  BY DEF WriteQuarantine, BaseInv, PositionInv
<1>2. \/ pc' = "check" /\ at' = at + 1 /\ UNCHANGED history
      \/ pc' = "idle" /\ history' = [history EXCEPT !.completed = @ + 1]
  BY <1>1, EndOfEntity DEF WriteQuarantine
<1>3. /\ history'.begun = history.begun /\ history'.basis = history.basis
      /\ history'.torn = history.torn
  BY <1>2 DEF BaseInv, CountersInv
<1> SUFFICES ASSUME history.begun = 1, ~history.torn PROVE FirstInv'
  BY <1>3 DEF FirstInv, NothingLostOnFirstRun
<1> HIDE DEF e
<1>4. NothingLostOnFirstRun'
  <2> SUFFICES ASSUME NEW x \in Entities \cap DOMAIN history.basis
               PROVE  history.basis[x] \subseteq RowsOf(files, x) \cup RowsOf(quarantine', x)
    BY <1>1, <1>3 DEF NothingLostOnFirstRun
  <2>1. history.basis[x] \subseteq RowsOf(files, x) \cup RowsOf(quarantine, x)
                                     \cup (IF e = x THEN work.bad ELSE {})
    BY <1>1, FoundAgain DEF FirstInv, e
  <2>2. CASE x # e
    <3>1. RowsOf(quarantine', x) = RowsOf(quarantine, x)
      BY <1>1, <2>2 DEF RowsOf, Put
    <3> QED
      BY <2>1, <2>2, <3>1
  <2>3. CASE x = e
    <3>1. history.basis[x] \subseteq RowsOf(files, x) \cup work.bad
      <4>1. \E k \in 1 .. 5 : k = at /\ CHECKED[k] = e
        BY <1>1 DEF e
      <4>2. e \in DOMAIN history.basis => /\ e \in DOMAIN files
                                          /\ history.basis[e] \subseteq files[e] \cup work.bad
        BY <1>1, <4>1 DEF FirstInv
      <4> QED
        BY <2>3, <4>2 DEF RowsOf
    <3>2. work.bad \subseteq RowsOf(quarantine', x)
      BY <1>1, <2>3 DEF RowsOf, Put
    <3> QED
      BY <3>1, <3>2
  <2> QED
    BY <2>2, <2>3
<1>5. DOMAIN history.basis \subseteq DOMAIN files
  BY DEF FirstInv
<1>6. CASE pc' = "idle"
  BY <1>1, <1>3, <1>4, <1>5, <1>6 DEF FirstInv
<1>7. CASE pc' = "check" /\ at' = at + 1
  <2>1. ASSUME NEW k \in 1 .. 5, k >= at', CHECKED[k] \in DOMAIN history.basis
        PROVE  history.basis[CHECKED[k]] \subseteq files[CHECKED[k]]
    <3>1. k > at
      BY <1>1, <1>7, <2>1
    <3> QED
      BY <1>1, <2>1, <3>1 DEF FirstInv
  <2> QED
    BY <1>1, <1>3, <1>4, <1>5, <1>7, <2>1 DEF FirstInv
<1> QED
  BY <1>2, <1>6, <1>7

LEMMA SkipFirst == BaseInv /\ FirstInv /\ SkipEntity => FirstInv'
<1> SUFFICES ASSUME BaseInv, FirstInv, SkipEntity PROVE FirstInv'
  OBVIOUS
<1>1. pc = "check" /\ UNCHANGED <<files, quarantine, work>> /\ at \in 1 .. 5
  BY DEF SkipEntity, BaseInv, PositionInv
<1>2. \/ pc' = "check" /\ at' = at + 1 /\ UNCHANGED history
      \/ pc' = "idle" /\ history' = [history EXCEPT !.completed = @ + 1]
  BY <1>1, EndOfEntity DEF SkipEntity
<1>3. /\ history'.begun = history.begun /\ history'.basis = history.basis
      /\ history'.torn = history.torn
  BY <1>2 DEF BaseInv, CountersInv
<1> SUFFICES ASSUME history.begun = 1, ~history.torn PROVE FirstInv'
  BY <1>3 DEF FirstInv, NothingLostOnFirstRun
<1>4. NothingLostOnFirstRun'
  BY <1>1, <1>2, <1>3 DEF FirstInv, NothingLostOnFirstRun
<1>5. DOMAIN history.basis \subseteq DOMAIN files
  BY DEF FirstInv
<1>6. CASE pc' = "idle"
  BY <1>1, <1>3, <1>4, <1>5, <1>6 DEF FirstInv
<1>7. CASE pc' = "check" /\ at' = at + 1
  <2>1. ASSUME NEW k \in 1 .. 5, k >= at', CHECKED[k] \in DOMAIN history.basis
        PROVE  history.basis[CHECKED[k]] \subseteq files[CHECKED[k]]
    <3>1. k > at
      BY <1>1, <1>7, <2>1
    <3> QED
      BY <1>1, <2>1, <3>1 DEF FirstInv
  <2> QED
    BY <1>1, <1>3, <1>4, <1>5, <1>7, <2>1 DEF FirstInv
<1> QED
  BY <1>2, <1>6, <1>7

LEMMA NextFirst == BaseInv /\ FirstInv /\ [Next]_vars => FirstInv'
<1> SUFFICES ASSUME BaseInv, FirstInv, [Next]_vars PROVE FirstInv'
  OBVIOUS
<1>1. ASSUME CrashRules PROVE FirstInv'
  <2>1. history'.torn = TRUE
    BY <1>1 DEF CrashRules, BaseInv, CountersInv
  <2> QED
    BY <2>1 DEF FirstInv, NothingLostOnFirstRun
<1>2. ASSUME NEW b \in Batches, Refresh(b) PROVE FirstInv'
  BY <1>2 DEF Refresh, NewHistory, FirstInv, NothingLostOnFirstRun
<1>3. ASSUME RefreshTable \/ CrashRefresh PROVE FirstInv'
  <2>1. history.begun = 0 /\ UNCHANGED history
    BY <1>3, NoneCompleted DEF RefreshTable, CrashRefresh
  <2> QED
    BY <2>1 DEF FirstInv, NothingLostOnFirstRun
<1>4. ASSUME BeginLoad PROVE FirstInv'
  <2>1. /\ history' = [history EXCEPT !.settledLoad = history.completed >= 2]
        /\ UNCHANGED <<files, quarantine, pc, at, work>>
    BY <1>4 DEF BeginLoad
  <2>2. /\ history'.begun = history.begun /\ history'.basis = history.basis
        /\ history'.torn = history.torn
    BY <2>1 DEF BaseInv, CountersInv
  <2> QED
    BY <2>1, <2>2, FirstKept
<1>5. ASSUME MissingDimension \/ ReadTable \/ CommitLoad \/ UNCHANGED vars PROVE FirstInv'
  BY <1>5, FirstKept DEF MissingDimension, ReadTable, CommitLoad, vars
<1> QED
  BY <1>1, <1>2, <1>3, <1>4, <1>5, BeginFirst, SkipFirst, CheckFirst, TableFirst, QuarantineFirst
  DEF Next

\* "quarantine, don't silently drop" (business_rules.py:15): whatever the cleaning has left, as
\* long as the first run since has not been cut short, every row it found of an entity is in
\* the table of the entity, in its quarantine file, or in the hands of the run between the two
\* writes, also when the gate stops the run.
THEOREM FirstRunCorrect == Spec => []NothingLostOnFirstRun
<1>1. Init => FirstInv
  BY DEF Init, FirstInv, NewHistory, NothingLostOnFirstRun
<1>2. FirstInv => NothingLostOnFirstRun
  BY DEF FirstInv, NothingLostOnFirstRun
<1> QED
  BY <1>1, <1>2, InitBase, NextBase, NextFirst, PTL DEF Spec
=============================================================================
