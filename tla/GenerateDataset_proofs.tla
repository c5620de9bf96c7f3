------------------------ MODULE GenerateDataset_proofs ------------------------
(***************************************************************************)
(* What the records of one student say, for every catalogue of programs,      *)
(* every configuration and every draw: the four kinds of records tell one     *)
(* story, and the rows pass the year level checks of Silver.  The argument    *)
(* follows the loop of simulate_student: each iteration appends one row, so   *)
(* it is enough to know how the last row relates to the student's state.      *)
(* Then what the files hold, stage by stage, over the leftovers of earlier     *)
(* runs: noise and the stages in between keep every simulated record, and a    *)
(* passed manifest is true.                                                    *)
(***************************************************************************)
EXTENDS GenerateDataset, FiniteSetTheorems, TLAPS

Identities == Cohorts \X Nat

Levels == Nat \ {0}

STATUSES == {"ENROLLED", "DROPPED", "GRADUATED"}

RowType == [student : Identities, sem : Nat, program : Programs, status : STATUSES, level : Levels]

OutcomeType == [student : Identities, sem : Nat, program : Programs, tenure : Nat]

ShiftType == [student : Identities, sem : Nat, from : Programs, to : Programs]

JourneyType ==
  [student : Identities, entry : Programs, first : Nat, idx : Nat, horizon : Nat, level : Levels,
   program : Programs, tenure : Nat, enrollment : Seq(RowType), graduation : SUBSET OutcomeType,
   dropout : SUBSET OutcomeType, shifter : SUBSET ShiftType,
   status : {"ACTIVE", "DROPPED", "GRADUATED"}]

(***************************************************************************)
(* The inductive invariant of a journey, a part for each thing told           *)
(***************************************************************************)

\* A row per semester from entry on
Clock(j) ==
  /\ Len(j.enrollment) = j.tenure
  /\ j.status = "ACTIVE" => j.idx = j.first + j.tenure
  /\ \A i \in DOMAIN j.enrollment : j.enrollment[i].sem = j.first + i - 1

\* The program the next row starts from
Current(j) == j.program = ProgramBefore(j, j.tenure + 1)

ShiftsTold(j) ==
  /\ \A x, y \in j.shifter : x = y
  /\ \A x \in j.shifter : x.sem < j.first + j.tenure
  /\ \A i \in DOMAIN j.enrollment :
       {x \in j.shifter : x.sem = j.enrollment[i].sem} =
         IF j.enrollment[i].program = ProgramBefore(j, i) THEN {}
         ELSE {[student |-> j.student, sem |-> j.enrollment[i].sem,
                from |-> ProgramBefore(j, i), to |-> j.enrollment[i].program]}

Here(O, r) == {o \in O : o.sem = r.sem /\ o.program = r.program}

OutcomesTold(j) ==
  /\ j.graduation = {} \/ j.dropout = {}
  /\ j.status = "ACTIVE" =>
       /\ j.graduation = {} /\ j.dropout = {}
       /\ \A i \in DOMAIN j.enrollment : j.enrollment[i].status = "ENROLLED"
  /\ \A i \in DOMAIN j.enrollment :
       /\ j.enrollment[i].status = "DROPPED" <=> Here(j.dropout, j.enrollment[i]) # {}
       /\ j.enrollment[i].status = "GRADUATED" <=> Here(j.graduation, j.enrollment[i]) # {}
       /\ i < Len(j.enrollment) => j.enrollment[i].status = "ENROLLED"

\* Where the level may go from the last row, and how far while the student has not shifted
LevelsTold(j) ==
  /\ \A i \in DOMAIN j.enrollment :
       i > 1 => j.enrollment[i].level \in {j.enrollment[i - 1].level, j.enrollment[i - 1].level + 1}
  /\ j.tenure > 0 => j.level \in {j.enrollment[j.tenure].level, j.enrollment[j.tenure].level + 1}
  /\ j.level <= Duration[j.entry] + BufferYears
  /\ \A i \in DOMAIN j.enrollment : j.enrollment[i].level <= Duration[j.entry] + BufferYears
  /\ j.shifter = {} =>
       /\ j.program = j.entry
       /\ \A i \in DOMAIN j.enrollment : j.enrollment[i].program = j.entry

JourneyInv(j) ==
  /\ j \in JourneyType
  /\ Clock(j) /\ Current(j) /\ ShiftsTold(j) /\ OutcomesTold(j) /\ LevelsTold(j)

(***************************************************************************)
(* Lemmas                                                                   *)
(***************************************************************************)

\* A sequence with one element more
LEMMA Appended ==
  ASSUME NEW S, NEW s \in Seq(S), NEW e \in S
  PROVE  /\ Append(s, e) \in Seq(S) /\ Len(Append(s, e)) = Len(s) + 1 /\ Len(s) \in Nat
         /\ DOMAIN s = 1 .. Len(s) /\ DOMAIN Append(s, e) = 1 .. Len(s) + 1
         /\ \A i \in 1 .. Len(s) : Append(s, e)[i] = s[i]
         /\ Append(s, e)[Len(s) + 1] = e
         /\ \A i \in 1 .. Len(s) : s[i] \in S
  OBVIOUS

\* What the program before row m + 1 depends on
LEMMA SameBefore ==
  ASSUME NEW j, NEW k, NEW m \in Nat, k.entry = j.entry,
         m > 0 => k.enrollment[m] = j.enrollment[m]
  PROVE  ProgramBefore(k, m + 1) = ProgramBefore(j, m + 1)
<1>1. CASE m = 0
  BY <1>1 DEF ProgramBefore
<1>2. CASE m > 0
  <2>1. m + 1 # 1 /\ m + 1 - 1 = m
    BY <1>2
  <2> QED
    BY <1>2, <2>1 DEF ProgramBefore
<1> QED
  BY <1>1, <1>2

\* The parts of the invariant say what the two properties ask of a journey
LEMMA InvImpliesStory ==
  ASSUME NEW j, JourneyInv(j)
  PROVE  TellsOneStory(j)
<1>1. ShiftsTold(j) /\ Clock(j) /\ OutcomesTold(j)
  BY DEF JourneyInv
<1>2. \A i \in DOMAIN j.enrollment : j.enrollment[i].sem = j.first + i - 1
  BY <1>1 DEF Clock
<1>3. \A i \in DOMAIN j.enrollment :
        LET r == j.enrollment[i]
        IN  {x \in j.shifter : x.sem = r.sem} =
              IF r.program = ProgramBefore(j, i) THEN {}
              ELSE {[student |-> j.student, sem |-> r.sem, from |-> ProgramBefore(j, i),
                     to |-> r.program]}
  BY <1>1 DEF ShiftsTold
<1>4. \A i \in DOMAIN j.enrollment :
        LET r == j.enrollment[i]
            here(O) == {o \in O : o.sem = r.sem /\ o.program = r.program}
        IN  /\ r.status = "DROPPED" <=> here(j.dropout) # {}
            /\ r.status = "GRADUATED" <=> here(j.graduation) # {}
            /\ i < Len(j.enrollment) => r.status = "ENROLLED"
  BY <1>1 DEF OutcomesTold, Here
<1>5. (\A x, y \in j.shifter : x = y) /\ (j.graduation = {} \/ j.dropout = {})
  BY <1>1 DEF ShiftsTold, OutcomesTold
<1> QED
  BY <1>2, <1>3, <1>4, <1>5 DEF TellsOneStory

LEMMA InvImpliesSilver ==
  ASSUME NEW j, JourneyInv(j)
  PROVE  PassesSilver(j)
<1>1. j.enrollment \in Seq(RowType) /\ j.entry \in Programs /\ LevelsTold(j)
  BY DEF JourneyInv, JourneyType
<1>2. ASSUME NEW i \in DOMAIN j.enrollment, j.shifter = {}
      PROVE  PlausibleLevel(j.enrollment[i])
  <2>1. j.enrollment[i] \in RowType
    BY <1>1
  <2>2. j.enrollment[i].level >= 1
    BY <2>1 DEF RowType, Levels
  <2>3. /\ j.enrollment[i].level <= Duration[j.entry] + BufferYears
        /\ j.enrollment[i].program = j.entry
    BY <1>1, <1>2 DEF LevelsTold
  <2> QED
    BY <2>2, <2>3 DEF PlausibleLevel
<1> QED
  BY <1>1, <1>2 DEF PassesSilver, LevelsTold

\* One more row keeps the row per semester, the program, the shifts and the levels told
LEMMA OneMoreRow ==
  ASSUME NEW j, JourneyInv(j), j.status = "ACTIVE", NEW k \in JourneyType, NEW row \in RowType,
         k.enrollment = Append(j.enrollment, row), k.tenure = j.tenure + 1,
         k.first = j.first, k.entry = j.entry, k.student = j.student,
         row.sem = j.idx, row.program = k.program, row.level = j.level,
         k.status = "ACTIVE" => k.idx = j.idx + 1,
         k.program # j.program => j.shifter = {},
         k.shifter = IF k.program = j.program THEN j.shifter ELSE {Shift(j, k.program)},
         k.level \in {j.level, j.level + 1}, k.level <= Duration[j.entry] + BufferYears
  PROVE  Clock(k) /\ Current(k) /\ ShiftsTold(k) /\ LevelsTold(k)
<1>1. /\ j \in JourneyType /\ Clock(j) /\ Current(j) /\ ShiftsTold(j) /\ LevelsTold(j)
  BY DEF JourneyInv
<1>2. /\ j.enrollment \in Seq(RowType) /\ j.tenure \in Nat /\ j.first \in Nat /\ j.idx \in Nat
      /\ j.level \in Nat
  BY <1>1 DEF JourneyType, Levels
<1> DEFINE n == j.tenure
           E == k.enrollment
<1>3. /\ DOMAIN j.enrollment = 1 .. n /\ DOMAIN E = 1 .. n + 1 /\ Len(E) = n + 1
      /\ \A i \in 1 .. n : E[i] = j.enrollment[i]
      /\ E[n + 1] = row
  BY <1>1, <1>2, Appended DEF Clock
<1>4. j.idx = j.first + n /\ \A i \in 1 .. n : E[i].sem = j.first + i - 1
  BY <1>1, <1>3 DEF Clock
<1> HIDE DEF E, n
<1>5. n \in Nat /\ n = j.tenure /\ E = k.enrollment
  BY <1>2 DEF n, E
<1>6. Clock(k)
  <2>1. ASSUME NEW i \in DOMAIN E
        PROVE  E[i].sem = k.first + i - 1
    <3>1. i \in 1 .. n \/ i = n + 1
      BY <2>1, <1>3, <1>5
    <3>2. i = n + 1 => E[i].sem = j.first + i - 1
      <4>1. j.first + (n + 1) - 1 = j.first + n
        BY <1>2, <1>5
      <4> QED
        BY <4>1, <1>3, <1>4
    <3> QED
      BY <3>1, <3>2, <1>4
  <2>2. k.status = "ACTIVE" => k.idx = k.first + k.tenure
    BY <1>2, <1>4, <1>5
  <2> QED
    BY <2>1, <2>2, <1>3, <1>5 DEF Clock
<1>7. \A i \in 1 .. n : ProgramBefore(k, i) = ProgramBefore(j, i)
  BY <1>3, <1>5 DEF ProgramBefore
<1>8. ProgramBefore(k, n + 1) = j.program
  <2>1. j.program = ProgramBefore(j, n + 1)
    BY <1>1, <1>5 DEF Current
  <2>2. n > 0 => k.enrollment[n] = j.enrollment[n]
    BY <1>3, <1>5
  <2>3. ProgramBefore(k, n + 1) = ProgramBefore(j, n + 1)
    BY <2>2, <1>5, SameBefore
  <2> QED
    BY <2>1, <2>3
<1>9. Current(k)
  <2>1. k.tenure + 1 # 1 /\ k.tenure + 1 - 1 = n + 1
    BY <1>5
  <2> QED
    BY <2>1, <1>3, <1>5 DEF Current, ProgramBefore
<1>10. ShiftsTold(k)
  <2>1. \A x, y \in k.shifter : x = y
    BY <1>1 DEF ShiftsTold
  <2>2. j.shifter \in SUBSET ShiftType /\ Shift(j, k.program).sem = j.idx
    BY <1>1 DEF JourneyType, Shift
  <2>3. \A x \in j.shifter : x.sem < j.first + n /\ x.sem \in Nat
    BY <1>1, <1>5, <2>2 DEF ShiftsTold, ShiftType
  <2>4. \A x \in k.shifter : x.sem < k.first + k.tenure
    BY <2>2, <2>3, <1>2, <1>4, <1>5
  <2>5. ASSUME NEW i \in 1 .. n
        PROVE  {x \in k.shifter : x.sem = E[i].sem} = {x \in j.shifter : x.sem = j.enrollment[i].sem}
    <3>1. j.idx # E[i].sem
      <4>1. i < n + 1 /\ i \in Int
        BY <2>5, <1>5
      <4>2. E[i].sem = j.first + i - 1
        BY <2>5, <1>4
      <4> QED
        BY <4>1, <4>2, <1>2, <1>4, <1>5
    <3> QED
      BY <3>1, <2>2, <1>3
  <2>6. {x \in k.shifter : x.sem = row.sem} =
          IF row.program = j.program THEN {} ELSE {Shift(j, k.program)}
    <3>1. \A x \in j.shifter : x.sem # row.sem
      BY <2>3, <1>2, <1>4, <1>5
    <3> QED
      BY <3>1, <2>2
  <2>7. ASSUME NEW i \in DOMAIN E
        PROVE  {x \in k.shifter : x.sem = E[i].sem} =
                 IF E[i].program = ProgramBefore(k, i) THEN {}
                 ELSE {[student |-> k.student, sem |-> E[i].sem,
                        from |-> ProgramBefore(k, i), to |-> E[i].program]}
    <3>1. CASE i \in 1 .. n
      <4>1. {x \in j.shifter : x.sem = j.enrollment[i].sem} =
              IF j.enrollment[i].program = ProgramBefore(j, i) THEN {}
              ELSE {[student |-> j.student, sem |-> j.enrollment[i].sem,
                     from |-> ProgramBefore(j, i), to |-> j.enrollment[i].program]}
        BY <3>1, <1>1, <1>3 DEF ShiftsTold
      <4> QED
        BY <3>1, <4>1, <2>5, <1>3, <1>7
    <3>2. CASE i = n + 1
      BY <3>2, <2>6, <1>3, <1>8 DEF Shift
    <3> QED
      BY <3>1, <3>2, <1>3, <1>5
  <2> QED
    BY <2>1, <2>4, <2>7, <1>5 DEF ShiftsTold
<1>11. LevelsTold(k)
  <2>1. ASSUME NEW i \in DOMAIN E, i > 1
        PROVE  E[i].level \in {E[i - 1].level, E[i - 1].level + 1}
    <3>1. CASE i \in 1 .. n
      <4>1. i - 1 \in 1 .. n
        BY <3>1, <2>1, <1>5
      <4>2. j.enrollment[i].level \in {j.enrollment[i - 1].level, j.enrollment[i - 1].level + 1}
        BY <3>1, <2>1, <1>1, <1>3 DEF LevelsTold
      <4> QED
        BY <3>1, <4>1, <4>2, <1>3
    <3>2. CASE i = n + 1
      <4>1. n \in 1 .. n /\ i - 1 = n
        BY <3>2, <2>1, <1>5
      <4>2. j.level \in {j.enrollment[n].level, j.enrollment[n].level + 1}
        BY <4>1, <1>1, <1>5 DEF LevelsTold
      <4> QED
        BY <3>2, <4>1, <4>2, <1>3
    <3>3. i \in 1 .. n \/ i = n + 1
      BY <2>1, <1>3, <1>5
    <3> QED
      BY <3>1, <3>2, <3>3
  <2>2. k.tenure > 0 => k.level \in {E[k.tenure].level, E[k.tenure].level + 1}
    BY <1>3, <1>5
  <2>3. ASSUME NEW i \in DOMAIN E
        PROVE  E[i].level <= Duration[k.entry] + BufferYears
    BY <1>1, <1>3, <1>5 DEF LevelsTold
  <2>4. ASSUME k.shifter = {}
        PROVE  k.program = k.entry /\ \A i \in DOMAIN E : E[i].program = k.entry
    <3>1. k.program = j.program /\ j.shifter = {}
      BY <2>4
    <3> QED
      BY <3>1, <1>1, <1>3, <1>5 DEF LevelsTold
  <2> QED
    BY <2>1, <2>2, <2>3, <2>4, <1>5 DEF LevelsTold
<1> QED
  BY <1>6, <1>9, <1>10, <1>11

\* A last row and the outcome that goes with it keep the outcomes told
LEMMA LastRow ==
  ASSUME NEW j, JourneyInv(j), j.status = "ACTIVE", NEW k \in JourneyType, NEW row \in RowType,
         k.enrollment = Append(j.enrollment, row), row.sem = j.idx, row.program = j.program,
         row.status = k.status, k.status # "ACTIVE",
         k.dropout = IF k.status = "DROPPED" THEN {Outcome(j)} ELSE {},
         k.graduation = IF k.status = "GRADUATED" THEN {Outcome(j)} ELSE {}
  PROVE  OutcomesTold(k)
<1>1. j \in JourneyType /\ Clock(j) /\ OutcomesTold(j)
  BY DEF JourneyInv
<1>2. j.enrollment \in Seq(RowType) /\ j.tenure \in Nat /\ j.first \in Nat /\ j.idx \in Nat
  BY <1>1 DEF JourneyType
<1> DEFINE n == j.tenure
           E == k.enrollment
<1>3. /\ DOMAIN j.enrollment = 1 .. n /\ DOMAIN E = 1 .. n + 1 /\ Len(E) = n + 1
      /\ \A i \in 1 .. n : E[i] = j.enrollment[i]
      /\ E[n + 1] = row
  BY <1>1, <1>2, Appended DEF Clock
<1>4. \A i \in 1 .. n : E[i].sem = j.first + i - 1 /\ E[i].status = "ENROLLED"
  BY <1>1, <1>3 DEF Clock, OutcomesTold
<1>5. j.idx = j.first + n
  BY <1>1 DEF Clock
<1> HIDE DEF E, n
<1>6. n \in Nat /\ n = j.tenure /\ E = k.enrollment
  BY <1>2 DEF n, E
<1>7. Outcome(j).sem = j.idx /\ Outcome(j).program = j.program
  BY DEF Outcome
<1>8. k.status \in {"DROPPED", "GRADUATED"}
  BY DEF JourneyType
<1>9. ASSUME NEW i \in 1 .. n
      PROVE  Here(k.dropout, E[i]) = {} /\ Here(k.graduation, E[i]) = {}
  <2>1. E[i].sem = j.first + i - 1 /\ i < n + 1 /\ i \in Int
    <3>1. i < n + 1 /\ i \in Int
      BY <1>6, <1>9
    <3> QED
      BY <3>1, <1>4, <1>9
  <2>2. Outcome(j).sem # E[i].sem
    BY <2>1, <1>2, <1>5, <1>6, <1>7
  <2> QED
    BY <2>2 DEF Here
<1>10. /\ Here(k.dropout, row) = k.dropout /\ Here(k.graduation, row) = k.graduation
  BY <1>7 DEF Here
<1>11. ASSUME NEW i \in DOMAIN E
       PROVE  /\ E[i].status = "DROPPED" <=> Here(k.dropout, E[i]) # {}
              /\ E[i].status = "GRADUATED" <=> Here(k.graduation, E[i]) # {}
              /\ i < Len(E) => E[i].status = "ENROLLED"
  <2>1. CASE i \in 1 .. n
    BY <2>1, <1>4, <1>9
  <2>2. CASE i = n + 1
    <3>1. /\ k.status = "DROPPED" <=> k.dropout # {}
          /\ k.status = "GRADUATED" <=> k.graduation # {}
      BY <1>8
    <3>2. E[i] = row /\ ~(i < Len(E))
      BY <2>2, <1>3, <1>6
    <3> QED
      BY <3>1, <3>2, <1>10
  <2>3. i \in 1 .. n \/ i = n + 1
    BY <1>3, <1>6, <1>11
  <2> QED
    BY <2>1, <2>2, <2>3
<1> QED
  BY <1>6, <1>8, <1>11 DEF OutcomesTold

\* Dropping out and graduating, written out
LEMMA EndInv ==
  ASSUME NEW j, JourneyInv(j), ~Over(j), NEW k \in DropOut(j) \cup Graduate(j)
  PROVE  JourneyInv(k)
<1>1. /\ j \in JourneyType /\ j.status = "ACTIVE"
      /\ j.graduation = {} /\ j.dropout = {} /\ j.level <= Duration[j.entry] + BufferYears
  BY DEF JourneyInv, Over, OutcomesTold, LevelsTold
<1> DEFINE row(status) == Row(j, j.program, status)
           Ends(status) ==
             /\ k.enrollment = Append(j.enrollment, row(status)) /\ k.tenure = j.tenure + 1
             /\ k.first = j.first /\ k.entry = j.entry /\ k.student = j.student
             /\ k.program = j.program /\ k.shifter = j.shifter /\ k.level = j.level
             /\ k.status = status
             /\ k.dropout = IF k.status = "DROPPED" THEN {Outcome(j)} ELSE {}
             /\ k.graduation = IF k.status = "GRADUATED" THEN {Outcome(j)} ELSE {}
<1>2. Outcome(j) \in OutcomeType
  BY <1>1 DEF JourneyType, OutcomeType, Outcome
<1>3. \A status \in {"DROPPED", "GRADUATED"} :
        /\ row(status) \in RowType /\ Append(j.enrollment, row(status)) \in Seq(RowType)
        /\ row(status).sem = j.idx /\ row(status).program = j.program
        /\ row(status).level = j.level /\ row(status).status = status
  <2>1. ASSUME NEW status \in {"DROPPED", "GRADUATED"}
        PROVE  row(status) \in RowType
    BY <1>1 DEF JourneyType, RowType, Row, STATUSES
  <2>2. ASSUME NEW status \in {"DROPPED", "GRADUATED"}
        PROVE  Append(j.enrollment, row(status)) \in Seq(RowType)
    <3> HIDE DEF row
    <3> QED
      BY <1>1, <2>1, Appended DEF JourneyType
  <2> QED
    BY <2>1, <2>2 DEF Row
<1>4. ASSUME k \in DropOut(j)
      PROVE  k \in JourneyType /\ Ends("DROPPED")
  <2>1. k = [j EXCEPT !.tenure = j.tenure + 1, !.status = "DROPPED", !.dropout = {Outcome(j)},
                      !.enrollment = Append(j.enrollment, row("DROPPED"))]
    BY <1>1, <1>4 DEF DropOut, JourneyType
  <2> HIDE DEF row
  <2>2. Ends("DROPPED")
    BY <1>1, <2>1 DEF JourneyType
  <2>3. k \in JourneyType
    <3>1. /\ j.tenure + 1 \in Nat /\ {Outcome(j)} \in SUBSET OutcomeType
          /\ Append(j.enrollment, row("DROPPED")) \in Seq(RowType)
      BY <1>1, <1>2, <1>3 DEF JourneyType
    <3> QED
      BY <1>1, <2>1, <3>1 DEF JourneyType
  <2> QED
    BY <2>2, <2>3
<1>5. ASSUME k \in Graduate(j)
      PROVE  k \in JourneyType /\ Ends("GRADUATED")
  <2>1. k = [j EXCEPT !.tenure = j.tenure + 1, !.status = "GRADUATED", !.graduation = {Outcome(j)},
                      !.enrollment = Append(j.enrollment, row("GRADUATED"))]
    BY <1>1, <1>5 DEF Graduate, JourneyType
  <2> HIDE DEF row
  <2>2. Ends("GRADUATED")
    BY <1>1, <2>1 DEF JourneyType
  <2>3. k \in JourneyType
    <3>1. /\ j.tenure + 1 \in Nat /\ {Outcome(j)} \in SUBSET OutcomeType
          /\ Append(j.enrollment, row("GRADUATED")) \in Seq(RowType)
      BY <1>1, <1>2, <1>3 DEF JourneyType
    <3> QED
      BY <1>1, <2>1, <3>1 DEF JourneyType
  <2> QED
    BY <2>2, <2>3
<1> HIDE DEF row
<1>6. k \in JourneyType /\ \E status \in {"DROPPED", "GRADUATED"} : Ends(status)
  BY <1>4, <1>5
<1>7. PICK status \in {"DROPPED", "GRADUATED"} : Ends(status)
  BY <1>6
<1>8. Clock(k) /\ Current(k) /\ ShiftsTold(k) /\ LevelsTold(k)
  <2>1. k.level \in {j.level, j.level + 1} /\ k.level <= Duration[j.entry] + BufferYears
    BY <1>1, <1>7
  <2> QED
    BY <2>1, <1>1, <1>3, <1>6, <1>7, OneMoreRow
<1>9. OutcomesTold(k)
  BY <1>1, <1>3, <1>6, <1>7, LastRow
<1> QED
  BY <1>6, <1>8, <1>9 DEF JourneyInv

\* A semester more, in the same program or another one
LEMMA StayInv ==
  ASSUME NEW j, JourneyInv(j), ~Over(j), NEW k \in Stay(j)
  PROVE  JourneyInv(k)
<1>1. /\ j \in JourneyType /\ j.status = "ACTIVE" /\ OutcomesTold(j)
      /\ j.level <= Duration[j.entry] + BufferYears
      /\ j.level \in Levels /\ j.entry \in Programs /\ j.program \in Programs
  BY DEF JourneyInv, JourneyType, Over, LevelsTold
<1>2. PICK q \in NextPrograms(j), level \in NextLevels(j) : k = StayWith(j, q, level)
  BY DEF Stay
<1>3. q \in Programs /\ (q # j.program => j.shifter = {})
  BY <1>1, <1>2 DEF NextPrograms, may_shift, pick_shift_target_program
<1>4. level \in {j.level, j.level + 1} /\ level <= Duration[j.entry] + BufferYears
  <2>1. Duration[j.entry] \in Nat /\ BufferYears \in Nat /\ ExtraYears \in Nat /\ ExtraYears <= BufferYears
    BY <1>1, ProgramsAssumption, ConfigsAssumption
  <2>2. level = j.level \/ (level = j.level + 1 /\ j.level < Duration[j.entry] + ExtraYears)
    BY <1>2 DEF NextLevels, max_year_level_cap
  <2> QED
    BY <1>1, <2>1, <2>2 DEF Levels
<1>5. level \in Levels
  BY <1>1, <1>4 DEF Levels
<1> DEFINE row == Row(j, q, "ENROLLED")
           shifts == IF q = j.program THEN j.shifter ELSE {Shift(j, q)}
<1>6. /\ row \in RowType /\ row.sem = j.idx /\ row.program = q /\ row.level = j.level
      /\ row.status = "ENROLLED"
  BY <1>1, <1>3 DEF JourneyType, RowType, Row, STATUSES
<1>7. shifts \in SUBSET ShiftType
  BY <1>1, <1>3 DEF JourneyType, ShiftType, Shift
<1>8. k = [j EXCEPT !.idx = j.idx + 1, !.tenure = j.tenure + 1, !.program = q, !.level = level,
                    !.shifter = shifts, !.enrollment = Append(j.enrollment, row)]
  BY <1>1, <1>2, <1>3 DEF StayWith, JourneyType
<1> HIDE DEF row, shifts
<1>9. /\ j.tenure + 1 \in Nat /\ j.idx + 1 \in Nat /\ Append(j.enrollment, row) \in Seq(RowType)
  BY <1>1, <1>6, Appended DEF JourneyType
<1>10. k \in JourneyType
  BY <1>1, <1>3, <1>5, <1>7, <1>8, <1>9 DEF JourneyType
<1>11. /\ k.enrollment = Append(j.enrollment, row) /\ k.tenure = j.tenure + 1
       /\ k.first = j.first /\ k.entry = j.entry /\ k.student = j.student /\ k.program = q
       /\ k.shifter = shifts /\ k.level = level /\ k.status = "ACTIVE" /\ k.idx = j.idx + 1
       /\ k.dropout = j.dropout /\ k.graduation = j.graduation
  BY <1>1, <1>8 DEF JourneyType
<1>12. Clock(k) /\ Current(k) /\ ShiftsTold(k) /\ LevelsTold(k)
  <2>1. k.shifter = IF k.program = j.program THEN j.shifter ELSE {Shift(j, k.program)}
    BY <1>11 DEF shifts
  <2> QED
    BY <2>1, <1>1, <1>3, <1>4, <1>6, <1>10, <1>11, OneMoreRow
<1>13. OutcomesTold(k)
  <2>1. k.dropout = {} /\ k.graduation = {}
    BY <1>1, <1>11 DEF OutcomesTold
  <2>2. \A i \in DOMAIN k.enrollment : k.enrollment[i].status = "ENROLLED"
    <3>1. \A i \in DOMAIN j.enrollment : j.enrollment[i].status = "ENROLLED"
      BY <1>1 DEF OutcomesTold
    <3>2. /\ DOMAIN k.enrollment = 1 .. Len(j.enrollment) + 1
          /\ DOMAIN j.enrollment = 1 .. Len(j.enrollment) /\ Len(j.enrollment) \in Nat
          /\ \A i \in 1 .. Len(j.enrollment) : k.enrollment[i] = j.enrollment[i]
          /\ k.enrollment[Len(j.enrollment) + 1] = row
      BY <1>1, <1>6, <1>11, Appended DEF JourneyType
    <3>3. ASSUME NEW i \in DOMAIN k.enrollment
          PROVE  k.enrollment[i].status = "ENROLLED"
      <4>1. i \in 1 .. Len(j.enrollment) \/ i = Len(j.enrollment) + 1
        BY <3>2, <3>3
      <4>2. i \in 1 .. Len(j.enrollment) => k.enrollment[i].status = "ENROLLED"
        BY <3>1, <3>2
      <4> QED
        BY <4>1, <4>2, <3>2, <1>6
    <3> QED
      BY <3>3
  <2> QED
    BY <2>1, <2>2 DEF OutcomesTold, Here
<1> QED
  BY <1>10, <1>12, <1>13 DEF JourneyInv

LEMMA SemesterInv ==
  ASSUME NEW j, JourneyInv(j), ~Over(j), NEW k \in Semester(j)
  PROVE  JourneyInv(k)
  BY EndInv, StayInv DEF Semester

\* A student of the master enters with nothing told
LEMMA EnterInv ==
  ASSUME NEW s, s.id \in Identities, s.cohort \in Cohorts, s.program \in Programs,
         s.level \in 1 .. 3, NEW horizon \in Nat
  PROVE  JourneyInv(EnterStudent(s, horizon))
<1> DEFINE j == EnterStudent(s, horizon)
<1>1. Cohorts \subseteq Nat /\ Duration[s.program] \in Nat \ {0} /\ BufferYears \in Nat /\ BufferYears >= 2
  BY ProgramsAssumption, ConfigsAssumption
<1>2. entry_semester_index(s.cohort) \in Nat
  <2>1. s.cohort \in Nat
    BY <1>1
  <2>2. \A c \in Nat : 2 * c \in Nat
    OBVIOUS
  <2> QED
    BY <2>1, <2>2 DEF entry_semester_index
<1>3. j \in JourneyType
  BY <1>2 DEF EnterStudent, JourneyType, Levels
<1>4. j.enrollment = << >> /\ Len(j.enrollment) = 0 /\ DOMAIN j.enrollment = {} /\ j.tenure = 0
  BY DEF EnterStudent
<1>5. /\ j.program = j.entry /\ j.entry = s.program /\ j.level = s.level /\ j.idx = j.first
      /\ j.first \in Nat /\ j.shifter = {} /\ j.graduation = {} /\ j.dropout = {}
  BY <1>2 DEF EnterStudent
<1> HIDE DEF j
<1>6. Clock(j)
  BY <1>4, <1>5 DEF Clock
<1>7. Current(j)
  BY <1>4, <1>5 DEF Current, ProgramBefore
<1>8. ShiftsTold(j) /\ OutcomesTold(j)
  BY <1>4, <1>5 DEF ShiftsTold, OutcomesTold
<1>9. LevelsTold(j)
  <2>1. j.level <= Duration[j.entry] + BufferYears
    BY <1>1, <1>5
  <2> QED
    BY <2>1, <1>4, <1>5 DEF LevelsTold
<1>10. JourneyInv(j)
  BY <1>3, <1>6, <1>7, <1>8, <1>9 DEF JourneyInv
<1> QED
  BY <1>10 DEF j

(***************************************************************************)
(* The runs of the generator                                                *)
(***************************************************************************)

MasterInv ==
  /\ plan \in Seq(Configs) /\ config \in Configs
  /\ "master" \in DOMAIN disk
  /\ \A s \in disk.master : /\ s.id \in Identities /\ s.cohort \in Cohorts
                            /\ s.program \in Programs /\ s.level \in 1 .. 3

JourneysInv == \A s \in DOMAIN journeys : JourneyInv(journeys[s])

IInv == MasterInv /\ JourneysInv

LEMMA InitInv == Init => IInv
<1> SUFFICES ASSUME Init PROVE IInv
  OBVIOUS
<1>1. plan \in Seq(Configs) /\ plan # << >>
  BY ConfigsAssumption DEF Init
<1>2. config \in Configs
  BY <1>1 DEF Init
<1>3. "master" \in DOMAIN disk /\ disk.master = {}
  BY DEF Init, EmptyDisk
<1>4. JourneysInv
  BY DEF Init, JourneysInv
<1> QED
  BY <1>1, <1>2, <1>3, <1>4 DEF IInv, MasterInv

LEMMA StartInv == IInv /\ Start => IInv'
<1> SUFFICES ASSUME IInv, Start PROVE IInv'
  OBVIOUS
<1>1. plan \in Seq(Configs) /\ plan # << >> /\ plan' = Tail(plan) /\ config' = Head(plan)
  BY DEF IInv, MasterInv, Start
<1>2. plan' \in Seq(Configs) /\ config' \in Configs
  BY <1>1
<1>3. "master" \in DOMAIN disk' /\ (disk'.master = {} \/ disk'.master = disk.master)
  BY DEF IInv, MasterInv, Start, CleanOutput, EmptyDisk
<1>4. MasterInv'
  BY <1>2, <1>3 DEF IInv, MasterInv
<1>5. JourneysInv'
  BY DEF Start, JourneysInv
<1> QED
  BY <1>4, <1>5 DEF IInv

\* The students drawn are of the cohorts and programs of the configuration
LEMMA StudentsInv == IInv /\ generate_all_students => IInv'
<1> SUFFICES ASSUME IInv, generate_all_students PROVE IInv'
  OBVIOUS
<1>1. PICK f \in [Ids(config) -> Draws(config)] :
        disk' = [disk EXCEPT !.master = {Student(id, f[id]) : id \in Ids(config)},
                             !.profiles = Ids(config)]
  BY DEF generate_all_students
<1>2. /\ config \in Configs /\ config.programs \subseteq Programs /\ config.sizes \in [Cohorts -> Nat]
      /\ Cohorts \subseteq Nat
  BY ConfigsAssumption DEF IInv, MasterInv
<1>3. "master" \in DOMAIN disk' /\ disk'.master = {Student(id, f[id]) : id \in Ids(config)}
  BY <1>1 DEF IInv, MasterInv
<1>4. ASSUME NEW id \in Ids(config)
      PROVE  LET s == Student(id, f[id])
             IN  s.id \in Identities /\ s.cohort \in Cohorts /\ s.program \in Programs /\ s.level \in 1 .. 3
  <2>1. PICK k \in Cohorts : \E i \in 1 .. config.sizes[k] : id = <<k, i>>
    BY DEF Ids
  <2>2. id \in Identities /\ id[1] \in Cohorts
    <3>1. PICK i \in 1 .. config.sizes[k] : id = <<k, i>>
      BY <2>1
    <3>2. i \in Nat
      BY <1>2, <3>1
    <3> QED
      BY <1>2, <3>1, <3>2 DEF Identities
  <2>3. f[id] \in Draws(config)
    OBVIOUS
  <2>4. f[id].program \in Programs /\ f[id].level \in 1 .. 3
    BY <1>2, <2>3 DEF Draws, sample_entry_year_level
  <2> QED
    BY <2>2, <2>4 DEF Student
<1>5. MasterInv'
  <2>1. plan' \in Seq(Configs) /\ config' \in Configs
    BY DEF IInv, MasterInv, generate_all_students
  <2> QED
    BY <2>1, <1>3, <1>4 DEF MasterInv
<1>6. JourneysInv'
  BY DEF IInv, JourneysInv, generate_all_students
<1> QED
  BY <1>5, <1>6 DEF IInv

LEMMA ReadInv == IInv /\ _read_students_and_risk => IInv'
<1> SUFFICES ASSUME IInv, _read_students_and_risk PROVE IInv'
  OBVIOUS
<1>1. MasterInv'
  BY DEF IInv, MasterInv, _read_students_and_risk
<1>2. CASE UNCHANGED journeys
  BY <1>1, <1>2 DEF IInv, JourneysInv
<1>3. CASE journeys' = [id \in {s.id : s \in disk.master} |->
                          EnterStudent(CHOOSE s \in disk.master : s.id = id, config.horizon)]
  <2>1. config.horizon \in Nat
    BY ConfigsAssumption DEF IInv, MasterInv
  <2>2. ASSUME NEW id \in DOMAIN journeys'
        PROVE  JourneyInv(journeys'[id])
    <3>1. id \in {s.id : s \in disk.master}
      BY <1>3, <2>2
    <3>2. PICK s \in disk.master : s = CHOOSE x \in disk.master : x.id = id
      BY <3>1
    <3>3. s.id \in Identities /\ s.cohort \in Cohorts /\ s.program \in Programs /\ s.level \in 1 .. 3
      BY DEF IInv, MasterInv
    <3>4. JourneyInv(EnterStudent(s, config.horizon))
      BY <2>1, <3>3, EnterInv
    <3>5. journeys'[id] = EnterStudent(s, config.horizon)
      BY <1>3, <3>1, <3>2
    <3> QED
      BY <3>4, <3>5
  <2>3. JourneysInv'
    BY <2>2 DEF JourneysInv
  <2> QED
    BY <1>1, <2>3 DEF IInv
<1> QED
  BY <1>2, <1>3 DEF _read_students_and_risk

LEMMA SimulateInv == IInv /\ SimulateSemester => IInv'
<1> SUFFICES ASSUME IInv, SimulateSemester PROVE IInv'
  OBVIOUS
<1>1. PICK s \in DOMAIN journeys :
        ~Over(journeys[s]) /\ \E j \in Semester(journeys[s]) : journeys' = [journeys EXCEPT ![s] = j]
  BY DEF SimulateSemester
<1>2. PICK j \in Semester(journeys[s]) : journeys' = [journeys EXCEPT ![s] = j]
  BY <1>1
<1>3. JourneyInv(j)
  <2>1. JourneyInv(journeys[s])
    BY DEF IInv, JourneysInv
  <2> QED
    BY <2>1, <1>1, <1>2, SemesterInv
<1>4. JourneysInv'
  BY <1>2, <1>3 DEF IInv, JourneysInv
<1>5. MasterInv'
  BY DEF IInv, MasterInv, SimulateSemester
<1> QED
  BY <1>4, <1>5 DEF IInv

\* The other stages write neither the master nor a journey
LEMMA OtherStagesInv ==
  ASSUME IInv, UNCHANGED <<plan, config, journeys>>, "master" \in DOMAIN disk',
         disk'.master = disk.master
  PROVE  IInv'
  BY DEF IInv, MasterInv, JourneysInv

LEMMA NextInv == IInv /\ [Next]_vars => IInv'
<1> SUFFICES ASSUME IInv, [Next]_vars PROVE IInv'
  OBVIOUS
<1>1. "master" \in DOMAIN disk
  BY DEF IInv, MasterInv
<1>2. CASE UNCHANGED vars
  BY <1>1, <1>2, OtherStagesInv DEF vars
<1>3. CASE generate_all_admissions
  BY <1>1, <1>3, OtherStagesInv DEF generate_all_admissions
<1>4. CASE SimulationOver
  BY <1>1, <1>4, OtherStagesInv DEF SimulationOver
<1>5. ASSUME NEW i \in DOMAIN EVENTS, WriteEvents(i)
      PROVE  IInv'
  <2>1. EVENTS[i] # "master"
    BY DEF EVENTS
  <2>2. PICK X : disk' = [disk EXCEPT ![EVENTS[i]] = X]
    BY <1>5 DEF WriteEvents
  <2>3. "master" \in DOMAIN disk' /\ disk'.master = disk.master
    BY <1>1, <2>1, <2>2
  <2> QED
    BY <1>5, <2>3, OtherStagesInv DEF WriteEvents
<1>6. CASE Validate
  BY <1>1, <1>6, OtherStagesInv DEF Validate
<1>7. CASE apply_all_noise
  <2>1. "master" \in DOMAIN disk' /\ disk'.master = disk.master
    BY <1>1, <1>7 DEF apply_all_noise
  <2> QED
    BY <1>7, <2>1, OtherStagesInv DEF apply_all_noise
<1>8. CASE WriteManifest
  BY <1>1, <1>8, OtherStagesInv DEF WriteManifest
<1>9. CASE RejectConfig
  BY <1>1, <1>9, OtherStagesInv DEF RejectConfig
<1>10. CASE Crash
  BY <1>1, <1>10, OtherStagesInv DEF Crash
<1> QED
  BY <1>2, <1>3, <1>4, <1>5, <1>6, <1>7, <1>8, <1>9, <1>10, StartInv, StudentsInv, ReadInv,
     SimulateInv DEF Next

(***************************************************************************)
(* The theorems                                                             *)
(***************************************************************************)

\* The records of every student mean what the loop's locals say of them, in every step
THEOREM JourneysInductive == Spec => []IInv
<1> QED
  BY InitInv, NextInv, PTL DEF Spec

\* The records of a student tell one story, for every catalogue, configuration and draw
THEOREM OneStory == Spec => []RecordsTellOneStory
<1>1. IInv => RecordsTellOneStory
  BY InvImpliesStory DEF IInv, JourneysInv, RecordsTellOneStory
<1> QED
  BY <1>1, JourneysInductive, PTL

\* The rows of a student pass the year level checks of Silver, whatever the catalogue, as
\* long as ExtraYears <= BufferYears and BufferYears >= 2
THEOREM SilverAccepts == Spec => []CleanRowsPassSilver
<1>1. IInv => CleanRowsPassSilver
  BY InvImpliesSilver DEF IInv, JourneysInv, CleanRowsPassSilver
<1> QED
  BY <1>1, JourneysInductive, PTL

(***************************************************************************)
(* The output directory                                                     *)
(***************************************************************************)

Files == {"master", "profiles", "manifest", "admissions"} \cup RangeOf(EVENTS)

LineType ==
  [at : Nat, row : RowType, noisy : BOOLEAN, copy : {"own", "again", "late"}]

\* The stages before a record is written, and what follows the last one
Before1 == {"students", "admissions", "progression", "simulate"}

After4 == {"validation", "noise", "manifest"}

MasterType ==
  \A s \in disk.master : /\ s.id \in Ids0 /\ s.cohort = s.id[1] /\ s.program \in Programs
                         /\ s.level \in sample_entry_year_level(s.admission)

\* Shapes, and that a verdict is about the files as they are
DiskTypeInv ==
  /\ DOMAIN disk = Files
  /\ pc \in Stages \cup Ended
  /\ MasterType /\ IsFiniteSet(disk.master)
  /\ disk.enrollment \subseteq LineType
  /\ DOMAIN journeys \subseteq Ids0
  /\ disk.manifest \in {"none", "passed", "failed", "not run"}
  /\ verdict \in {"none", "passed", "failed"}
  /\ verdict # "none" => pc \in {"noise", "manifest"} \cup Ended
  /\ crashes \in 0 .. MaxCrashes

LEMMA EventsAre ==
  /\ DOMAIN EVENTS = 1 .. 4 /\ Len(EVENTS) = 4
  /\ EVENTS[1] = "enrollment" /\ EVENTS[2] = "graduation"
  /\ EVENTS[3] = "dropout" /\ EVENTS[4] = "shifter"
  /\ RangeOf(EVENTS) = {"enrollment", "graduation", "dropout", "shifter"}
<1>1. /\ DOMAIN EVENTS = 1 .. 4 /\ Len(EVENTS) = 4
      /\ EVENTS[1] = "enrollment" /\ EVENTS[2] = "graduation"
      /\ EVENTS[3] = "dropout" /\ EVENTS[4] = "shifter"
  BY DEF EVENTS
<1>2. 1 .. 4 = {1, 2, 3, 4}
  OBVIOUS
<1> QED
  BY <1>1, <1>2 DEF RangeOf

LEMMA FilesAre ==
  Files = {"master", "profiles", "manifest", "admissions", "enrollment", "graduation", "dropout",
           "shifter"}
  BY EventsAre DEF Files

\* One file is replaced, the others stay
LEMMA OneFile ==
  ASSUME DOMAIN disk = Files, NEW f \in Files, NEW X, disk' = [disk EXCEPT ![f] = X]
  PROVE  DOMAIN disk' = Files /\ disk'[f] = X /\ \A g \in Files \ {f} : disk'[g] = disk[g]
  OBVIOUS

\* The records of the simulated students
LEMMA RecordsTyped ==
  ASSUME IInv
  PROVE  \A x \in RecordsOf("enrollment") :
           x \in LineType /\ x.copy = "own" /\ x.at = x.row.sem
<1> SUFFICES ASSUME NEW x \in RecordsOf("enrollment")
             PROVE  x \in LineType /\ x.copy = "own" /\ x.at = x.row.sem
  OBVIOUS
<1>1. PICK s \in DOMAIN journeys :
        x \in {Line(r.sem, r, FALSE, "own") : r \in RangeOf(journeys[s].enrollment)}
  BY DEF RecordsOf
<1>2. PICK r \in RangeOf(journeys[s].enrollment) : x = Line(r.sem, r, FALSE, "own")
  BY <1>1
<1>3. journeys[s].enrollment \in Seq(RowType)
  BY DEF IInv, JourneysInv, JourneyInv, JourneyType
<1>4. r \in RowType
  BY <1>2, <1>3 DEF RangeOf
<1>5. r.sem \in Nat
  BY <1>4 DEF RowType
<1> QED
  BY <1>2, <1>4, <1>5 DEF Line, LineType

\* What noise makes of a line
LEMMA NoisyLine ==
  ASSUME NEW x \in LineType, NEW hit
  PROVE  /\ Noised(x, hit) \in LineType /\ Noised(x, hit).row = x.row
         /\ Noised(x, hit).at = x.at /\ Noised(x, hit).copy = x.copy
  BY DEF Noised, LineType

NoisyLines(L, hit, twice, late, to) ==
  {Noised(x, hit) : x \in L}
    \cup {[Noised(x, hit) EXCEPT !.copy = "again"] : x \in twice}
    \cup {LateCopy(Noised(x, hit), to[x]) : x \in late}

\* The lines after noise: every row is still there, none is new, and what is not where it
\* belongs is a late copy
LEMMA NoiseKeepsRows ==
  ASSUME NEW L, L \subseteq LineType, NEW hit, NEW twice, twice \subseteq L, NEW late, late \subseteq L,
         NEW to, to \in [late -> Nat]
  PROVE  /\ NoisyLines(L, hit, twice, late, to) \subseteq LineType
         /\ RowsOf(NoisyLines(L, hit, twice, late, to)) = RowsOf(L)
         /\ \A m \in NoisyLines(L, hit, twice, late, to) :
              \/ \E x \in L : m.at = x.at /\ m.row = x.row /\ m.copy \in {x.copy, "again"}
              \/ \E x \in late : m.at = to[x] /\ m.row = x.row /\ m.copy = "late"
<1> DEFINE M == NoisyLines(L, hit, twice, late, to)
<1> DEFINE A == {Noised(x, hit) : x \in L}
           B == {[Noised(x, hit) EXCEPT !.copy = "again"] : x \in twice}
           C == {LateCopy(Noised(x, hit), to[x]) : x \in late}
<1>1. ASSUME NEW m \in A
      PROVE  m \in LineType /\ \E x \in L : m.at = x.at /\ m.row = x.row /\ m.copy = x.copy
  BY <1>1, NoisyLine
<1>2. ASSUME NEW m \in B
      PROVE  m \in LineType /\ \E x \in L : m.at = x.at /\ m.row = x.row /\ m.copy = "again"
  <2>1. PICK x \in twice : m = [Noised(x, hit) EXCEPT !.copy = "again"]
    BY <1>2
  <2>2. /\ Noised(x, hit) \in LineType /\ Noised(x, hit).row = x.row
        /\ Noised(x, hit).at = x.at /\ x \in L
    BY NoisyLine
  <2> HIDE DEF B
  <2> QED
    BY <2>1, <2>2 DEF LineType
<1>3. ASSUME NEW m \in C
      PROVE  m \in LineType /\ \E x \in late : m.at = to[x] /\ m.row = x.row /\ m.copy = "late"
  <2>1. PICK x \in late : m = LateCopy(Noised(x, hit), to[x])
    BY <1>3
  <2>2. /\ Noised(x, hit) \in LineType /\ Noised(x, hit).row = x.row /\ to[x] \in Nat
    BY NoisyLine
  <2> HIDE DEF C
  <2> QED
    BY <2>1, <2>2 DEF LateCopy, LineType
<1>4. \A m \in M : m \in A \/ m \in B \/ m \in C
  BY DEF NoisyLines
<1>5. ASSUME NEW x \in L
      PROVE  \E m \in M : m.row = x.row
  BY NoisyLine DEF NoisyLines
<1> HIDE DEF A, B, C, M
<1>6. \A m \in M : \E x \in L : m.row = x.row
  BY <1>1, <1>2, <1>3, <1>4
<1>7. RowsOf(M) = RowsOf(L)
  <2>1. ASSUME NEW r \in RowsOf(M)
        PROVE  r \in RowsOf(L)
    BY <2>1, <1>6 DEF RowsOf
  <2>2. ASSUME NEW r \in RowsOf(L)
        PROVE  r \in RowsOf(M)
    BY <2>2, <1>5 DEF RowsOf
  <2> QED
    BY <2>1, <2>2
<1>8. M = NoisyLines(L, hit, twice, late, to)
  BY DEF M
<1> QED
  BY <1>1, <1>2, <1>3, <1>4, <1>7, <1>8

\* What noise does to the directory
LEMMA NoiseStep ==
  ASSUME DiskTypeInv, apply_all_noise
  PROVE  \/ UNCHANGED disk
         \/ \E M : /\ M \subseteq LineType /\ RowsOf(M) = RowsOf(disk.enrollment)
                   /\ disk' = [disk EXCEPT !.enrollment = M]
                   /\ \A m \in M :
                        \E x \in disk.enrollment :
                          /\ m.row = x.row
                          /\ \/ m.at = x.at /\ m.copy \in {x.copy, "again"}
                             \/ m.at > x.at /\ m.copy = "late"
<1> DEFINE L == disk.enrollment
<1>1. SUFFICES ASSUME L # {}, pc' = "manifest"
               PROVE  \E M : /\ M \subseteq LineType /\ RowsOf(M) = RowsOf(disk.enrollment)
                   /\ disk' = [disk EXCEPT !.enrollment = M]
                   /\ \A m \in M :
                        \E x \in disk.enrollment :
                          /\ m.row = x.row
                          /\ \/ m.at = x.at /\ m.copy \in {x.copy, "again"}
                             \/ m.at > x.at /\ m.copy = "late"
  BY DEF apply_all_noise
<1>2. PICK hit, twice, late \in SmallSubsets(L) :
        \E to \in [late -> {x.at : x \in L}] :
          /\ \A x \in late : to[x] \in {y.at : y \in {z \in L : z.at > x.at}}
          /\ disk' = [disk EXCEPT !.enrollment =
               {Noised(x, hit) : x \in L}
               \cup {[Noised(x, hit) EXCEPT !.copy = "again"] : x \in twice}
               \cup {LateCopy(Noised(x, hit), to[x]) : x \in late}]
  BY <1>1 DEF apply_all_noise
<1>3. PICK to \in [late -> {x.at : x \in L}] :
          /\ \A x \in late : to[x] \in {y.at : y \in {z \in L : z.at > x.at}}
          /\ disk' = [disk EXCEPT !.enrollment =
               {Noised(x, hit) : x \in L}
               \cup {[Noised(x, hit) EXCEPT !.copy = "again"] : x \in twice}
               \cup {LateCopy(Noised(x, hit), to[x]) : x \in late}]
  BY <1>2
<1> HIDE DEF L
<1>0. PICK M : M = NoisyLines(L, hit, twice, late, to)
  OBVIOUS
<1>4. L \subseteq LineType
  BY DEF DiskTypeInv, L
<1>5. twice \subseteq L /\ late \subseteq L
  BY <1>2 DEF SmallSubsets
<1>6. \A x \in late : to[x] > x.at
  BY <1>3
<1>7. to \in [late -> Nat]
  <2>1. \A x \in L : x.at \in Nat
    BY <1>4 DEF LineType
  <2> QED
    BY <1>3, <2>1
<1> DEFINE X == NoisyLines(L, hit, twice, late, to)
<1>11. /\ X \subseteq LineType
      /\ RowsOf(X) = RowsOf(L)
      /\ \A m \in X : \/ \E x \in L : m.at = x.at /\ m.row = x.row /\ m.copy \in {x.copy, "again"}
                      \/ \E x \in late : m.at = to[x] /\ m.row = x.row /\ m.copy = "late"
  BY <1>4, <1>5, <1>7, NoiseKeepsRows
<1>8. /\ M \subseteq LineType
      /\ RowsOf(M) = RowsOf(L)
      /\ \A m \in M : \/ \E x \in L : m.at = x.at /\ m.row = x.row /\ m.copy \in {x.copy, "again"}
                      \/ \E x \in late : m.at = to[x] /\ m.row = x.row /\ m.copy = "late"
  BY <1>0, <1>11
<1>9. disk' = [disk EXCEPT !.enrollment = M]
  BY <1>0, <1>3 DEF NoisyLines
<1>10. \A m \in M :
        \E x \in L :
          /\ m.row = x.row
          /\ \/ m.at = x.at /\ m.copy \in {x.copy, "again"}
             \/ m.at > x.at /\ m.copy = "late"
  BY <1>5, <1>6, <1>8
<1> QED
  BY <1>8, <1>9, <1>10 DEF L

LEMMA InitTypes == Init => DiskTypeInv
<1> SUFFICES ASSUME Init PROVE DiskTypeInv
  OBVIOUS
<1>1. /\ disk.master = {} /\ disk.enrollment = {} /\ disk.manifest = "none"
      /\ DOMAIN disk = Files
  BY FilesAre DEF Init, EmptyDisk
<1>2. MasterType /\ IsFiniteSet(disk.master)
  BY <1>1, FS_EmptySet DEF MasterType
<1>3. DOMAIN journeys \subseteq Ids0
  BY DEF Init
<1>4. crashes \in 0 .. MaxCrashes
  BY ConfigsAssumption DEF Init
<1> QED
  BY <1>1, <1>2, <1>3, <1>4 DEF Init, DiskTypeInv, Ended

LEMMA StartTypes == DiskTypeInv /\ Start => DiskTypeInv'
<1> SUFFICES ASSUME DiskTypeInv, Start PROVE DiskTypeInv'
  OBVIOUS
<1>1. disk' = disk \/ disk' = EmptyDisk
  BY DEF Start, CleanOutput
<1>2. /\ DOMAIN disk' = Files /\ MasterType' /\ IsFiniteSet(disk'.master)
      /\ disk'.enrollment \subseteq LineType
      /\ disk'.manifest \in {"none", "passed", "failed", "not run"}
  <2>1. CASE disk' = disk
    BY <2>1 DEF DiskTypeInv, MasterType
  <2>2. CASE disk' = EmptyDisk
    <3>1. disk'.master = {} /\ disk'.enrollment = {} /\ disk'.manifest = "none" /\ DOMAIN disk' = Files
      BY <2>2, FilesAre DEF EmptyDisk
    <3> QED
      BY <3>1, FS_EmptySet DEF MasterType
  <2> QED
    BY <1>1, <2>1, <2>2
<1>3. DOMAIN journeys' \subseteq Ids0
  BY DEF Start
<1>4. pc' = "students" /\ verdict' = "none" /\ crashes' \in 0 .. MaxCrashes
  BY DEF Start, DiskTypeInv
<1> QED
  BY <1>2, <1>3, <1>4 DEF DiskTypeInv, Stages

\* The numbers a configuration gives are finitely many
LEMMA IdsFinite ==
  ASSUME NEW c \in Configs
  PROVE  IsFiniteSet(Ids(c)) /\ \A id \in Ids(c) : id \in Ids0
<1> DEFINE Of(k) == {<<k, i>> : i \in 1 .. c.sizes[k]}
           S == {Of(k) : k \in Cohorts}
<1>1. c.sizes \in [Cohorts -> Nat] /\ Cohorts \subseteq Nat /\ IsFiniteSet(Cohorts)
  BY ConfigsAssumption
<1>2. ASSUME NEW k \in Cohorts
      PROVE  IsFiniteSet(Of(k))
  <2>1. c.sizes[k] \in Nat
    BY <1>1
  <2>2. IsFiniteSet(1 .. c.sizes[k])
    BY <2>1, FS_Interval
  <2>3. [i \in 1 .. c.sizes[k] |-> <<k, i>>] \in Surjection(1 .. c.sizes[k], Of(k))
    BY DEF Surjection
  <2> QED
    BY <2>2, <2>3, FS_Surjection
<1>3. IsFiniteSet(S)
  <2>1. [k \in Cohorts |-> Of(k)] \in Surjection(Cohorts, S)
    BY DEF Surjection
  <2> QED
    BY <1>1, <2>1, FS_Surjection
<1>4. \A T \in S : IsFiniteSet(T)
  BY <1>2
<1>5. Ids(c) = UNION S
  BY DEF Ids
<1>6. ASSUME NEW id \in Ids(c)
      PROVE  id \in Ids0
  <2>1. PICK k \in Cohorts : id \in Of(k)
    BY DEF Ids
  <2>2. c.sizes[k] \in Nat
    BY <1>1
  <2>3. PICK i \in 1 .. c.sizes[k] : id = <<k, i>>
    BY <2>1
  <2>4. i \in Nat \ {0}
    BY <2>2, <2>3
  <2> QED
    BY <2>3, <2>4 DEF Ids0
<1> HIDE DEF S
<1> QED
  BY <1>3, <1>4, <1>5, <1>6, FS_UNION

LEMMA StudentsTypes == IInv /\ DiskTypeInv /\ generate_all_students => DiskTypeInv'
<1> SUFFICES ASSUME IInv, DiskTypeInv, generate_all_students PROVE DiskTypeInv'
  OBVIOUS
<1>1. config \in Configs /\ config.programs \subseteq Programs
  BY ConfigsAssumption DEF IInv, MasterInv
<1>2. PICK f \in [Ids(config) -> Draws(config)] :
        disk' = [disk EXCEPT !.master = {Student(id, f[id]) : id \in Ids(config)},
                             !.profiles = Ids(config)]
  BY DEF generate_all_students
<1>3. IsFiniteSet(Ids(config)) /\ \A id \in Ids(config) : id \in Ids0
  BY <1>1, IdsFinite
<1>4. /\ DOMAIN disk' = Files /\ disk'.master = {Student(id, f[id]) : id \in Ids(config)}
      /\ disk'.enrollment = disk.enrollment /\ disk'.manifest = disk.manifest
  BY <1>2, FilesAre DEF DiskTypeInv
<1>5. ASSUME NEW s \in disk'.master
      PROVE  /\ s.id \in Ids0 /\ s.cohort = s.id[1] /\ s.program \in Programs
             /\ s.level \in sample_entry_year_level(s.admission)
  <2>1. PICK id \in Ids(config) : s = Student(id, f[id])
    BY <1>4, <1>5
  <2>2. f[id] \in Draws(config)
    OBVIOUS
  <2>3. f[id].program \in Programs /\ f[id].level \in sample_entry_year_level(f[id].admission)
    <3>1. PICK a \in config.admissions :
            \E p \in config.programs, level \in sample_entry_year_level(a) :
              f[id] = [program |-> p, admission |-> a, level |-> level]
      BY <2>2 DEF Draws
    <3> QED
      BY <3>1, <1>1
  <2> QED
    BY <2>1, <2>3, <1>3 DEF Student
<1>6. IsFiniteSet(disk'.master)
  <2> DEFINE g == [id \in Ids(config) |-> Student(id, f[id])]
  <2>1. g \in Surjection(Ids(config), disk'.master)
    BY <1>4 DEF Surjection
  <2> QED
    BY <1>3, <2>1, FS_Surjection
<1>7. pc' = "admissions" /\ UNCHANGED <<journeys, verdict, crashes>> /\ verdict = "none"
  BY DEF generate_all_students, DiskTypeInv, Ended
<1> QED
  BY <1>4, <1>5, <1>6, <1>7 DEF DiskTypeInv, MasterType, Stages

LEMMA AdmissionsTypes == DiskTypeInv /\ generate_all_admissions => DiskTypeInv'
<1> SUFFICES ASSUME DiskTypeInv, generate_all_admissions PROVE DiskTypeInv'
  OBVIOUS
<1>1. PICK X : disk' = [disk EXCEPT !.admissions = X]
  BY DEF generate_all_admissions
<1>2. DOMAIN disk' = Files /\ \A g \in Files \ {"admissions"} : disk'[g] = disk[g]
  BY <1>1, FilesAre, OneFile DEF DiskTypeInv
<1>3. disk'.master = disk.master /\ disk'.enrollment = disk.enrollment /\ disk'.manifest = disk.manifest
  BY <1>2, FilesAre
<1>4. pc' = "progression" /\ UNCHANGED <<journeys, verdict, crashes>> /\ verdict = "none"
  BY DEF generate_all_admissions, DiskTypeInv, Ended
<1> QED
  BY <1>2, <1>3, <1>4 DEF DiskTypeInv, MasterType, Stages

LEMMA EventsTypes ==
  ASSUME IInv, DiskTypeInv, NEW i \in DOMAIN EVENTS, WriteEvents(i)
  PROVE  DiskTypeInv'
<1> DEFINE e == EVENTS[i]
           X == {x \in disk[e] : SemesterOf(e, x) \notin {SemesterOf(e, y) : y \in RecordsOf(e)}}
                  \cup RecordsOf(e)
<1>1. disk' = [disk EXCEPT ![e] = X] /\ pc = e /\ pc' = AfterEvent(i)
  BY DEF WriteEvents, DiskTypeInv
<1>2. e \in RangeOf(EVENTS) /\ e \in Files /\ e \notin {"master", "manifest"}
  BY EventsAre, FilesAre DEF RangeOf
<1>3. (e = "enrollment") => X \subseteq LineType
  BY RecordsTyped DEF DiskTypeInv
<1> HIDE DEF X
<1>4. DOMAIN disk' = Files /\ disk'[e] = X /\ \A g \in Files \ {e} : disk'[g] = disk[g]
  BY <1>1, <1>2, OneFile DEF DiskTypeInv
<1>5. disk'.master = disk.master /\ disk'.manifest = disk.manifest
  BY <1>2, <1>4, FilesAre
<1>6. disk'.enrollment \subseteq LineType
  BY <1>3, <1>4, FilesAre DEF DiskTypeInv
<1>7. pc' \in Stages /\ pc' \in {"graduation", "dropout", "shifter", "validation", "noise", "manifest"}
  BY <1>1, EventsAre DEF AfterEvent, Stages
<1>8. UNCHANGED <<journeys, verdict, crashes>>
  BY DEF WriteEvents
<1>9. verdict = "none"
  BY <1>1, <1>2, EventsAre DEF DiskTypeInv, Ended
<1> QED
  BY <1>4, <1>5, <1>6, <1>7, <1>8, <1>9 DEF DiskTypeInv, MasterType

LEMMA NoiseTypes == DiskTypeInv /\ apply_all_noise => DiskTypeInv'
<1> SUFFICES ASSUME DiskTypeInv, apply_all_noise PROVE DiskTypeInv'
  OBVIOUS
<1>1. pc' \in {"failed", "manifest"} /\ UNCHANGED <<journeys, verdict, crashes>>
  BY DEF apply_all_noise
<1>2. CASE UNCHANGED disk
  BY <1>1, <1>2 DEF DiskTypeInv, MasterType, Stages, Ended
<1>3. CASE \E M : M \subseteq LineType /\ disk' = [disk EXCEPT !.enrollment = M]
  <2>1. PICK M : M \subseteq LineType /\ disk' = [disk EXCEPT !.enrollment = M]
    BY <1>3
  <2>2. /\ DOMAIN disk' = Files /\ disk'["enrollment"] = M
        /\ \A g \in Files \ {"enrollment"} : disk'[g] = disk[g]
    BY <2>1, FilesAre, OneFile DEF DiskTypeInv
  <2>3. /\ disk'.master = disk.master /\ disk'.manifest = disk.manifest
        /\ disk'.enrollment \subseteq LineType
    BY <2>1, <2>2, FilesAre
  <2> QED
    BY <1>1, <2>2, <2>3 DEF DiskTypeInv, MasterType, Stages, Ended
<1> QED
  BY <1>2, <1>3, NoiseStep

LEMMA NextTypes == IInv /\ DiskTypeInv /\ [Next]_vars => DiskTypeInv'
<1> SUFFICES ASSUME IInv, DiskTypeInv, [Next]_vars PROVE DiskTypeInv'
  OBVIOUS
<1>1. CASE UNCHANGED vars
  BY <1>1 DEF vars, DiskTypeInv, MasterType
<1>2. CASE _read_students_and_risk
  <2>1. DOMAIN journeys' \subseteq Ids0
    <3>1. \A s \in disk.master : s.id \in Ids0
      BY DEF DiskTypeInv, MasterType
    <3>2. DOMAIN journeys' = {s.id : s \in disk.master} \/ journeys' = journeys
      BY <1>2 DEF _read_students_and_risk
    <3>3. {s.id : s \in disk.master} \subseteq Ids0
      BY <3>1
    <3>4. DOMAIN journeys \subseteq Ids0
      BY DEF DiskTypeInv
    <3> QED
      BY <3>2, <3>3, <3>4
  <2>2. /\ pc' \in {"simulate", "failed"} /\ UNCHANGED <<disk, verdict, crashes>> /\ verdict = "none"
    BY <1>2 DEF _read_students_and_risk, DiskTypeInv, Ended
  <2> QED
    BY <2>1, <2>2 DEF DiskTypeInv, MasterType, Stages, Ended
<1>3. CASE SimulateSemester
  <2>1. DOMAIN journeys' = DOMAIN journeys /\ UNCHANGED <<pc, disk, verdict, crashes>>
    BY <1>3 DEF SimulateSemester
  <2> QED
    BY <2>1 DEF DiskTypeInv, MasterType
<1>4. CASE SimulationOver
  <2>1. /\ pc' = "enrollment" /\ UNCHANGED <<journeys, disk, verdict, crashes>> /\ verdict = "none"
    BY <1>4, EventsAre DEF SimulationOver, DiskTypeInv, Ended
  <2>2. pc' \in Stages
    BY <2>1, EventsAre DEF Stages
  <2> QED
    BY <2>1, <2>2 DEF DiskTypeInv, MasterType
<1>5. CASE Validate
  BY <1>5 DEF Validate, DiskTypeInv, MasterType, Stages
<1>6. CASE WriteManifest
  <2>1. PICK X \in {"none", "passed", "failed", "not run"} : disk' = [disk EXCEPT !.manifest = X]
    BY <1>6 DEF WriteManifest, DiskTypeInv
  <2>2. /\ DOMAIN disk' = Files /\ disk'["manifest"] = X
        /\ \A g \in Files \ {"manifest"} : disk'[g] = disk[g]
    BY <2>1, FilesAre, OneFile DEF DiskTypeInv
  <2>3. disk'.master = disk.master /\ disk'.enrollment = disk.enrollment /\ disk'.manifest = X
    BY <2>2, FilesAre
  <2>4. pc' \in {"raised", "returned"} /\ UNCHANGED <<journeys, verdict, crashes>>
    BY <1>6 DEF WriteManifest
  <2> QED
    BY <2>2, <2>3, <2>4 DEF DiskTypeInv, MasterType, Ended
<1>7. CASE RejectConfig
  BY <1>7 DEF RejectConfig, DiskTypeInv, MasterType, Ended
<1>8. CASE Crash
  <2>1. crashes' \in 0 .. MaxCrashes
    <3>1. crashes \in 0 .. MaxCrashes /\ crashes < MaxCrashes /\ crashes' = crashes + 1
      BY <1>8 DEF Crash, DiskTypeInv
    <3>2. MaxCrashes \in Nat
      BY ConfigsAssumption
    <3> QED
      BY <3>1, <3>2
  <2> QED
    BY <1>8, <2>1 DEF Crash, DiskTypeInv, MasterType, Ended
<1> QED
  BY <1>1, <1>2, <1>3, <1>4, <1>5, <1>6, <1>7, <1>8, StartTypes, StudentsTypes, AdmissionsTypes,
     EventsTypes, NoiseTypes DEF Next

\* The shapes the stages assume, for every configuration and draw
THEOREM DatasetTypeCorrect == Spec => []TypeOK
<1>1. Spec => []DiskTypeInv
  BY InitTypes, NextTypes, JourneysInductive, PTL DEF Spec
<1>2. IInv /\ DiskTypeInv => TypeOK
  <2> SUFFICES ASSUME IInv, DiskTypeInv PROVE TypeOK
    OBVIOUS
  <2>1. \A x \in disk.enrollment : /\ x.at \in Nat /\ x.noisy \in BOOLEAN
                                   /\ x.copy \in {"own", "again", "late"}
                                   /\ x.row.program \in Programs /\ x.row.level \in Nat
    BY DEF DiskTypeInv, LineType, RowType, Levels
  <2>2. verdict # "none" => pc \notin {"students", "admissions", "progression", "simulate"}
    BY DEF DiskTypeInv, Ended
  <2> QED
    BY <2>1, <2>2 DEF TypeOK, IInv, MasterInv, DiskTypeInv, MasterType
<1> QED
  BY <1>1, <1>2, JourneysInductive, PTL

(***************************************************************************)
(* A validation that passed                                                 *)
(***************************************************************************)

\* What a passed validation says of the rows in the directory
SoundNow ==
  LET rows == RowsOf(disk.enrollment)
  IN  /\ \A p, r \in rows : p.student = r.student /\ p.sem = r.sem => p = r
      /\ Known(rows) /\ PossibleTransitions(rows) /\ CoversEverything(rows)

\* A verdict is about the rows that are there now, and so is the manifest of a run that returned
VerdictInv ==
  /\ verdict = "passed" => SoundNow
  /\ pc = "returned" /\ disk.manifest = "passed" => SoundNow

\* It is about the rows and the master alone
LEMMA SoundKept ==
  ASSUME SoundNow, disk'.master = disk.master, RowsOf(disk'.enrollment) = RowsOf(disk.enrollment)
  PROVE  SoundNow'
<1>1. RowsOf(disk.enrollment)' = RowsOf(disk.enrollment)
  OBVIOUS
<1>2. ASSUME Known(RowsOf(disk.enrollment)) PROVE Known(RowsOf(disk.enrollment))'
  BY <1>1, <1>2 DEF Known
<1>3. PossibleTransitions(RowsOf(disk.enrollment)) => PossibleTransitions(RowsOf(disk.enrollment))'
  BY <1>1 DEF PossibleTransitions
<1>4. CoversEverything(RowsOf(disk.enrollment)) => CoversEverything(RowsOf(disk.enrollment))'
  BY <1>1 DEF CoversEverything
<1> QED
  BY <1>1, <1>2, <1>3, <1>4 DEF SoundNow

LEMMA ValidateVerdict == DiskTypeInv /\ VerdictInv /\ Validate => VerdictInv'
<1> SUFFICES ASSUME VerdictInv, Validate PROVE VerdictInv'
  OBVIOUS
<1>1. UNCHANGED disk /\ pc' # "returned"
  BY DEF Validate
<1>2. ASSUME verdict' = "passed"
      PROVE  SoundNow
  <2>1. build_validation_report(disk.enrollment)
    BY <1>2 DEF Validate
  <2>2. /\ CoversEverything(RowsOf(disk.enrollment)) /\ NoDuplicates(disk.enrollment)
        /\ PossibleTransitions(RowsOf(disk.enrollment))
    BY <2>1 DEF build_validation_report, SoundRecords
  <2>3. Known(RowsOf(disk.enrollment))
    BY <2>1 DEF build_validation_report, SoundRecords, Known
  <2>4. ASSUME NEW p \in RowsOf(disk.enrollment), NEW r \in RowsOf(disk.enrollment),
               p.student = r.student, p.sem = r.sem
        PROVE  p = r
    <3>1. PICK x \in disk.enrollment : x.row = p
      BY DEF RowsOf
    <3>2. PICK y \in disk.enrollment : y.row = r
      BY DEF RowsOf
    <3> QED
      BY <2>2, <2>4, <3>1, <3>2 DEF NoDuplicates
  <2> QED
    BY <2>2, <2>3, <2>4 DEF SoundNow
<1>3. SoundNow => SoundNow'
  BY <1>1, SoundKept
<1> QED
  BY <1>1, <1>2, <1>3 DEF VerdictInv

LEMMA NextVerdict == DiskTypeInv /\ VerdictInv /\ [Next]_vars => VerdictInv'
<1> SUFFICES ASSUME DiskTypeInv, VerdictInv, [Next]_vars PROVE VerdictInv'
  OBVIOUS
\* The stages before the validation have no verdict
<1>1. ASSUME verdict' = "none", pc' # "returned" PROVE VerdictInv'
  BY <1>1 DEF VerdictInv
<1>2. CASE Start
  BY <1>1, <1>2 DEF Start
<1>3. CASE generate_all_students \/ generate_all_admissions
  BY <1>1, <1>3 DEF generate_all_students, generate_all_admissions, DiskTypeInv, Ended
<1>4. CASE _read_students_and_risk \/ SimulateSemester
  BY <1>1, <1>4 DEF _read_students_and_risk, SimulateSemester, DiskTypeInv, Ended
<1>5. CASE SimulationOver
  BY <1>1, <1>5, EventsAre DEF SimulationOver, DiskTypeInv, Ended
<1>6. ASSUME NEW i \in DOMAIN EVENTS, WriteEvents(i) PROVE VerdictInv'
  <2>1. pc \in RangeOf(EVENTS) /\ pc' = AfterEvent(i) /\ verdict' = verdict
    BY <1>6 DEF WriteEvents, RangeOf
  <2>2. verdict = "none"
    BY <2>1, EventsAre DEF DiskTypeInv, Ended
  <2>3. pc' # "returned"
    BY <2>1, EventsAre DEF AfterEvent
  <2> QED
    BY <1>1, <2>1, <2>2, <2>3
<1>7. CASE apply_all_noise
  <2>1. pc' # "returned" /\ verdict' = verdict
    BY <1>7 DEF apply_all_noise
  <2>2. disk'.master = disk.master /\ RowsOf(disk'.enrollment) = RowsOf(disk.enrollment)
    <3>1. CASE UNCHANGED disk
      BY <3>1
    <3>2. CASE \E M : RowsOf(M) = RowsOf(disk.enrollment) /\ disk' = [disk EXCEPT !.enrollment = M]
      <4>1. PICK M : RowsOf(M) = RowsOf(disk.enrollment) /\ disk' = [disk EXCEPT !.enrollment = M]
        BY <3>2
      <4>2. disk'["enrollment"] = M /\ \A g \in Files \ {"enrollment"} : disk'[g] = disk[g]
        BY <4>1, FilesAre, OneFile DEF DiskTypeInv
      <4> QED
        BY <4>1, <4>2, FilesAre
    <3> QED
      BY <1>7, <3>1, <3>2, NoiseStep
  <2> QED
    BY <2>1, <2>2, SoundKept DEF VerdictInv
<1>8. CASE WriteManifest
  <2>1. /\ disk' = [disk EXCEPT !.manifest = IF config.validate THEN verdict ELSE "not run"]
        /\ verdict' = verdict
    BY <1>8 DEF WriteManifest
  <2>2. /\ disk'["manifest"] = IF config.validate THEN verdict ELSE "not run"
        /\ \A g \in Files \ {"manifest"} : disk'[g] = disk[g]
    BY <2>1, FilesAre, OneFile DEF DiskTypeInv
  <2>3. disk'.master = disk.master /\ disk'.enrollment = disk.enrollment
    BY <2>2, FilesAre
  <2>4. disk'.manifest = "passed" => verdict = "passed"
    BY <2>2
  <2>5. SoundNow => SoundNow'
    BY <2>3, SoundKept
  <2> QED
    BY <2>1, <2>4, <2>5 DEF VerdictInv
<1>9. CASE RejectConfig \/ Crash
  <2>1. pc' # "returned" /\ UNCHANGED <<disk, verdict>>
    BY <1>9 DEF RejectConfig, Crash
  <2> QED
    BY <2>1, SoundKept DEF VerdictInv
<1>10. CASE UNCHANGED vars
  BY <1>10, SoundKept DEF VerdictInv, vars
<1> QED
  BY <1>2, <1>3, <1>4, <1>5, <1>6, <1>7, <1>8, <1>9, <1>10, ValidateVerdict DEF Next

\* A passed manifest is true of the files, whatever earlier runs and noise left there
THEOREM ManifestCorrect == Spec => []PassedManifestIsSound
<1>1. Spec => []DiskTypeInv
  BY InitTypes, NextTypes, JourneysInductive, PTL DEF Spec
<1>2. Init => VerdictInv
  BY DEF Init, EmptyDisk, VerdictInv
<1>3. VerdictInv => PassedManifestIsSound
  BY DEF VerdictInv, PassedManifestIsSound, SoundNow
<1> QED
  BY <1>1, <1>2, <1>3, NextVerdict, PTL DEF Spec

(***************************************************************************)
(* What a run that cleared the directory leaves there                       *)
(***************************************************************************)

\* The stages up to the one that writes the records of kind i
Pending(i) == Before1 \cup {EVENTS[k] : k \in 1 .. i}

\* The stages after it, and the ends of a run that went through them
Following(i) ==
  {EVENTS[k] : k \in {n \in 1 .. 4 : n > i}} \cup After4 \cup {"returned", "raised"}

\* The records of kind i: not written yet, written, or either where the run was cut short
EventInv(i) ==
  LET e == EVENTS[i]
  IN  /\ pc \in Pending(i) => disk[e] = {}
      /\ pc \in Following(i) => OnDisk(e) = Records(e)
      /\ disk[e] = {} \/ OnDisk(e) = Records(e)

\* Lines are where they belong, and noise makes the only copies
PlacedInv ==
  /\ \A x \in disk.enrollment : IF x.copy = "late" THEN x.at > x.row.sem ELSE x.at = x.row.sem
  /\ pc \in Stages \ {"manifest"} => \A x \in disk.enrollment : x.copy = "own"

FunnelInv ==
  /\ FunnelFollowsMaster
  /\ pc \in {"students", "admissions"} => disk.admissions = {}

\* About runs that cleared the directory; for others the files may be anybody's
CleanInv == config.clean => FunnelInv /\ PlacedInv /\ \A i \in 1 .. 4 : EventInv(i)

LEMMA PendingAre ==
  /\ Pending(1) = {"students", "admissions", "progression", "simulate", "enrollment"}
  /\ Pending(2) = {"students", "admissions", "progression", "simulate", "enrollment", "graduation"}
  /\ Pending(3) = {"students", "admissions", "progression", "simulate", "enrollment", "graduation",
                   "dropout"}
  /\ Pending(4) = {"students", "admissions", "progression", "simulate", "enrollment", "graduation",
                   "dropout", "shifter"}
<1>1. 1 .. 1 = {1} /\ 1 .. 2 = {1, 2} /\ 1 .. 3 = {1, 2, 3} /\ 1 .. 4 = {1, 2, 3, 4}
  OBVIOUS
<1> QED
  BY <1>1, EventsAre DEF Pending, Before1

LEMMA FollowingAre ==
  /\ Following(1) = {"graduation", "dropout", "shifter", "validation", "noise", "manifest",
                     "returned", "raised"}
  /\ Following(2) = {"dropout", "shifter", "validation", "noise", "manifest", "returned", "raised"}
  /\ Following(3) = {"shifter", "validation", "noise", "manifest", "returned", "raised"}
  /\ Following(4) = {"validation", "noise", "manifest", "returned", "raised"}
<1>1. /\ {n \in 1 .. 4 : n > 1} = {2, 3, 4} /\ {n \in 1 .. 4 : n > 2} = {3, 4}
      /\ {n \in 1 .. 4 : n > 3} = {4} /\ {n \in 1 .. 4 : n > 4} = {}
  OBVIOUS
<1> QED
  BY <1>1, EventsAre DEF Following, After4

LEMMA Four == \A i : i \in 1 .. 4 <=> i = 1 \/ i = 2 \/ i = 3 \/ i = 4
  OBVIOUS

\* The records are those of the journeys
LEMMA RecordsKept ==
  ASSUME UNCHANGED journeys, NEW e
  PROVE  Records(e)' = Records(e)
  BY DEF Records, RecordsOf

LEMMA OnDiskKept ==
  ASSUME NEW e, disk'[e] = disk[e]
  PROVE  OnDisk(e)' = OnDisk(e)
  BY DEF OnDisk

\* A step that leaves the journeys and the rows of kind i alone, and passes no stage that
\* writes them
LEMMA EventKept ==
  ASSUME NEW i \in 1 .. 4, EventInv(i), UNCHANGED journeys,
         disk[EVENTS[i]] = {} => disk'[EVENTS[i]] = {},
         OnDisk(EVENTS[i])' = OnDisk(EVENTS[i]),
         pc' \in Pending(i) => pc \in Pending(i),
         pc' \in Following(i) => pc \in Following(i)
  PROVE  EventInv(i)'
<1>1. Records(EVENTS[i])' = Records(EVENTS[i])
  BY RecordsKept
<1> QED
  BY <1>1 DEF EventInv

\* While all the records are still to be written, the journeys may change
LEMMA EventPending ==
  ASSUME NEW i \in 1 .. 4, EventInv(i), UNCHANGED disk, pc \in Before1,
         pc' \in Before1 \cup {"enrollment", "failed", "crashed"}
  PROVE  EventInv(i)'
<1>1. pc \in Pending(i)
  BY DEF Pending
<1>2. disk'[EVENTS[i]] = {}
  BY <1>1 DEF EventInv
<1>3. pc' \notin Following(i)
  BY Four, FollowingAre DEF Before1
<1> QED
  BY <1>2, <1>3 DEF EventInv

\* A funnel is not smaller at its top
LEMMA CeilBounds ==
  ASSUME NEW a \in Nat, NEW n \in Nat, NEW d \in Nat, 0 < n, n <= d
  PROVE  Ceil(a * d, n) >= a /\ Ceil(a * d, n) \in Nat
<1>1. a * n <= a * d /\ a * d \in Nat /\ a * n \in Nat
  <2>1. \A x, y, z \in Nat : y <= z => x * y <= x * z
    BY Z3
  <2> QED
    BY <2>1
<1> DEFINE x == a * d + n - 1
<1>2. x \in Nat /\ a * n <= x
  BY <1>1
<1> HIDE DEF x
<1>3. x \div n \in Int /\ x < n * (x \div n) + n
  BY <1>2
<1>4. x \div n >= a
  <2> DEFINE q == x \div n
  <2>1. q \in Int /\ x < n * q + n
    BY <1>3
  <2> HIDE DEF q
  <2>2. ~(q < a)
    <3>1. SUFFICES ASSUME q < a PROVE FALSE
      OBVIOUS
    <3>2. q + 1 <= a
      BY <3>1, <2>1
    <3>3. n * (q + 1) <= n * a
      <4>1. \A u \in Nat, y, z \in Int : y <= z => u * y <= u * z
        BY Z3
      <4> QED
        BY <4>1, <3>2, <2>1
    <3>4. n * (q + 1) = n * q + n /\ n * a = a * n
      BY <2>1, Z3
    <3> QED
      BY <3>3, <3>4, <1>2, <2>1
  <2> QED
    BY <2>1, <2>2 DEF q
<1> QED
  BY <1>4, <1>3 DEF Ceil, x

LEMMA FunnelNarrows ==
  ASSUME NEW n \in Nat, NEW c \in Configs, NEW y \in c.rates, NEW a \in c.rates
  PROVE  LET f == derive_funnel_counts(n, y, a)
         IN  f.enrolled = n /\ f.applicants >= f.accepted /\ f.accepted >= f.enrolled
<1>1. /\ y \in Nat \X Nat /\ 0 < y[1] /\ y[1] <= y[2]
      /\ a \in Nat \X Nat /\ 0 < a[1] /\ a[1] <= a[2]
  BY ConfigsAssumption
<1>2. /\ y[1] \in Nat /\ y[2] \in Nat /\ a[1] \in Nat /\ a[2] \in Nat
  BY <1>1
<1> DEFINE accepted == Ceil(n * y[2], y[1])
<1>3. accepted >= n /\ accepted \in Nat
  BY <1>1, <1>2, CeilBounds
<1> HIDE DEF accepted
<1>4. Ceil(accepted * a[2], a[1]) >= accepted
  BY <1>1, <1>2, <1>3, CeilBounds
<1> QED
  BY <1>3, <1>4 DEF derive_funnel_counts, accepted

\* The funnel is that of the master
LEMMA FunnelKept ==
  ASSUME FunnelFollowsMaster, disk'.master = disk.master, disk'.admissions = disk.admissions
  PROVE  FunnelFollowsMaster'
<1>1. Groups' = Groups /\ \A k, p : Freshmen(k, p)' = Freshmen(k, p)
  BY DEF Groups, Freshmen
<1> QED
  BY <1>1 DEF FunnelFollowsMaster

LEMMA AdmissionsClean == IInv /\ DiskTypeInv /\ CleanInv /\ generate_all_admissions => CleanInv'
<1> SUFFICES ASSUME IInv, DiskTypeInv, CleanInv, generate_all_admissions, config.clean PROVE CleanInv'
  BY DEF CleanInv, generate_all_admissions
<1>1. /\ pc = "admissions" /\ pc' = "progression" /\ UNCHANGED <<config, journeys>>
      /\ disk.admissions = {}
  BY DEF generate_all_admissions, CleanInv, FunnelInv
<1>2. PICK yield, acceptance \in [Groups -> config.rates] :
       disk' = [disk EXCEPT !.admissions =
                  {a \in @ : \A g \in Groups : g[1] # a.cohort} \cup
                  {[cohort |-> g[1], program |-> g[2],
                    counts |-> derive_funnel_counts(Cardinality(Freshmen(g[1], g[2])),
                                                    yield[g], acceptance[g])] : g \in Groups}]
  BY DEF generate_all_admissions
<1> DEFINE A == {[cohort |-> g[1], program |-> g[2],
                  counts |-> derive_funnel_counts(Cardinality(Freshmen(g[1], g[2])),
                                                  yield[g], acceptance[g])] : g \in Groups}
<1>3. /\ disk'["admissions"] = A /\ \A g \in Files \ {"admissions"} : disk'[g] = disk[g]
  <2>1. disk' = [disk EXCEPT !["admissions"] = A]
    BY <1>1, <1>2
  <2> HIDE DEF A
  <2> QED
    BY <2>1, FilesAre, OneFile DEF DiskTypeInv
<1>4. disk'.master = disk.master /\ disk'.admissions = A /\ disk'.enrollment = disk.enrollment
  BY <1>3, FilesAre
<1>5. Groups' = Groups /\ \A k, p : Freshmen(k, p)' = Freshmen(k, p)
  BY <1>4 DEF Groups, Freshmen
<1>6. ASSUME NEW g \in Groups
      PROVE  LET f == derive_funnel_counts(Cardinality(Freshmen(g[1], g[2])), yield[g], acceptance[g])
             IN  /\ f.enrolled = Cardinality(Freshmen(g[1], g[2]))
                 /\ f.applicants >= f.accepted /\ f.accepted >= f.enrolled
  <2>1. Cardinality(Freshmen(g[1], g[2])) \in Nat
    <3>1. Freshmen(g[1], g[2]) \subseteq disk.master
      BY DEF Freshmen
    <3>2. IsFiniteSet(Freshmen(g[1], g[2]))
      BY <3>1, FS_Subset DEF DiskTypeInv
    <3> QED
      BY <3>2, FS_CardinalityType
  <2>2. config \in Configs /\ yield[g] \in config.rates /\ acceptance[g] \in config.rates
    BY DEF IInv, MasterInv
  <2> QED
    BY <2>1, <2>2, FunnelNarrows
<1>7. FunnelFollowsMaster'
  <2>1. ASSUME NEW a \in A
        PROVE  \E g \in Groups :
                 /\ g = <<a.cohort, a.program>>
                 /\ a = [cohort |-> g[1], program |-> g[2],
                         counts |-> derive_funnel_counts(Cardinality(Freshmen(g[1], g[2])),
                                                         yield[g], acceptance[g])]
    <3>1. PICK g \in Groups :
            a = [cohort |-> g[1], program |-> g[2],
                 counts |-> derive_funnel_counts(Cardinality(Freshmen(g[1], g[2])),
                                                 yield[g], acceptance[g])]
      BY <2>1
    <3>2. g = <<g[1], g[2]>>
      BY DEF Groups
    <3> QED
      BY <3>1, <3>2
  <2>2. {<<a.cohort, a.program>> : a \in A} = Groups
    <3>1. \A g \in Groups : g = <<g[1], g[2]>>
      BY DEF Groups
    <3>2. ASSUME NEW g \in Groups
          PROVE  \E a \in A : g = <<a.cohort, a.program>>
      <4> DEFINE a == [cohort |-> g[1], program |-> g[2],
                       counts |-> derive_funnel_counts(Cardinality(Freshmen(g[1], g[2])),
                                                       yield[g], acceptance[g])]
      <4>1. a \in A
        OBVIOUS
      <4>2. <<a.cohort, a.program>> = g
        BY <3>1
      <4> QED
        BY <4>1, <4>2
    <3> HIDE DEF A
    <3> QED
      BY <3>2, <2>1
  <2>3. ASSUME NEW a \in A
        PROVE  /\ a.counts.enrolled = Cardinality(Freshmen(a.cohort, a.program))
               /\ a.counts.applicants >= a.counts.accepted /\ a.counts.accepted >= a.counts.enrolled
    <3>1. PICK g \in Groups :
            a = [cohort |-> g[1], program |-> g[2],
                 counts |-> derive_funnel_counts(Cardinality(Freshmen(g[1], g[2])),
                                                 yield[g], acceptance[g])]
      BY <2>1, <2>3
    <3>2. a.cohort = g[1] /\ a.program = g[2]
          /\ a.counts = derive_funnel_counts(Cardinality(Freshmen(g[1], g[2])), yield[g], acceptance[g])
      BY <3>1
    <3> QED
      BY <3>2, <1>6
  <2>4. ASSUME NEW a \in A, NEW b \in A, a.cohort = b.cohort, a.program = b.program
        PROVE  a = b
    <3> HIDE DEF A
    <3> QED
      BY <2>1, <2>4
  <2> HIDE DEF A
  <2> QED
    BY <1>4, <1>5, <2>2, <2>3, <2>4 DEF FunnelFollowsMaster
<1>8. \A i \in 1 .. 4 : EventInv(i)'
  <2> SUFFICES ASSUME NEW i \in 1 .. 4 PROVE EventInv(i)'
    OBVIOUS
  <2>1. pc \in Pending(i) /\ pc' \notin Following(i)
    BY <1>1, Four, FollowingAre, PendingAre
  <2>2. EVENTS[i] \in Files \ {"admissions"}
    BY Four, EventsAre, FilesAre
  <2>3. disk[EVENTS[i]] = {}
    BY <2>1 DEF CleanInv, EventInv
  <2>4. disk'[EVENTS[i]] = {}
    BY <2>2, <2>3, <1>3
  <2> QED
    BY <2>1, <2>4 DEF EventInv
<1>9. PlacedInv'
  BY <1>1, <1>4 DEF CleanInv, PlacedInv, Stages
<1> QED
  BY <1>1, <1>7, <1>8, <1>9 DEF CleanInv, FunnelInv

LEMMA StudentsClean == DiskTypeInv /\ CleanInv /\ generate_all_students => CleanInv'
<1> SUFFICES ASSUME DiskTypeInv, CleanInv, generate_all_students, config.clean PROVE CleanInv'
  BY DEF CleanInv, generate_all_students
<1>1. /\ pc = "students" /\ pc' = "admissions" /\ UNCHANGED <<config, journeys>>
      /\ disk.admissions = {}
  BY DEF generate_all_students, CleanInv, FunnelInv
<1>2. PICK X, Y : disk' = [disk EXCEPT !.master = X, !.profiles = Y]
  BY DEF generate_all_students
<1>3. \A g \in Files \ {"master", "profiles"} : disk'[g] = disk[g]
  BY <1>2, FilesAre DEF DiskTypeInv
<1>4. disk'.admissions = {} /\ disk'.enrollment = disk.enrollment
  BY <1>1, <1>3, FilesAre
<1>5. FunnelInv'
  BY <1>4 DEF FunnelInv, FunnelFollowsMaster
<1>6. \A i \in 1 .. 4 : EventInv(i)'
  <2> SUFFICES ASSUME NEW i \in 1 .. 4 PROVE EventInv(i)'
    OBVIOUS
  <2>1. pc \in Pending(i) /\ pc' \notin Following(i)
    BY <1>1, Four, FollowingAre, PendingAre
  <2>2. EVENTS[i] \in Files \ {"master", "profiles"}
    BY Four, EventsAre, FilesAre
  <2>3. disk[EVENTS[i]] = {}
    BY <2>1 DEF CleanInv, EventInv
  <2>4. disk'[EVENTS[i]] = {}
    BY <2>2, <2>3, <1>3
  <2> QED
    BY <2>1, <2>4 DEF EventInv
<1>7. PlacedInv'
  BY <1>1, <1>4 DEF CleanInv, PlacedInv, Stages
<1> QED
  BY <1>1, <1>5, <1>6, <1>7 DEF CleanInv

\* Before the records are written only the journeys change
LEMMA SimulateClean ==
  ASSUME DiskTypeInv, CleanInv, UNCHANGED <<config, disk>>, pc \in {"progression", "simulate"},
         pc' \in {"simulate", "enrollment", "failed"}
  PROVE  CleanInv'
<1> SUFFICES ASSUME config.clean PROVE CleanInv'
  BY DEF CleanInv
<1>1. FunnelInv'
  BY FunnelKept DEF CleanInv, FunnelInv
<1>2. PlacedInv'
  BY DEF CleanInv, PlacedInv, Stages
<1>3. \A i \in 1 .. 4 : EventInv(i)'
  BY EventPending DEF CleanInv, Before1
<1> QED
  BY <1>1, <1>2, <1>3 DEF CleanInv

LEMMA EventsClean ==
  ASSUME IInv, DiskTypeInv, CleanInv, NEW i \in 1 .. 4, WriteEvents(i)
  PROVE  CleanInv'
<1> SUFFICES ASSUME config.clean PROVE CleanInv'
  BY DEF CleanInv, WriteEvents
<1> DEFINE e == EVENTS[i]
           X == {x \in disk[e] : SemesterOf(e, x) \notin {SemesterOf(e, y) : y \in RecordsOf(e)}}
                  \cup RecordsOf(e)
<1>1. /\ pc = e /\ pc' = AfterEvent(i) /\ UNCHANGED <<config, journeys>>
      /\ disk' = [disk EXCEPT ![e] = X]
  BY DEF WriteEvents
<1>2. pc \in Pending(i) /\ e \in Files /\ e \notin {"master", "admissions"}
  BY <1>1, Four, PendingAre, EventsAre, FilesAre
<1>3. disk[e] = {}
  BY <1>2 DEF CleanInv, EventInv
<1>4. X = RecordsOf(e)
  BY <1>3
<1> HIDE DEF X
<1>5. disk'[e] = RecordsOf(e) /\ \A g \in Files \ {e} : disk'[g] = disk[g]
  BY <1>1, <1>2, <1>4, OneFile DEF DiskTypeInv
<1>6. /\ pc' \in Following(i) /\ pc' \notin Pending(i)
      /\ \A k \in 1 .. 4 \ {i} : /\ pc' \in Pending(k) => pc \in Pending(k)
                                 /\ pc' \in Following(k) => pc \in Following(k)
  <2>1. CASE i = 1
    <3>1. pc = "enrollment" /\ pc' = "graduation"
      BY <2>1, <1>1, EventsAre DEF AfterEvent
    <3>2. pc' \in Following(i) /\ pc' \notin Pending(i)
      BY <2>1, <3>1, PendingAre, FollowingAre
    <3>3. ASSUME NEW k \in 1 .. 4 \ {i}
          PROVE  /\ pc' \in Pending(k) => pc \in Pending(k)
                 /\ pc' \in Following(k) => pc \in Following(k)
      <4>1. k \in {1, 2, 3, 4} \ {1}
        BY <2>1
      <4> QED
        BY <3>1, <4>1, PendingAre, FollowingAre
    <3> QED
      BY <3>2, <3>3
  <2>2. CASE i = 2
    <3>1. pc = "graduation" /\ pc' = "dropout"
      BY <2>2, <1>1, EventsAre DEF AfterEvent
    <3>2. pc' \in Following(i) /\ pc' \notin Pending(i)
      BY <2>2, <3>1, PendingAre, FollowingAre
    <3>3. ASSUME NEW k \in 1 .. 4 \ {i}
          PROVE  /\ pc' \in Pending(k) => pc \in Pending(k)
                 /\ pc' \in Following(k) => pc \in Following(k)
      <4>1. k \in {1, 2, 3, 4} \ {2}
        BY <2>2
      <4> QED
        BY <3>1, <4>1, PendingAre, FollowingAre
    <3> QED
      BY <3>2, <3>3
  <2>3. CASE i = 3
    <3>1. pc = "dropout" /\ pc' = "shifter"
      BY <2>3, <1>1, EventsAre DEF AfterEvent
    <3>2. pc' \in Following(i) /\ pc' \notin Pending(i)
      BY <2>3, <3>1, PendingAre, FollowingAre
    <3>3. ASSUME NEW k \in 1 .. 4 \ {i}
          PROVE  /\ pc' \in Pending(k) => pc \in Pending(k)
                 /\ pc' \in Following(k) => pc \in Following(k)
      <4>1. k \in {1, 2, 3, 4} \ {3}
        BY <2>3
      <4> QED
        BY <3>1, <4>1, PendingAre, FollowingAre
    <3> QED
      BY <3>2, <3>3
  <2>4. CASE i = 4
    BY <2>4, <1>1, Four, PendingAre, FollowingAre, EventsAre DEF AfterEvent
  <2> QED
    BY <2>1, <2>2, <2>3, <2>4, Four
<1>7. EventInv(i)'
  <2>1. OnDisk(e)' = Records(e)
    BY <1>5 DEF OnDisk, Records
  <2>2. Records(e)' = Records(e)
    BY <1>1, RecordsKept
  <2> QED
    BY <2>1, <2>2, <1>6 DEF EventInv
<1>8. ASSUME NEW k \in 1 .. 4 \ {i}
      PROVE  EventInv(k)'
  <2>1. EVENTS[k] \in Files \ {e}
    BY <1>8, Four, EventsAre, FilesAre
  <2>2. disk'[EVENTS[k]] = disk[EVENTS[k]]
    BY <2>1, <1>5
  <2>3. OnDisk(EVENTS[k])' = OnDisk(EVENTS[k])
    BY <2>2, OnDiskKept
  <2>4. EventInv(k)
    BY DEF CleanInv
  <2> QED
    BY <2>2, <2>3, <2>4, <1>1, <1>6, EventKept
<1>9. PlacedInv'
  <2>1. pc \in Stages \ {"manifest"}
    BY <1>1, <1>2, Four, EventsAre DEF Stages
  <2>2. \A x \in disk.enrollment : x.copy = "own" /\ x.at = x.row.sem
    BY <2>1 DEF CleanInv, PlacedInv
  <2>3. \A x \in disk'.enrollment : x.copy = "own" /\ x.at = x.row.sem
    <3>1. CASE e = "enrollment"
      BY <3>1, <1>5, RecordsTyped
    <3>2. CASE e # "enrollment"
      BY <3>2, <2>2, <1>5, FilesAre
    <3> QED
      BY <3>1, <3>2
  <2> QED
    BY <2>3 DEF PlacedInv
<1>10. FunnelInv'
  <2>1. disk'.master = disk.master /\ disk'.admissions = disk.admissions
    BY <1>2, <1>5, FilesAre
  <2>2. pc' \notin {"students", "admissions"}
    BY <1>1, EventsAre DEF AfterEvent
  <2> QED
    BY <2>1, <2>2, FunnelKept DEF CleanInv, FunnelInv
<1> QED
  BY <1>7, <1>8, <1>9, <1>10 DEF CleanInv

\* A step after the records, or the end of a run cut short, that keeps the rows
LEMMA RowsKeptClean ==
  ASSUME DiskTypeInv, CleanInv, config.clean, UNCHANGED <<config, journeys>>,
         disk'.master = disk.master, disk'.admissions = disk.admissions,
         disk'.graduation = disk.graduation, disk'.dropout = disk.dropout,
         disk'.shifter = disk.shifter, RowsOf(disk'.enrollment) = RowsOf(disk.enrollment),
         disk.enrollment = {} => disk'.enrollment = {},
         \/ pc' \in {"failed", "crashed"}
         \/ pc \in After4 /\ pc' \in After4 \cup {"returned", "raised"}
  PROVE  FunnelInv' /\ \A i \in 1 .. 4 : EventInv(i)'
<1>1. FunnelInv'
  BY FunnelKept DEF CleanInv, FunnelInv, After4
<1>2. ASSUME NEW i \in 1 .. 4
      PROVE  EventInv(i)'
  <2>1. OnDisk(EVENTS[i])' = OnDisk(EVENTS[i])
    BY Four, EventsAre DEF OnDisk
  <2>2. disk[EVENTS[i]] = {} => disk'[EVENTS[i]] = {}
    BY Four, EventsAre
  <2>3. /\ pc' \in Pending(i) => pc \in Pending(i)
        /\ pc' \in Following(i) => pc \in Following(i)
    BY Four, PendingAre, FollowingAre DEF After4
  <2>4. EventInv(i)
    BY DEF CleanInv
  <2> QED
    BY <2>1, <2>2, <2>3, <2>4, EventKept
<1> QED
  BY <1>1, <1>2

LEMMA NoiseClean == DiskTypeInv /\ CleanInv /\ apply_all_noise => CleanInv'
<1> SUFFICES ASSUME DiskTypeInv, CleanInv, apply_all_noise, config.clean PROVE CleanInv'
  BY DEF CleanInv, apply_all_noise
<1>1. /\ pc = "noise" /\ pc' \in {"failed", "manifest"} /\ UNCHANGED <<config, journeys>>
  BY DEF apply_all_noise
<1>2. CASE UNCHANGED disk
  <2>1. FunnelInv' /\ \A i \in 1 .. 4 : EventInv(i)'
    BY <1>1, <1>2, RowsKeptClean DEF After4
  <2>2. PlacedInv'
    BY <1>1, <1>2 DEF CleanInv, PlacedInv, Stages
  <2> QED
    BY <2>1, <2>2 DEF CleanInv
<1>3. CASE \E M : /\ M \subseteq LineType /\ RowsOf(M) = RowsOf(disk.enrollment)
                  /\ disk' = [disk EXCEPT !.enrollment = M]
                  /\ \A m \in M :
                       \E x \in disk.enrollment :
                         /\ m.row = x.row
                         /\ \/ m.at = x.at /\ m.copy \in {x.copy, "again"}
                            \/ m.at > x.at /\ m.copy = "late"
  <2>1. PICK M : /\ M \subseteq LineType /\ RowsOf(M) = RowsOf(disk.enrollment)
                 /\ disk' = [disk EXCEPT !.enrollment = M]
                 /\ \A m \in M :
                      \E x \in disk.enrollment :
                        /\ m.row = x.row
                        /\ \/ m.at = x.at /\ m.copy \in {x.copy, "again"}
                           \/ m.at > x.at /\ m.copy = "late"
    BY <1>3
  <2>2. disk'["enrollment"] = M /\ \A g \in Files \ {"enrollment"} : disk'[g] = disk[g]
    BY <2>1, FilesAre, OneFile DEF DiskTypeInv
  <2>3. /\ disk'.enrollment = M /\ disk'.master = disk.master /\ disk'.admissions = disk.admissions
        /\ disk'.graduation = disk.graduation /\ disk'.dropout = disk.dropout
        /\ disk'.shifter = disk.shifter
    BY <2>2, FilesAre
  <2>4. disk.enrollment = {} => M = {}
    BY <2>1
  <2>5. FunnelInv' /\ \A i \in 1 .. 4 : EventInv(i)'
    BY <1>1, <2>1, <2>3, <2>4, RowsKeptClean DEF After4
  <2>6. \A x \in disk.enrollment : x.copy = "own" /\ x.at = x.row.sem
    BY <1>1 DEF CleanInv, PlacedInv, Stages
  <2>7. ASSUME NEW m \in M
        PROVE  IF m.copy = "late" THEN m.at > m.row.sem ELSE m.at = m.row.sem
    BY <2>1, <2>6
  <2>8. PlacedInv'
    BY <1>1, <2>3, <2>7, EventsAre DEF PlacedInv, Stages
  <2> QED
    BY <2>5, <2>8 DEF CleanInv
<1> QED
  BY <1>2, <1>3, NoiseStep

LEMMA ManifestClean == DiskTypeInv /\ CleanInv /\ WriteManifest => CleanInv'
<1> SUFFICES ASSUME DiskTypeInv, CleanInv, WriteManifest, config.clean PROVE CleanInv'
  BY DEF CleanInv, WriteManifest
<1>1. PICK X : disk' = [disk EXCEPT !.manifest = X]
  BY DEF WriteManifest
<1>2. \A g \in Files \ {"manifest"} : disk'[g] = disk[g]
  BY <1>1, FilesAre, OneFile DEF DiskTypeInv
<1>3. /\ disk'.enrollment = disk.enrollment /\ disk'.master = disk.master
      /\ disk'.admissions = disk.admissions /\ disk'.graduation = disk.graduation
      /\ disk'.dropout = disk.dropout /\ disk'.shifter = disk.shifter
  BY <1>2, FilesAre
<1>4. /\ pc = "manifest" /\ pc' \in {"raised", "returned"} /\ UNCHANGED <<config, journeys>>
  BY DEF WriteManifest
<1>5. FunnelInv' /\ \A i \in 1 .. 4 : EventInv(i)'
  BY <1>3, <1>4, RowsKeptClean DEF After4
<1>6. PlacedInv'
  BY <1>3, <1>4, EventsAre DEF CleanInv, PlacedInv, Stages
<1> QED
  BY <1>5, <1>6 DEF CleanInv

\* A cleared directory holds nothing of any run
LEMMA EmptyClean ==
  ASSUME disk' = EmptyDisk, journeys' = << >>
  PROVE  CleanInv'
<1>1. \A i \in 1 .. 4 : disk'[EVENTS[i]] = {}
  BY Four, EventsAre DEF EmptyDisk
<1>2. disk'.admissions = {} /\ disk'.enrollment = {}
  BY DEF EmptyDisk
<1>3. ASSUME NEW i \in 1 .. 4
      PROVE  EventInv(i)'
  <2>1. RecordsOf(EVENTS[i])' = {}
    BY DEF RecordsOf
  <2>2. Records(EVENTS[i])' = {}
    BY <2>1 DEF Records, RowsOf
  <2>3. OnDisk(EVENTS[i])' = {}
    BY <1>1 DEF OnDisk, RowsOf
  <2> QED
    BY <1>1, <2>2, <2>3 DEF EventInv
<1> QED
  BY <1>2, <1>3 DEF CleanInv, FunnelInv, FunnelFollowsMaster, PlacedInv

LEMMA NextClean == IInv /\ DiskTypeInv /\ CleanInv /\ [Next]_vars => CleanInv'
<1> SUFFICES ASSUME IInv, DiskTypeInv, CleanInv, [Next]_vars PROVE CleanInv'
  OBVIOUS
<1>1. CASE Start
  <2>1. CASE config'.clean
    <3>1. disk' = EmptyDisk /\ journeys' = << >>
      BY <1>1, <2>1 DEF Start, CleanOutput
    <3> QED
      BY <3>1, EmptyClean
  <2>2. CASE ~config'.clean
    BY <2>2 DEF CleanInv
  <2> QED
    BY <2>1, <2>2
<1>2. CASE _read_students_and_risk
  BY <1>2, SimulateClean DEF _read_students_and_risk
<1>3. CASE SimulateSemester
  BY <1>3, SimulateClean DEF SimulateSemester
<1>4. CASE SimulationOver
  BY <1>4, SimulateClean, EventsAre DEF SimulationOver
<1>5. CASE \E i \in DOMAIN EVENTS : WriteEvents(i)
  BY <1>5, EventsAre, EventsClean
<1>6. CASE Validate
  <2>1. /\ pc = "validation" /\ pc' \in {"noise", "manifest"} /\ UNCHANGED <<config, disk, journeys>>
    BY <1>6 DEF Validate
  <2>2. config.clean => FunnelInv' /\ \A i \in 1 .. 4 : EventInv(i)'
    BY <2>1, RowsKeptClean DEF After4
  <2>3. config.clean => PlacedInv'
    BY <2>1, EventsAre DEF CleanInv, PlacedInv, Stages
  <2> QED
    BY <2>1, <2>2, <2>3 DEF CleanInv
<1>7. CASE RejectConfig \/ Crash
  <2>1. /\ pc' \in {"failed", "crashed"} /\ UNCHANGED <<config, disk, journeys>>
    BY <1>7 DEF RejectConfig, Crash
  <2>2. config.clean => FunnelInv' /\ \A i \in 1 .. 4 : EventInv(i)'
    BY <2>1, RowsKeptClean
  <2>3. config.clean => PlacedInv'
    BY <2>1, EventsAre DEF CleanInv, PlacedInv, Stages
  <2> QED
    BY <2>1, <2>2, <2>3 DEF CleanInv
<1>8. CASE UNCHANGED vars
  <2>1. UNCHANGED <<config, pc, disk, journeys>>
    BY <1>8 DEF vars
  <2>2. config.clean => FunnelInv'
    BY <2>1, FunnelKept DEF CleanInv, FunnelInv
  <2>3. config.clean => \A i \in 1 .. 4 : EventInv(i)'
    BY <2>1, OnDiskKept, EventKept DEF CleanInv
  <2>4. config.clean => PlacedInv'
    BY <2>1 DEF CleanInv, PlacedInv
  <2> QED
    BY <2>1, <2>2, <2>3, <2>4 DEF CleanInv
<1> QED
  BY <1>1, <1>2, <1>3, <1>4, <1>5, <1>6, <1>7, <1>8, StudentsClean, AdmissionsClean, NoiseClean,
     ManifestClean DEF Next

\* After a run that cleared the directory the files hold the simulated students and nothing else
THEOREM DiskCorrect == Spec => []DiskHoldsTheRun
<1>1. Spec => []DiskTypeInv
  BY InitTypes, NextTypes, JourneysInductive, PTL DEF Spec
<1>2. Init => CleanInv
  <2> SUFFICES ASSUME Init PROVE CleanInv
    OBVIOUS
  <2>1. /\ \A i \in 1 .. 4 : disk[EVENTS[i]] = {}
        /\ disk.admissions = {} /\ disk.enrollment = {} /\ journeys = << >>
    BY Four, EventsAre DEF Init, EmptyDisk
  <2>2. ASSUME NEW i \in 1 .. 4
        PROVE  EventInv(i)
    <3>1. RecordsOf(EVENTS[i]) = {}
      BY <2>1 DEF RecordsOf
    <3>2. Records(EVENTS[i]) = {} /\ OnDisk(EVENTS[i]) = {}
      BY <2>1, <3>1 DEF Records, OnDisk, RowsOf
    <3> QED
      BY <2>1, <3>2 DEF EventInv
  <2> QED
    BY <2>1, <2>2 DEF CleanInv, FunnelInv, FunnelFollowsMaster, PlacedInv
<1>3. DiskTypeInv /\ CleanInv => DiskHoldsTheRun
  <2> SUFFICES ASSUME DiskTypeInv, CleanInv, config.clean PROVE DiskHoldsTheRun
    BY DEF DiskHoldsTheRun
  <2>1. ASSUME NEW i \in 1 .. 4
        PROVE  OnDisk(EVENTS[i]) \in
                 (IF pc \in {"validation", "noise", "manifest", "returned", "raised"} THEN {} ELSE {{}})
                   \cup {Records(EVENTS[i])}
    <3>1. EventInv(i)
      BY DEF CleanInv
    <3>2. pc \in {"validation", "noise", "manifest", "returned", "raised"} => pc \in Following(i)
      BY DEF Following, After4
    <3>3. disk[EVENTS[i]] = {} => OnDisk(EVENTS[i]) = {}
      BY DEF OnDisk, RowsOf
    <3> QED
      BY <3>1, <3>2, <3>3 DEF EventInv
  <2> QED
    BY <2>1, EventsAre DEF CleanInv, FunnelInv, PlacedInv, DiskHoldsTheRun
<1> QED
  BY <1>1, <1>2, <1>3, NextClean, JourneysInductive, PTL DEF Spec
=============================================================================
