------------------------------ MODULE Gold_proofs ------------------------------
(***************************************************************************)
(* Theorems about Gold, for any number of pipelines, snapshots, crashes and     *)
(* repetitions.  A stage that holds the lock works on one snapshot: what it has  *)
(* written and what it has still to write are tables of one build, which IInv    *)
(* says table by table.                                                          *)
(***************************************************************************)
EXTENDS Gold, FiniteSetTheorems, WellFoundedInduction, SequenceTheorems, TLAPS

(***************************************************************************)
(* The versions of a student tile time: from the semester of entry on, every  *)
(* semester of the calendar is covered by exactly one version, and that one    *)
(* has the program of the last shift before or in the semester.  For any        *)
(* number of shifts, several in one semester and in the semester of entry       *)
(* included.                                                                    *)
(***************************************************************************)

(***************************************************************************)
(* Extremal elements of finite sets                                         *)
(***************************************************************************)

\* R is a strict total order of S
StrictOrder(R, S) ==
  /\ \A x \in S : <<x, x>> \notin R
  /\ \A x, y, z \in S : <<x, y>> \in R /\ <<y, z>> \in R => <<x, z>> \in R
  /\ \A x, y \in S : x = y \/ <<x, y>> \in R \/ <<y, x>> \in R

Below(R, S, x) == {z \in S : <<z, x>> \in R}

\* A finite set that is not empty has a first element in every strict order.
LEMMA FirstExists ==
  ASSUME NEW S, IsFiniteSet(S), S # {}, NEW R, StrictOrder(R, S)
  PROVE  \E x \in S : \A y \in S : y = x \/ <<x, y>> \in R
<1> DEFINE B == {Below(R, S, x) : x \in S}
<1>1. B # {} /\ B \subseteq FiniteSubsetsOf(S)
  <2>1. ASSUME NEW x \in S
        PROVE  Below(R, S, x) \in SUBSET S /\ IsFiniteSet(Below(R, S, x))
    BY FS_Subset DEF Below
  <2> QED BY <2>1 DEF FiniteSubsetsOf
<1>2. PICK b \in B : \A c \in B : ~(<<c, b>> \in StrictSubsetOrdering(S))
  <2> HIDE DEF B
  <2> QED BY <1>1, WFMin, FS_StrictSubsetOrderingWellFounded
<1>3. PICK x \in S : b = Below(R, S, x)
  OBVIOUS
<1>4. ASSUME NEW y \in S, <<y, x>> \in R
      PROVE  FALSE
  <2>1. Below(R, S, y) \subseteq Below(R, S, x)
    BY <1>4 DEF Below, StrictOrder
  <2>2. y \in Below(R, S, x) /\ y \notin Below(R, S, y)
    BY <1>4 DEF Below, StrictOrder
  <2>3. <<Below(R, S, y), Below(R, S, x)>> \in StrictSubsetOrdering(S)
    BY <2>1, <2>2 DEF StrictSubsetOrdering, Below
  <2> QED BY <1>2, <1>3, <2>3
<1> QED BY <1>4 DEF StrictOrder

\* In a strict order of n elements each position 0..n-1 is that of exactly one element.
LEMMA PositionsUnique ==
  ASSUME NEW S, IsFiniteSet(S), NEW R, StrictOrder(R, S)
  PROVE  /\ Cardinality(S) \in Nat
         /\ \A x \in S : Cardinality(Below(R, S, x)) \in 0..Cardinality(S)-1
         /\ \A x, y \in S : Cardinality(Below(R, S, x)) = Cardinality(Below(R, S, y)) => x = y
         /\ \A k \in 0..Cardinality(S)-1 : \E x \in S : Cardinality(Below(R, S, x)) = k
<1> DEFINE n == Cardinality(S)
           f == [x \in S |-> Cardinality(Below(R, S, x))]
<1>1. n \in Nat
  BY FS_CardinalityType
<1>2. ASSUME NEW x \in S
      PROVE  /\ IsFiniteSet(Below(R, S, x))
             /\ Cardinality(Below(R, S, x)) \in 0..n-1
  <2>1. Below(R, S, x) \in SUBSET S /\ x \notin Below(R, S, x)
    BY DEF Below, StrictOrder
  <2>2. IsFiniteSet(Below(R, S, x)) /\ Cardinality(Below(R, S, x)) \in Nat
    BY <2>1, FS_Subset, FS_CardinalityType
  <2>3. Cardinality(Below(R, S, x)) <= n /\ Cardinality(Below(R, S, x)) # n
    BY <2>1, FS_Subset
  <2> QED BY <1>1, <2>2, <2>3
<1>3. ASSUME NEW x \in S, NEW y \in S, <<x, y>> \in R
      PROVE  Cardinality(Below(R, S, x)) # Cardinality(Below(R, S, y))
  <2>1. Below(R, S, x) \in SUBSET Below(R, S, y)
    BY <1>3 DEF Below, StrictOrder
  <2>2. x \in Below(R, S, y) /\ x \notin Below(R, S, x)
    BY <1>3 DEF Below, StrictOrder
  <2> QED BY <1>2, <2>1, <2>2, FS_Subset
<1>4. \A x, y \in S : Cardinality(Below(R, S, x)) = Cardinality(Below(R, S, y)) => x = y
  BY <1>3 DEF StrictOrder
<1>5. f \in Injection(S, 0..n-1)
  BY <1>2, <1>4 DEF Injection, IsInjective
<1>6. f \in Surjection(S, 0..n-1)
  <2>1. IsFiniteSet(0..n-1) /\ Cardinality(0..n-1) = n
    BY <1>1, FS_Interval
  <2> HIDE DEF f
  <2> QED BY <1>5, <2>1, FS_Injection
<1>7. \A k \in 0..n-1 : \E x \in S : Cardinality(Below(R, S, x)) = k
  BY <1>6 DEF Surjection
<1> QED BY <1>1, <1>2, <1>4, <1>7

\* Each row is at its position in R
Sorted(rows, S, R) ==
  /\ DOMAIN rows = 1..Cardinality(S)
  /\ \A k \in DOMAIN rows : \A x \in S : Cardinality(Below(R, S, x)) = k - 1 =>
       rows[k] \in S /\ Cardinality(Below(R, S, rows[k])) = k - 1

\* A sorted table has each row once.
LEMMA PositionKeys ==
  ASSUME NEW S, IsFiniteSet(S), NEW R, StrictOrder(R, S), NEW rows, Sorted(rows, S, R)
  PROVE  /\ \A k \in DOMAIN rows : rows[k] \in S
         /\ \A x \in S : \E k \in DOMAIN rows : rows[k] = x
         /\ \A j, k \in DOMAIN rows : rows[j] = rows[k] => j = k
         /\ IsFiniteSet(DOMAIN rows) /\ 0 \notin DOMAIN rows
<1> DEFINE n == Cardinality(S)
<1>1. /\ n \in Nat
      /\ \A x \in S : Cardinality(Below(R, S, x)) \in 0..n-1
      /\ \A x, y \in S : Cardinality(Below(R, S, x)) = Cardinality(Below(R, S, y)) => x = y
      /\ \A k \in 0..n-1 : \E x \in S : Cardinality(Below(R, S, x)) = k
  BY PositionsUnique
<1> HIDE DEF n
<1>2. DOMAIN rows = 1..n
  BY DEF n, Sorted
<1>3. ASSUME NEW k \in 1..n
      PROVE  rows[k] \in S /\ Cardinality(Below(R, S, rows[k])) = k - 1
  <2>1. k - 1 \in 0..n-1
    BY <1>1
  <2> QED BY <1>1, <1>2, <2>1 DEF Sorted
<1>4. ASSUME NEW x \in S
      PROVE  \E k \in DOMAIN rows : rows[k] = x
  <2>1. Cardinality(Below(R, S, x)) + 1 \in 1..n
    BY <1>1
  <2> DEFINE k == Cardinality(Below(R, S, x)) + 1
  <2>2. rows[k] \in S /\ Cardinality(Below(R, S, rows[k])) = k - 1
    BY <1>3, <2>1
  <2>3. k - 1 = Cardinality(Below(R, S, x))
    BY <1>1
  <2> QED BY <1>1, <1>2, <2>1, <2>2, <2>3
<1>5. \A j, k \in DOMAIN rows : rows[j] = rows[k] => j = k
  <2>1. \A j, k \in 1..n : j - 1 = k - 1 => j = k
    BY <1>1
  <2> QED BY <1>2, <1>3, <2>1
<1>6. IsFiniteSet(DOMAIN rows) /\ 0 \notin DOMAIN rows
  BY <1>1, <1>2, FS_Interval
<1> QED BY <1>2, <1>3, <1>4, <1>5, <1>6

(***************************************************************************)
(* Shifts                                                                   *)
(***************************************************************************)

\* Shifts as dim_student is built from: each has a position of its own in the file
Shifts(X) ==
  /\ IsFiniteSet(X)
  /\ \A x \in X : x.sem \in Int /\ x.row \in Int
  /\ \A x, y \in X : x.row = y.row => x = y

\* Some of the shifts are shifts.
LEMMA ShiftsSubset ==
  ASSUME NEW X, Shifts(X), NEW H \in SUBSET X
  PROVE  Shifts(H)
BY FS_Subset DEF Shifts

\* The first of some shifts, in the order they are applied in.
LEMMA EarliestExists ==
  ASSUME NEW H, Shifts(H), H # {}
  PROVE  \E x \in H : \A y \in H : y = x \/ Before(x, y)
<1> DEFINE R == {p \in H \X H : Before(p[1], p[2])}
<1>1. \A x, y \in H : <<x, y>> \in R <=> Before(x, y)
  OBVIOUS
<1>2. StrictOrder(R, H)
  BY <1>1 DEF StrictOrder, Before, Shifts
<1> QED
  <2> HIDE DEF R
  <2>1. PICK x \in H : \A y \in H : y = x \/ <<x, y>> \in R
    BY <1>2, FirstExists DEF Shifts
  <2> QED BY <1>1, <2>1

\* The last of some shifts, whose program the student is in after them.
LEMMA LatestExists ==
  ASSUME NEW H, Shifts(H), H # {}
  PROVE  /\ Latest(H) \in H
         /\ \A y \in H : y = Latest(H) \/ Before(y, Latest(H))
<1> DEFINE R == {p \in H \X H : Before(p[2], p[1])}
<1>1. \A x, y \in H : <<x, y>> \in R <=> Before(y, x)
  OBVIOUS
<1>2. StrictOrder(R, H)
  BY <1>1 DEF StrictOrder, Before, Shifts
<1>3. \E x \in H : \A y \in H : y = x \/ Before(y, x)
  <2> HIDE DEF R
  <2>1. PICK x \in H : \A y \in H : y = x \/ <<x, y>> \in R
    BY <1>2, FirstExists DEF Shifts
  <2> QED BY <1>1, <2>1
<1> QED BY <1>3 DEF Latest

(***************************************************************************)
(* Versions                                                                 *)
(***************************************************************************)

\* A student of the calendar, with shifts in it from the semester of entry on
Enrolled(s, X) ==
  /\ s.entry \in Periods
  /\ Shifts(X)
  /\ \A x \in X : x.sem \in s.entry..LastPeriod

\* The version that a shift closes, and the current one
Closed(s, X, y) == Version(s, {x \in X : Before(x, y)}, EndBefore(y), FALSE)
Current(s, X) == Version(s, X, NoPeriod, TRUE)

\* The versions of a student by name: one per shift that closes one, and the current one.
LEMMA VersionsAre ==
  ASSUME NEW s, NEW X
  PROVE  VersionsOf(s, X) = {Closed(s, X, y) : y \in Opening(s, X)} \cup {Current(s, X)}
BY DEF VersionsOf, Closed, Current

\* Where a version begins: at entry, or in the semester of the last shift that opens one.
LEMMA BeginsAt ==
  ASSUME NEW s, NEW X, Enrolled(s, X), NEW H \in SUBSET X, NEW end, NEW cur
  PROVE  /\ Version(s, H, end, cur).from \in s.entry..LastPeriod
         /\ \A x \in Opening(s, H) : x.sem <= Version(s, H, end, cur).from
         /\ Opening(s, H) = {} => Version(s, H, end, cur).from = s.entry
         /\ Opening(s, H) # {} =>
              \E x \in Opening(s, H) : Version(s, H, end, cur).from = x.sem
<1> DEFINE O == Opening(s, H)
<1>1. Version(s, H, end, cur).from = IF O = {} THEN s.entry ELSE Latest(O).sem
  BY DEF Version
<1>2. O \in SUBSET X /\ Shifts(O)
  BY ShiftsSubset DEF Opening, Enrolled
<1>3. CASE O = {}
  BY <1>1, <1>3 DEF Enrolled, Periods, PeriodsAssumption
<1>4. CASE O # {}
  <2>1. Latest(O) \in O /\ \A y \in O : y = Latest(O) \/ Before(y, Latest(O))
    BY <1>2, <1>4, LatestExists
  <2>2. Latest(O).sem \in s.entry..LastPeriod
    BY <2>1, <1>2 DEF Enrolled
  <2>3. \A y \in O : y.sem <= Latest(O).sem
    BY <2>1, <1>2 DEF Before, Shifts
  <2> QED BY <1>1, <1>4, <2>1, <2>2, <2>3
<1> QED BY <1>3, <1>4

\* A version is closed in the semester before the shift that closes it.
LEMMA ClosedEnds ==
  ASSUME NEW s, NEW X, Enrolled(s, X), NEW y \in Opening(s, X)
  PROVE  y.sem \in Int /\ y.sem > s.entry /\ Closed(s, X, y).to = y.sem - 1 /\ y.sem - 1 # NoPeriod
<1>1. y.sem \in s.entry..LastPeriod /\ y.sem # s.entry /\ s.entry \in 0..LastPeriod
  BY DEF Opening, Enrolled, Periods
<1>2. y.sem - 1 \in 0..LastPeriod
  BY <1>1, PeriodsAssumption
<1>3. Closed(s, X, y).to = EndBefore(y)
  BY DEF Closed, Version
<1> QED BY <1>1, <1>2, <1>3, PeriodsAssumption DEF EndBefore, Periods, NoPeriod

\* The as-of join (resolve_student_key_as_of) finds exactly one version of a student in
\* every semester from entry on, and it has the program of that semester.
THEOREM VersionsTile ==
  ASSUME NEW s, NEW X, Enrolled(s, X), NEW t \in s.entry..LastPeriod
  PROVE  \E v \in VersionsOf(s, X) :
           /\ Covers(v, t)
           /\ v.program = ProgramAt(s, X, t)
           /\ \A w \in VersionsOf(s, X) : Covers(w, t) => w = v
<1> DEFINE A == {y \in Opening(s, X) : t < y.sem}
           Earlier(y) == {x \in X : Before(x, y)}
<1>1. t \in Int /\ s.entry \in Int /\ s.entry <= t /\ t <= LastPeriod
  BY PeriodsAssumption DEF Enrolled, Periods
<1>2. \A x \in X : x.sem \in Int /\ x.row \in Int /\ s.entry <= x.sem
  BY <1>1, PeriodsAssumption DEF Enrolled, Shifts
<1>3. ASSUME NEW y \in Opening(s, X)
      PROVE  /\ Earlier(y) \in SUBSET X
             /\ Closed(s, X, y) \in VersionsOf(s, X)
             /\ Covers(Closed(s, X, y), t) <=> Closed(s, X, y).from <= t /\ t < y.sem
  BY <1>1, ClosedEnds, VersionsAre DEF Covers
<1>4. CASE A = {}
  <2>1. \A y \in Opening(s, X) : y.sem <= t
    BY <1>1, <1>2, <1>4 DEF Opening
  <2>2. Current(s, X) \in VersionsOf(s, X) /\ Current(s, X).to = NoPeriod
    BY VersionsAre DEF Current, Version
  <2>3. Current(s, X).from <= t
    BY <1>1, <2>1, BeginsAt DEF Current
  <2>4. Covers(Current(s, X), t)
    BY <2>2, <2>3 DEF Covers
  <2>5. ASSUME NEW y \in Opening(s, X)
        PROVE  ~Covers(Closed(s, X, y), t)
    BY <1>1, <1>2, <1>3, <2>1 DEF Opening
  <2>6. Current(s, X).program = ProgramAt(s, X, t)
    <3>1. {x \in X : x.sem <= t} = X
      BY <1>1, <1>2, <2>1 DEF Opening
    <3> QED BY <3>1 DEF Current, Version, ProgramAt
  <2> QED BY <2>2, <2>4, <2>5, <2>6, VersionsAre
<1>5. CASE A # {}
  <2>1. Shifts(A) /\ A \subseteq X
    BY ShiftsSubset DEF Enrolled, Opening
  <2>2. PICK y \in A : \A z \in A : z = y \/ Before(y, z)
    <3> HIDE DEF A
    <3> QED BY <1>5, <2>1, EarliestExists
  <2>3. y \in Opening(s, X) /\ t < y.sem /\ y \in X
    BY <2>1, <2>2
  <2>4. \A x \in Opening(s, Earlier(y)) : x.sem <= t
    BY <1>1, <1>2, <2>2, <2>3 DEF Opening, Before
  <2>5. Covers(Closed(s, X, y), t) /\ Closed(s, X, y) \in VersionsOf(s, X)
    <3>1. Closed(s, X, y).from <= t
      <4>1. Earlier(y) \in SUBSET X
        BY <1>3, <2>3
      <4>2. \/ Closed(s, X, y).from = s.entry
            \/ \E x \in Opening(s, Earlier(y)) : Closed(s, X, y).from = x.sem
        BY <4>1, BeginsAt DEF Closed
      <4> QED BY <1>1, <2>4, <4>2
    <3> QED BY <1>3, <2>3, <3>1
  <2>6. Closed(s, X, y).program = ProgramAt(s, X, t)
    <3>1. {x \in X : x.sem <= t} = Earlier(y)
      BY <1>1, <1>2, <2>2, <2>3 DEF Opening, Before
    <3> QED BY <3>1 DEF Closed, Version, ProgramAt
  <2>7. ASSUME NEW z \in Opening(s, X), Covers(Closed(s, X, z), t)
        PROVE  z = y
    <3>1. SUFFICES ASSUME z # y
                   PROVE  FALSE
      OBVIOUS
    <3>2. z \in A /\ Closed(s, X, z).from <= t /\ Earlier(z) \in SUBSET X
      BY <1>3, <2>7
    <3>3. y \in Opening(s, Earlier(z))
      BY <2>2, <2>3, <3>1, <3>2 DEF Opening
    <3>4. y.sem <= Closed(s, X, z).from /\ Closed(s, X, z).from \in s.entry..LastPeriod
      BY <3>2, <3>3, BeginsAt DEF Closed
    <3> QED BY <1>1, <1>2, <2>3, <3>2, <3>4, PeriodsAssumption
  <2>8. ~Covers(Current(s, X), t)
    <3>1. y.sem <= Current(s, X).from /\ Current(s, X).from \in s.entry..LastPeriod
      BY <2>3, BeginsAt DEF Current
    <3> QED BY <1>1, <1>2, <2>3, <3>1, PeriodsAssumption DEF Covers
  <2> QED BY <2>5, <2>6, <2>7, <2>8, VersionsAre
<1> QED BY <1>4, <1>5

\* A version goes on into the next semester exactly if the student does not shift in it.
LEMMA CoversNext ==
  ASSUME NEW s, NEW X, Enrolled(s, X), NEW v \in VersionsOf(s, X), v.from \in s.entry..LastPeriod,
         NEW t \in Periods, t + 1 \in Periods, Covers(v, t)
  PROVE  Covers(v, t + 1) <=> ~\E x \in X : x.sem = t + 1
<1>1. /\ s.entry \in Int /\ LastPeriod \in Int /\ t \in Int /\ v.from \in Int
      /\ s.entry <= v.from /\ v.from <= t
  BY PeriodsAssumption DEF Enrolled, Periods, Covers
<1>2. \A x \in X : x.sem \in Int /\ x.row \in Int /\ s.entry <= x.sem
  BY <1>1 DEF Enrolled, Shifts
<1>3. \A x \in X : x.sem = t + 1 => x \in Opening(s, X)
  BY <1>1 DEF Opening
<1>4. CASE v = Current(s, X)
  <2>1. v.to = NoPeriod
    BY <1>4 DEF Current, Version
  <2>2. \A x \in Opening(s, X) : x.sem <= v.from
    BY <1>4, BeginsAt DEF Current
  <2> QED BY <1>1, <1>2, <1>3, <2>1, <2>2 DEF Covers
<1>5. ASSUME NEW y \in Opening(s, X), v = Closed(s, X, y)
      PROVE  Covers(v, t + 1) <=> ~\E x \in X : x.sem = t + 1
  <2>1. v.to = y.sem - 1 /\ v.to # NoPeriod /\ y.sem \in Int /\ y \in X
    BY <1>5, ClosedEnds DEF Opening
  <2>2. \A x \in Opening(s, {z \in X : Before(z, y)}) : x.sem <= v.from
    <3>1. {z \in X : Before(z, y)} \in SUBSET X
      OBVIOUS
    <3> QED BY <1>5, <3>1, BeginsAt DEF Closed
  <2>3. t <= y.sem - 1
    BY <2>1 DEF Covers
  <2>4. ASSUME NEW x \in X, x.sem = t + 1, x.sem < y.sem PROVE FALSE
    <3>1. x \in Opening(s, {z \in X : Before(z, y)})
      BY <1>3, <2>4 DEF Opening, Before
    <3> QED BY <1>1, <2>2, <2>4, <3>1
  <2>5. (\E x \in X : x.sem = t + 1) <=> y.sem = t + 1
    BY <1>1, <1>2, <2>1, <2>3, <2>4
  <2>6. Covers(v, t + 1) <=> t + 1 <= y.sem - 1
    BY <1>1, <2>1 DEF Covers
  <2> QED BY <1>1, <2>1, <2>3, <2>5, <2>6
<1> QED BY <1>4, <1>5, VersionsAre

\* What every version of a student has in common.
LEMMA VersionsOfStudent ==
  ASSUME NEW s, NEW X, Enrolled(s, X), NEW v \in VersionsOf(s, X)
  PROVE  /\ v.student = s.student /\ v.file = s.row
         /\ v.from \in s.entry..LastPeriod
         /\ v.current <=> v = Current(s, X)
<1>1. CASE v = Current(s, X)
  BY <1>1, BeginsAt DEF Current, Version
<1>2. ASSUME NEW y \in Opening(s, X), v = Closed(s, X, y)
      PROVE  /\ v.student = s.student /\ v.file = s.row
             /\ v.from \in s.entry..LastPeriod
             /\ v.current = FALSE
  <2>1. {x \in X : Before(x, y)} \in SUBSET X
    OBVIOUS
  <2> QED BY <1>2, <2>1, BeginsAt DEF Closed, Version
<1>3. Current(s, X).current = TRUE
  BY DEF Current, Version
<1> QED BY <1>1, <1>2, <1>3, VersionsAre

\* If no version raises a KeyError, entry and all shifts are in the calendar.
LEMMA InCalendar ==
  ASSUME NEW s, NEW X, Shifts(X), s.entry \in Int, \A x \in X : s.entry <= x.sem,
         \A v \in VersionsOf(s, X) : v.from \in Periods
  PROVE  Enrolled(s, X)
<1> DEFINE O == Opening(s, X)
<1>1. O \in SUBSET X /\ Shifts(O)
  BY ShiftsSubset DEF Opening
<1>2. Current(s, X).from \in Periods /\ Current(s, X).from = IF O = {} THEN s.entry ELSE Latest(O).sem
  BY VersionsAre DEF Current, Version
<1>3. CASE O = {}
  <2>1. \A x \in X : x.sem = s.entry
    BY <1>3 DEF Opening
  <2> QED BY <1>2, <1>3, <2>1, PeriodsAssumption DEF Enrolled, Periods
<1>4. CASE O # {}
  <2>1. Latest(O) \in O /\ \A y \in O : y = Latest(O) \/ Before(y, Latest(O))
    BY <1>1, <1>4, LatestExists
  <2>2. \A x \in X : x.sem \in Int
    BY DEF Shifts
  <2>3. Latest(O).sem \in Periods /\ \A y \in O : y.sem <= Latest(O).sem
    BY <1>1, <1>2, <1>4, <2>1, <2>2 DEF Before
  <2>4. PICK y \in O : \A z \in O : z = y \/ Before(y, z)
    <3> HIDE DEF O
    <3> QED BY <1>1, <1>4, EarliestExists
  <2>5. {x \in X : Before(x, y)} \cap O = {}
    BY <1>1, <2>2, <2>4 DEF Before, Shifts
  <2>6. Opening(s, {x \in X : Before(x, y)}) = {}
    BY <2>5 DEF Opening
  <2>7. Closed(s, X, y).from = s.entry
    BY <2>6 DEF Closed, Version
  <2>8. s.entry \in Periods
    BY <2>4, <2>7, VersionsAre
  <2>9. \A x \in X : x.sem = s.entry \/ x \in O
    BY DEF Opening
  <2>10. \A x \in X : x.sem \in s.entry..LastPeriod
    BY <2>2, <2>3, <2>8, <2>9, PeriodsAssumption DEF Periods
  <2> QED BY <2>8, <2>10 DEF Enrolled
<1> QED BY <1>3, <1>4

\* The versions of a student are finitely many, and numbered.
LEMMA VersionsNumbered ==
  ASSUME NEW s, NEW X, Shifts(X)
  PROVE  /\ IsFiniteSet(VersionsOf(s, X))
         /\ \A v \in VersionsOf(s, X) : v.number \in Nat
         /\ \A v, w \in VersionsOf(s, X) : v.number = w.number => v = w
<1> DEFINE O == Opening(s, X)
           Earlier(y) == {x \in O : Before(x, y)}
           C == {Closed(s, X, y) : y \in O}
<1>1. O \in SUBSET X /\ IsFiniteSet(O) /\ Cardinality(O) \in Nat
  BY FS_Subset, FS_CardinalityType DEF Shifts, Opening
<1>2. ASSUME NEW y \in O
      PROVE  /\ Closed(s, X, y).number = Cardinality(Earlier(y))
             /\ Cardinality(Earlier(y)) \in Nat
             /\ Cardinality(Earlier(y)) < Cardinality(O)
  <2>1. Opening(s, {x \in X : Before(x, y)}) = Earlier(y)
    BY DEF Opening
  <2>2. Earlier(y) \in SUBSET O /\ y \notin Earlier(y)
    BY <1>1 DEF Before, Shifts
  <2>3. Cardinality(Earlier(y)) \in Nat
    BY <1>1, <2>2, FS_Subset, FS_CardinalityType
  <2>4. Cardinality(Earlier(y)) <= Cardinality(O) /\ Cardinality(Earlier(y)) # Cardinality(O)
    <3> HIDE DEF O, Earlier
    <3> QED BY <1>1, <1>2, <2>2, FS_Subset
  <2>5. Closed(s, X, y).number = Cardinality(Earlier(y))
    BY <2>1 DEF Closed, Version
  <2> QED BY <1>1, <2>3, <2>4, <2>5
<1>3. Current(s, X).number = Cardinality(O)
  BY DEF Current, Version
<1>4. ASSUME NEW y \in O, NEW z \in O, Before(y, z)
      PROVE  Cardinality(Earlier(y)) < Cardinality(Earlier(z))
  <2>1. Earlier(y) \in SUBSET Earlier(z)
    BY <1>1, <1>4 DEF Before, Shifts
  <2>2. y \in Earlier(z) /\ y \notin Earlier(y)
    BY <1>1, <1>4 DEF Before, Shifts
  <2>3. IsFiniteSet(Earlier(z))
    BY <1>1, FS_Subset
  <2>4. Cardinality(Earlier(y)) <= Cardinality(Earlier(z)) /\ Cardinality(Earlier(y)) # Cardinality(Earlier(z))
    <3> HIDE DEF Earlier
    <3> QED BY <2>1, <2>2, <2>3, FS_Subset
  <2> QED BY <1>2, <2>4
<1>5. \A y, z \in O : y = z \/ Before(y, z) \/ Before(z, y)
  BY <1>1 DEF Before, Shifts
<1>6. IsFiniteSet(VersionsOf(s, X))
  <2> DEFINE f == [y \in O |-> Closed(s, X, y)]
  <2>1. f \in Surjection(O, C)
    BY DEF Surjection
  <2>2. IsFiniteSet(C)
    BY <1>1, <2>1, FS_Surjection
  <2> QED BY <2>2, FS_AddElement, VersionsAre
<1>7. \A v \in VersionsOf(s, X) : v.number \in Nat
  BY <1>1, <1>2, <1>3, VersionsAre
<1>8. \A y, z \in O : Closed(s, X, y).number = Closed(s, X, z).number => y = z
  <2> HIDE DEF O, Earlier
  <2>1. \A y, z \in O : Before(y, z) => Closed(s, X, y).number < Closed(s, X, z).number
    BY <1>2, <1>4
  <2>2. \A y \in O : Closed(s, X, y).number \in Nat
    BY <1>2
  <2> QED BY <1>5, <2>1, <2>2
<1>9. \A y \in O : Closed(s, X, y).number # Current(s, X).number
  <2> HIDE DEF O, Earlier
  <2> QED BY <1>1, <1>2, <1>3
<1> QED BY <1>6, <1>7, <1>8, <1>9, VersionsAre

(***************************************************************************)
(* What a build reads from the store                                        *)
(***************************************************************************)

\* Facts depend on the dimensions of the store only.
LEMMA FactsReadDimensions ==
  ASSUME NEW T, NEW d, NEW e, d.dim_program = e.dim_program, d.dim_student = e.dim_student
  PROVE  /\ build_fact_enrollment(T, d) = build_fact_enrollment(T, e)
         /\ build_fact_outcome(T.graduation, d) = build_fact_outcome(T.graduation, e)
         /\ build_fact_outcome(T.dropout, d) = build_fact_outcome(T.dropout, e)
         /\ build_fact_shifter(T, d) = build_fact_shifter(T, e)
<1>1. \A rows : resolve_student_key_as_of(rows, d) = resolve_student_key_as_of(rows, e)
  BY DEF resolve_student_key_as_of
<1>2. build_fact_enrollment(T, d) = build_fact_enrollment(T, e)
  BY <1>1 DEF build_fact_enrollment
<1>3. \A rows : build_fact_outcome(rows, d) = build_fact_outcome(rows, e)
  BY <1>1 DEF build_fact_outcome
<1>4. build_fact_shifter(T, d) = build_fact_shifter(T, e)
  BY <1>1 DEF build_fact_shifter
<1> QED BY <1>2, <1>3, <1>4

\* The KPIs depend on the facts and the programs of the store only.
LEMMA KpiReadsFacts ==
  ASSUME NEW d, NEW e, d.dim_program = e.dim_program,
         \A t \in FactTables : d[t] = e[t]
  PROVE  build_fact_institution_kpi(d) = build_fact_institution_kpi(e)
<1>1. /\ d.fact_enrollment = e.fact_enrollment /\ d.fact_graduation = e.fact_graduation
      /\ d.fact_dropout = e.fact_dropout /\ d.fact_shifter = e.fact_shifter
      /\ d.fact_retention = e.fact_retention
  BY DEF FactTables
<1> QED BY <1>1 DEF build_fact_institution_kpi

\* Each table of a build
LEMMA BuiltTables ==
  ASSUME NEW T
  PROVE  LET d == [dim_program |-> build_dim_program(T), dim_student |-> build_dim_student(T)]
             B == Built(T)
         IN  /\ DOMAIN B = Tables
             /\ B.dim_program = build_dim_program(T)
             /\ B.dim_student = build_dim_student(T)
             /\ B.fact_enrollment = build_fact_enrollment(T, d)
             /\ B.fact_graduation = build_fact_outcome(T.graduation, d)
             /\ B.fact_dropout = build_fact_outcome(T.dropout, d)
             /\ B.fact_shifter = build_fact_shifter(T, d)
             /\ B.fact_retention = build_fact_retention(build_fact_enrollment(T, d))
             /\ B.fact_institution_kpi = build_fact_institution_kpi(B)
<1> DEFINE d == [dim_program |-> build_dim_program(T), dim_student |-> build_dim_student(T)]
           star == [dim_program |-> d.dim_program, dim_student |-> d.dim_student,
                    fact_enrollment |-> build_fact_enrollment(T, d),
                    fact_graduation |-> build_fact_outcome(T.graduation, d),
                    fact_dropout |-> build_fact_outcome(T.dropout, d),
                    fact_shifter |-> build_fact_shifter(T, d),
                    fact_retention |-> build_fact_retention(build_fact_enrollment(T, d))]
<1>1. Built(T) = [t \in Tables |->
        IF t = "fact_institution_kpi" THEN build_fact_institution_kpi(star) ELSE star[t]]
  BY DEF Built
<1>2. DOMAIN Built(T) = Tables /\ \A t \in Tables \ {"fact_institution_kpi"} : Built(T)[t] = star[t]
  <2> HIDE DEF star
  <2> QED BY <1>1
<1>3. /\ {"dim_program", "dim_student"} \cup FactTables \subseteq Tables \ {"fact_institution_kpi"}
      /\ "fact_institution_kpi" \in Tables
  BY DEF Tables, DimensionTables, FactTables
<1>4. Built(T).fact_institution_kpi = build_fact_institution_kpi(star)
  <2> HIDE DEF star
  <2> QED BY <1>1, <1>3
<1>5. build_fact_institution_kpi(star) = build_fact_institution_kpi(Built(T))
  <2> HIDE DEF star
  <2> QED BY <1>2, <1>3, KpiReadsFacts
<1>6. /\ star.dim_program = build_dim_program(T) /\ star.dim_student = build_dim_student(T)
      /\ star.fact_enrollment = build_fact_enrollment(T, d)
      /\ star.fact_graduation = build_fact_outcome(T.graduation, d)
      /\ star.fact_dropout = build_fact_outcome(T.dropout, d)
      /\ star.fact_shifter = build_fact_shifter(T, d)
      /\ star.fact_retention = build_fact_retention(build_fact_enrollment(T, d))
  OBVIOUS
<1>7. Built(T).dim_program = star.dim_program /\ Built(T).dim_student = star.dim_student
  <2> HIDE DEF star
  <2> QED BY <1>2, <1>3
<1>8. \A t \in FactTables : Built(T)[t] = star[t]
  <2> HIDE DEF star
  <2> QED BY <1>2, <1>3
<1> QED
  <2> HIDE DEF star, d
  <2> SUFFICES /\ DOMAIN Built(T) = Tables
             /\ Built(T).dim_program = build_dim_program(T)
             /\ Built(T).dim_student = build_dim_student(T)
             /\ Built(T).fact_enrollment = build_fact_enrollment(T, d)
             /\ Built(T).fact_graduation = build_fact_outcome(T.graduation, d)
             /\ Built(T).fact_dropout = build_fact_outcome(T.dropout, d)
             /\ Built(T).fact_shifter = build_fact_shifter(T, d)
             /\ Built(T).fact_retention = build_fact_retention(build_fact_enrollment(T, d))
             /\ Built(T).fact_institution_kpi = build_fact_institution_kpi(Built(T))
    BY DEF d
  <2> QED BY <1>2, <1>4, <1>5, <1>6, <1>7, <1>8 DEF FactTables

(***************************************************************************)
(* The invariant                                                            *)
(***************************************************************************)

\* The Silver tables as they are
Present == Snapshots[silver]

\* The tables of one build, to be written under their names
Entries(S) == {[name |-> t, rows |-> Built(S)[t]] : t \in Tables}

Steps == {"idle", "dimensions", "facts", "kpi", "load"}

\* Types, and queues of tables that a build of the present Silver tables makes
TypeInv ==
  /\ silver \in DOMAIN Snapshots
  /\ gold = [t \in DOMAIN gold |-> gold[t]] /\ DOMAIN gold \subseteq Tables
  /\ DOMAIN warehouse = Tables
  /\ pc \in [Pipelines -> Steps]
  /\ queue \in [Pipelines -> Seq(Entries(Present))]
  /\ \A r \in Pipelines : \A i \in DOMAIN queue[r] : queue[r][i].name \in TablesOf(pc[r])
  /\ basis \in {Building, Lost} \cup DOMAIN Snapshots
  /\ used \in [{"refreshes", "starts", "reloads", "crashes", "models"} -> Nat]

\* The lock
OneStage == \A r, q \in Pipelines : InStage(r) /\ InStage(q) => r = q

\* The table in the store is that of a build of the present Silver tables
Done(t) == t \in DOMAIN gold /\ gold[t] = Built(Present)[t]

\* A stage has written, or has still to write, all tables up to its own step
StageInv ==
  \A r \in Pipelines : InStage(r) =>
    /\ \A t \in TablesOf(pc[r]) : Done(t) \/ \E i \in DOMAIN queue[r] : queue[r][i].name = t
    /\ pc[r] \in {"kpi", "load"} => \A t \in DimensionTables : Done(t)
    /\ pc[r] = "load" => \A t \in FactTables : Done(t)

\* basis says what the store holds
BasisInv ==
  /\ basis \in DOMAIN Snapshots => gold = Built(Snapshots[basis])
  /\ basis = Building => \E r \in Pipelines : InStage(r)

IInv == TypeInv /\ OneStage /\ StageInv /\ BasisInv

(***************************************************************************)
(* Frame facts                                                              *)
(***************************************************************************)

\* The tables each step writes, and that together they are all of them.
LEMMA StepTables ==
  /\ TablesOf("idle") = {} /\ TablesOf("dimensions") = {}
  /\ TablesOf("facts") = DimensionTables /\ TablesOf("kpi") = FactTables
  /\ TablesOf("load") = {"fact_institution_kpi"}
  /\ DimensionTables \cup FactTables \cup {"fact_institution_kpi"} = Tables
  /\ "fact_institution_kpi" \notin DimensionTables \cup FactTables
BY DEF TablesOf, Tables, DimensionTables, FactTables

\* A stage with something to write is at a step that writes, and holds the lock.
LEMMA QueueInStage ==
  ASSUME TypeInv, NEW r \in Pipelines, queue[r] # << >>
  PROVE  pc[r] \in {"facts", "kpi", "load"} /\ InStage(r) /\ 1 \in DOMAIN queue[r]
<1>1. queue[r] \in Seq(Entries(Present)) /\ 1 \in DOMAIN queue[r]
  BY EmptySeq DEF TypeInv
<1>2. TablesOf(pc[r]) # {} /\ pc[r] \in Steps
  BY <1>1 DEF TypeInv
<1> QED BY <1>1, <1>2, StepTables DEF InStage, Steps

\* Nothing is built at first.
LEMMA InitInv == Init => IInv
<1> SUFFICES ASSUME Init PROVE IInv
  OBVIOUS
<1>1. \A r \in Pipelines : pc[r] = "idle" /\ queue[r] = << >> /\ ~InStage(r)
  BY DEF Init, InStage
<1>2. TypeInv
  <2>1. DOMAIN gold = {} /\ gold = [t \in DOMAIN gold |-> gold[t]]
    BY DEF Init
  <2>2. queue \in [Pipelines -> Seq(Entries(Present))]
    BY EmptySeq DEF Init
  <2>3. \A r \in Pipelines : DOMAIN queue[r] = {}
    BY <1>1
  <2> QED BY <2>1, <2>2, <2>3 DEF Init, TypeInv, Steps
<1> QED BY <1>1, <1>2, SilverAssumption DEF Init, IInv, OneStage, StageInv, BasisInv, Building, Lost

\* Where nothing a stage works on changes, the invariant is about the rest.
LEMMA SameStages ==
  ASSUME OneStage, StageInv, UNCHANGED <<silver, gold, queue>>, pc \in [Pipelines -> Steps],
         NEW r \in Pipelines, ~InStage(r), NEW s \in Steps, pc' = [pc EXCEPT ![r] = s],
         s \notin {"facts", "kpi"}
  PROVE  OneStage' /\ StageInv' /\ \A q \in Pipelines : InStage(q)' <=> InStage(q)
<1>1. queue[r] = << >> /\ pc[r] \notin {"facts", "kpi"} /\ pc'[r] = s
  BY DEF InStage
<1>2. \A q \in Pipelines : q # r => pc'[q] = pc[q]
  OBVIOUS
<1>3. \A q \in Pipelines : InStage(q)' <=> InStage(q)
  BY <1>1, <1>2 DEF InStage
<1>4. \A t : Done(t)' <=> Done(t)
  BY DEF Done, Present
<1> QED BY <1>1, <1>2, <1>3, <1>4 DEF OneStage, StageInv

\* Silver changes only while no stage holds the lock, so no queue is of an older snapshot.
LEMMA RefreshInv == IInv /\ Refresh => IInv'
<1> SUFFICES ASSUME IInv, Refresh PROVE IInv'
  OBVIOUS
<1>1. \A r \in Pipelines : ~InStage(r) /\ queue[r] = << >>
  BY DEF Refresh, LockFree, InStage
<1>2. \A r \in Pipelines : ~InStage(r)'
  BY <1>1 DEF Refresh, InStage
<1>3. TypeInv'
  <2>1. queue' \in [Pipelines -> Seq(Entries(Present)')]
    BY <1>1, EmptySeq DEF Refresh, IInv, TypeInv
  <2>2. silver' \in DOMAIN Snapshots /\ used' \in [{"refreshes", "starts", "reloads", "crashes", "models"} -> Nat]
    BY DEF Refresh, Use, IInv, TypeInv
  <2> QED BY <2>1, <2>2 DEF Refresh, IInv, TypeInv
<1>4. basis # Building
  BY <1>1 DEF IInv, BasisInv
<1> QED BY <1>2, <1>3, <1>4 DEF Refresh, IInv, OneStage, StageInv, BasisInv

\* Starting a stage or a reload takes no lock yet.
LEMMA StartInv == ASSUME NEW r \in Pipelines PROVE IInv /\ (Start(r) \/ Reload(r)) => IInv'
<1> SUFFICES ASSUME IInv, Start(r) \/ Reload(r) PROVE IInv'
  OBVIOUS
<1>1. PICK s \in {"dimensions", "load"} : pc' = [pc EXCEPT ![r] = s]
  BY DEF Start, Reload, Go
<1>2. pc[r] = "idle" /\ UNCHANGED <<silver, gold, warehouse, registry, queue, basis>>
  BY DEF Start, Reload
<1>3. queue[r] = << >>
  BY <1>2, QueueInStage DEF IInv
<1>4. OneStage' /\ StageInv' /\ \A q \in Pipelines : InStage(q)' <=> InStage(q)
  BY <1>1, <1>2, <1>3, SameStages DEF IInv, TypeInv, InStage, Steps
<1>5. TypeInv'
  <2>1. used' \in [{"refreshes", "starts", "reloads", "crashes", "models"} -> Nat]
    BY DEF Start, Reload, Use, IInv, TypeInv
  <2>2. \A q \in Pipelines : q # r => pc'[q] = pc[q]
    BY <1>1 DEF IInv, TypeInv
  <2> QED BY <1>1, <1>2, <1>3, <2>1, <2>2 DEF IInv, TypeInv, Steps, Present
<1>6. BasisInv'
  BY <1>2, <1>4 DEF IInv, BasisInv
<1> QED BY <1>4, <1>5, <1>6 DEF IInv

\* What a stage queues at a step: the tables of that step, as a build makes them.
LEMMA QueueInv ==
  ASSUME IInv, NEW r \in Pipelines, \A q \in Pipelines \ {r} : ~InStage(q),
         NEW s \in {"facts", "kpi", "load"}, pc' = [pc EXCEPT ![r] = s],
         NEW Q \in Seq(Entries(Present)), queue' = [queue EXCEPT ![r] = Q], Q # << >>,
         \A i \in DOMAIN Q : Q[i].name \in TablesOf(s),
         \A t \in TablesOf(s) : \E i \in DOMAIN Q : Q[i].name = t,
         s \in {"kpi", "load"} => \A t \in DimensionTables : Done(t),
         s = "load" => \A t \in FactTables : Done(t),
         UNCHANGED <<silver, gold, warehouse, basis>>, used' = used
  PROVE  IInv'
<1>1. /\ pc'[r] = s /\ queue'[r] = Q
      /\ \A q \in Pipelines \ {r} : pc'[q] = pc[q] /\ queue'[q] = queue[q]
  BY DEF IInv, TypeInv
<1>2. InStage(r)' /\ \A q \in Pipelines \ {r} : ~InStage(q)'
  BY <1>1 DEF InStage
<1>3. \A t : Done(t)' <=> Done(t)
  BY DEF Done, Present
<1>4. TypeInv'
  BY <1>1 DEF IInv, TypeInv, Steps, Present
<1>5. OneStage' /\ BasisInv'
  BY <1>2 DEF OneStage, BasisInv, IInv
<1>6. StageInv'
  BY <1>1, <1>2, <1>3 DEF StageInv
<1> QED BY <1>4, <1>5, <1>6 DEF IInv

\* The dimensions a stage queues are those of the present Silver tables.
LEMMA BuildDimensionsInv == ASSUME NEW r \in Pipelines PROVE IInv /\ BuildDimensions(r) => IInv'
<1> SUFFICES ASSUME IInv, BuildDimensions(r) PROVE IInv'
  OBVIOUS
<1>1. pc[r] = "dimensions" /\ \A q \in Pipelines : ~InStage(q)
  BY DEF BuildDimensions, LockFree
<1>2. UNCHANGED <<silver, gold, warehouse, registry, basis, used>>
  BY DEF BuildDimensions
<1>3. CASE DimensionsRaise(Present)
  <2>1. pc' = [pc EXCEPT ![r] = "idle"] /\ queue' = queue /\ queue[r] = << >>
    BY <1>1, <1>3 DEF BuildDimensions, Go, Present, InStage
  <2>2. OneStage' /\ StageInv' /\ \A q \in Pipelines : InStage(q)' <=> InStage(q)
    BY <1>1, <1>2, <2>1, SameStages DEF IInv, TypeInv, Steps
  <2>3. TypeInv'
    <3>1. \A q \in Pipelines : q # r => pc'[q] = pc[q]
      BY <2>1 DEF IInv, TypeInv
    <3> QED BY <1>2, <2>1, <3>1 DEF IInv, TypeInv, Steps, Present
  <2> QED BY <1>2, <2>2, <2>3 DEF IInv, BasisInv
<1>4. CASE ~DimensionsRaise(Present)
  <2> DEFINE Q == Dimensions(Present)
  <2>1. pc' = [pc EXCEPT ![r] = "facts"] /\ queue' = [queue EXCEPT ![r] = Q]
    BY <1>4 DEF BuildDimensions, Go, Present
  <2>2. /\ Q[1] = [name |-> "dim_program", rows |-> build_dim_program(Present)]
        /\ Q[2] = [name |-> "dim_student", rows |-> build_dim_student(Present)]
        /\ DOMAIN Q = {1, 2} /\ Q # << >>
    BY DEF Dimensions
  <2>3. Q[1] \in Entries(Present) /\ Q[2] \in Entries(Present)
    BY <2>2, BuiltTables DEF Entries, Tables, DimensionTables
  <2>4. Q \in Seq(Entries(Present))
    BY <2>2, <2>3 DEF Dimensions
  <2>5. /\ \A i \in DOMAIN Q : Q[i].name \in DimensionTables
        /\ \A t \in DimensionTables : \E i \in DOMAIN Q : Q[i].name = t
    BY <2>2 DEF DimensionTables
  <2> HIDE DEF Q
  <2> QED BY <1>1, <1>2, <2>1, <2>2, <2>4, <2>5, QueueInv, StepTables
<1> QED BY <1>3, <1>4

\* With both dimensions written, the facts a stage queues are those of the same snapshot.
LEMMA BuildFactsInv == ASSUME NEW r \in Pipelines PROVE IInv /\ BuildFacts(r) => IInv'
<1> SUFFICES ASSUME IInv, BuildFacts(r) PROVE IInv'
  OBVIOUS
<1>1. pc[r] = "facts" /\ queue[r] = << >> /\ InStage(r) /\ \A q \in Pipelines \ {r} : ~InStage(q)
  BY DEF BuildFacts, InStage, IInv, OneStage
<1>2. UNCHANGED <<silver, gold, warehouse, registry, used>>
  BY DEF BuildFacts
<1>3. \A t \in DimensionTables : Done(t)
  BY <1>1, StepTables DEF IInv, StageInv
<1>4. CASE FactsRaise(Present, gold)
  <2>1. pc' = [pc EXCEPT ![r] = "idle"] /\ queue' = queue /\ basis' = Lost
    BY <1>4 DEF BuildFacts, Go, Present
  <2>2. pc'[r] = "idle" /\ \A q \in Pipelines : q # r => pc'[q] = pc[q]
    BY <2>1 DEF IInv, TypeInv
  <2>3. \A q \in Pipelines : ~InStage(q)'
    BY <1>1, <2>1, <2>2 DEF InStage
  <2>4. TypeInv'
    BY <1>1, <1>2, <2>1, <2>2 DEF IInv, TypeInv, Steps, Present
  <2> QED BY <2>1, <2>3, <2>4, SilverAssumption DEF IInv, OneStage, StageInv, BasisInv, Lost, Building
<1>5. CASE ~FactsRaise(Present, gold)
  <2> DEFINE Q == Facts(Present, gold)
             d == [dim_program |-> build_dim_program(Present), dim_student |-> build_dim_student(Present)]
  <2>1. /\ pc' = [pc EXCEPT ![r] = "kpi"] /\ queue' = [queue EXCEPT ![r] = Q]
        /\ basis' = basis
    BY <1>5 DEF BuildFacts, Go, Present
  <2>2. gold.dim_program = d.dim_program /\ gold.dim_student = d.dim_student
    BY <1>3, BuiltTables DEF Done, DimensionTables
  <2>3. /\ Q[1] = [name |-> "fact_enrollment", rows |-> build_fact_enrollment(Present, gold)]
        /\ Q[2] = [name |-> "fact_graduation", rows |-> build_fact_outcome(Present.graduation, gold)]
        /\ Q[3] = [name |-> "fact_dropout", rows |-> build_fact_outcome(Present.dropout, gold)]
        /\ Q[4] = [name |-> "fact_shifter", rows |-> build_fact_shifter(Present, gold)]
        /\ Q[5] = [name |-> "fact_retention",
                   rows |-> build_fact_retention(build_fact_enrollment(Present, gold))]
        /\ DOMAIN Q = 1..5 /\ Q # << >> /\ Len(Q) = 5
    BY DEF Facts
  <2>4. /\ build_fact_enrollment(Present, gold) = Built(Present).fact_enrollment
        /\ build_fact_outcome(Present.graduation, gold) = Built(Present).fact_graduation
        /\ build_fact_outcome(Present.dropout, gold) = Built(Present).fact_dropout
        /\ build_fact_shifter(Present, gold) = Built(Present).fact_shifter
        /\ build_fact_retention(build_fact_enrollment(Present, gold)) = Built(Present).fact_retention
    <3> HIDE DEF d
    <3>1. /\ build_fact_enrollment(Present, gold) = build_fact_enrollment(Present, d)
          /\ build_fact_outcome(Present.graduation, gold) = build_fact_outcome(Present.graduation, d)
          /\ build_fact_outcome(Present.dropout, gold) = build_fact_outcome(Present.dropout, d)
          /\ build_fact_shifter(Present, gold) = build_fact_shifter(Present, d)
      BY <2>2, FactsReadDimensions
    <3> QED BY <3>1, BuiltTables DEF d
  <2>5. \A i \in 1..5 : Q[i] \in Entries(Present) /\ Q[i].name \in FactTables
    BY <2>3, <2>4 DEF Entries, Tables, FactTables
  <2>6. Q \in Seq(Entries(Present))
    <3>1. Q = [i \in 1..5 |-> Q[i]]
      BY DEF Facts
    <3> HIDE DEF Q
    <3> QED BY <2>5, <3>1
  <2>7. \A t \in FactTables : \E i \in DOMAIN Q : Q[i].name = t
    BY <2>3 DEF FactTables
  <2> HIDE DEF Q
  <2> QED BY <1>1, <1>2, <1>3, <2>1, <2>3, <2>5, <2>6, <2>7, QueueInv, StepTables
<1> QED BY <1>4, <1>5

\* With all facts written, the KPIs a stage queues are those of the same snapshot.
LEMMA BuildKpiInv == ASSUME NEW r \in Pipelines PROVE IInv /\ BuildKpi(r) => IInv'
<1> SUFFICES ASSUME IInv, BuildKpi(r) PROVE IInv'
  OBVIOUS
<1> DEFINE kpi == [name |-> "fact_institution_kpi", rows |-> build_fact_institution_kpi(gold)]
<1>1. pc[r] = "kpi" /\ queue[r] = << >> /\ InStage(r) /\ \A q \in Pipelines \ {r} : ~InStage(q)
  BY DEF BuildKpi, InStage, IInv, OneStage
<1>2. /\ pc' = [pc EXCEPT ![r] = "load"] /\ queue' = [queue EXCEPT ![r] = <<kpi>>]
      /\ UNCHANGED <<silver, gold, warehouse, registry, basis, used>>
  BY DEF BuildKpi, Go
<1>3. \A t \in DimensionTables \cup FactTables : Done(t)
  BY <1>1, StepTables DEF IInv, StageInv
<1>4. build_fact_institution_kpi(gold) = Built(Present).fact_institution_kpi
  <2>1. gold.dim_program = Built(Present).dim_program /\ \A t \in FactTables : gold[t] = Built(Present)[t]
    BY <1>3 DEF Done, DimensionTables
  <2> QED BY <2>1, KpiReadsFacts, BuiltTables
<1>5. kpi \in Entries(Present) /\ kpi.name = "fact_institution_kpi"
  BY <1>4 DEF Entries, Tables
<1> HIDE DEF kpi
<1>6. <<kpi>> \in Seq(Entries(Present)) /\ DOMAIN <<kpi>> = {1} /\ <<kpi>>[1] = kpi /\ <<kpi>> # << >>
  BY <1>5
<1> QED BY <1>1, <1>2, <1>3, <1>5, <1>6, QueueInv, StepTables

\* A write moves one table of the build from the queue to the store; with the last one the
\* store is the whole build.
LEMMA WriteInv == ASSUME NEW r \in Pipelines PROVE IInv /\ Write(r) => IInv'
<1> SUFFICES ASSUME IInv, Write(r) PROVE IInv'
  OBVIOUS
<1> DEFINE rest == Tail(queue[r])
<1>0. PICK n : n = Head(queue[r]).name
  OBVIOUS
<1>1. /\ queue[r] # << >> /\ pc[r] \in {"facts", "kpi", "load"}
      /\ InStage(r) /\ \A q \in Pipelines \ {r} : ~InStage(q)
  BY QueueInStage DEF Write, IInv, OneStage
<1>2. queue[r] \in Seq(Entries(Present)) /\ 1 \in DOMAIN queue[r] /\ Head(queue[r]) = queue[r][1]
  BY <1>1, QueueInStage DEF IInv, TypeInv
<1>3. n \in TablesOf(pc[r]) /\ n \in Tables /\ Head(queue[r]).rows = Built(Present)[n]
  <2>1. PICK t \in Tables : Head(queue[r]) = [name |-> t, rows |-> Built(Present)[t]]
    BY <1>1, <1>2 DEF Entries
  <2> QED BY <1>0, <1>2, <2>1 DEF IInv, TypeInv
<1>4. /\ gold' = [t \in DOMAIN gold \cup {n} |-> IF t = n THEN Built(Present)[n] ELSE gold[t]]
      /\ basis' = IF n = "fact_institution_kpi" THEN silver ELSE Building
      /\ queue' = [queue EXCEPT ![r] = rest]
      /\ UNCHANGED <<silver, warehouse, registry, pc, used>>
  BY <1>0, <1>3 DEF Write
<1>5. /\ rest \in Seq(Entries(Present))
      /\ \A i \in DOMAIN rest : i + 1 \in DOMAIN queue[r] /\ rest[i] = queue[r][i + 1]
      /\ \A i \in DOMAIN queue[r] : i = 1 \/ (i - 1 \in DOMAIN rest /\ rest[i - 1] = queue[r][i])
  BY <1>1, <1>2, HeadTailProperties
<1>6. /\ queue'[r] = rest
      /\ \A q \in Pipelines \ {r} : queue'[q] = queue[q]
  BY <1>4 DEF IInv, TypeInv
<1> HIDE DEF rest
<1>7. \A q \in Pipelines \ {r} : ~InStage(q)'
  BY <1>1, <1>4, <1>6 DEF InStage
<1>8. Done(n)' /\ \A t : Done(t) => Done(t)'
  BY <1>4 DEF Done, Present
<1>9. TypeInv'
  <2>1. gold' = [t \in DOMAIN gold' |-> gold'[t]] /\ DOMAIN gold' \subseteq Tables
    BY <1>3, <1>4 DEF IInv, TypeInv
  <2>2. \A q \in Pipelines : \A i \in DOMAIN queue'[q] : queue'[q][i].name \in TablesOf(pc'[q])
    BY <1>4, <1>5, <1>6 DEF IInv, TypeInv
  <2>3. queue' \in [Pipelines -> Seq(Entries(Present)')]
    BY <1>4, <1>5 DEF IInv, TypeInv, Present, Entries
  <2> QED BY <1>4, <2>1, <2>2, <2>3 DEF IInv, TypeInv
<1>10. StageInv'
  <2>1. ASSUME NEW t \in TablesOf(pc[r])
        PROVE  Done(t)' \/ \E i \in DOMAIN queue'[r] : queue'[r][i].name = t
    <3>1. CASE Done(t) \/ t = n
      BY <1>8, <3>1
    <3>2. CASE ~Done(t) /\ t # n
      <4>1. PICK i \in DOMAIN queue[r] : queue[r][i].name = t
        BY <1>1, <3>2 DEF IInv, StageInv
      <4>2. i # 1
        BY <1>0, <1>2, <3>2, <4>1
      <4> QED BY <1>5, <1>6, <4>1, <4>2
    <3> QED BY <3>1, <3>2
  <2> QED BY <1>1, <1>4, <1>7, <1>8, <2>1 DEF IInv, StageInv
<1>11. BasisInv'
  <2>1. CASE n = "fact_institution_kpi"
    <3>1. pc[r] = "load"
      BY <1>1, <1>3, <2>1, StepTables
    <3>2. \A t \in Tables : Done(t)'
      BY <1>1, <1>8, <2>1, <3>1, StepTables DEF IInv, StageInv
    <3>3. gold' = Built(Present)
      <4>1. DOMAIN gold' = Tables
        BY <1>9, <3>2 DEF TypeInv, Done
      <4>2. \A t \in Tables : gold'[t] = Built(Present)[t]
        BY <1>4, <3>2 DEF Done, Present
      <4>3. Built(Present) = [t \in Tables |-> Built(Present)[t]]
        BY BuiltTables DEF Built
      <4> QED BY <1>9, <4>1, <4>2, <4>3 DEF TypeInv
    <3> QED BY <1>4, <2>1, <3>3, SilverAssumption DEF BasisInv, Present, IInv, TypeInv, Building
  <2>2. CASE n # "fact_institution_kpi"
    <3>1. InStage(r)'
      BY <1>1, <1>3, <1>4, <2>2, StepTables DEF InStage
    <3> QED BY <1>4, <2>2, <3>1, SilverAssumption DEF BasisInv, Building
  <2> QED BY <2>1, <2>2
<1> QED BY <1>7, <1>9, <1>10, <1>11 DEF IInv, OneStage

\* A load leaves the store as it is.
LEMMA LoadInv == ASSUME NEW r \in Pipelines PROVE IInv /\ (Load(r) \/ LoadRefused(r)) => IInv'
<1> SUFFICES ASSUME IInv, Load(r) \/ LoadRefused(r) PROVE IInv'
  OBVIOUS
<1>1. /\ pc[r] = "load" /\ ~InStage(r) /\ queue[r] = << >>
      /\ pc' = [pc EXCEPT ![r] = "idle"] /\ UNCHANGED <<silver, gold, registry, queue, basis, used>>
      /\ DOMAIN warehouse' = Tables
  BY DEF Load, LoadRefused, MayLoad, LockFree, InStage, Go, IInv, TypeInv
<1>2. OneStage' /\ StageInv' /\ \A q \in Pipelines : InStage(q)' <=> InStage(q)
  BY <1>1, SameStages DEF IInv, TypeInv, Steps
<1>3. TypeInv'
  <2>1. pc'[r] = "idle" /\ \A q \in Pipelines : q # r => pc'[q] = pc[q]
    BY <1>1 DEF IInv, TypeInv
  <2> QED BY <1>1, <2>1 DEF IInv, TypeInv, Steps, Present
<1> QED BY <1>1, <1>2, <1>3 DEF IInv, BasisInv

\* A stage that ends in the middle gives the lock back and leaves the store lost.
LEMMA CrashInv == ASSUME NEW r \in Pipelines PROVE IInv /\ Crash(r) => IInv'
<1> SUFFICES ASSUME IInv, Crash(r) PROVE IInv'
  OBVIOUS
<1>1. InStage(r) /\ \A q \in Pipelines \ {r} : ~InStage(q)
  BY DEF Crash, IInv, OneStage
<1>2. /\ pc' = [pc EXCEPT ![r] = "idle"] /\ queue' = [queue EXCEPT ![r] = << >>]
      /\ basis' = IF basis = Building THEN Lost ELSE basis
      /\ UNCHANGED <<silver, gold, warehouse, registry>>
  BY DEF Crash, Go
<1>3. /\ pc'[r] = "idle" /\ queue'[r] = << >>
      /\ \A q \in Pipelines \ {r} : pc'[q] = pc[q] /\ queue'[q] = queue[q]
  BY <1>2 DEF IInv, TypeInv
<1>4. \A q \in Pipelines : ~InStage(q)'
  BY <1>1, <1>3 DEF InStage
<1>5. TypeInv'
  <2>1. used' \in [{"refreshes", "starts", "reloads", "crashes", "models"} -> Nat]
    BY DEF Crash, Use, IInv, TypeInv
  <2>2. queue' \in [Pipelines -> Seq(Entries(Present)')] /\ pc' \in [Pipelines -> Steps]
    BY <1>2, EmptySeq DEF IInv, TypeInv, Steps, Present, Entries
  <2>3. \A q \in Pipelines : \A i \in DOMAIN queue'[q] : queue'[q][i].name \in TablesOf(pc'[q])
    BY <1>3, <1>4, EmptySeq DEF IInv, TypeInv
  <2> QED BY <1>2, <2>1, <2>2, <2>3 DEF IInv, TypeInv
<1> QED BY <1>2, <1>4, <1>5, SilverAssumption DEF IInv, OneStage, StageInv, BasisInv, Building, Lost

\* The registry is outside the store.
LEMMA RegisterInv ==
  ASSUME NEW k \in DOMAIN warehouse.dim_program PROVE IInv /\ record_candidate(k) => IInv'
<1> SUFFICES ASSUME IInv, record_candidate(k) PROVE IInv'
  OBVIOUS
<1>1. used' \in [{"refreshes", "starts", "reloads", "crashes", "models"} -> Nat]
  BY DEF record_candidate, Use, IInv, TypeInv
<1> QED BY <1>1 DEF record_candidate, IInv, TypeInv, OneStage, StageInv, BasisInv, Present, Done, InStage

\* Stuttering steps.
LEMMA StutterInv == IInv /\ UNCHANGED vars => IInv'
BY DEF vars, IInv, TypeInv, OneStage, StageInv, BasisInv, Present, Done, InStage

\* The store is always a build, or the part of one that the stage holding the lock has
\* written, or known to be lost.
THEOREM GoldInvariant == Spec => []IInv
<1>1. IInv /\ [Next]_vars => IInv'
  BY RefreshInv, StartInv, BuildDimensionsInv, WriteInv, BuildFactsInv, BuildKpiInv, LoadInv,
     CrashInv, RegisterInv, StutterInv DEF Next, Step
<1> QED BY <1>1, InitInv, PTL DEF Spec

\* Type correctness of the stages and the store.
THEOREM GoldTypeCorrect == Spec => []TypeOK
<1>1. IInv => TypeOK
  BY DEF IInv, TypeInv, TypeOK, Steps
<1> QED BY <1>1, GoldInvariant, PTL

\* A load waits for the lock, and where nobody holds it the store is one build: a load
\* publishes the tables of one snapshot, unless the build was lost in the middle.
THEOREM OneBuildCorrect == Spec => LoadsOneBuild
<1>1. ASSUME IInv, Next, basis # Lost
      PROVE  UNCHANGED warehouse \/ (basis \in DOMAIN Snapshots /\ warehouse' = Built(Snapshots[basis]))
  <2>1. CASE \E r \in Pipelines : Load(r)
    <3>1. LockFree /\ warehouse' = gold
      BY <2>1 DEF Load, MayLoad
    <3>2. basis # Building
      BY <1>1, <3>1 DEF IInv, BasisInv, LockFree
    <3>3. basis \in DOMAIN Snapshots
      BY <1>1, <3>2 DEF IInv, TypeInv
    <3> QED BY <1>1, <3>1, <3>3 DEF IInv, BasisInv
  <2>2. CASE \A r \in Pipelines : ~Load(r)
    BY <1>1, <2>2 DEF Next, Step, Refresh, Start, Reload, BuildDimensions, Write, BuildFacts,
                      BuildKpi, LoadRefused, Crash, record_candidate
  <2> QED BY <2>1, <2>2
<1>2. IInv /\ [Next]_vars =>
        [basis # Lost => \/ UNCHANGED warehouse
                         \/ basis \in DOMAIN Snapshots /\ warehouse' = Built(Snapshots[basis])]_vars
  BY <1>1 DEF vars
<1> QED BY <1>2, GoldInvariant, PTL DEF Spec, LoadsOneBuild

(***************************************************************************)
(* The student dimension                                                    *)
(***************************************************************************)

VersionOrder(T) == {p \in Versions(T) \X Versions(T) : VersionBefore(p[1], p[2])}

\* Students of a snapshot whose dimensions do not raise are in the calendar.
LEMMA AllEnrolled ==
  ASSUME NEW i \in DOMAIN Snapshots, ~DimensionsRaise(Snapshots[i]), NEW s \in Snapshots[i].student
  PROVE  /\ Enrolled(s, ShiftsOf(s, Snapshots[i]))
         /\ s.student \in Int /\ s.row \in Int
         /\ VersionsOf(s, ShiftsOf(s, Snapshots[i])) \subseteq Versions(Snapshots[i])
<1> DEFINE T == Snapshots[i]
           X == ShiftsOf(s, T)
<1>1. /\ {s.student, s.row, s.entry} \subseteq Int
      /\ IsFiniteSet(T.shifter)
      /\ \A x \in T.shifter : {x.sem, x.row} \subseteq Int
      /\ \A x, y \in T.shifter : x.row = y.row => x = y
      /\ \A x \in T.shifter : s.student = x.student => s.entry <= x.sem
  BY SilverAssumption
<1>2. Shifts(X) /\ \A x \in X : s.entry <= x.sem
  BY <1>1, FS_Subset DEF Shifts, ShiftsOf
<1>3. VersionsOf(s, X) \subseteq Versions(T)
  BY DEF Versions
<1>4. \A v \in VersionsOf(s, X) : v.from \in Periods
  BY <1>3 DEF DimensionsRaise
<1> HIDE DEF X, T
<1>5. Enrolled(s, X)
  BY <1>1, <1>2, <1>4, InCalendar
<1> QED BY <1>1, <1>3, <1>5 DEF X, T

\* The rows of dim_student are sorted by student, position and version number: no two
\* versions are equal in that order, so sorting numbers them.
LEMMA VersionsOrdered ==
  ASSUME NEW i \in DOMAIN Snapshots, ~DimensionsRaise(Snapshots[i])
  PROVE  /\ IsFiniteSet(Versions(Snapshots[i]))
         /\ StrictOrder(VersionOrder(Snapshots[i]), Versions(Snapshots[i]))
<1> DEFINE T == Snapshots[i]
           Of(s) == VersionsOf(s, ShiftsOf(s, T))
           V == Versions(T)
<1>1. ASSUME NEW s \in T.student
      PROVE  /\ IsFiniteSet(Of(s)) /\ s.student \in Int /\ s.row \in Int
             /\ \A v \in Of(s) : v.number \in Nat /\ v.student = s.student /\ v.file = s.row
             /\ \A v, w \in Of(s) : v.number = w.number => v = w
  BY AllEnrolled, VersionsNumbered, VersionsOfStudent DEF Enrolled
<1>2. V = UNION {Of(s) : s \in T.student}
  BY DEF Versions
<1>3. IsFiniteSet(T.student) /\ \A s, t \in T.student : s.row = t.row => s = t
  BY SilverAssumption
<1> HIDE DEF Of, V, T
<1>4. IsFiniteSet(V)
  <2> DEFINE f == [s \in T.student |-> Of(s)]
             S == {Of(s) : s \in T.student}
  <2>1. f \in Surjection(T.student, S)
    BY DEF Surjection
  <2>2. IsFiniteSet(S)
    <3> HIDE DEF f, S
    <3> QED BY <1>3, <2>1, FS_Surjection
  <2>3. \A x \in S : IsFiniteSet(x)
    BY <1>1
  <2> HIDE DEF S
  <2> QED BY <1>2, <2>2, <2>3, FS_UNION DEF S
<1>5. \A v \in V : v.student \in Int /\ v.file \in Int /\ v.number \in Nat
  BY <1>1, <1>2
<1>6. \A v, w \in V : v.file = w.file /\ v.number = w.number => v = w
  BY <1>1, <1>2, <1>3
<1>7. ASSUME NEW R, R = {p \in V \X V : VersionBefore(p[1], p[2])}
      PROVE  StrictOrder(R, V)
  <2>1. \A v, w \in V : <<v, w>> \in R <=> VersionBefore(v, w)
    BY <1>7
  <2>2. \A v \in V : ~VersionBefore(v, v)
    BY <1>5 DEF VersionBefore
  <2>3. \A u, v, w \in V : VersionBefore(u, v) /\ VersionBefore(v, w) => VersionBefore(u, w)
    BY <1>5 DEF VersionBefore
  <2>4. \A v, w \in V : v = w \/ VersionBefore(v, w) \/ VersionBefore(w, v)
    BY <1>5, <1>6 DEF VersionBefore
  <2> QED BY <2>1, <2>2, <2>3, <2>4 DEF StrictOrder
<1> QED BY <1>4, <1>7 DEF V, T, VersionOrder

\* Each version has one surrogate key, and each key one version.
LEMMA VersionKeys ==
  ASSUME NEW i \in DOMAIN Snapshots, ~DimensionsRaise(Snapshots[i]),
         NEW rows, rows = Keyed(Versions(Snapshots[i]), VersionBefore)
  PROVE  /\ \A k \in DOMAIN rows : rows[k] \in Versions(Snapshots[i])
         /\ \A v \in Versions(Snapshots[i]) : \E k \in DOMAIN rows : rows[k] = v
         /\ \A j, k \in DOMAIN rows : rows[j] = rows[k] => j = k
         /\ IsFiniteSet(DOMAIN rows)
<1> DEFINE V == Versions(Snapshots[i])
           R == VersionOrder(Snapshots[i])
<1>1. \A x \in V : {y \in V : VersionBefore(y, x)} = Below(R, V, x)
  BY DEF VersionOrder, Below
<1>2. rows = [k \in 1..Cardinality(V) |->
               CHOOSE x \in V : Cardinality({y \in V : VersionBefore(y, x)}) = k - 1]
  BY DEF Keyed
<1>3. IsFiniteSet(V) /\ StrictOrder(R, V)
  BY VersionsOrdered
<1> HIDE DEF V, R
<1>4. Sorted(rows, V, R)
  BY <1>1, <1>2 DEF Sorted
<1>5. /\ \A k \in DOMAIN rows : rows[k] \in V
      /\ \A v \in V : \E k \in DOMAIN rows : rows[k] = v
      /\ \A j, k \in DOMAIN rows : rows[j] = rows[k] => j = k
      /\ IsFiniteSet(DOMAIN rows)
  BY <1>3, <1>4, PositionKeys
<1> QED BY <1>5 DEF V

\* Each program has one surrogate key, and each key one program.
LEMMA ProgramKeys ==
  ASSUME NEW i \in DOMAIN Snapshots, NEW rows, rows = build_dim_program(Snapshots[i])
  PROVE  /\ \A k \in DOMAIN rows : rows[k] \in Snapshots[i].program
         /\ \A p \in Snapshots[i].program : \E k \in DOMAIN rows : rows[k] = p
         /\ \A j, k \in DOMAIN rows : rows[j] = rows[k] => j = k
         /\ 0 \notin DOMAIN rows
<1> DEFINE S == Snapshots[i].program
           R == {p \in S \X S : p[1] < p[2]}
<1>1. \A x \in S : {y \in S : y < x} = Below(R, S, x)
  BY DEF Below
<1>2. rows = [k \in 1..Cardinality(S) |-> CHOOSE x \in S : Cardinality({y \in S : y < x}) = k - 1]
  BY DEF build_dim_program, Keyed
<1>3. IsFiniteSet(S) /\ S \subseteq Int
  BY SilverAssumption
<1>4. \A p, q \in S : <<p, q>> \in R <=> p < q
  OBVIOUS
<1> HIDE DEF S, R
<1>5. StrictOrder(R, S)
  BY <1>3, <1>4 DEF StrictOrder
<1>6. Sorted(rows, S, R)
  BY <1>1, <1>2 DEF Sorted
<1>7. /\ \A k \in DOMAIN rows : rows[k] \in S
      /\ \A p \in S : \E k \in DOMAIN rows : rows[k] = p
      /\ \A j, k \in DOMAIN rows : rows[j] = rows[k] => j = k
      /\ 0 \notin DOMAIN rows
  BY <1>3, <1>5, <1>6, PositionKeys
<1> QED BY <1>7 DEF S

\* At most one current row per student: the unique index of dim_student
OneCurrent(dim) ==
  \A j, k \in DOMAIN dim : dim[j].student = dim[k].student /\ dim[j].current /\ dim[k].current => j = k

\* From the first semester of a row on, one row of its student covers each semester
Tiles(dim) ==
  \A j \in DOMAIN dim : \A t \in dim[j].from..LastPeriod :
    Cardinality({k \in DOMAIN dim : dim[k].student = dim[j].student /\ Covers(dim[k], t)}) = 1

\* The program of a row of dim_student
As(w, k) == w.dim_program[w.dim_student[k].program]

\* What the keys and rows of the dimensions mean: keys of programs are one to one, masters are
\* one per student; a row covers only semesters of its student, from entry on and with the
\* program of the semester; each of these is covered by one row, which covers the next as
\* well unless the student shifts in it
Means(T, w) ==
  LET D == w.dim_student
  IN  /\ 0 \notin DOMAIN w.dim_program
      /\ \A p \in T.program : \E k \in DOMAIN w.dim_program : w.dim_program[k] = p
      /\ \A j, k \in DOMAIN w.dim_program : w.dim_program[j] = w.dim_program[k] => j = k
      /\ IsFiniteSet(DOMAIN D)
      /\ \A s, t \in T.student : s.student = t.student => s = t
      /\ \A s \in T.student : s.entry \in Periods
      /\ \A k \in DOMAIN D : \E s \in T.student :
           s.student = D[k].student /\ D[k].from \in s.entry..LastPeriod
      /\ \A k \in DOMAIN D : \A t \in Periods : Covers(D[k], t) =>
           \E s \in T.student : /\ s.student = D[k].student /\ s.entry <= t
                                /\ As(w, k) = ProgramAt(s, ShiftsOf(s, T), t)
      /\ \A s \in T.student : \A t \in s.entry..LastPeriod :
           \E k \in DOMAIN D : D[k].student = s.student /\ Covers(D[k], t)
      /\ \A j, k \in DOMAIN D : \A t \in Periods :
           D[j].student = D[k].student /\ Covers(D[j], t) /\ Covers(D[k], t) => j = k
      /\ \A k \in DOMAIN D : \A t \in Periods : Covers(D[k], t) /\ t + 1 \in Periods =>
           (Covers(D[k], t + 1) <=>
              ~\E x \in T.shifter : x.student = D[k].student /\ x.sem = t + 1)

\* So do the dimensions that a build made, if the unique index accepts them.
LEMMA DimensionMeans ==
  ASSUME NEW i \in DOMAIN Snapshots, ~DimensionsRaise(Snapshots[i]), NEW w,
         w.dim_program = build_dim_program(Snapshots[i]),
         w.dim_student = build_dim_student(Snapshots[i]), OneCurrent(w.dim_student)
  PROVE  Means(Snapshots[i], w)
<1> DEFINE T == Snapshots[i]
           rows == Keyed(Versions(T), VersionBefore)
           X(s) == ShiftsOf(s, T)
           D == w.dim_student
           P == w.dim_program
<1>1. /\ \A k \in DOMAIN rows : rows[k] \in Versions(T)
      /\ \A v \in Versions(T) : \E k \in DOMAIN rows : rows[k] = v
      /\ \A j, k \in DOMAIN rows : rows[j] = rows[k] => j = k
      /\ IsFiniteSet(DOMAIN rows)
  <2> HIDE DEF rows
  <2> QED BY VersionKeys DEF rows
<1>2. /\ DOMAIN D = DOMAIN rows
      /\ \A k \in DOMAIN D : /\ D[k].student = rows[k].student
                             /\ D[k].from = rows[k].from /\ D[k].to = rows[k].to
                             /\ D[k].current = rows[k].current
                             /\ D[k].program = KeyOf(P, rows[k].program)
  BY DEF build_dim_student
<1>3. \A s \in T.student :
        /\ Enrolled(s, X(s)) /\ s.row \in Int /\ VersionsOf(s, X(s)) \subseteq Versions(T)
        /\ Current(s, X(s)) \in VersionsOf(s, X(s))
        /\ \A v \in VersionsOf(s, X(s)) : /\ v.student = s.student /\ v.file = s.row
                                          /\ v.from \in s.entry..LastPeriod
        /\ Current(s, X(s)).current = TRUE
  <2>1. \A s : Current(s, X(s)).current = TRUE
    BY DEF Current, Version
  <2> QED BY <2>1, AllEnrolled, VersionsOfStudent, VersionsAre
<1>4. \A v \in Versions(T) : v.program \in T.program /\ \E s \in T.student : v \in VersionsOf(s, X(s))
  BY DEF Versions, DimensionsRaise
<1>5. \A s, t \in T.student : s.row = t.row => s = t
  BY SilverAssumption
<1>6. /\ \A p \in T.program : \E k \in DOMAIN P : P[k] = p
      /\ \A j, k \in DOMAIN P : P[j] = P[k] => j = k
      /\ 0 \notin DOMAIN P
  <2> HIDE DEF T
  <2> QED BY ProgramKeys DEF T
<1>7. \A s \in T.student : \A x : x \in X(s) <=> x \in T.shifter /\ x.student = s.student
  BY DEF ShiftsOf
<1>8. OneCurrent(D)
  OBVIOUS
<1> SUFFICES Means(T, w)
  OBVIOUS
<1> HIDE DEF rows, X, T, D, P
\* two students of one identifier would have two current rows
<1>9. ASSUME NEW s \in T.student, NEW t \in T.student, s.student = t.student
      PROVE  s = t
  <2>1. PICK j \in DOMAIN rows : rows[j] = Current(s, X(s))
    BY <1>1, <1>3
  <2>2. PICK k \in DOMAIN rows : rows[k] = Current(t, X(t))
    BY <1>1, <1>3
  <2>3. /\ D[j].student = s.student /\ D[j].current = TRUE
        /\ D[k].student = t.student /\ D[k].current = TRUE
    BY <1>2, <1>3, <2>1, <2>2
  <2>4. j = k
    BY <1>2, <1>8, <1>9, <2>3 DEF OneCurrent
  <2>5. Current(s, X(s)).file = s.row /\ Current(t, X(t)).file = t.row
    BY <1>3
  <2>6. s.row = t.row
    BY <2>1, <2>2, <2>4, <2>5
  <2> QED BY <1>5, <2>6
\* the student of a row
<1>10. ASSUME NEW k \in DOMAIN D
       PROVE  \E s \in T.student : rows[k] \in VersionsOf(s, X(s)) /\ s.student = D[k].student
                                   /\ D[k].from \in s.entry..LastPeriod
  BY <1>1, <1>2, <1>3, <1>4
<1>11. \A k \in DOMAIN D : \A t : Covers(D[k], t) <=> Covers(rows[k], t)
  BY <1>2 DEF Covers
<1>12. \A k \in DOMAIN D : As(w, k) = rows[k].program
  <2> SUFFICES ASSUME NEW k \in DOMAIN D PROVE P[D[k].program] = rows[k].program
    BY DEF As, D, P
  <2>1. \E j \in DOMAIN P : P[j] = rows[k].program
    BY <1>1, <1>2, <1>4, <1>6
  <2> QED BY <1>2, <2>1 DEF KeyOf
<1>13. \A s \in T.student : s.entry \in Int /\ s.entry \in Periods
  BY <1>3, PeriodsAssumption DEF Enrolled, Periods
<1>14. ASSUME NEW k \in DOMAIN D, NEW t \in Periods, Covers(D[k], t)
       PROVE  \E s \in T.student :
                /\ s.student = D[k].student /\ s.entry <= t /\ rows[k] \in VersionsOf(s, X(s))
                /\ As(w, k) = ProgramAt(s, X(s), t)
                /\ \A v \in VersionsOf(s, X(s)) : Covers(v, t) => v = rows[k]
  <2>1. PICK s \in T.student : /\ rows[k] \in VersionsOf(s, X(s)) /\ s.student = D[k].student
                               /\ D[k].from \in s.entry..LastPeriod
    BY <1>10
  <2>2. t \in s.entry..LastPeriod
    BY <1>13, <1>14, <2>1, PeriodsAssumption DEF Covers, Periods
  <2>3. PICK v \in VersionsOf(s, X(s)) :
          /\ Covers(v, t) /\ v.program = ProgramAt(s, X(s), t)
          /\ \A u \in VersionsOf(s, X(s)) : Covers(u, t) => u = v
    BY <1>3, <2>2, VersionsTile
  <2>4. rows[k] = v
    BY <1>11, <1>14, <2>1, <2>3
  <2> QED BY <1>12, <2>1, <2>2, <2>3, <2>4
<1>15. ASSUME NEW s \in T.student, NEW t \in s.entry..LastPeriod
       PROVE  \E k \in DOMAIN D : D[k].student = s.student /\ Covers(D[k], t)
  <2>1. PICK v \in VersionsOf(s, X(s)) : Covers(v, t)
    BY <1>3, VersionsTile
  <2>2. PICK k \in DOMAIN rows : rows[k] = v
    BY <1>1, <1>3, <2>1
  <2> QED BY <1>2, <1>3, <1>11, <2>1, <2>2
<1>16. ASSUME NEW j \in DOMAIN D, NEW k \in DOMAIN D, NEW t \in Periods,
              D[j].student = D[k].student, Covers(D[j], t), Covers(D[k], t)
       PROVE  j = k
  <2>1. PICK s \in T.student :
          /\ s.student = D[j].student
          /\ \A v \in VersionsOf(s, X(s)) : Covers(v, t) => v = rows[j]
    BY <1>14, <1>16
  <2>2. PICK q \in T.student : q.student = D[k].student /\ rows[k] \in VersionsOf(q, X(q))
    BY <1>10
  <2>3. q = s
    BY <1>9, <1>16, <2>1, <2>2
  <2>4. rows[k] = rows[j]
    BY <1>11, <1>16, <2>1, <2>2, <2>3
  <2> QED BY <1>1, <1>2, <2>4
<1>17. ASSUME NEW k \in DOMAIN D, NEW t \in Periods, Covers(D[k], t), t + 1 \in Periods
       PROVE  Covers(D[k], t + 1) <=> ~\E x \in T.shifter : x.student = D[k].student /\ x.sem = t + 1
  <2>1. PICK s \in T.student : rows[k] \in VersionsOf(s, X(s)) /\ s.student = D[k].student
    BY <1>10
  <2>2. Covers(rows[k], t + 1) <=> ~\E x \in X(s) : x.sem = t + 1
    BY <1>3, <1>11, <1>17, <2>1, CoversNext
  <2> QED BY <1>7, <1>11, <2>1, <2>2
<1> QED
  <2>1. \A s : X(s) = ShiftsOf(s, T)
    BY DEF X
  <2>2. IsFiniteSet(DOMAIN D)
    BY <1>1, <1>2
  <2>3. \A k \in DOMAIN D : \E s \in T.student :
          s.student = D[k].student /\ D[k].from \in s.entry..LastPeriod
    BY <1>10
  <2>4. \A k \in DOMAIN D : \A t \in Periods : Covers(D[k], t) =>
          \E s \in T.student : /\ s.student = D[k].student /\ s.entry <= t
                               /\ As(w, k) = ProgramAt(s, ShiftsOf(s, T), t)
    BY <1>14, <2>1
  <2> QED BY <1>6, <1>9, <1>13, <1>15, <1>16, <1>17, <2>2, <2>3, <2>4 DEF Means, D, P

\* A dimension that a build made and the unique index accepts tiles time.
LEMMA BuiltDimensionTiles ==
  ASSUME NEW i \in DOMAIN Snapshots, ~DimensionsRaise(Snapshots[i]),
         NEW dim, dim = build_dim_student(Snapshots[i]), OneCurrent(dim)
  PROVE  Tiles(dim)
<1> DEFINE T == Snapshots[i]
           w == [dim_program |-> build_dim_program(T), dim_student |-> dim]
<1>1. w.dim_student = dim /\ w.dim_program = build_dim_program(T)
  OBVIOUS
<1> HIDE DEF w
<1>2. Means(T, w)
  BY <1>1, DimensionMeans
<1> HIDE DEF T
<1> SUFFICES ASSUME NEW j \in DOMAIN dim, NEW t \in dim[j].from..LastPeriod
             PROVE  Cardinality({k \in DOMAIN dim :
                      dim[k].student = dim[j].student /\ Covers(dim[k], t)}) = 1
  BY DEF Tiles
<1>3. PICK s \in T.student : /\ s.student = dim[j].student /\ s.entry \in Periods
                             /\ dim[j].from \in s.entry..LastPeriod
  BY <1>1, <1>2 DEF Means
<1>4. t \in s.entry..LastPeriod /\ t \in Periods
  BY <1>3, PeriodsAssumption DEF Periods
<1>5. PICK m \in DOMAIN dim : dim[m].student = s.student /\ Covers(dim[m], t)
  BY <1>1, <1>2, <1>4 DEF Means
<1>6. \A k \in DOMAIN dim : dim[k].student = s.student /\ Covers(dim[k], t) => k = m
  BY <1>1, <1>2, <1>4, <1>5 DEF Means
<1>7. {k \in DOMAIN dim : dim[k].student = dim[j].student /\ Covers(dim[k], t)} = {m}
  BY <1>3, <1>5, <1>6
<1> QED BY <1>7, FS_Singleton

\* What is built of a student dimension is built of a snapshot that does not raise
DimensionInv ==
  /\ \A r \in Pipelines : pc[r] = "facts" => ~DimensionsRaise(Present)
  /\ "dim_student" \in DOMAIN gold =>
       \E i \in DOMAIN Snapshots : /\ ~DimensionsRaise(Snapshots[i])
                                   /\ gold.dim_student = build_dim_student(Snapshots[i])
  /\ Tiles(warehouse.dim_student)

\* A dimension gets to the store by a stage that did not raise, and to the warehouse by a
\* load that the unique index accepted.
LEMMA DimensionStep == IInv /\ DimensionInv /\ [Next]_vars => DimensionInv'
<1> SUFFICES ASSUME IInv, DimensionInv, [Next]_vars PROVE DimensionInv'
  OBVIOUS
<1>0. pc \in [Pipelines -> Steps]
  BY DEF IInv, TypeInv
<1>1. CASE Refresh
  <2>1. \A r \in Pipelines : pc'[r] # "facts"
    BY <1>1 DEF Refresh, LockFree, InStage
  <2> QED BY <1>1, <2>1 DEF Refresh, DimensionInv
<1>2. ASSUME NEW r \in Pipelines, BuildDimensions(r)
      PROVE  DimensionInv'
  <2>1. UNCHANGED <<silver, gold, warehouse>>
    BY <1>2 DEF BuildDimensions
  <2>2. \A q \in Pipelines : pc'[q] = "facts" => pc[q] = "facts" \/ ~DimensionsRaise(Present)
    BY <1>0, <1>2 DEF BuildDimensions, Go, Present
  <2> QED BY <2>1, <2>2 DEF DimensionInv, Present
<1>3. ASSUME NEW r \in Pipelines, Write(r)
      PROVE  DimensionInv'
  <2>1. PICK n : n = Head(queue[r]).name
    OBVIOUS
  <2>2. /\ gold' = [t \in DOMAIN gold \cup {n} |-> IF t = n THEN Head(queue[r]).rows ELSE gold[t]]
        /\ UNCHANGED <<silver, warehouse, pc>>
    BY <1>3, <2>1 DEF Write
  <2>3. CASE n # "dim_student"
    BY <2>2, <2>3 DEF DimensionInv, Present
  <2>4. CASE n = "dim_student"
    <3>1. queue[r] # << >> /\ queue[r] \in Seq(Entries(Present)) /\ 1 \in DOMAIN queue[r]
      BY <1>3, QueueInStage DEF Write, IInv, TypeInv
    <3>2. Head(queue[r]) = queue[r][1] /\ queue[r][1] \in Entries(Present)
      BY <3>1
    <3>3. Head(queue[r]).rows = Built(Present)["dim_student"]
      BY <2>1, <2>4, <3>2 DEF Entries
    <3>4. n \in TablesOf(pc[r]) /\ pc[r] \in Steps
      BY <1>0, <2>1, <3>1, <3>2 DEF IInv, TypeInv
    <3>5. pc[r] = "facts"
      BY <2>4, <3>4, StepTables DEF Steps, DimensionTables, FactTables
    <3>6. gold'.dim_student = build_dim_student(Present) /\ ~DimensionsRaise(Present)
      BY <2>2, <2>4, <3>3, <3>5, BuiltTables DEF DimensionInv
    <3> QED BY <2>2, <3>6 DEF DimensionInv, Present, IInv, TypeInv
  <2> QED BY <2>3, <2>4
<1>4. ASSUME NEW r \in Pipelines, Load(r)
      PROVE  DimensionInv'
  <2>1. DOMAIN gold = Tables /\ Grain(gold) /\ warehouse' = gold /\ UNCHANGED <<silver, gold>>
    BY <1>4 DEF Load, Accepted
  <2>2. OneCurrent(gold.dim_student)
    BY <2>1 DEF Grain, OneCurrent
  <2>3. Tiles(gold.dim_student)
    <3>1. PICK i \in DOMAIN Snapshots : /\ ~DimensionsRaise(Snapshots[i])
                                        /\ gold.dim_student = build_dim_student(Snapshots[i])
      BY <2>1 DEF DimensionInv, Tables, DimensionTables
    <3> QED BY <2>2, <3>1, BuiltDimensionTiles
  <2>4. \A q \in Pipelines : pc'[q] = "facts" => pc[q] = "facts"
    BY <1>0, <1>4 DEF Load, Go
  <2> QED BY <2>1, <2>3, <2>4 DEF DimensionInv, Present
<1>5. ASSUME UNCHANGED <<silver, gold, warehouse>>,
             \A q \in Pipelines : pc'[q] = "facts" => pc[q] = "facts"
      PROVE  DimensionInv'
  BY <1>5 DEF DimensionInv, Present
<1>6. ASSUME NEW r \in Pipelines,
             Start(r) \/ Reload(r) \/ BuildFacts(r) \/ BuildKpi(r) \/ LoadRefused(r) \/ Crash(r)
      PROVE  DimensionInv'
  BY <1>0, <1>5, <1>6 DEF Start, Reload, BuildFacts, BuildKpi, LoadRefused, Crash, Go
<1>7. CASE \E k \in DOMAIN warehouse.dim_program : record_candidate(k)
  BY <1>5, <1>7 DEF record_candidate
<1>8. CASE UNCHANGED vars
  BY <1>5, <1>8 DEF vars
<1> QED BY <1>1, <1>2, <1>3, <1>4, <1>6, <1>7, <1>8 DEF Next, Step

\* Whatever was built, lost or executed again, the as-of join on the warehouse neither loses
\* nor doubles: each semester of a student is covered by exactly one version.
THEOREM TileCorrect == Spec => []VersionsTileTime
<1>1. Init => DimensionInv
  BY DEF Init, DimensionInv, Tiles, Tables, DimensionTables
<1>2. DimensionInv => VersionsTileTime
  BY DEF DimensionInv, Tiles, VersionsTileTime
<1> QED BY <1>1, <1>2, DimensionStep, GoldInvariant, PTL DEF Spec

(***************************************************************************)
(* What the keys of the registry go on meaning                              *)
(***************************************************************************)

\* The programs of one snapshot are those of the other, or also some behind them
GrowsAtEnd(P, Q) == P \subseteq Q /\ \A p \in P, q \in Q \ P : p < q

ProgramsOnlyAppended ==
  \A i, j \in DOMAIN Snapshots :
    \/ GrowsAtEnd(Snapshots[i].program, Snapshots[j].program)
    \/ GrowsAtEnd(Snapshots[j].program, Snapshots[i].program)

Smaller(S, x) == {q \in S : q < x}
Position(S, x) == Cardinality(Smaller(S, x))

\* Each row is the only one at its position
Positioned(rows, S) ==
  /\ \A k \in DOMAIN rows : rows[k] \in S /\ Position(S, rows[k]) = k - 1
  /\ \A x, y \in S : Position(S, x) = Position(S, y) => x = y

\* A row of a sorted table is at its position.
LEMMA SortedPositions ==
  ASSUME NEW S, IsFiniteSet(S), NEW R, StrictOrder(R, S),
         \A x \in S : Smaller(S, x) = Below(R, S, x)
  PROVE  Positioned([k \in 1..Cardinality(S) |-> CHOOSE x \in S : Position(S, x) = k - 1], S)
<1> DEFINE rows == [k \in 1..Cardinality(S) |-> CHOOSE x \in S : Position(S, x) = k - 1]
<1>1. \A x \in S : Position(S, x) = Cardinality(Below(R, S, x))
  BY DEF Position
<1>2. /\ Cardinality(S) \in Nat
      /\ \A x \in S : Cardinality(Below(R, S, x)) \in 0..Cardinality(S)-1
      /\ \A x, y \in S : Cardinality(Below(R, S, x)) = Cardinality(Below(R, S, y)) => x = y
      /\ \A k \in 0..Cardinality(S)-1 : \E x \in S : Cardinality(Below(R, S, x)) = k
  BY PositionsUnique
<1>3. ASSUME NEW k \in 1..Cardinality(S)
      PROVE  rows[k] \in S /\ Position(S, rows[k]) = k - 1
  <2>1. k - 1 \in 0..Cardinality(S)-1
    BY <1>2
  <2>2. PICK x \in S : Cardinality(Below(R, S, x)) = k - 1
    BY <1>2, <2>1
  <2>3. Position(S, x) = k - 1
    BY <1>1, <2>2
  <2> QED BY <2>3
<1>4. \A x, y \in S : Position(S, x) = Position(S, y) => x = y
  BY <1>1, <1>2
<1> QED BY <1>3, <1>4 DEF Positioned

\* The key of a program is its position among the programs.
LEMMA ProgramPositions ==
  ASSUME NEW i \in DOMAIN Snapshots
  PROVE  Positioned(build_dim_program(Snapshots[i]), Snapshots[i].program)
<1>1. PICK S : S = Snapshots[i].program
  OBVIOUS
<1>2. IsFiniteSet(S) /\ S \subseteq Int
  BY <1>1, SilverAssumption
<1>3. PICK R : R = {p \in S \X S : p[1] < p[2]}
  OBVIOUS
<1>4. \A p, q \in S : <<p, q>> \in R <=> p < q
  BY <1>3
<1>5. StrictOrder(R, S)
  BY <1>2, <1>4 DEF StrictOrder
<1>6. \A x \in S : Smaller(S, x) = Below(R, S, x)
  BY <1>4 DEF Smaller, Below
<1>7. Positioned([k \in 1..Cardinality(S) |-> CHOOSE x \in S : Position(S, x) = k - 1], S)
  BY <1>2, <1>5, <1>6, SortedPositions
<1>8. build_dim_program(Snapshots[i]) = [k \in 1..Cardinality(S) |-> CHOOSE x \in S : Position(S, x) = k - 1]
  BY <1>1 DEF build_dim_program, Keyed, Position, Smaller
<1> QED BY <1>1, <1>7, <1>8

\* Programs that are added at the end leave the keys of the others alone.
LEMMA KeysAgree ==
  ASSUME NEW i \in DOMAIN Snapshots, NEW j \in DOMAIN Snapshots,
         GrowsAtEnd(Snapshots[i].program, Snapshots[j].program),
         NEW k, k \in DOMAIN build_dim_program(Snapshots[i]), k \in DOMAIN build_dim_program(Snapshots[j])
  PROVE  build_dim_program(Snapshots[i])[k] = build_dim_program(Snapshots[j])[k]
<1> DEFINE P == Snapshots[i].program
           Q == Snapshots[j].program
           d == build_dim_program(Snapshots[i])
           e == build_dim_program(Snapshots[j])
<1>1. P \subseteq Int /\ Q \subseteq Int /\ GrowsAtEnd(P, Q)
  BY SilverAssumption
<1>2. Positioned(d, P)
  BY ProgramPositions
<1>3. Positioned(e, Q)
  BY ProgramPositions
<1>4. k \in DOMAIN d /\ k \in DOMAIN e
  OBVIOUS
<1> HIDE DEF P, Q, d, e
<1>5. d[k] \in P /\ d[k] \in Q /\ Position(P, d[k]) = k - 1
  BY <1>1, <1>2, <1>4 DEF Positioned, GrowsAtEnd
<1>6. ASSUME NEW q \in Q, q < d[k]
      PROVE  q \in P
  <2>1. PICK p \in P : p = d[k]
    BY <1>5
  <2>2. p \in Int /\ q \in Int
    BY <1>1
  <2>3. q \notin P => p < q
    BY <1>1 DEF GrowsAtEnd
  <2> QED BY <1>6, <2>1, <2>2, <2>3
<1>7. Smaller(Q, d[k]) = Smaller(P, d[k])
  BY <1>1, <1>6 DEF Smaller, GrowsAtEnd
<1>8. Position(Q, d[k]) = k - 1
  BY <1>5, <1>7 DEF Position
<1>9. d[k] = e[k]
  BY <1>3, <1>4, <1>5, <1>8 DEF Positioned
<1> QED BY <1>9 DEF d, e

\* A dimension whose keys are those of a snapshot
KeysOfSnapshot(dim) ==
  \E i \in DOMAIN Snapshots : \A k \in DOMAIN dim :
    k \in DOMAIN build_dim_program(Snapshots[i]) /\ dim[k] = build_dim_program(Snapshots[i])[k]

LEMMA SnapshotsAgree ==
  ASSUME ProgramsOnlyAppended, NEW d, NEW e, KeysOfSnapshot(d), KeysOfSnapshot(e),
         NEW k, k \in DOMAIN d, k \in DOMAIN e
  PROVE  d[k] = e[k]
<1>1. PICK i \in DOMAIN Snapshots :
        k \in DOMAIN build_dim_program(Snapshots[i]) /\ d[k] = build_dim_program(Snapshots[i])[k]
  BY DEF KeysOfSnapshot
<1>2. PICK j \in DOMAIN Snapshots :
        k \in DOMAIN build_dim_program(Snapshots[j]) /\ e[k] = build_dim_program(Snapshots[j])[k]
  BY DEF KeysOfSnapshot
<1>3. build_dim_program(Snapshots[i])[k] = build_dim_program(Snapshots[j])[k]
  BY <1>1, <1>2, KeysAgree DEF ProgramsOnlyAppended
<1> QED BY <1>1, <1>2, <1>3

\* The programs in store and warehouse are keyed as in some snapshot, and the registry
\* names programs of the warehouse.
MeaningInv ==
  /\ "dim_program" \in DOMAIN gold => KeysOfSnapshot(gold.dim_program)
  /\ KeysOfSnapshot(warehouse.dim_program)
  /\ \A m \in registry : m.key \in DOMAIN warehouse.dim_program
                         /\ warehouse.dim_program[m.key] = m.program

LEMMA MeaningStep ==
  ASSUME ProgramsOnlyAppended, IInv, MeaningInv, [Next]_vars
  PROVE  MeaningInv'
<1>0. pc \in [Pipelines -> Steps] /\ silver \in DOMAIN Snapshots
  BY DEF IInv, TypeInv
<1>1. CASE UNCHANGED <<gold, warehouse, registry>>
  BY <1>1 DEF MeaningInv, KeysOfSnapshot
<1>2. ASSUME NEW r \in Pipelines, Write(r)
      PROVE  MeaningInv'
  <2>1. PICK n : n = Head(queue[r]).name
    OBVIOUS
  <2>2. /\ gold' = [t \in DOMAIN gold \cup {n} |-> IF t = n THEN Head(queue[r]).rows ELSE gold[t]]
        /\ UNCHANGED <<warehouse, registry>>
    BY <1>2, <2>1 DEF Write
  <2>3. "dim_program" \in DOMAIN gold' => KeysOfSnapshot(gold'.dim_program)
    <3>1. CASE n # "dim_program"
      BY <2>2, <3>1 DEF MeaningInv
    <3>2. CASE n = "dim_program"
      <4>1. queue[r] # << >> /\ queue[r] \in Seq(Entries(Present)) /\ 1 \in DOMAIN queue[r]
        BY <1>2, QueueInStage DEF Write, IInv, TypeInv
      <4>2. Head(queue[r]) = queue[r][1] /\ queue[r][1] \in Entries(Present)
        BY <4>1
      <4>3. Head(queue[r]).rows = Built(Present)["dim_program"]
        BY <2>1, <3>2, <4>2 DEF Entries
      <4>4. n \in TablesOf(pc[r]) /\ pc[r] \in Steps
        BY <1>0, <2>1, <4>1, <4>2 DEF IInv, TypeInv
      <4>5. pc[r] = "facts"
        BY <3>2, <4>4, StepTables DEF Steps, DimensionTables, FactTables
      <4>6. gold'.dim_program = build_dim_program(Present)
        BY <2>2, <3>2, <4>3, BuiltTables
      <4> QED BY <1>0, <4>6 DEF KeysOfSnapshot, Present
    <3> QED BY <3>1, <3>2
  <2> QED BY <2>2, <2>3 DEF MeaningInv, KeysOfSnapshot
<1>3. ASSUME NEW r \in Pipelines, Load(r)
      PROVE  MeaningInv'
  <2>1. /\ DOMAIN gold = Tables /\ warehouse' = gold /\ UNCHANGED <<gold, registry>>
        /\ \A m \in registry : m.key \in DOMAIN gold.dim_program
    BY <1>3 DEF Load, Accepted, RegistryKeysExist
  <2>2. KeysOfSnapshot(gold.dim_program)
    BY <2>1 DEF MeaningInv, Tables, DimensionTables
  <2>3. ASSUME NEW m \in registry
        PROVE  gold.dim_program[m.key] = m.program
    BY <2>1, <2>2, SnapshotsAgree DEF MeaningInv
  <2> QED BY <2>1, <2>2, <2>3 DEF MeaningInv, KeysOfSnapshot
<1>4. CASE \E k \in DOMAIN warehouse.dim_program : record_candidate(k)
  BY <1>4 DEF record_candidate, MeaningInv, KeysOfSnapshot
<1> QED
  BY <1>1, <1>2, <1>3, <1>4 DEF Next, Step, Refresh, Start, Reload, BuildDimensions, BuildFacts,
                                BuildKpi, LoadRefused, Crash, vars

\* ReferencesKeepMeaning, which an added program in the middle of the sort order refutes,
\* holds as long as programs come and go at the end of it, whatever is built, lost or loaded
\* again: a registered model then stays that of its program.
THEOREM AppendingKeepsMeaning ==
  ASSUME ProgramsOnlyAppended
  PROVE  Spec => []ReferencesKeepMeaning
<1>1. Init => MeaningInv
  <2> SUFFICES ASSUME Init PROVE MeaningInv
    OBVIOUS
  <2>1. warehouse.dim_program = << >> /\ silver \in DOMAIN Snapshots /\ registry = {} /\ gold = << >>
    BY DEF Init, Tables, DimensionTables
  <2>2. DOMAIN (<< >>) = {}
    BY EmptySeq
  <2> QED BY <2>1, <2>2 DEF MeaningInv, KeysOfSnapshot
<1>2. MeaningInv => ReferencesKeepMeaning
  BY DEF MeaningInv, ReferencesKeepMeaning
<1>3. IInv /\ MeaningInv /\ [Next]_vars => MeaningInv'
  BY MeaningStep
<1> QED BY <1>1, <1>2, <1>3, GoldInvariant, PTL DEF Spec

(***************************************************************************)
(* What a load shows readers: the rows of every table, their keys resolved,   *)
(* are those of the snapshot.                                                  *)
(***************************************************************************)

\* The as-of join gives each row of a known semester and student one version of the student,
\* which has the program of that time, and no other row any.
LEMMA JoinMeans ==
  ASSUME NEW T, NEW w, Means(T, w), NEW rows
  PROVE  LET J == resolve_student_key_as_of(rows, w)
             D == w.dim_student
         IN  /\ \A p \in J : /\ p[1] \in rows /\ p[2] \in DOMAIN D /\ p[1].sem \in Periods
                             /\ D[p[2]].student = p[1].student /\ Covers(D[p[2]], p[1].sem)
                             /\ Readers!Known(T, p[1])
                             /\ As(w, p[2]) = Readers!InProgram(T, p[1])
             /\ \A r \in rows : Readers!Known(T, r) => \E k \in DOMAIN D : <<r, k>> \in J
<1> DEFINE D == w.dim_student
           J == resolve_student_key_as_of(rows, w)
<1>1. ASSUME NEW p \in J
      PROVE  /\ p[1] \in rows /\ p[2] \in DOMAIN D /\ p[1].sem \in Periods
             /\ D[p[2]].student = p[1].student /\ Covers(D[p[2]], p[1].sem)
             /\ Readers!Known(T, p[1])
             /\ As(w, p[2]) = Readers!InProgram(T, p[1])
  <2>1. /\ p[1] \in rows /\ p[2] \in DOMAIN D /\ p[1].sem \in Periods
        /\ D[p[2]].student = p[1].student /\ Covers(D[p[2]], p[1].sem)
    BY DEF resolve_student_key_as_of
  <2>2. PICK s \in T.student : /\ s.student = D[p[2]].student /\ s.entry <= p[1].sem
                               /\ As(w, p[2]) = ProgramAt(s, ShiftsOf(s, T), p[1].sem)
    BY <2>1 DEF Means
  <2>3. Readers!Known(T, p[1])
    BY <2>1, <2>2 DEF Readers!Known, Readers!Periods, Periods
  <2>4. s = CHOOSE x \in T.student : x.student = p[1].student
    BY <2>1, <2>2 DEF Means
  <2>5. Readers!InProgram(T, p[1]) = ProgramAt(s, ShiftsOf(s, T), p[1].sem)
    BY <2>4 DEF Readers!InProgram, Readers!ProgramAt, ProgramAt, Readers!ShiftsOf, ShiftsOf,
                Readers!Latest, Latest, Readers!Before, Before
  <2> QED BY <2>1, <2>2, <2>3, <2>5
<1>2. ASSUME NEW r \in rows, Readers!Known(T, r)
      PROVE  \E k \in DOMAIN D : <<r, k>> \in J
  <2>1. PICK s \in T.student : s.student = r.student /\ s.entry <= r.sem /\ r.sem \in Periods
    BY <1>2 DEF Readers!Known, Readers!Periods, Periods
  <2>2. r.sem \in s.entry..LastPeriod
    BY <2>1, PeriodsAssumption DEF Means, Periods
  <2>3. PICK k \in DOMAIN D : D[k].student = s.student /\ Covers(D[k], r.sem)
    BY <2>2 DEF Means
  <2> QED BY <2>1, <2>3 DEF resolve_student_key_as_of
<1> QED BY <1>1, <1>2

\* Rows of the facts with their keys resolved
EnrollmentOf(w, f) ==
  [student |-> w.dim_student[f.student].student, sem |-> f.sem, as |-> As(w, f.student),
   program |-> w.dim_program[f.program], status |-> f.status, level |-> f.level]

OutcomeOf(w, f) ==
  [student |-> w.dim_student[f.student].student, sem |-> f.sem, as |-> As(w, f.student),
   program |-> w.dim_program[f.program]]

ShiftOf(w, f) ==
  [student |-> w.dim_student[f.student].student, sem |-> f.sem, as |-> As(w, f.student),
   from |-> w.dim_program[f.from], to |-> w.dim_program[f.to]]

\* Each fact names the version of its student in its semester
Placed(w, rows) ==
  \A f \in rows : /\ f.student \in DOMAIN w.dim_student /\ f.sem \in Periods
                  /\ Covers(w.dim_student[f.student], f.sem)

\* What each row of a fact is about is what a row of the snapshot says, and no two rows are
\* about the same
EnrollmentsSaid(T, w, F) ==
  /\ {EnrollmentOf(w, f) : f \in F} = Readers!Enrolled(T)
  /\ \A f, g \in F : EnrollmentOf(w, f) = EnrollmentOf(w, g) => f = g
  /\ \A f \in F : f.college = CollegeOf[w.dim_program[f.program]]
  /\ Placed(w, F) /\ IsFiniteSet(F)

OutcomesSaid(T, w, rows, F) ==
  /\ {OutcomeOf(w, f) : f \in F} = Readers!Outcomes(T, rows)
  /\ \A f, g \in F : OutcomeOf(w, f) = OutcomeOf(w, g) => f = g
  /\ \A f \in F : f.college = CollegeOf[w.dim_program[f.program]]
  /\ Placed(w, F) /\ IsFiniteSet(F)

ShiftsSaid(T, w, F) ==
  /\ {ShiftOf(w, f) : f \in F} = Readers!Shifted(T)
  /\ \A f, g \in F : ShiftOf(w, f) = ShiftOf(w, g) => f = g
  /\ Placed(w, F) /\ IsFiniteSet(F)

\* A key that is not NULL is that of the program it was looked up for.
LEMMA KeyMeans ==
  ASSUME NEW P, NEW x, KeyOf(P, x) \in DOMAIN P, 0 \notin DOMAIN P
  PROVE  P[KeyOf(P, x)] = x
BY DEF KeyOf

\* Different facts are about different things: the student, the semester and the program of a
\* row determine its keys.
LEMMA KeysDetermined ==
  ASSUME NEW T, NEW w, Means(T, w), NEW rows, Placed(w, rows), NEW f \in rows, NEW g \in rows,
         w.dim_student[f.student].student = w.dim_student[g.student].student, f.sem = g.sem
  PROVE  f.student = g.student
BY DEF Means, Placed

\* A finite join has finitely many pairs.
LEMMA JoinFinite ==
  ASSUME NEW T, NEW w, Means(T, w), NEW rows, IsFiniteSet(rows)
  PROVE  IsFiniteSet(resolve_student_key_as_of(rows, w))
<1>1. IsFiniteSet(rows \X DOMAIN w.dim_student)
  BY FS_Product DEF Means
<1>2. resolve_student_key_as_of(rows, w) \in SUBSET (rows \X DOMAIN w.dim_student)
  BY DEF resolve_student_key_as_of
<1> QED BY <1>1, <1>2, FS_Subset

\* What is computed of finitely many elements is finite.
LEMMA ImageFinite ==
  ASSUME NEW S, IsFiniteSet(S), NEW m
  PROVE  IsFiniteSet({m[x] : x \in S})
<1> DEFINE f == [x \in S |-> m[x]]
           U == {m[x] : x \in S}
<1>1. f \in Surjection(S, U)
  BY DEF Surjection
<1> HIDE DEF f, U
<1>2. IsFiniteSet(U)
  BY <1>1, FS_Surjection
<1> QED BY <1>2 DEF U

\* fact_enrollment says the enrollments of the known students and semesters.
LEMMA EnrollmentsSay ==
  ASSUME NEW T, NEW w, Means(T, w), IsFiniteSet(T.enrollment),
         w.fact_enrollment = build_fact_enrollment(T, w),
         \A f \in w.fact_enrollment : f.program \in DOMAIN w.dim_program
  PROVE  EnrollmentsSaid(T, w, w.fact_enrollment)
<1> DEFINE F == w.fact_enrollment
           J == resolve_student_key_as_of(T.enrollment, w)
           P == w.dim_program
           Fact(p) == [student |-> p[2], program |-> KeyOf(P, p[1].program),
                       college |-> CollegeOf[p[1].program], sem |-> p[1].sem,
                       status |-> p[1].status, level |-> p[1].level]
           Row(r) == [student |-> r.student, sem |-> r.sem, as |-> Readers!InProgram(T, r),
                      program |-> r.program, status |-> r.status, level |-> r.level]
<1>1. F = {Fact(p) : p \in J}
  BY DEF build_fact_enrollment
<1>2. Readers!Enrolled(T) = {Row(r) : r \in {x \in T.enrollment : Readers!Known(T, x)}}
  BY DEF Readers!Enrolled
<1>3. /\ \A p \in J : /\ p[1] \in T.enrollment /\ p[2] \in DOMAIN w.dim_student /\ p[1].sem \in Periods
                      /\ w.dim_student[p[2]].student = p[1].student
                      /\ Covers(w.dim_student[p[2]], p[1].sem)
                      /\ Readers!Known(T, p[1]) /\ As(w, p[2]) = Readers!InProgram(T, p[1])
      /\ \A r \in T.enrollment : Readers!Known(T, r) =>
           \E k \in DOMAIN w.dim_student : <<r, k>> \in J
  BY JoinMeans
<1>4. ASSUME NEW p \in J
      PROVE  /\ EnrollmentOf(w, Fact(p)) = Row(p[1])
             /\ CollegeOf[p[1].program] = CollegeOf[P[Fact(p).program]]
  <2>1. Fact(p) \in F /\ Fact(p).program = KeyOf(P, p[1].program)
    BY <1>1
  <2>2. P[KeyOf(P, p[1].program)] = p[1].program
    <3>1. KeyOf(P, p[1].program) \in DOMAIN P /\ 0 \notin DOMAIN P
      BY <2>1 DEF Means
    <3> QED BY <3>1, KeyMeans
  <2> QED BY <1>3, <2>2 DEF EnrollmentOf
<1>5. Placed(w, F)
  BY <1>1, <1>3 DEF Placed
<1>6. ASSUME NEW f \in F PROVE f.college = CollegeOf[P[f.program]]
  <2>1. PICK p \in J : f = Fact(p)
    BY <1>1
  <2> QED BY <1>4, <2>1
<1>7. IsFiniteSet(F)
  <2> DEFINE m == [p \in J |-> Fact(p)]
  <2>1. F = {m[p] : p \in J}
    BY <1>1
  <2> HIDE DEF F, m, J
  <2>2. IsFiniteSet(J)
    BY JoinFinite DEF J
  <2> QED BY <2>1, <2>2, ImageFinite
<1>8. {EnrollmentOf(w, f) : f \in F} = Readers!Enrolled(T)
  <2>1. \A f \in F : EnrollmentOf(w, f) \in Readers!Enrolled(T)
    BY <1>1, <1>2, <1>3, <1>4
  <2>2. ASSUME NEW r \in T.enrollment, Readers!Known(T, r)
        PROVE  \E f \in F : Row(r) = EnrollmentOf(w, f)
    <3>1. PICK k \in DOMAIN w.dim_student : <<r, k>> \in J
      BY <1>3, <2>2
    <3>2. Fact(<<r, k>>) \in F /\ EnrollmentOf(w, Fact(<<r, k>>)) = Row(r)
      BY <1>1, <1>4, <3>1
    <3> QED BY <3>2
  <2> QED BY <1>2, <2>1, <2>2
<1>9. ASSUME NEW f \in F, NEW g \in F, EnrollmentOf(w, f) = EnrollmentOf(w, g)
      PROVE  f = g
  <2>1. /\ w.dim_student[f.student].student = w.dim_student[g.student].student
        /\ f.sem = g.sem /\ P[f.program] = P[g.program] /\ f.status = g.status /\ f.level = g.level
    BY <1>9 DEF EnrollmentOf
  <2>2. f.student = g.student
    BY <1>5, <2>1, KeysDetermined
  <2>3. f.program = g.program
    BY <2>1 DEF Means
  <2>4. f.college = g.college
    BY <1>6, <2>1
  <2> QED BY <1>1, <2>1, <2>2, <2>3, <2>4
<1> QED BY <1>5, <1>6, <1>7, <1>8, <1>9 DEF EnrollmentsSaid

\* So do fact_graduation and fact_dropout.
LEMMA OutcomesSay ==
  ASSUME NEW T, NEW w, Means(T, w), NEW rows, IsFiniteSet(rows),
         NEW F, F = build_fact_outcome(rows, w), \A f \in F : f.program \in DOMAIN w.dim_program
  PROVE  OutcomesSaid(T, w, rows, F)
<1> DEFINE J == resolve_student_key_as_of(rows, w)
           P == w.dim_program
           Fact(p) == [student |-> p[2], program |-> KeyOf(P, p[1].program),
                       college |-> CollegeOf[p[1].program], sem |-> p[1].sem]
           Row(r) == [student |-> r.student, sem |-> r.sem, as |-> Readers!InProgram(T, r),
                      program |-> r.program]
<1>1. F = {Fact(p) : p \in J}
  BY DEF build_fact_outcome
<1>2. Readers!Outcomes(T, rows) = {Row(r) : r \in {x \in rows : Readers!Known(T, x)}}
  BY DEF Readers!Outcomes
<1>3. /\ \A p \in J : /\ p[1] \in rows /\ p[2] \in DOMAIN w.dim_student /\ p[1].sem \in Periods
                      /\ w.dim_student[p[2]].student = p[1].student
                      /\ Covers(w.dim_student[p[2]], p[1].sem)
                      /\ Readers!Known(T, p[1]) /\ As(w, p[2]) = Readers!InProgram(T, p[1])
      /\ \A r \in rows : Readers!Known(T, r) =>
           \E k \in DOMAIN w.dim_student : <<r, k>> \in J
  BY JoinMeans
<1>4. ASSUME NEW p \in J
      PROVE  /\ OutcomeOf(w, Fact(p)) = Row(p[1])
             /\ CollegeOf[p[1].program] = CollegeOf[P[Fact(p).program]]
  <2>1. Fact(p) \in F /\ Fact(p).program = KeyOf(P, p[1].program)
    BY <1>1
  <2>2. P[KeyOf(P, p[1].program)] = p[1].program
    <3>1. KeyOf(P, p[1].program) \in DOMAIN P /\ 0 \notin DOMAIN P
      BY <2>1 DEF Means
    <3> QED BY <3>1, KeyMeans
  <2> QED BY <1>3, <2>2 DEF OutcomeOf
<1>5. Placed(w, F)
  BY <1>1, <1>3 DEF Placed
<1>6. ASSUME NEW f \in F PROVE f.college = CollegeOf[P[f.program]]
  <2>1. PICK p \in J : f = Fact(p)
    BY <1>1
  <2> QED BY <1>4, <2>1
<1>7. IsFiniteSet(F)
  <2> DEFINE m == [p \in J |-> Fact(p)]
  <2>1. F = {m[p] : p \in J}
    BY <1>1
  <2> HIDE DEF m, J
  <2>2. IsFiniteSet(J)
    BY JoinFinite DEF J
  <2> QED BY <2>1, <2>2, ImageFinite
<1>8. {OutcomeOf(w, f) : f \in F} = Readers!Outcomes(T, rows)
  <2>1. \A f \in F : OutcomeOf(w, f) \in Readers!Outcomes(T, rows)
    BY <1>1, <1>2, <1>3, <1>4
  <2>2. ASSUME NEW r \in rows, Readers!Known(T, r)
        PROVE  \E f \in F : Row(r) = OutcomeOf(w, f)
    <3>1. PICK k \in DOMAIN w.dim_student : <<r, k>> \in J
      BY <1>3, <2>2
    <3>2. Fact(<<r, k>>) \in F /\ OutcomeOf(w, Fact(<<r, k>>)) = Row(r)
      BY <1>1, <1>4, <3>1
    <3> QED BY <3>2
  <2> QED BY <1>2, <2>1, <2>2
<1>9. ASSUME NEW f \in F, NEW g \in F, OutcomeOf(w, f) = OutcomeOf(w, g)
      PROVE  f = g
  <2>1. /\ w.dim_student[f.student].student = w.dim_student[g.student].student
        /\ f.sem = g.sem /\ P[f.program] = P[g.program]
    BY <1>9 DEF OutcomeOf
  <2>2. f.student = g.student
    BY <1>5, <2>1, KeysDetermined
  <2>3. f.program = g.program
    BY <2>1 DEF Means
  <2>4. f.college = g.college
    BY <1>6, <2>1
  <2> QED BY <1>1, <2>1, <2>2, <2>3, <2>4
<1> QED BY <1>5, <1>6, <1>7, <1>8, <1>9 DEF OutcomesSaid

\* And fact_shifter, under the program the student has shifted to.
LEMMA ShiftsSay ==
  ASSUME NEW T, NEW w, Means(T, w), IsFiniteSet(T.shifter), NEW F,
         F = build_fact_shifter(T, w), \A f \in F : {f.from, f.to} \subseteq DOMAIN w.dim_program
  PROVE  ShiftsSaid(T, w, F)
<1> DEFINE J == resolve_student_key_as_of(T.shifter, w)
           P == w.dim_program
           Fact(p) == [student |-> p[2], from |-> KeyOf(P, p[1].from), to |-> KeyOf(P, p[1].to),
                       sem |-> p[1].sem]
           Row(r) == [student |-> r.student, sem |-> r.sem, as |-> Readers!InProgram(T, r),
                      from |-> r.from, to |-> r.to]
<1>1. F = {Fact(p) : p \in J}
  BY DEF build_fact_shifter
<1>2. Readers!Shifted(T) = {Row(r) : r \in {x \in T.shifter : Readers!Known(T, x)}}
  BY DEF Readers!Shifted
<1>3. /\ \A p \in J : /\ p[1] \in T.shifter /\ p[2] \in DOMAIN w.dim_student /\ p[1].sem \in Periods
                      /\ w.dim_student[p[2]].student = p[1].student
                      /\ Covers(w.dim_student[p[2]], p[1].sem)
                      /\ Readers!Known(T, p[1]) /\ As(w, p[2]) = Readers!InProgram(T, p[1])
      /\ \A r \in T.shifter : Readers!Known(T, r) =>
           \E k \in DOMAIN w.dim_student : <<r, k>> \in J
  BY JoinMeans
<1>4. ASSUME NEW p \in J
      PROVE  ShiftOf(w, Fact(p)) = Row(p[1])
  <2>1. Fact(p) \in F /\ Fact(p).from = KeyOf(P, p[1].from) /\ Fact(p).to = KeyOf(P, p[1].to)
    BY <1>1
  <2>2. P[KeyOf(P, p[1].from)] = p[1].from /\ P[KeyOf(P, p[1].to)] = p[1].to
    <3>1. {KeyOf(P, p[1].from), KeyOf(P, p[1].to)} \subseteq DOMAIN P /\ 0 \notin DOMAIN P
      BY <2>1 DEF Means
    <3> QED BY <3>1, KeyMeans
  <2> QED BY <1>3, <2>2 DEF ShiftOf
<1>5. Placed(w, F)
  BY <1>1, <1>3 DEF Placed
<1>6. IsFiniteSet(F)
  <2> DEFINE m == [p \in J |-> Fact(p)]
  <2>1. F = {m[p] : p \in J}
    BY <1>1
  <2> HIDE DEF m, J
  <2>2. IsFiniteSet(J)
    BY JoinFinite DEF J
  <2> QED BY <2>1, <2>2, ImageFinite
<1>7. {ShiftOf(w, f) : f \in F} = Readers!Shifted(T)
  <2>1. \A f \in F : ShiftOf(w, f) \in Readers!Shifted(T)
    BY <1>1, <1>2, <1>3, <1>4
  <2>2. ASSUME NEW r \in T.shifter, Readers!Known(T, r)
        PROVE  \E f \in F : Row(r) = ShiftOf(w, f)
    <3>1. PICK k \in DOMAIN w.dim_student : <<r, k>> \in J
      BY <1>3, <2>2
    <3>2. Fact(<<r, k>>) \in F /\ ShiftOf(w, Fact(<<r, k>>)) = Row(r)
      BY <1>1, <1>4, <3>1
    <3> QED BY <3>2
  <2> QED BY <1>2, <2>1, <2>2
<1>8. ASSUME NEW f \in F, NEW g \in F, ShiftOf(w, f) = ShiftOf(w, g)
      PROVE  f = g
  <2>1. /\ w.dim_student[f.student].student = w.dim_student[g.student].student
        /\ f.sem = g.sem /\ P[f.from] = P[g.from] /\ P[f.to] = P[g.to]
    BY <1>8 DEF ShiftOf
  <2>2. f.student = g.student
    BY <1>5, <2>1, KeysDetermined
  <2>3. f.from = g.from /\ f.to = g.to
    BY <2>1 DEF Means
  <2> QED BY <1>1, <2>1, <2>2, <2>3
<1> QED BY <1>5, <1>6, <1>7, <1>8 DEF ShiftsSaid

RetentionOf(w, f) ==
  [student |-> w.dim_student[f.student].student, sem |-> f.sem, as |-> As(w, f.student),
   retained |-> f.retained]

\* What fact_retention says of an enrollment
Goes(fe, f) ==
  \E g \in fe : g.student = f.student /\ g.sem = f.sem + 1 /\ g.status \in {"ENROLLED", "GRADUATED"}

\* The enrollments fact_retention is about
Asked(fe) == {f \in fe : f.status # "GRADUATED" /\ f.sem < LastPeriod}

\* The same version of a student goes on into the next semester exactly if the student does,
\* without a shift.
LEMMA GoesMeans ==
  ASSUME NEW T, NEW w, Means(T, w), NEW fe, Placed(w, fe),
         {EnrollmentOf(w, f) : f \in fe} = Readers!Enrolled(T),
         NEW f \in fe, f.sem < LastPeriod
  PROVE  Goes(fe, f) = Readers!Continues(T, EnrollmentOf(w, f))
<1> DEFINE D == w.dim_student
           e == EnrollmentOf(w, f)
<1>1. /\ f.student \in DOMAIN D /\ f.sem \in Periods /\ Covers(D[f.student], f.sem)
      /\ f.sem + 1 \in Periods /\ e.student = D[f.student].student /\ e.sem = f.sem
  BY PeriodsAssumption DEF Placed, Periods, EnrollmentOf
<1>2. \A g \in fe : /\ EnrollmentOf(w, g).student = D[g.student].student
                    /\ EnrollmentOf(w, g).sem = g.sem /\ EnrollmentOf(w, g).status = g.status
  BY DEF EnrollmentOf
<1>3. Covers(D[f.student], f.sem + 1) <=>
        ~\E x \in T.shifter : x.student = e.student /\ x.sem = f.sem + 1
  BY <1>1 DEF Means
<1>4. ASSUME NEW g \in fe, g.student = f.student, g.sem = f.sem + 1,
             g.status \in {"ENROLLED", "GRADUATED"}
      PROVE  Readers!Continues(T, e)
  <2>1. EnrollmentOf(w, g) \in Readers!Enrolled(T)
    OBVIOUS
  <2>2. Covers(D[f.student], f.sem + 1)
    BY <1>4 DEF Placed
  <2> HIDE DEF e
  <2> QED BY <1>1, <1>2, <1>3, <1>4, <2>1, <2>2 DEF Readers!Continues
<1>5. ASSUME Readers!Continues(T, e)
      PROVE  Goes(fe, f)
  <2>1. PICK d \in Readers!Enrolled(T) :
          d.student = e.student /\ d.sem = e.sem + 1 /\ d.status \in {"ENROLLED", "GRADUATED"}
    BY <1>5 DEF Readers!Continues
  <2>2. PICK g \in fe : d = EnrollmentOf(w, g)
    BY <2>1
  <2>3. Covers(D[f.student], f.sem + 1)
    BY <1>1, <1>3, <1>5 DEF Readers!Continues
  <2>4. /\ g.student \in DOMAIN D /\ Covers(D[g.student], f.sem + 1)
        /\ D[g.student].student = D[f.student].student /\ g.sem = f.sem + 1
    BY <1>1, <1>2, <2>1, <2>2 DEF Placed
  <2>5. g.student = f.student
    BY <1>1, <2>3, <2>4 DEF Means
  <2> QED BY <1>2, <2>1, <2>2, <2>4, <2>5 DEF Goes
<1>6. Goes(fe, f) <=> Readers!Continues(T, e)
  BY <1>4, <1>5 DEF Goes
<1>7. Goes(fe, f) \in BOOLEAN /\ Readers!Continues(T, e) \in BOOLEAN
  BY Zenon DEF Goes, Readers!Continues
<1> QED BY <1>6, <1>7

\* fact_retention says which students of the snapshot go on.
LEMMA RetentionsSay ==
  ASSUME NEW T, NEW w, Means(T, w), NEW fe, Placed(w, fe),
         {EnrollmentOf(w, f) : f \in fe} = Readers!Enrolled(T)
  PROVE  {RetentionOf(w, f) : f \in build_fact_retention(fe)} = Readers!Retained(T)
<1> DEFINE Fact(f) == [student |-> f.student, program |-> f.program, college |-> f.college,
                       sem |-> f.sem, retained |-> Goes(fe, f)]
           Row(e) == [student |-> e.student, sem |-> e.sem, as |-> e.as,
                      retained |-> Readers!Continues(T, e)]
           Later(e) == e.status # "GRADUATED" /\ e.sem < LastPeriod
<1>1. build_fact_retention(fe) = {Fact(f) : f \in Asked(fe)}
  BY DEF build_fact_retention, Goes, Asked
<1>2. Readers!Retained(T) = {Row(e) : e \in {d \in Readers!Enrolled(T) : Later(d)}}
  BY DEF Readers!Retained
<1>3. ASSUME NEW f \in Asked(fe)
      PROVE  RetentionOf(w, Fact(f)) = Row(EnrollmentOf(w, f))
  <2>1. Goes(fe, f) = Readers!Continues(T, EnrollmentOf(w, f))
    BY GoesMeans DEF Asked
  <2> QED BY <2>1 DEF RetentionOf, EnrollmentOf
<1>4. \A f \in fe : f \in Asked(fe) <=> Later(EnrollmentOf(w, f))
  BY DEF Asked, EnrollmentOf
<1> HIDE DEF Fact, Row, Later
<1>5. {RetentionOf(w, f) : f \in build_fact_retention(fe)} =
        {RetentionOf(w, Fact(f)) : f \in Asked(fe)}
  BY <1>1
<1>6. Asked(fe) \subseteq fe
  BY DEF Asked
<1> QED BY <1>2, <1>3, <1>4, <1>5, <1>6

\* The rows of dim_student cover the semesters of the students, each under its program.
LEMMA MembersSay ==
  ASSUME NEW T, NEW w, Means(T, w)
  PROVE  {<<w.dim_student[p[1]].student, p[2], As(w, p[1])>> :
            p \in {p \in (DOMAIN w.dim_student) \X Periods : Covers(w.dim_student[p[1]], p[2])}}
           = Readers!StarOf(T).members
<1> DEFINE D == w.dim_student
           Here(s) == {<<s.student, t, ProgramAt(s, ShiftsOf(s, T), t)>> : t \in s.entry..LastPeriod}
<1>1. Readers!StarOf(T).members = UNION {Here(s) : s \in T.student}
  BY DEF Readers!StarOf, Readers!ProgramAt, ProgramAt, Readers!ShiftsOf, ShiftsOf,
         Readers!Latest, Latest, Readers!Before, Before
<1>2. \A s \in T.student : s.entry..LastPeriod \subseteq Periods
  BY PeriodsAssumption DEF Means, Periods
<1>3. ASSUME NEW k \in DOMAIN D, NEW t \in Periods, Covers(D[k], t)
      PROVE  \E s \in T.student : <<D[k].student, t, As(w, k)>> \in Here(s)
  <2>1. PICK s \in T.student : /\ s.student = D[k].student /\ s.entry <= t
                               /\ As(w, k) = ProgramAt(s, ShiftsOf(s, T), t)
    BY <1>3 DEF Means
  <2>2. t \in s.entry..LastPeriod
    BY <2>1, PeriodsAssumption DEF Means, Periods
  <2> QED BY <2>1, <2>2
<1>4. ASSUME NEW s \in T.student, NEW t \in s.entry..LastPeriod
      PROVE  \E k \in DOMAIN D :
               /\ Covers(D[k], t) /\ D[k].student = s.student
               /\ As(w, k) = ProgramAt(s, ShiftsOf(s, T), t)
  <2>1. PICK k \in DOMAIN D : D[k].student = s.student /\ Covers(D[k], t)
    BY DEF Means
  <2> QED BY <1>2, <2>1 DEF Means
<1>5. \A s \in T.student : \A t \in s.entry..LastPeriod :
        \E p \in {p \in (DOMAIN D) \X Periods : Covers(D[p[1]], p[2])} :
          <<s.student, t, ProgramAt(s, ShiftsOf(s, T), t)>> = <<D[p[1]].student, p[2], As(w, p[1])>>
  <2> SUFFICES ASSUME NEW s \in T.student, NEW t \in s.entry..LastPeriod
               PROVE  \E p \in {p \in (DOMAIN D) \X Periods : Covers(D[p[1]], p[2])} :
                        <<s.student, t, ProgramAt(s, ShiftsOf(s, T), t)>> =
                          <<D[p[1]].student, p[2], As(w, p[1])>>
    OBVIOUS
  <2>1. PICK k \in DOMAIN D : /\ Covers(D[k], t) /\ D[k].student = s.student
                              /\ As(w, k) = ProgramAt(s, ShiftsOf(s, T), t)
    BY <1>4
  <2>2. <<k, t>> \in {p \in (DOMAIN D) \X Periods : Covers(D[p[1]], p[2])}
    BY <1>2, <2>1
  <2> QED BY <2>1, <2>2
<1> QED BY <1>1, <1>3, <1>5

\* Elements that are told apart by what is said of them are as many.
LEMMA SameCount ==
  ASSUME NEW S, IsFiniteSet(S), NEW m, \A x, y \in S : m[x] = m[y] => x = y
  PROVE  Cardinality({m[x] : x \in S}) = Cardinality(S)
<1> DEFINE f == [x \in S |-> m[x]]
           U == {m[x] : x \in S}
<1>1. f \in Surjection(S, U) /\ f \in Injection(S, U)
  BY DEF Surjection, Injection, IsInjective
<1> HIDE DEF f, U
<1>2. Cardinality(U) = Cardinality(S)
  BY <1>1, FS_Surjection
<1> QED BY <1>2 DEF U

(***************************************************************************)
(* The counts of the KPIs                                                   *)
(***************************************************************************)

InGroup(rows, g) == {f \in rows : <<f.college, f.sem>> = g}

\* Shifts, for the college of the program the student leaves
Left(w) ==
  {[college |-> CollegeOf[w.dim_program[f.from]], sem |-> f.sem, shift |-> f]
     : f \in {f \in w.fact_shifter : f.from # 0}}

Groups(w) ==
  {<<f.college, f.sem>> : f \in w.fact_enrollment \cup w.fact_graduation \cup w.fact_dropout
                                \cup w.fact_retention \cup Left(w)}

KpiRow(w, g) ==
  [college |-> g[1], sem |-> g[2],
   enrolled |-> Cardinality(InGroup(w.fact_enrollment, g)),
   graduated |-> Cardinality(InGroup(w.fact_graduation, g)),
   dropped |-> Cardinality(InGroup(w.fact_dropout, g)),
   shifted |-> Cardinality(InGroup(Left(w), g)),
   retained |-> Cardinality({f \in InGroup(w.fact_retention, g) : f.retained})]

\* The KPIs, group by group.
LEMMA KpiRows ==
  ASSUME NEW w
  PROVE  build_fact_institution_kpi(w) = {KpiRow(w, g) : g \in Groups(w)}
BY DEF build_fact_institution_kpi, KpiRow, Groups, Left, InGroup

\* As many enrollments are counted for a college and semester as the snapshot has.
LEMMA EnrolledCount ==
  ASSUME NEW T, NEW w, NEW F, EnrollmentsSaid(T, w, F), NEW c, NEW t
  PROVE  Cardinality(InGroup(F, <<c, t>>)) = Cardinality(Readers!Of(Readers!Enrolled(T), c, t))
<1> DEFINE S == InGroup(F, <<c, t>>)
           m == [f \in S |-> EnrollmentOf(w, f)]
<1>1. S \in SUBSET F /\ IsFiniteSet(S)
  BY FS_Subset DEF InGroup, EnrollmentsSaid
<1>2. \A f \in F : f \in S <=> f.college = c /\ f.sem = t
  BY DEF InGroup
<1>3. \A f \in F : EnrollmentOf(w, f).sem = f.sem /\ CollegeOf[EnrollmentOf(w, f).program] = f.college
  BY DEF EnrollmentsSaid, EnrollmentOf
<1>4. Readers!Of(Readers!Enrolled(T), c, t) =
        {e \in Readers!Enrolled(T) : CollegeOf[e.program] = c /\ e.sem = t}
  BY DEF Readers!Of
<1>5. {m[f] : f \in S} = Readers!Of(Readers!Enrolled(T), c, t)
  <2>1. {m[f] : f \in S} = {EnrollmentOf(w, f) : f \in S}
    OBVIOUS
  <2>2. \A f \in F : EnrollmentOf(w, f) \in Readers!Enrolled(T)
    BY DEF EnrollmentsSaid
  <2>3. \A e \in Readers!Enrolled(T) : \E f \in F : e = EnrollmentOf(w, f)
    BY DEF EnrollmentsSaid
  <2> HIDE DEF S, m
  <2>4. \A f \in S : EnrollmentOf(w, f) \in Readers!Of(Readers!Enrolled(T), c, t)
    BY <1>1, <1>2, <1>3, <1>4, <2>2
  <2>5. \A e \in Readers!Of(Readers!Enrolled(T), c, t) : \E f \in S : e = EnrollmentOf(w, f)
    BY <1>2, <1>3, <1>4, <2>3
  <2> QED BY <2>1, <2>4, <2>5
<1>6. \A f, g \in S : m[f] = m[g] => f = g
  BY <1>1 DEF EnrollmentsSaid
<1> HIDE DEF S, m
<1>7. Cardinality({m[f] : f \in S}) = Cardinality(S)
  BY <1>1, <1>6, SameCount
<1> QED BY <1>5, <1>7 DEF S

\* So are graduations and dropouts.
LEMMA OutcomeCount ==
  ASSUME NEW T, NEW w, NEW rows, NEW F, OutcomesSaid(T, w, rows, F), NEW c, NEW t
  PROVE  Cardinality(InGroup(F, <<c, t>>)) = Cardinality(Readers!Of(Readers!Outcomes(T, rows), c, t))
<1> DEFINE S == InGroup(F, <<c, t>>)
           m == [f \in S |-> OutcomeOf(w, f)]
<1>1. S \in SUBSET F /\ IsFiniteSet(S)
  BY FS_Subset DEF InGroup, OutcomesSaid
<1>2. \A f \in F : f \in S <=> f.college = c /\ f.sem = t
  BY DEF InGroup
<1>3. \A f \in F : OutcomeOf(w, f).sem = f.sem /\ CollegeOf[OutcomeOf(w, f).program] = f.college
  BY DEF OutcomesSaid, OutcomeOf
<1>4. Readers!Of(Readers!Outcomes(T, rows), c, t) =
        {e \in Readers!Outcomes(T, rows) : CollegeOf[e.program] = c /\ e.sem = t}
  BY DEF Readers!Of
<1>5. {m[f] : f \in S} = Readers!Of(Readers!Outcomes(T, rows), c, t)
  <2>1. {m[f] : f \in S} = {OutcomeOf(w, f) : f \in S}
    OBVIOUS
  <2>2. \A f \in F : OutcomeOf(w, f) \in Readers!Outcomes(T, rows)
    BY DEF OutcomesSaid
  <2>3. \A e \in Readers!Outcomes(T, rows) : \E f \in F : e = OutcomeOf(w, f)
    BY DEF OutcomesSaid
  <2> HIDE DEF S, m
  <2>4. \A f \in S : OutcomeOf(w, f) \in Readers!Of(Readers!Outcomes(T, rows), c, t)
    BY <1>1, <1>2, <1>3, <1>4, <2>2
  <2>5. \A e \in Readers!Of(Readers!Outcomes(T, rows), c, t) : \E f \in S : e = OutcomeOf(w, f)
    BY <1>2, <1>3, <1>4, <2>3
  <2> QED BY <2>1, <2>4, <2>5
<1>6. \A f, g \in S : m[f] = m[g] => f = g
  BY <1>1 DEF OutcomesSaid
<1> HIDE DEF S, m
<1>7. Cardinality({m[f] : f \in S}) = Cardinality(S)
  BY <1>1, <1>6, SameCount
<1> QED BY <1>5, <1>7 DEF S

\* And shifts, if no program is unknown.
LEMMA ShiftCount ==
  ASSUME NEW T, NEW w, ShiftsSaid(T, w, w.fact_shifter), \A f \in w.fact_shifter : f.from # 0,
         NEW c, NEW t
  PROVE  Cardinality(InGroup(Left(w), <<c, t>>)) =
           Cardinality({r \in Readers!Shifted(T) : CollegeOf[r.from] = c /\ r.sem = t})
<1> DEFINE F == w.fact_shifter
           G == {f \in F : CollegeOf[w.dim_program[f.from]] = c /\ f.sem = t}
           L(f) == [college |-> CollegeOf[w.dim_program[f.from]], sem |-> f.sem, shift |-> f]
           l == [f \in G |-> L(f)]
           m == [f \in G |-> ShiftOf(w, f)]
<1>1. G \in SUBSET F /\ IsFiniteSet(G)
  BY FS_Subset DEF ShiftsSaid
<1>2. {l[f] : f \in G} = InGroup(Left(w), <<c, t>>)
  <2>1. Left(w) = {L(f) : f \in F}
    BY DEF Left
  <2>2. {l[f] : f \in G} = {L(f) : f \in G}
    OBVIOUS
  <2>3. \A f \in F : L(f).college = CollegeOf[w.dim_program[f.from]] /\ L(f).sem = f.sem
    OBVIOUS
  <2>4. \A x \in Left(w) : x \in InGroup(Left(w), <<c, t>>) <=> x.college = c /\ x.sem = t
    BY DEF InGroup
  <2>5. InGroup(Left(w), <<c, t>>) \subseteq Left(w)
    BY DEF InGroup
  <2> HIDE DEF L, l
  <2>6. \A f \in G : L(f) \in InGroup(Left(w), <<c, t>>)
    BY <2>1, <2>3, <2>4
  <2>7. \A x \in InGroup(Left(w), <<c, t>>) : \E f \in G : x = L(f)
    BY <2>1, <2>3, <2>4, <2>5
  <2> QED BY <2>2, <2>6, <2>7
<1>3. \A f, g \in G : l[f] = l[g] => f = g
  <2>1. \A f \in G : l[f].shift = f
    OBVIOUS
  <2> QED BY <2>1
<1>4. \A f \in F : ShiftOf(w, f).sem = f.sem /\ ShiftOf(w, f).from = w.dim_program[f.from]
  BY DEF ShiftOf
<1>5. {m[f] : f \in G} = {r \in Readers!Shifted(T) : CollegeOf[r.from] = c /\ r.sem = t}
  <2>1. {m[f] : f \in G} = {ShiftOf(w, f) : f \in G}
    OBVIOUS
  <2> DEFINE U == {r \in Readers!Shifted(T) : CollegeOf[r.from] = c /\ r.sem = t}
  <2>2. \A f \in F : ShiftOf(w, f) \in Readers!Shifted(T)
    BY DEF ShiftsSaid
  <2>3. \A r \in Readers!Shifted(T) : \E f \in F : r = ShiftOf(w, f)
    BY DEF ShiftsSaid
  <2> HIDE DEF m
  <2>4. \A f \in G : ShiftOf(w, f) \in U
    BY <1>4, <2>2
  <2>5. \A r \in U : \E f \in G : r = ShiftOf(w, f)
    BY <1>4, <2>3
  <2> QED BY <2>1, <2>4, <2>5
<1>6. \A f, g \in G : m[f] = m[g] => f = g
  BY <1>1 DEF ShiftsSaid
<1> HIDE DEF G, l, m
<1>7. Cardinality({m[f] : f \in G}) = Cardinality(G)
  BY <1>1, <1>6, SameCount
<1>8. Cardinality({l[f] : f \in G}) = Cardinality(G)
  BY <1>1, <1>3, SameCount
<1> QED BY <1>2, <1>5, <1>7, <1>8

\* And students that go on, since the grain allows one enrollment of a version per semester.
LEMMA RetainedCount ==
  ASSUME NEW T, NEW w, Means(T, w), NEW F, EnrollmentsSaid(T, w, F),
         \A f, g \in F : f.student = g.student /\ f.sem = g.sem => f = g, NEW c, NEW t
  PROVE  Cardinality({f \in InGroup(build_fact_retention(F), <<c, t>>) : f.retained}) =
           Cardinality({e \in Readers!Of(Readers!Enrolled(T), c, t) :
                          e.status # "GRADUATED" /\ t < LastPeriod /\ Readers!Continues(T, e)})
<1> DEFINE S == {f \in Asked(F) : f.college = c /\ f.sem = t /\ Goes(F, f)}
           R(f) == [student |-> f.student, program |-> f.program, college |-> f.college,
                    sem |-> f.sem, retained |-> Goes(F, f)]
           B == build_fact_retention(F)
           U == {f \in InGroup(B, <<c, t>>) : f.retained}
           E == Readers!Enrolled(T)
           V == {e \in Readers!Of(E, c, t) :
                   e.status # "GRADUATED" /\ t < LastPeriod /\ Readers!Continues(T, e)}
           r == [f \in S |-> R(f)]
           m == [f \in S |-> EnrollmentOf(w, f)]
<1>1. S \in SUBSET F /\ IsFiniteSet(S)
  BY FS_Subset DEF Asked, EnrollmentsSaid
<1>2. B = {R(f) : f \in Asked(F)}
  BY DEF build_fact_retention, Goes, Asked
<1>3. \A f : /\ R(f).student = f.student /\ R(f).college = f.college /\ R(f).sem = f.sem
             /\ R(f).retained = Goes(F, f)
  OBVIOUS
<1>4. {r[f] : f \in S} = U
  <2>1. {r[f] : f \in S} = {R(f) : f \in S}
    OBVIOUS
  <2>2. \A b : b \in U <=> b \in B /\ b.college = c /\ b.sem = t /\ b.retained
    BY DEF InGroup
  <2> HIDE DEF R, r, U, B
  <2>3. \A f \in S : R(f) \in U
    BY <1>2, <1>3, <2>2
  <2>4. \A b \in U : \E f \in S : b = R(f)
    BY <1>2, <1>3, <2>2
  <2> QED BY <2>1, <2>3, <2>4
<1>5. \A f, g \in S : r[f] = r[g] => f = g
  <2>1. \A f \in S : r[f].student = f.student /\ r[f].sem = f.sem
    OBVIOUS
  <2> HIDE DEF r, S
  <2> QED BY <1>1, <2>1
<1>6. {m[f] : f \in S} = V
  <2>1. {m[f] : f \in S} = {EnrollmentOf(w, f) : f \in S}
    OBVIOUS
  <2>2. /\ \A f \in F : EnrollmentOf(w, f) \in E
        /\ \A e \in E : \E f \in F : e = EnrollmentOf(w, f)
    BY DEF EnrollmentsSaid
  <2>3. \A e : e \in Readers!Of(E, c, t) <=> e \in E /\ CollegeOf[e.program] = c /\ e.sem = t
    BY DEF Readers!Of
  <2>4. \A f \in F : /\ EnrollmentOf(w, f).sem = f.sem /\ EnrollmentOf(w, f).status = f.status
                     /\ CollegeOf[EnrollmentOf(w, f).program] = f.college
    BY DEF EnrollmentsSaid, EnrollmentOf
  <2>5. \A f \in F : f.sem < LastPeriod => Goes(F, f) = Readers!Continues(T, EnrollmentOf(w, f))
    BY GoesMeans DEF EnrollmentsSaid
  <2>6. \A f \in F : f \in S <=> /\ f.status # "GRADUATED" /\ f.sem < LastPeriod
                                 /\ f.college = c /\ f.sem = t /\ Goes(F, f)
    BY DEF Asked
  <2>7. \A e : e \in V <=> /\ e \in Readers!Of(E, c, t) /\ e.status # "GRADUATED"
                           /\ t < LastPeriod /\ Readers!Continues(T, e)
    OBVIOUS
  <2> HIDE DEF m, S, V, E
  <2>8. \A f \in S : EnrollmentOf(w, f) \in V
    BY <1>1, <2>2, <2>3, <2>4, <2>5, <2>6, <2>7
  <2>9. \A e \in V : \E f \in S : e = EnrollmentOf(w, f)
    BY <2>2, <2>3, <2>4, <2>5, <2>6, <2>7
  <2> QED BY <2>1, <2>8, <2>9
<1>7. \A f, g \in S : m[f] = m[g] => f = g
  BY <1>1 DEF EnrollmentsSaid
<1> HIDE DEF S, r, m, U, V
<1>8. Cardinality({r[f] : f \in S}) = Cardinality(S)
  BY <1>1, <1>5, SameCount
<1>9. Cardinality({m[f] : f \in S}) = Cardinality(S)
  BY <1>1, <1>7, SameCount
<1> QED BY <1>4, <1>6, <1>8, <1>9 DEF U, V

\* Readers count as the build does.
LEMMA ReadersCount == ASSUME NEW S PROVE Readers!Cardinality(S) = Cardinality(S)
BY Zenon DEF Readers!Cardinality, Cardinality

\* The KPIs are those of the snapshot: the constraint refuses a group without enrollments.
LEMMA KpisSay ==
  ASSUME NEW T, NEW w, Means(T, w), EnrollmentsSaid(T, w, w.fact_enrollment),
         OutcomesSaid(T, w, T.graduation, w.fact_graduation),
         OutcomesSaid(T, w, T.dropout, w.fact_dropout),
         ShiftsSaid(T, w, w.fact_shifter), \A f \in w.fact_shifter : f.from # 0,
         \A f, g \in w.fact_enrollment : f.student = g.student /\ f.sem = g.sem => f = g,
         w.fact_retention = build_fact_retention(w.fact_enrollment),
         w.fact_institution_kpi = build_fact_institution_kpi(w), NotNull(w)
  PROVE  w.fact_institution_kpi = Readers!Kpi(T)
<1> DEFINE E == Readers!Enrolled(T)
           Row(c, t) ==
             [college |-> c, sem |-> t,
              enrolled |-> Cardinality(Readers!Of(E, c, t)),
              graduated |-> Cardinality(Readers!Of(Readers!Outcomes(T, T.graduation), c, t)),
              dropped |-> Cardinality(Readers!Of(Readers!Outcomes(T, T.dropout), c, t)),
              shifted |-> Cardinality({r \in Readers!Shifted(T) : CollegeOf[r.from] = c /\ r.sem = t}),
              retained |-> Cardinality({e \in Readers!Of(E, c, t) :
                             e.status # "GRADUATED" /\ t < LastPeriod /\ Readers!Continues(T, e)})]
           K == w.fact_institution_kpi
           F == w.fact_enrollment
<1>1. K = {KpiRow(w, g) : g \in Groups(w)}
  BY KpiRows
<1>2. Readers!Kpi(T) = {Row(CollegeOf[x.program], x.sem) : x \in E}
  BY ReadersCount DEF Readers!Kpi
<1>3. ASSUME NEW c, NEW t
      PROVE  KpiRow(w, <<c, t>>) = Row(c, t)
  <2>1. Cardinality(InGroup(w.fact_enrollment, <<c, t>>)) = Cardinality(Readers!Of(E, c, t))
    BY EnrolledCount
  <2>2. Cardinality(InGroup(w.fact_graduation, <<c, t>>)) =
          Cardinality(Readers!Of(Readers!Outcomes(T, T.graduation), c, t))
    BY OutcomeCount
  <2>3. Cardinality(InGroup(w.fact_dropout, <<c, t>>)) =
          Cardinality(Readers!Of(Readers!Outcomes(T, T.dropout), c, t))
    BY OutcomeCount
  <2>4. Cardinality(InGroup(Left(w), <<c, t>>)) =
          Cardinality({r \in Readers!Shifted(T) : CollegeOf[r.from] = c /\ r.sem = t})
    BY ShiftCount
  <2>5. Cardinality({f \in InGroup(w.fact_retention, <<c, t>>) : f.retained}) =
          Cardinality({e \in Readers!Of(E, c, t) :
                         e.status # "GRADUATED" /\ t < LastPeriod /\ Readers!Continues(T, e)})
    BY RetainedCount
  <2> QED BY <2>1, <2>2, <2>3, <2>4, <2>5 DEF KpiRow
<1>4. \A f \in F : EnrollmentOf(w, f) \in E
  BY DEF EnrollmentsSaid
<1>5. \A e \in E : \E f \in F : e = EnrollmentOf(w, f)
  BY DEF EnrollmentsSaid
<1>6. \A f \in F : /\ EnrollmentOf(w, f).sem = f.sem
                   /\ CollegeOf[EnrollmentOf(w, f).program] = f.college
  BY DEF EnrollmentsSaid, EnrollmentOf
<1>7. ASSUME NEW g \in Groups(w)
      PROVE  KpiRow(w, g) \in Readers!Kpi(T)
  <2>1. KpiRow(w, g).enrolled > 0
    BY <1>1 DEF NotNull
  <2>2. InGroup(F, g) # {}
    <3>1. Cardinality({}) = 0 /\ KpiRow(w, g).enrolled = Cardinality(InGroup(F, g))
      BY FS_EmptySet DEF KpiRow
    <3>2. Cardinality(InGroup(F, g)) # Cardinality({})
      BY <2>1, <3>1
    <3> QED BY <3>2, Zenon
  <2>3. PICK f \in F : g = <<f.college, f.sem>>
    BY <2>2 DEF InGroup
  <2>4. KpiRow(w, g) = Row(f.college, f.sem)
    BY <1>3, <2>3
  <2> HIDE DEF Row
  <2> QED BY <1>2, <1>4, <1>6, <2>4
<1>8. ASSUME NEW e \in E
      PROVE  Row(CollegeOf[e.program], e.sem) \in K
  <2>1. PICK f \in F : e = EnrollmentOf(w, f)
    BY <1>5
  <2>2. <<f.college, f.sem>> \in Groups(w)
    BY DEF Groups
  <2>3. Row(CollegeOf[e.program], e.sem) = KpiRow(w, <<f.college, f.sem>>)
    BY <1>3, <1>6, <2>1
  <2> QED BY <1>1, <2>2, <2>3
<1> HIDE DEF Row, E, K
<1>9. K \subseteq Readers!Kpi(T) /\ Readers!Kpi(T) \subseteq K
  BY <1>1, <1>2, <1>7, <1>8
<1> QED BY <1>9 DEF K

\* The store of one build that the warehouse accepts shows readers the snapshot.
LEMMA StarSays ==
  ASSUME NEW i \in DOMAIN Snapshots, ~DimensionsRaise(Snapshots[i]), NEW w,
         w = Built(Snapshots[i]), Accepted(w)
  PROVE  Star(w) = Readers!StarOf(Snapshots[i])
<1> DEFINE T == Snapshots[i]
           d == [dim_program |-> build_dim_program(T), dim_student |-> build_dim_student(T)]
<1>1. /\ w.dim_program = d.dim_program /\ w.dim_student = d.dim_student
      /\ w.dim_program = build_dim_program(T) /\ w.dim_student = build_dim_student(T)
      /\ w.fact_enrollment = build_fact_enrollment(T, d)
      /\ w.fact_graduation = build_fact_outcome(T.graduation, d)
      /\ w.fact_dropout = build_fact_outcome(T.dropout, d)
      /\ w.fact_shifter = build_fact_shifter(T, d)
      /\ w.fact_retention = build_fact_retention(w.fact_enrollment)
      /\ w.fact_institution_kpi = build_fact_institution_kpi(w)
  BY BuiltTables
<1>2. /\ IsFiniteSet(T.enrollment) /\ IsFiniteSet(T.graduation) /\ IsFiniteSet(T.dropout)
      /\ IsFiniteSet(T.shifter)
  BY SilverAssumption
<1> HIDE DEF T, d
<1>3. /\ w.fact_enrollment = build_fact_enrollment(T, w)
      /\ w.fact_graduation = build_fact_outcome(T.graduation, w)
      /\ w.fact_dropout = build_fact_outcome(T.dropout, w)
      /\ w.fact_shifter = build_fact_shifter(T, w)
  BY <1>1, FactsReadDimensions
<1>4. /\ \A f \in w.fact_enrollment : f.program \in DOMAIN w.dim_program
      /\ \A f \in w.fact_graduation : f.program \in DOMAIN w.dim_program
      /\ \A f \in w.fact_dropout : f.program \in DOMAIN w.dim_program
      /\ \A f \in w.fact_shifter : {f.from, f.to} \subseteq DOMAIN w.dim_program
  BY DEF Accepted, ForeignKeys, FactTables
<1>5. OneCurrent(w.dim_student)
  BY DEF Accepted, Grain, OneCurrent
<1>6. \A f, g \in w.fact_enrollment : f.student = g.student /\ f.sem = g.sem => f = g
  BY DEF Accepted, Grain, Unique
<1>7. Means(T, w)
  BY <1>1, <1>5, DimensionMeans DEF T
<1>8. EnrollmentsSaid(T, w, w.fact_enrollment)
  BY <1>2, <1>3, <1>4, <1>7, EnrollmentsSay
<1>9. OutcomesSaid(T, w, T.graduation, w.fact_graduation)
  BY <1>2, <1>3, <1>4, <1>7, OutcomesSay
<1>10. OutcomesSaid(T, w, T.dropout, w.fact_dropout)
  BY <1>2, <1>3, <1>4, <1>7, OutcomesSay
<1>11. ShiftsSaid(T, w, w.fact_shifter)
  BY <1>2, <1>3, <1>4, <1>7, ShiftsSay
<1>12. {RetentionOf(w, f) : f \in w.fact_retention} = Readers!Retained(T)
  BY <1>1, <1>7, <1>8, RetentionsSay DEF EnrollmentsSaid
<1>13. w.fact_institution_kpi = Readers!Kpi(T)
  <2>1. \A f \in w.fact_shifter : f.from # 0
    BY <1>4, <1>7 DEF Means
  <2> QED BY <1>1, <1>6, <1>7, <1>8, <1>9, <1>10, <1>11, <2>1, KpisSay DEF Accepted
<1>14. Star(w) =
         [members |-> {<<w.dim_student[p[1]].student, p[2], As(w, p[1])>> :
                         p \in {p \in (DOMAIN w.dim_student) \X Periods :
                                  Covers(w.dim_student[p[1]], p[2])}},
          enrollment |-> {EnrollmentOf(w, f) : f \in w.fact_enrollment},
          graduation |-> {OutcomeOf(w, f) : f \in w.fact_graduation},
          dropout |-> {OutcomeOf(w, f) : f \in w.fact_dropout},
          shifter |-> {ShiftOf(w, f) : f \in w.fact_shifter},
          retention |-> {RetentionOf(w, f) : f \in w.fact_retention},
          kpi |-> w.fact_institution_kpi]
  BY DEF Star, As, EnrollmentOf, OutcomeOf, ShiftOf, RetentionOf
<1>15. Readers!StarOf(T) =
         [members |-> Readers!StarOf(T).members, enrollment |-> Readers!Enrolled(T),
          graduation |-> Readers!Outcomes(T, T.graduation),
          dropout |-> Readers!Outcomes(T, T.dropout),
          shifter |-> Readers!Shifted(T), retention |-> Readers!Retained(T),
          kpi |-> Readers!Kpi(T)]
  BY DEF Readers!StarOf
<1>16. {<<w.dim_student[p[1]].student, p[2], As(w, p[1])>> :
           p \in {p \in (DOMAIN w.dim_student) \X Periods : Covers(w.dim_student[p[1]], p[2])}}
         = Readers!StarOf(T).members
  BY <1>7, MembersSay
<1>17. Star(w) = Readers!StarOf(T)
  BY <1>8, <1>9, <1>10, <1>11, <1>12, <1>13, <1>14, <1>15, <1>16
     DEF EnrollmentsSaid, OutcomesSaid, ShiftsSaid
<1> QED BY <1>17 DEF T

\* Only a snapshot that does not raise gets as far as the facts, and to a whole store
RaiseInv ==
  /\ \A r \in Pipelines : InStage(r) => ~DimensionsRaise(Present)
  /\ basis \in DOMAIN Snapshots => ~DimensionsRaise(Snapshots[basis])

\* A step that begins no stage and completes no store leaves nothing to show.
LEMMA RaiseFrame ==
  ASSUME RaiseInv, UNCHANGED silver, \A q \in Pipelines : InStage(q)' => InStage(q),
         basis' = basis \/ basis' \in {Building, Lost}
  PROVE  RaiseInv'
<1>1. 0 \notin DOMAIN Snapshots /\ -1 \notin DOMAIN Snapshots
  BY SilverAssumption
<1> QED BY <1>1 DEF RaiseInv, Present, Building, Lost

\* A stage goes on from the dimensions only if they were built.
LEMMA RaiseStep == IInv /\ RaiseInv /\ [Next]_vars => RaiseInv'
<1> SUFFICES ASSUME IInv, RaiseInv, [Next]_vars PROVE RaiseInv'
  OBVIOUS
<1>0. pc \in [Pipelines -> Steps] /\ queue \in [Pipelines -> Seq(Entries(Present))]
  BY DEF IInv, TypeInv
<1>1. CASE Refresh
  <2>1. \A q \in Pipelines : ~InStage(q)'
    BY <1>1 DEF Refresh, LockFree, InStage
  <2> QED BY <1>1, <2>1 DEF Refresh, RaiseInv
<1>2. ASSUME NEW r \in Pipelines, BuildDimensions(r)
      PROVE  RaiseInv'
  <2>1. CASE DimensionsRaise(Present)
    <3>1. \A q \in Pipelines : InStage(q)' => InStage(q)
      BY <1>0, <1>2, <2>1 DEF BuildDimensions, Present, Go, InStage
    <3> QED BY <1>2, <3>1, RaiseFrame DEF BuildDimensions
  <2>2. CASE ~DimensionsRaise(Present)
    BY <1>2, <2>2 DEF BuildDimensions, RaiseInv, Present
  <2> QED BY <2>1, <2>2
<1>3. ASSUME NEW r \in Pipelines, Write(r)
      PROVE  RaiseInv'
  <2>1. \A q \in Pipelines : InStage(q)' => InStage(q)
    BY <1>0, <1>3 DEF Write, InStage
  <2>2. InStage(r) /\ UNCHANGED silver /\ (basis' = silver \/ basis' = Building)
    BY <1>3 DEF Write, InStage
  <2>3. 0 \notin DOMAIN Snapshots
    BY SilverAssumption
  <2> QED BY <2>1, <2>2, <2>3 DEF RaiseInv, Present, Building
<1>4. ASSUME NEW r \in Pipelines,
             \/ Start(r) \/ Reload(r) \/ BuildFacts(r) \/ BuildKpi(r)
             \/ Load(r) \/ LoadRefused(r) \/ Crash(r)
      PROVE  RaiseInv'
  <2>1. UNCHANGED silver /\ (basis' = basis \/ basis' \in {Building, Lost})
    BY <1>4 DEF Start, Reload, BuildFacts, BuildKpi, Load, LoadRefused, Crash
  <2>2. \A q \in Pipelines : q # r => pc'[q] = pc[q] /\ queue'[q] = queue[q]
    BY <1>0, <1>4 DEF Start, Reload, BuildFacts, BuildKpi, Load, LoadRefused, Crash, Go
  <2>3. InStage(r)' => InStage(r)
    BY <1>0, <1>4 DEF Start, Reload, BuildFacts, BuildKpi, Load, LoadRefused, Crash, Go, InStage
  <2>4. \A q \in Pipelines : InStage(q)' => InStage(q)
    BY <2>2, <2>3 DEF InStage
  <2> QED BY <2>1, <2>4, RaiseFrame
<1>5. CASE UNCHANGED <<silver, pc, queue, basis>>
  BY <1>5 DEF RaiseInv, InStage, Present
<1>6. CASE \E k \in DOMAIN warehouse.dim_program : record_candidate(k)
  BY <1>5, <1>6 DEF record_candidate
<1>7. CASE UNCHANGED vars
  BY <1>5, <1>7 DEF vars
<1> QED BY <1>1, <1>2, <1>3, <1>4, <1>6, <1>7 DEF Next, Step

\* Unless a build was lost in the middle, each load shows readers the star of one snapshot
\* as a whole, and no other step shows them anything: whatever the students, the shifts and
\* the order of the programs are, no record of a known semester is lost, doubled, attributed
\* to a program of another time or counted under another one.
THEOREM WholeStarCorrect == Spec => LoadsWholeStar
<1>1. Init => RaiseInv
  BY SilverAssumption DEF Init, RaiseInv, InStage, Lost
<1>2. ASSUME IInv, RaiseInv, Next, basis # Lost
      PROVE  UNCHANGED warehouse \/ (basis \in DOMAIN Snapshots /\ Readers!Publish(basis))
  <2>1. CASE \E r \in Pipelines : Load(r)
    <3>1. LockFree /\ Accepted(gold) /\ warehouse' = gold
      BY <2>1 DEF Load, MayLoad
    <3>2. basis # Building
      BY <1>2, <3>1 DEF IInv, BasisInv, LockFree
    <3>3. basis \in DOMAIN Snapshots
      BY <1>2, <3>2 DEF IInv, TypeInv
    <3>4. gold = Built(Snapshots[basis]) /\ ~DimensionsRaise(Snapshots[basis])
      BY <1>2, <3>3 DEF IInv, BasisInv, RaiseInv
    <3>5. Star(gold) = Readers!StarOf(Snapshots[basis])
      BY <3>1, <3>3, <3>4, StarSays
    <3> QED BY <3>1, <3>3, <3>5 DEF Readers!Publish
  <2>2. CASE \A r \in Pipelines : ~Load(r)
    BY <1>2, <2>2 DEF Next, Step, Refresh, Start, Reload, BuildDimensions, Write, BuildFacts,
                      BuildKpi, LoadRefused, Crash, record_candidate
  <2> QED BY <2>1, <2>2
<1>3. IInv /\ RaiseInv /\ [Next]_vars =>
        [basis # Lost => \/ UNCHANGED warehouse
                         \/ basis \in DOMAIN Snapshots /\ Readers!Publish(basis)]_vars
  BY <1>2 DEF vars
<1> QED BY <1>1, <1>3, RaiseStep, GoldInvariant, PTL DEF Spec, LoadsWholeStar

(***************************************************************************)
(* What the warehouse accepts                                               *)
(***************************************************************************)

\* Every version of a build is of a program in the dimension.
LEMMA DimensionPrograms ==
  ASSUME NEW i \in DOMAIN Snapshots, ~DimensionsRaise(Snapshots[i]), NEW D,
         D = build_dim_student(Snapshots[i])
  PROVE  \A k \in DOMAIN D : D[k].program \in DOMAIN build_dim_program(Snapshots[i])
<1> DEFINE T == Snapshots[i]
           P == build_dim_program(T)
           rows == Keyed(Versions(T), VersionBefore)
<1>1. \A k \in DOMAIN rows : rows[k] \in Versions(T)
  <2> HIDE DEF rows
  <2> QED BY VersionKeys DEF rows
<1>2. DOMAIN D = DOMAIN rows /\ \A k \in DOMAIN D : D[k].program = KeyOf(P, rows[k].program)
  BY DEF build_dim_student
<1>3. \A v \in Versions(T) : v.program \in T.program
  BY DEF DimensionsRaise
<1>4. \A p \in T.program : \E k \in DOMAIN P : P[k] = p
  BY ProgramKeys
<1> HIDE DEF T, P, rows
<1>5. \A p \in T.program : KeyOf(P, p) \in DOMAIN P
  BY <1>4 DEF KeyOf
<1>6. \A k \in DOMAIN D : D[k].program \in DOMAIN P
  BY <1>1, <1>2, <1>3, <1>5
<1> QED BY <1>6 DEF P, T

\* One master per student leaves one current version per student.
LEMMA MastersOneCurrent ==
  ASSUME NEW i \in DOMAIN Snapshots, ~DimensionsRaise(Snapshots[i]), NEW D,
         D = build_dim_student(Snapshots[i]),
         \A s, t \in Snapshots[i].student : s.student = t.student => s = t
  PROVE  OneCurrent(D)
<1> DEFINE T == Snapshots[i]
           rows == Keyed(Versions(T), VersionBefore)
           X(s) == ShiftsOf(s, T)
<1>1. /\ \A k \in DOMAIN rows : rows[k] \in Versions(T)
      /\ \A j, k \in DOMAIN rows : rows[j] = rows[k] => j = k
  <2> HIDE DEF rows
  <2> QED BY VersionKeys DEF rows
<1>2. /\ DOMAIN D = DOMAIN rows
      /\ \A k \in DOMAIN D : D[k].student = rows[k].student /\ D[k].current = rows[k].current
  BY DEF build_dim_student
<1>3. \A v \in Versions(T) : \E s \in T.student : v \in VersionsOf(s, X(s))
  BY DEF Versions
<1>4. \A s : \A v \in VersionsOf(s, X(s)) : v.student = s.student /\ (v.current => v = Current(s, X(s)))
  <2> SUFFICES ASSUME NEW s, NEW v \in VersionsOf(s, X(s))
               PROVE  v.student = s.student /\ (v.current => v = Current(s, X(s)))
    OBVIOUS
  <2>1. CASE v = Version(s, X(s), NoPeriod, TRUE)
    BY <2>1 DEF Current, Version
  <2>2. CASE v # Version(s, X(s), NoPeriod, TRUE)
    <3>1. PICK H, e : v = Version(s, H, e, FALSE)
      BY <2>2 DEF VersionsOf
    <3>2. v.current = FALSE /\ v.student = s.student
      BY <3>1 DEF Version
    <3> QED BY <3>2
  <2> QED BY <2>1, <2>2
<1>5. \A s, t \in T.student : s.student = t.student => s = t
  OBVIOUS
<1> HIDE DEF T, rows, X
<1> SUFFICES ASSUME NEW j \in DOMAIN D, NEW k \in DOMAIN D,
                    D[j].student = D[k].student, D[j].current, D[k].current
             PROVE  j = k
  BY DEF OneCurrent
<1>6. PICK s \in T.student : rows[j] \in VersionsOf(s, X(s))
  BY <1>1, <1>2, <1>3
<1>7. PICK t \in T.student : rows[k] \in VersionsOf(t, X(t))
  BY <1>1, <1>2, <1>3
<1>8. s = t
  BY <1>2, <1>4, <1>5, <1>6, <1>7
<1>9. rows[j].current /\ rows[k].current
  BY <1>2, Zenon
<1>10. rows[j] = Current(s, X(s)) /\ rows[k] = Current(t, X(t))
  BY <1>4, <1>6, <1>7, <1>9, Zenon
<1> QED BY <1>1, <1>2, <1>8, <1>10

\* A version ends in a semester, or has no end.
LEMMA EndsTyped ==
  ASSUME NEW i \in DOMAIN Snapshots, ~DimensionsRaise(Snapshots[i]), NEW D,
         D = build_dim_student(Snapshots[i])
  PROVE  \A k \in DOMAIN D : D[k].to \in Int
<1> DEFINE T == Snapshots[i]
           rows == Keyed(Versions(T), VersionBefore)
<1>1. \A k \in DOMAIN rows : rows[k] \in Versions(T)
  <2> HIDE DEF rows
  <2> QED BY VersionKeys DEF rows
<1>2. DOMAIN D = DOMAIN rows /\ \A k \in DOMAIN D : D[k].to = rows[k].to
  BY DEF build_dim_student
<1>3. \A y : EndBefore(y) \in Int
  BY PeriodsAssumption DEF EndBefore, NoPeriod, Periods
<1>4. ASSUME NEW s, NEW X, NEW v \in VersionsOf(s, X)
      PROVE  v.to \in Int
  <2>1. \A H, e, c : Version(s, H, e, c).to = e
    BY DEF Version
  <2>2. \/ \E y \in Opening(s, X) : v = Version(s, {x \in X : Before(x, y)}, EndBefore(y), FALSE)
        \/ v = Version(s, X, NoPeriod, TRUE)
    BY DEF VersionsOf
  <2>3. NoPeriod \in Int
    BY DEF NoPeriod
  <2>4. CASE v = Version(s, X, NoPeriod, TRUE)
    BY <2>1, <2>3, <2>4
  <2>5. CASE \E y \in Opening(s, X) : v = Version(s, {x \in X : Before(x, y)}, EndBefore(y), FALSE)
    <3>1. PICK y : v = Version(s, {x \in X : Before(x, y)}, EndBefore(y), FALSE)
      BY <2>5
    <3>2. v.to = EndBefore(y)
      BY <2>1, <3>1
    <3> QED BY <1>3, <3>2
  <2> QED BY <2>2, <2>4, <2>5
<1>5. \A v \in Versions(T) : \E s \in T.student : v \in VersionsOf(s, ShiftsOf(s, T))
  BY DEF Versions
<1> HIDE DEF T, rows
<1> QED BY <1>1, <1>2, <1>4, <1>5

\* A student stays in a version exactly until the next shift.
LEMMA StaysInVersion ==
  ASSUME NEW T, NEW w, Means(T, w), \A x \in T.shifter : x.sem \in Int,
         NEW k \in DOMAIN w.dim_student, NEW a \in Periods, NEW b \in Periods, a <= b,
         w.dim_student[k].to \in Int, Covers(w.dim_student[k], a)
  PROVE  Covers(w.dim_student[k], b) <=>
           ~\E x \in T.shifter : x.student = w.dim_student[k].student /\ a < x.sem /\ x.sem <= b
<1> DEFINE v == w.dim_student[k]
           U == {u \in a..b : ~Covers(v, u)}
           R == {p \in U \X U : p[1] < p[2]}
<1>1. /\ a \in Int /\ b \in Int /\ LastPeriod \in Int
      /\ \A u \in a..b : u \in Periods /\ u \in Int
  BY PeriodsAssumption DEF Periods
<1>2. \A t \in Periods : Covers(v, t) /\ t + 1 \in Periods =>
        (Covers(v, t + 1) <=> ~\E x \in T.shifter : x.student = v.student /\ x.sem = t + 1)
  BY DEF Means
<1>3. ASSUME Covers(v, b), NEW x \in T.shifter, x.student = v.student, a < x.sem, x.sem <= b
      PROVE  FALSE
  <2>1. PICK t \in Int : t + 1 = x.sem
    <3>1. x.sem \in Int /\ (x.sem - 1) + 1 = x.sem /\ x.sem - 1 \in Int
      OBVIOUS
    <3> QED BY <3>1
  <2>2. t \in a..b /\ t + 1 \in a..b
    BY <1>1, <1>3, <2>1
  <2>3. v.from \in Int
    <3>1. PICK s \in T.student : v.from \in s.entry..LastPeriod
      BY DEF Means
    <3> QED BY <3>1
  <2>4. Covers(v, t) /\ Covers(v, t + 1)
    <3>1. v.from <= a /\ (v.to = NoPeriod \/ b <= v.to) /\ v.to \in Int
      BY <1>3 DEF Covers
    <3> QED BY <1>1, <1>3, <2>1, <2>2, <2>3, <3>1 DEF Covers
  <2> QED BY <1>1, <1>2, <1>3, <2>1, <2>2, <2>4
<1>4. ASSUME ~Covers(v, b)
      PROVE  \E x \in T.shifter : x.student = v.student /\ a < x.sem /\ x.sem <= b
  <2>1. b \in U /\ U \subseteq a..b /\ IsFiniteSet(a..b)
    BY <1>1, <1>4, FS_Interval
  <2>2. IsFiniteSet(U) /\ U # {}
    BY <2>1, FS_Subset
  <2>3. \A p, q \in U : <<p, q>> \in R <=> p < q
    OBVIOUS
  <2>4. \A u \in U : u \in Int
    BY <1>1, <2>1
  <2> HIDE DEF R
  <2>5. StrictOrder(R, U)
    BY <2>3, <2>4 DEF StrictOrder
  <2>6. PICK u \in U : \A y \in U : y = u \/ <<u, y>> \in R
    BY <2>2, <2>5, FirstExists
  <2>7. u \in a..b /\ ~Covers(v, u)
    OBVIOUS
  <2>8. u # a
    BY <2>7
  <2>9. u - 1 \in a..b /\ (u - 1) + 1 = u
    BY <1>1, <2>7, <2>8
  <2>10. Covers(v, u - 1)
    <3>1. u - 1 \notin U
      <4> SUFFICES ASSUME u - 1 \in U PROVE FALSE
        OBVIOUS
      <4>1. u - 1 = u \/ u < u - 1
        BY <2>3, <2>6
      <4> QED BY <1>1, <2>7, <4>1
    <3> QED BY <2>9, <3>1
  <2>11. PICK x \in T.shifter : x.student = v.student /\ x.sem = u
    BY <1>1, <1>2, <2>7, <2>9, <2>10
  <2> QED BY <1>1, <2>7, <2>8, <2>11
<1> QED BY <1>3, <1>4

\* The graduations, or dropouts, of a build have one row per version exactly if those of the
\* snapshot are told apart by shifts.
LEMMA OutcomesApart ==
  ASSUME NEW T, NEW w, Means(T, w), \A x \in T.shifter : x.sem \in Int,
         \A k \in DOMAIN w.dim_student : w.dim_student[k].to \in Int,
         NEW rows, NEW F, OutcomesSaid(T, w, rows, F)
  PROVE  (\A f, g \in F : f.student = g.student => f = g) <=>
           \A a, b \in Readers!Outcomes(T, rows) :
             a.student = b.student => a = b \/ ToldApart(T, a, b) \/ ToldApart(T, b, a)
<1> DEFINE D == w.dim_student
           O == Readers!Outcomes(T, rows)
<1>1. /\ \A f \in F : OutcomeOf(w, f) \in O
      /\ \A a \in O : \E f \in F : a = OutcomeOf(w, f)
      /\ \A f, g \in F : OutcomeOf(w, f) = OutcomeOf(w, g) => f = g
  BY DEF OutcomesSaid
<1>2. \A f \in F : /\ OutcomeOf(w, f).student = D[f.student].student
                   /\ OutcomeOf(w, f).sem = f.sem
  BY DEF OutcomeOf
<1>3. \A f \in F : f.student \in DOMAIN D /\ f.sem \in Periods /\ Covers(D[f.student], f.sem)
  BY DEF OutcomesSaid, Placed
<1>4. ASSUME NEW f \in F, NEW g \in F, D[f.student].student = D[g.student].student, f.sem <= g.sem
      PROVE  f.student = g.student <=> ~ToldApart(T, OutcomeOf(w, f), OutcomeOf(w, g))
  <2>1. Covers(D[f.student], g.sem) <=>
          ~\E x \in T.shifter : x.student = D[f.student].student /\ f.sem < x.sem /\ x.sem <= g.sem
    BY <1>3, <1>4, StaysInVersion
  <2>2. f.student = g.student <=> Covers(D[f.student], g.sem)
    BY <1>3, <1>4 DEF Means
  <2>3. ToldApart(T, OutcomeOf(w, f), OutcomeOf(w, g)) <=>
          \E x \in T.shifter : x.student = D[f.student].student /\ f.sem < x.sem /\ x.sem <= g.sem
    BY <1>2 DEF ToldApart
  <2> QED BY <2>1, <2>2, <2>3
<1>5. ASSUME NEW f \in F, NEW g \in F, g.sem <= f.sem, ToldApart(T, OutcomeOf(w, f), OutcomeOf(w, g))
      PROVE  FALSE
  <2>1. PICK x \in T.shifter : f.sem < x.sem /\ x.sem <= g.sem
    BY <1>2, <1>5 DEF ToldApart
  <2> QED BY <1>3, <1>5, <2>1 DEF Periods
<1>6. \A f, g \in F : f.sem <= g.sem \/ g.sem <= f.sem
  BY <1>3 DEF Periods
<1> DEFINE Apart(a, b) == ToldApart(T, a, b) \/ ToldApart(T, b, a)
<1>7. ASSUME NEW f \in F, NEW g \in F, D[f.student].student = D[g.student].student
      PROVE  f.student = g.student <=> ~Apart(OutcomeOf(w, f), OutcomeOf(w, g))
  <2>1. CASE f.sem <= g.sem
    <3>1. ~ToldApart(T, OutcomeOf(w, g), OutcomeOf(w, f))
      BY <1>5, <2>1
    <3> QED BY <1>4, <1>7, <2>1, <3>1
  <2>2. CASE g.sem <= f.sem
    <3>1. ~ToldApart(T, OutcomeOf(w, f), OutcomeOf(w, g))
      BY <1>5, <2>2
    <3> QED BY <1>4, <1>7, <2>2, <3>1
  <2> QED BY <1>6, <2>1, <2>2
<1> HIDE DEF D, O, Apart
<1>8. ASSUME \A f, g \in F : f.student = g.student => f = g,
             NEW a \in O, NEW b \in O, a.student = b.student, a # b
      PROVE  Apart(a, b)
  <2>1. PICK f \in F : a = OutcomeOf(w, f)
    BY <1>1
  <2>2. PICK g \in F : b = OutcomeOf(w, g)
    BY <1>1
  <2>3. f.student # g.student
    BY <1>8, <2>1, <2>2
  <2>4. D[f.student].student = D[g.student].student
    BY <1>2, <1>8, <2>1, <2>2
  <2> QED BY <1>7, <2>1, <2>2, <2>3, <2>4
<1>9. ASSUME \A a, b \in O : a.student = b.student => a = b \/ Apart(a, b),
             NEW f \in F, NEW g \in F, f.student = g.student
      PROVE  f = g
  <2>1. ~Apart(OutcomeOf(w, f), OutcomeOf(w, g))
    BY <1>7, <1>9
  <2>2. OutcomeOf(w, f).student = OutcomeOf(w, g).student
    BY <1>2, <1>9
  <2>3. OutcomeOf(w, f) = OutcomeOf(w, g)
    BY <1>1, <1>9, <2>1, <2>2
  <2> QED BY <1>1, <2>3
<1>10. (\A f, g \in F : f.student = g.student => f = g) <=>
         \A a, b \in O : a.student = b.student => a = b \/ Apart(a, b)
  BY <1>8, <1>9
<1> QED BY <1>10 DEF O, Apart

\* A group of the KPIs has enrollments exactly if the snapshot has some for it.
LEMMA GroupPopulated ==
  ASSUME NEW T, NEW w, EnrollmentsSaid(T, w, w.fact_enrollment), NEW p, NEW t
  PROVE  KpiRow(w, <<CollegeOf[p], t>>).enrolled > 0 <=> Populated(T, p, t)
<1> DEFINE F == w.fact_enrollment
           g == <<CollegeOf[p], t>>
           S == InGroup(F, g)
<1>1. IsFiniteSet(S)
  BY FS_Subset DEF InGroup, EnrollmentsSaid
<1>2. KpiRow(w, g).enrolled = Cardinality(S)
  BY DEF KpiRow
<1>3. Cardinality(S) > 0 <=> S # {}
  <2> HIDE DEF S
  <2>1. Cardinality(S) \in Nat /\ (Cardinality(S) = 0 <=> S = {})
    BY <1>1, FS_CardinalityType, FS_EmptySet
  <2> QED BY <2>1
<1>4. /\ \A f \in F : EnrollmentOf(w, f) \in Readers!Enrolled(T)
      /\ \A e \in Readers!Enrolled(T) : \E f \in F : e = EnrollmentOf(w, f)
  BY DEF EnrollmentsSaid
<1>5. \A f \in F : /\ EnrollmentOf(w, f).sem = f.sem
                   /\ CollegeOf[EnrollmentOf(w, f).program] = f.college
  BY DEF EnrollmentsSaid, EnrollmentOf
<1>6. ASSUME S # {} PROVE Populated(T, p, t)
  <2>1. PICK f \in F : f.college = CollegeOf[p] /\ f.sem = t
    BY <1>6 DEF InGroup
  <2> HIDE DEF F
  <2> QED BY <1>4, <1>5, <2>1 DEF Populated
<1>7. ASSUME Populated(T, p, t) PROVE S # {}
  <2>1. PICK e \in Readers!Enrolled(T) : CollegeOf[e.program] = CollegeOf[p] /\ e.sem = t
    BY <1>7 DEF Populated
  <2>2. PICK f \in F : e = EnrollmentOf(w, f)
    BY <1>4
  <2>3. f \in S
    BY <1>5, <2>1, <2>2 DEF InGroup
  <2> QED BY <2>3
<1> HIDE DEF S
<1> QED BY <1>2, <1>3, <1>6, <1>7


\* The key of a program is in its dimension exactly if the program is in the snapshot.
LEMMA KeyKnown ==
  ASSUME NEW i \in DOMAIN Snapshots, NEW P, P = build_dim_program(Snapshots[i]), NEW x
  PROVE  KeyOf(P, x) \in DOMAIN P <=> x \in Snapshots[i].program
<1>1. /\ \A k \in DOMAIN P : P[k] \in Snapshots[i].program
      /\ \A p \in Snapshots[i].program : \E k \in DOMAIN P : P[k] = p
      /\ 0 \notin DOMAIN P
  BY ProgramKeys
<1>2. CASE \E k \in DOMAIN P : P[k] = x
  <2>1. KeyOf(P, x) \in DOMAIN P
    BY <1>2 DEF KeyOf
  <2> QED BY <1>1, <1>2, <2>1
<1>3. CASE ~\E k \in DOMAIN P : P[k] = x
  <2>1. KeyOf(P, x) = 0
    BY <1>3 DEF KeyOf
  <2> QED BY <1>1, <1>3, <2>1
<1> QED BY <1>2, <1>3

\* Exactly the rows of known students and semesters are joined.
LEMMA JoinedRows ==
  ASSUME NEW T, NEW w, Means(T, w), NEW rows, NEW S
  PROVE  (\A p \in resolve_student_key_as_of(rows, w) : p[1] \in S) <=>
           \A r \in rows : Readers!Known(T, r) => r \in S
<1> DEFINE J == resolve_student_key_as_of(rows, w)
<1>1. /\ \A p \in J : p[1] \in rows /\ Readers!Known(T, p[1])
      /\ \A r \in rows : Readers!Known(T, r) => \E k \in DOMAIN w.dim_student : <<r, k>> \in J
  BY JoinMeans
<1> HIDE DEF J
<1>2. \A r, k : <<r, k>>[1] = r
  OBVIOUS
<1>3. ASSUME \A p \in J : p[1] \in S, NEW r \in rows, Readers!Known(T, r)
      PROVE  r \in S
  <2>1. PICK k : <<r, k>> \in J
    BY <1>1, <1>3
  <2> QED BY <1>2, <1>3, <2>1
<1>4. ASSUME \A r \in rows : Readers!Known(T, r) => r \in S, NEW p \in J
      PROVE  p[1] \in S
  BY <1>1, <1>4
<1>5. (\A p \in J : p[1] \in S) <=> \A r \in rows : Readers!Known(T, r) => r \in S
  BY <1>3, <1>4
<1> QED BY <1>5 DEF J

\* Known rows are of known programs
Attributed(T, rows) == \A r \in rows : Readers!Known(T, r) => r.program \in T.program
ShiftsAttributed(T) == \A x \in T.shifter : Readers!Known(T, x) => {x.from, x.to} \subseteq T.program

\* The tables of a build from T and the dimensions of w
Facted(T, w) ==
  /\ w.fact_enrollment = build_fact_enrollment(T, w)
  /\ w.fact_graduation = build_fact_outcome(T.graduation, w)
  /\ w.fact_dropout = build_fact_outcome(T.dropout, w)
  /\ w.fact_shifter = build_fact_shifter(T, w)
  /\ w.fact_retention = build_fact_retention(w.fact_enrollment)
  /\ w.fact_institution_kpi = build_fact_institution_kpi(w)

\* The key of a program in a fact exists exactly if the rows it was built from are attributed.
LEMMA FactPrograms ==
  ASSUME NEW i \in DOMAIN Snapshots, NEW T, T = Snapshots[i], NEW w, Means(T, w),
         w.dim_program = build_dim_program(T), Facted(T, w)
  PROVE  /\ (\A f \in w.fact_enrollment : f.program \in DOMAIN w.dim_program) <=> Attributed(T, T.enrollment)
         /\ (\A f \in w.fact_graduation : f.program \in DOMAIN w.dim_program) <=> Attributed(T, T.graduation)
         /\ (\A f \in w.fact_dropout : f.program \in DOMAIN w.dim_program) <=> Attributed(T, T.dropout)
         /\ (\A f \in w.fact_shifter : {f.from, f.to} \subseteq DOMAIN w.dim_program) <=> ShiftsAttributed(T)
<1> DEFINE P == w.dim_program
           J(rows) == resolve_student_key_as_of(rows, w)
<1>1. \A x : KeyOf(P, x) \in DOMAIN P <=> x \in T.program
  BY KeyKnown
<1>2. ASSUME NEW rows
      PROVE  (\A p \in J(rows) : p[1].program \in T.program) <=> Attributed(T, rows)
  <2> DEFINE S == {r \in rows : r.program \in T.program}
  <2>1. (\A p \in J(rows) : p[1] \in S) <=> \A r \in rows : Readers!Known(T, r) => r \in S
    <3> HIDE DEF S
    <3> QED BY JoinedRows
  <2>2. \A p \in J(rows) : p[1] \in rows
    BY DEF resolve_student_key_as_of
  <2> QED BY <2>1, <2>2 DEF Attributed
<1>3. (\A p \in J(T.shifter) : {p[1].from, p[1].to} \subseteq T.program) <=> ShiftsAttributed(T)
  <2> DEFINE S == {r \in T.shifter : {r.from, r.to} \subseteq T.program}
  <2>1. (\A p \in J(T.shifter) : p[1] \in S) <=> \A r \in T.shifter : Readers!Known(T, r) => r \in S
    <3> HIDE DEF S
    <3> QED BY JoinedRows
  <2>2. \A p \in J(T.shifter) : p[1] \in T.shifter
    BY DEF resolve_student_key_as_of
  <2> QED BY <2>1, <2>2 DEF ShiftsAttributed
<1> HIDE DEF P
<1>4. (\A f \in w.fact_enrollment : f.program \in DOMAIN P) <=> Attributed(T, T.enrollment)
  <2>1. (\A f \in w.fact_enrollment : f.program \in DOMAIN P) <=>
          \A p \in J(T.enrollment) : KeyOf(P, p[1].program) \in DOMAIN P
    <3> HIDE DEF J
    <3>1. \A f \in w.fact_enrollment : \E p \in J(T.enrollment) : f.program = KeyOf(P, p[1].program)
      BY DEF Facted, build_fact_enrollment, P, J
    <3>2. ASSUME NEW p \in J(T.enrollment)
          PROVE  \E f \in w.fact_enrollment : f.program = KeyOf(P, p[1].program)
      <4> DEFINE f == [student |-> p[2], program |-> KeyOf(w.dim_program, p[1].program),
                       college |-> CollegeOf[p[1].program], sem |-> p[1].sem,
                       status |-> p[1].status, level |-> p[1].level]
      <4>1. f \in w.fact_enrollment
        BY DEF Facted, build_fact_enrollment, P, J
      <4>2. f.program = KeyOf(P, p[1].program)
        BY DEF P
      <4> HIDE DEF f
      <4> QED BY <4>1, <4>2
    <3> QED BY <3>1, <3>2
  <2> HIDE DEF J
  <2> QED BY <1>1, <1>2, <2>1
<1>5. ASSUME NEW rows
      PROVE  (\A f \in build_fact_outcome(rows, w) : f.program \in DOMAIN P) <=> Attributed(T, rows)
  <2>1. (\A f \in build_fact_outcome(rows, w) : f.program \in DOMAIN P) <=>
          \A p \in J(rows) : KeyOf(P, p[1].program) \in DOMAIN P
    <3> HIDE DEF J
    <3>1. \A f \in build_fact_outcome(rows, w) : \E p \in J(rows) : f.program = KeyOf(P, p[1].program)
      BY DEF build_fact_outcome, P, J
    <3>2. ASSUME NEW p \in J(rows)
          PROVE  \E f \in build_fact_outcome(rows, w) : f.program = KeyOf(P, p[1].program)
      <4> DEFINE f == [student |-> p[2], program |-> KeyOf(w.dim_program, p[1].program),
                       college |-> CollegeOf[p[1].program], sem |-> p[1].sem]
      <4>1. f \in build_fact_outcome(rows, w)
        BY DEF build_fact_outcome, P, J
      <4>2. f.program = KeyOf(P, p[1].program)
        BY DEF P
      <4> HIDE DEF f
      <4> QED BY <4>1, <4>2
    <3> QED BY <3>1, <3>2
  <2> HIDE DEF J
  <2> QED BY <1>1, <1>2, <2>1
<1>6. (\A f \in w.fact_shifter : {f.from, f.to} \subseteq DOMAIN P) <=> ShiftsAttributed(T)
  <2>1. (\A f \in w.fact_shifter : {f.from, f.to} \subseteq DOMAIN P) <=>
          \A p \in J(T.shifter) : {KeyOf(P, p[1].from), KeyOf(P, p[1].to)} \subseteq DOMAIN P
    <3> HIDE DEF J
    <3>1. \A f \in w.fact_shifter : \E p \in J(T.shifter) :
            f.from = KeyOf(P, p[1].from) /\ f.to = KeyOf(P, p[1].to)
      BY DEF Facted, build_fact_shifter, P, J
    <3>2. ASSUME NEW p \in J(T.shifter)
          PROVE  \E f \in w.fact_shifter : f.from = KeyOf(P, p[1].from) /\ f.to = KeyOf(P, p[1].to)
      <4> DEFINE f == [student |-> p[2], from |-> KeyOf(w.dim_program, p[1].from),
                       to |-> KeyOf(w.dim_program, p[1].to), sem |-> p[1].sem]
      <4>1. f \in w.fact_shifter
        BY DEF Facted, build_fact_shifter, P, J
      <4>2. f.from = KeyOf(P, p[1].from) /\ f.to = KeyOf(P, p[1].to)
        BY DEF P
      <4> HIDE DEF f
      <4> QED BY <4>1, <4>2
    <3> QED BY <3>1, <3>2
  <2> HIDE DEF J
  <2> QED BY <1>1, <1>3, <2>1
<1> QED BY <1>4, <1>5, <1>6 DEF Facted, P

\* The foreign keys of a build hold exactly if the rows of the snapshot are attributed.
LEMMA ForeignKeysFit ==
  ASSUME NEW i \in DOMAIN Snapshots, NEW T, T = Snapshots[i], NEW w, Means(T, w),
         w.dim_program = build_dim_program(T), Facted(T, w),
         \A k \in DOMAIN w.dim_student : w.dim_student[k].program \in DOMAIN w.dim_program
  PROVE  ForeignKeys(w) <=> /\ Attributed(T, T.enrollment \cup T.graduation \cup T.dropout)
                            /\ ShiftsAttributed(T)
<1> DEFINE P == DOMAIN w.dim_program
           D == DOMAIN w.dim_student
<1>1. ASSUME NEW rows
      PROVE  \A p \in resolve_student_key_as_of(rows, w) : p[2] \in D
  BY DEF resolve_student_key_as_of
<1>2. /\ \A f \in w.fact_enrollment : f.student \in D
      /\ \A f \in w.fact_shifter : f.student \in D
      /\ \A f \in w.fact_graduation : f.student \in D
      /\ \A f \in w.fact_dropout : f.student \in D
  <2> HIDE DEF D
  <2> QED BY <1>1 DEF Facted, build_fact_enrollment, build_fact_outcome, build_fact_shifter
<1>3. \A f \in w.fact_retention : \E e \in w.fact_enrollment :
        f.student = e.student /\ f.program = e.program
  BY DEF Facted, build_fact_retention
<1>4. Attributed(T, T.enrollment \cup T.graduation \cup T.dropout) <=>
        Attributed(T, T.enrollment) /\ Attributed(T, T.graduation) /\ Attributed(T, T.dropout)
  BY DEF Attributed
<1>5. ForeignKeys(w) <=>
        /\ \A f \in w.fact_enrollment : f.program \in P
        /\ \A f \in w.fact_graduation : f.program \in P
        /\ \A f \in w.fact_dropout : f.program \in P
        /\ \A f \in w.fact_retention : f.program \in P
        /\ \A f \in w.fact_shifter : {f.from, f.to} \subseteq P
  <2>1. \A t \in FactTables : \A f \in w[t] : f.student \in D
    BY <1>2, <1>3 DEF FactTables
  <2> QED BY <2>1 DEF ForeignKeys, FactTables
<1>6. (\A f \in w.fact_enrollment : f.program \in P) => \A f \in w.fact_retention : f.program \in P
  BY <1>3
<1> QED BY <1>4, <1>5, <1>6, FactPrograms

\* What a build is about, row by row, when its foreign keys hold
Said(T, w) ==
  /\ EnrollmentsSaid(T, w, w.fact_enrollment)
  /\ OutcomesSaid(T, w, T.graduation, w.fact_graduation)
  /\ OutcomesSaid(T, w, T.dropout, w.fact_dropout)
  /\ ShiftsSaid(T, w, w.fact_shifter)

\* An enrollment, and a retention, is alone in its version and semester.
LEMMA EnrolledOnce ==
  ASSUME NEW i \in DOMAIN Snapshots, NEW T, T = Snapshots[i], NEW w, Means(T, w), Facted(T, w)
  PROVE  /\ \A f, g \in w.fact_enrollment : f.student = g.student /\ f.sem = g.sem => f = g
         /\ \A f, g \in w.fact_retention : f.student = g.student /\ f.sem = g.sem => f = g
<1> DEFINE J == resolve_student_key_as_of(T.enrollment, w)
           fact(p) == [student |-> p[2], program |-> KeyOf(w.dim_program, p[1].program),
                       college |-> CollegeOf[p[1].program], sem |-> p[1].sem,
                       status |-> p[1].status, level |-> p[1].level]
           kept(f) == [student |-> f.student, program |-> f.program, college |-> f.college,
                       sem |-> f.sem, retained |-> Goes(w.fact_enrollment, f)]
<1>1. /\ \A f \in w.fact_enrollment : \E p \in J : f = fact(p)
      /\ \A p : fact(p).student = p[2] /\ fact(p).sem = p[1].sem
  BY DEF Facted, build_fact_enrollment
<1>2. \A p \in J : p[1] \in T.enrollment /\ w.dim_student[p[2]].student = p[1].student
  BY DEF resolve_student_key_as_of
<1>3. \A e, f \in T.enrollment : e.student = f.student /\ e.sem = f.sem => e = f
  BY SilverAssumption
<1>4. \A p, q : p[1] = q[1] /\ p[2] = q[2] => fact(p) = fact(q)
  OBVIOUS
<1>5. \A f \in w.fact_retention : \E e \in w.fact_enrollment : f = kept(e)
  BY DEF Facted, build_fact_retention, Goes
<1>6. \A e : kept(e).student = e.student /\ kept(e).sem = e.sem
  OBVIOUS
<1> HIDE DEF J, fact, kept
<1>7. ASSUME NEW f \in w.fact_enrollment, NEW g \in w.fact_enrollment, f.student = g.student, f.sem = g.sem
      PROVE  f = g
  <2>1. PICK p \in J : f = fact(p)
    BY <1>1
  <2>2. PICK q \in J : g = fact(q)
    BY <1>1
  <2>3. p[2] = q[2] /\ p[1].sem = q[1].sem
    BY <1>1, <1>7, <2>1, <2>2
  <2>4. p[1] = q[1]
    BY <1>2, <1>3, <2>3
  <2> QED BY <1>4, <2>1, <2>2, <2>3, <2>4
<1> QED BY <1>5, <1>6, <1>7

\* A shift is alone in its version and semester exactly if a student shifts once a semester.
LEMMA ShiftedOnce ==
  ASSUME NEW T, NEW w, Means(T, w), NEW F, ShiftsSaid(T, w, F)
  PROVE  (\A f, g \in F : f.student = g.student /\ f.sem = g.sem => f = g) <=>
           \A x, y \in Readers!Shifted(T) : x.student = y.student /\ x.sem = y.sem => x = y
<1> DEFINE D == w.dim_student
           O == Readers!Shifted(T)
<1>1. /\ \A f \in F : ShiftOf(w, f) \in O
      /\ \A a \in O : \E f \in F : a = ShiftOf(w, f)
      /\ \A f, g \in F : ShiftOf(w, f) = ShiftOf(w, g) => f = g
  BY DEF ShiftsSaid
<1>2. \A f : ShiftOf(w, f).student = D[f.student].student /\ ShiftOf(w, f).sem = f.sem
  BY DEF ShiftOf
<1>3. \A f, g \in F : D[f.student].student = D[g.student].student /\ f.sem = g.sem =>
        f.student = g.student
  BY KeysDetermined DEF ShiftsSaid
<1> HIDE DEF D, O
<1>4. ASSUME \A f, g \in F : f.student = g.student /\ f.sem = g.sem => f = g,
             NEW x \in O, NEW y \in O, x.student = y.student, x.sem = y.sem
      PROVE  x = y
  <2>1. PICK f \in F : x = ShiftOf(w, f)
    BY <1>1
  <2>2. PICK g \in F : y = ShiftOf(w, g)
    BY <1>1
  <2>3. f.student = g.student /\ f.sem = g.sem
    BY <1>2, <1>3, <1>4, <2>1, <2>2
  <2> QED BY <1>4, <2>1, <2>2, <2>3
<1>5. ASSUME \A x, y \in O : x.student = y.student /\ x.sem = y.sem => x = y,
             NEW f \in F, NEW g \in F, f.student = g.student, f.sem = g.sem
      PROVE  f = g
  <2>1. ShiftOf(w, f) = ShiftOf(w, g)
    BY <1>1, <1>2, <1>5
  <2> QED BY <1>1, <2>1
<1>6. (\A f, g \in F : f.student = g.student /\ f.sem = g.sem => f = g) <=>
        \A x, y \in O : x.student = y.student /\ x.sem = y.sem => x = y
  BY <1>4, <1>5
<1> QED BY <1>6 DEF O


\* Where a college has an event, it has an enrollment
EventsPopulated(T) ==
  /\ \A r \in Readers!Outcomes(T, T.graduation \cup T.dropout) : Populated(T, r.program, r.sem)
  /\ \A x \in Readers!Shifted(T) : Populated(T, x.from, x.sem)

\* The rates of a build are not NULL exactly if the events of the snapshot are populated.
LEMMA RatesFit ==
  ASSUME NEW T, NEW w, Means(T, w), Facted(T, w), Said(T, w),
         \A f \in w.fact_shifter : {f.from, f.to} \subseteq DOMAIN w.dim_program
  PROVE  NotNull(w) <=> EventsPopulated(T)
<1> DEFINE P == w.dim_program
           ok(c, t) == KpiRow(w, <<c, t>>).enrolled > 0
           O(rows) == Readers!Outcomes(T, rows)
<1>1. NotNull(w) <=> \A g \in Groups(w) : KpiRow(w, g).enrolled > 0
  BY KpiRows DEF NotNull, Facted
<1>2. \A f \in w.fact_shifter : f.from # 0
  BY DEF Means
<1>3. \A p, t : ok(CollegeOf[p], t) <=> Populated(T, p, t)
  BY GroupPopulated DEF Said
<1> HIDE DEF ok
<1>4. (\A g \in Groups(w) : KpiRow(w, g).enrolled > 0) <=>
        /\ \A f \in w.fact_enrollment : ok(f.college, f.sem)
        /\ \A f \in w.fact_graduation : ok(f.college, f.sem)
        /\ \A f \in w.fact_dropout : ok(f.college, f.sem)
        /\ \A f \in w.fact_retention : ok(f.college, f.sem)
        /\ \A f \in w.fact_shifter : ok(CollegeOf[P[f.from]], f.sem)
  <2>1. ASSUME NEW f \in w.fact_shifter
        PROVE  \E l \in Left(w) : l.college = CollegeOf[P[f.from]] /\ l.sem = f.sem
    <3> DEFINE l == [college |-> CollegeOf[w.dim_program[f.from]], sem |-> f.sem, shift |-> f]
    <3>1. l \in Left(w)
      BY <1>2 DEF Left
    <3>2. l.college = CollegeOf[P[f.from]] /\ l.sem = f.sem
      OBVIOUS
    <3> HIDE DEF l
    <3> QED BY <3>1, <3>2
  <2>2. \A l \in Left(w) : \E f \in w.fact_shifter : l.college = CollegeOf[P[f.from]] /\ l.sem = f.sem
    BY DEF Left
  <2>3. (\A g \in Groups(w) : KpiRow(w, g).enrolled > 0) <=>
          \A f \in w.fact_enrollment \cup w.fact_graduation \cup w.fact_dropout
                     \cup w.fact_retention \cup Left(w) : ok(f.college, f.sem)
    BY DEF Groups, ok
  <2>4. (\A f \in Left(w) : ok(f.college, f.sem)) <=>
          \A f \in w.fact_shifter : ok(CollegeOf[P[f.from]], f.sem)
    <3> HIDE DEF P
    <3> QED BY <2>1, <2>2
  <2> QED BY <2>3, <2>4
<1>5. \A f \in w.fact_enrollment : ok(f.college, f.sem)
  <2> SUFFICES ASSUME NEW f \in w.fact_enrollment PROVE ok(f.college, f.sem)
    OBVIOUS
  <2>1. EnrollmentOf(w, f) \in Readers!Enrolled(T)
    BY DEF Said, EnrollmentsSaid
  <2>2. EnrollmentOf(w, f).sem = f.sem /\ EnrollmentOf(w, f).program = P[f.program]
    BY DEF EnrollmentOf
  <2>3. f.college = CollegeOf[P[f.program]]
    BY DEF Said, EnrollmentsSaid
  <2>4. Populated(T, P[f.program], f.sem)
    BY <2>1, <2>2 DEF Populated
  <2> QED BY <1>3, <2>3, <2>4
<1>6. \A f \in w.fact_retention : ok(f.college, f.sem)
  <2>1. \A f \in w.fact_retention : \E e \in w.fact_enrollment : f.college = e.college /\ f.sem = e.sem
    BY DEF Facted, build_fact_retention
  <2> QED BY <1>5, <2>1
<1>7. ASSUME NEW rows, NEW F, OutcomesSaid(T, w, rows, F)
      PROVE  (\A f \in F : ok(f.college, f.sem)) <=> \A r \in O(rows) : Populated(T, r.program, r.sem)
  <2>1. /\ \A f \in F : OutcomeOf(w, f) \in O(rows)
        /\ \A r \in O(rows) : \E f \in F : r = OutcomeOf(w, f)
        /\ \A f \in F : f.college = CollegeOf[P[f.program]]
    BY <1>7 DEF OutcomesSaid
  <2>2. \A f : OutcomeOf(w, f).sem = f.sem /\ OutcomeOf(w, f).program = P[f.program]
    BY DEF OutcomeOf
  <2> HIDE DEF O, P
  <2>3. \A f \in F : ok(f.college, f.sem) <=> Populated(T, OutcomeOf(w, f).program, OutcomeOf(w, f).sem)
    BY <1>3, <2>1, <2>2
  <2> QED BY <2>1, <2>3
<1>8. (\A f \in w.fact_shifter : ok(CollegeOf[P[f.from]], f.sem)) <=>
        \A x \in Readers!Shifted(T) : Populated(T, x.from, x.sem)
  <2>1. /\ \A f \in w.fact_shifter : ShiftOf(w, f) \in Readers!Shifted(T)
        /\ \A r \in Readers!Shifted(T) : \E f \in w.fact_shifter : r = ShiftOf(w, f)
    BY DEF Said, ShiftsSaid
  <2>2. \A f : ShiftOf(w, f).sem = f.sem /\ ShiftOf(w, f).from = P[f.from]
    BY DEF ShiftOf
  <2> HIDE DEF P
  <2>3. \A f \in w.fact_shifter :
          ok(CollegeOf[P[f.from]], f.sem) <=> Populated(T, ShiftOf(w, f).from, ShiftOf(w, f).sem)
    BY <1>3, <2>2
  <2> QED BY <2>1, <2>3
<1>9. O(T.graduation \cup T.dropout) = O(T.graduation) \cup O(T.dropout)
  BY DEF Readers!Outcomes
<1> HIDE DEF P, O
<1>10. (\A r \in O(T.graduation \cup T.dropout) : Populated(T, r.program, r.sem)) <=>
         /\ \A f \in w.fact_graduation : ok(f.college, f.sem)
         /\ \A f \in w.fact_dropout : ok(f.college, f.sem)
  <2>1. /\ OutcomesSaid(T, w, T.graduation, w.fact_graduation)
        /\ OutcomesSaid(T, w, T.dropout, w.fact_dropout)
    BY DEF Said
  <2> QED BY <1>7, <1>9, <2>1
<1> QED BY <1>1, <1>4, <1>5, <1>6, <1>8, <1>10 DEF EventsPopulated, O

\* Outcomes of each kind are told apart by shifts
OutcomesToldApart(T, rows) ==
  \A a, b \in Readers!Outcomes(T, rows) :
    a.student = b.student => a = b \/ ToldApart(T, a, b) \/ ToldApart(T, b, a)

\* A student shifts once a semester
ShiftsApart(T) ==
  \A x, y \in Readers!Shifted(T) : x.student = y.student /\ x.sem = y.sem => x = y

\* The unique indexes accept a build exactly if the snapshot has one master per student, one
\* shift per semester and outcomes that are told apart.
LEMMA GrainFits ==
  ASSUME NEW i \in DOMAIN Snapshots, NEW T, T = Snapshots[i], NEW w, Means(T, w), Facted(T, w),
         Said(T, w), OneCurrent(w.dim_student),
         \A k \in DOMAIN w.dim_student : w.dim_student[k].to \in Int
  PROVE  Grain(w) <=> /\ ShiftsApart(T)
                      /\ OutcomesToldApart(T, T.graduation) /\ OutcomesToldApart(T, T.dropout)
<1>1. \A x \in T.shifter : x.sem \in Int
  BY SilverAssumption
<1>2. (\A f, g \in w.fact_graduation : f.student = g.student => f = g) <=>
        OutcomesToldApart(T, T.graduation)
  <2>1. OutcomesSaid(T, w, T.graduation, w.fact_graduation)
    BY DEF Said
  <2> QED BY <1>1, <2>1, OutcomesApart DEF OutcomesToldApart
<1>3. (\A f, g \in w.fact_dropout : f.student = g.student => f = g) <=>
        OutcomesToldApart(T, T.dropout)
  <2>1. OutcomesSaid(T, w, T.dropout, w.fact_dropout)
    BY DEF Said
  <2> QED BY <1>1, <2>1, OutcomesApart DEF OutcomesToldApart
<1>4. (\A f, g \in w.fact_shifter : f.student = g.student /\ f.sem = g.sem => f = g) <=> ShiftsApart(T)
  BY ShiftedOnce DEF Said, ShiftsApart
<1>5. /\ \A f, g \in w.fact_enrollment : f.student = g.student /\ f.sem = g.sem => f = g
      /\ \A f, g \in w.fact_retention : f.student = g.student /\ f.sem = g.sem => f = g
  BY EnrolledOnce
<1>6. Grain(w) <=>
        /\ \A f, g \in w.fact_enrollment : f.student = g.student /\ f.sem = g.sem => f = g
        /\ \A f, g \in w.fact_retention : f.student = g.student /\ f.sem = g.sem => f = g
        /\ \A f, g \in w.fact_shifter : f.student = g.student /\ f.sem = g.sem => f = g
        /\ \A f, g \in w.fact_graduation : f.student = g.student => f = g
        /\ \A f, g \in w.fact_dropout : f.student = g.student => f = g
  BY DEF Grain, Unique, OneCurrent
<1> QED BY <1>2, <1>3, <1>4, <1>5, <1>6

\* The warehouse accepts the star of a snapshot exactly if the snapshot is loadable, and no
\* registered key is beyond its programs.
LEMMA AcceptedIsLoadable ==
  ASSUME NEW i \in DOMAIN Snapshots, NEW T, T = Snapshots[i], ~DimensionsRaise(T), NEW w, w = Built(T)
  PROVE  Accepted(w) <=> Loadable(T) /\ \A m \in registry : m.key \in 1..Cardinality(T.program)
<1> DEFINE d == [dim_program |-> build_dim_program(T), dim_student |-> build_dim_student(T)]
           Masters == \A s, t \in T.student : s.student = t.student => s = t
<1>1. /\ w.dim_program = build_dim_program(T) /\ w.dim_student = build_dim_student(T)
      /\ w.dim_program = d.dim_program /\ w.dim_student = d.dim_student
      /\ w.fact_enrollment = build_fact_enrollment(T, d)
      /\ w.fact_graduation = build_fact_outcome(T.graduation, d)
      /\ w.fact_dropout = build_fact_outcome(T.dropout, d)
      /\ w.fact_shifter = build_fact_shifter(T, d)
      /\ w.fact_retention = build_fact_retention(w.fact_enrollment)
      /\ w.fact_institution_kpi = build_fact_institution_kpi(w)
  BY BuiltTables
<1>2. /\ IsFiniteSet(T.enrollment) /\ IsFiniteSet(T.graduation) /\ IsFiniteSet(T.dropout)
      /\ IsFiniteSet(T.shifter)
  BY SilverAssumption
<1>3. Facted(T, w)
  <2> HIDE DEF d
  <2> QED BY <1>1, FactsReadDimensions DEF Facted
<1> HIDE DEF d
<1>4. \A k \in DOMAIN w.dim_student : w.dim_student[k].program \in DOMAIN w.dim_program
  BY <1>1, DimensionPrograms
<1>5. \A k \in DOMAIN w.dim_student : w.dim_student[k].to \in Int
  BY <1>1, EndsTyped
<1>6. RegistryKeysExist(w) <=> \A m \in registry : m.key \in 1..Cardinality(T.program)
  <2>1. DOMAIN w.dim_program = 1..Cardinality(T.program)
    BY <1>1 DEF build_dim_program, Keyed
  <2> QED BY <2>1 DEF RegistryKeysExist
<1>7. Loadable(T) <=>
        /\ Masters
        /\ Attributed(T, T.enrollment \cup T.graduation \cup T.dropout) /\ ShiftsAttributed(T)
        /\ ShiftsApart(T) /\ OutcomesToldApart(T, T.graduation) /\ OutcomesToldApart(T, T.dropout)
        /\ EventsPopulated(T)
  BY DEF Loadable, Attributed, ShiftsAttributed, ShiftsApart, OutcomesToldApart, EventsPopulated
<1>8. Masters <=> OneCurrent(w.dim_student)
  <2>1. ASSUME OneCurrent(w.dim_student) PROVE Masters
    BY <1>1, <2>1, DimensionMeans DEF Means
  <2>2. ASSUME Masters PROVE OneCurrent(w.dim_student)
    BY <1>1, <2>2, MastersOneCurrent
  <2> QED BY <2>1, <2>2
<1> HIDE DEF Masters
<1>9. Grain(w) => OneCurrent(w.dim_student)
  BY DEF Grain, OneCurrent
<1>10. ASSUME Masters
       PROVE  ForeignKeys(w) /\ Grain(w) /\ NotNull(w) <=> Loadable(T)
  <2>1. Means(T, w) /\ OneCurrent(w.dim_student)
    BY <1>1, <1>8, <1>10, DimensionMeans
  <2>2. ForeignKeys(w) <=> /\ Attributed(T, T.enrollment \cup T.graduation \cup T.dropout)
                           /\ ShiftsAttributed(T)
    BY <1>1, <1>3, <1>4, <2>1, ForeignKeysFit
  <2>3. CASE ForeignKeys(w)
    <3>1. /\ \A f \in w.fact_enrollment : f.program \in DOMAIN w.dim_program
          /\ \A f \in w.fact_graduation : f.program \in DOMAIN w.dim_program
          /\ \A f \in w.fact_dropout : f.program \in DOMAIN w.dim_program
          /\ \A f \in w.fact_shifter : {f.from, f.to} \subseteq DOMAIN w.dim_program
      BY <2>3 DEF ForeignKeys, FactTables
    <3>2. Said(T, w)
      <4>1. /\ w.fact_enrollment = build_fact_enrollment(T, w)
            /\ w.fact_graduation = build_fact_outcome(T.graduation, w)
            /\ w.fact_dropout = build_fact_outcome(T.dropout, w)
            /\ w.fact_shifter = build_fact_shifter(T, w)
        BY <1>3 DEF Facted
      <4>2. EnrollmentsSaid(T, w, w.fact_enrollment)
        BY <1>2, <2>1, <3>1, <4>1, EnrollmentsSay
      <4>3. OutcomesSaid(T, w, T.graduation, w.fact_graduation)
        BY <1>2, <2>1, <3>1, <4>1, OutcomesSay
      <4>4. OutcomesSaid(T, w, T.dropout, w.fact_dropout)
        BY <1>2, <2>1, <3>1, <4>1, OutcomesSay
      <4>5. ShiftsSaid(T, w, w.fact_shifter)
        BY <1>2, <2>1, <3>1, <4>1, ShiftsSay
      <4> QED BY <4>2, <4>3, <4>4, <4>5 DEF Said
    <3>3. Grain(w) <=> /\ ShiftsApart(T)
                       /\ OutcomesToldApart(T, T.graduation) /\ OutcomesToldApart(T, T.dropout)
      BY <1>3, <1>5, <2>1, <3>2, GrainFits
    <3>4. NotNull(w) <=> EventsPopulated(T)
      BY <1>3, <2>1, <3>1, <3>2, RatesFit
    <3> QED BY <1>7, <1>10, <2>2, <2>3, <3>3, <3>4
  <2>4. CASE ~ForeignKeys(w)
    BY <1>7, <2>2, <2>4
  <2> QED BY <2>3, <2>4
<1>11. CASE Masters
  BY <1>6, <1>10, <1>11 DEF Accepted
<1>12. CASE ~Masters
  BY <1>7, <1>8, <1>9, <1>12 DEF Accepted
<1> QED BY <1>11, <1>12


\* A load that follows a whole build replaces the star exactly if the snapshot is loadable,
\* whatever keys its rows got: the constraints of the warehouse, which speak of keys, are
\* what Loadable says of Silver rows.
THEOREM LoadsFitCorrect == Spec => LoadsWhatFits
<1> DEFINE Fits(T) == Loadable(T) /\ \A m \in registry : m.key \in 1..Cardinality(T.program)
<1>1. Init => RaiseInv
  BY SilverAssumption DEF Init, RaiseInv, InStage, Lost
<1>2. ASSUME IInv, RaiseInv, Next, NEW r \in Pipelines, pc[r] = "load", LockFree, pc'[r] = "idle",
             basis \in DOMAIN Snapshots
      PROVE  IF Fits(Snapshots[basis]) THEN warehouse' = Built(Snapshots[basis])
                                       ELSE UNCHANGED warehouse
  <2>0. pc \in [Pipelines -> Steps]
    BY <1>2 DEF IInv, TypeInv
  <2>1. Load(r) \/ LoadRefused(r)
    <3>1. \A q \in Pipelines : ~InStage(q)
      BY <1>2 DEF LockFree
    <3>2. ASSUME NEW q \in Pipelines, Start(q) \/ Reload(q) \/ Step(q) \/ Crash(q)
          PROVE  q = r /\ (Load(r) \/ LoadRefused(r))
      <4>1. q = r
        BY <1>2, <2>0, <3>2 DEF Start, Reload, Step, BuildDimensions, Write, BuildFacts, BuildKpi,
                                Load, LoadRefused, Crash, Go
      <4> QED BY <1>2, <3>1, <3>2, <4>1 DEF Start, Reload, Step, BuildDimensions, Write,
                                            BuildFacts, BuildKpi, Crash, InStage
    <3> QED BY <1>2, <3>2 DEF Next, Refresh, record_candidate
  <2>2. gold = Built(Snapshots[basis]) /\ ~DimensionsRaise(Snapshots[basis])
    BY <1>2 DEF IInv, BasisInv, RaiseInv
  <2>3. Accepted(gold) <=> Fits(Snapshots[basis])
    BY <1>2, <2>2, AcceptedIsLoadable
  <2>4. DOMAIN gold = Tables
    BY <2>2 DEF Built
  <2> HIDE DEF Fits
  <2> QED BY <2>1, <2>2, <2>3, <2>4 DEF Load, LoadRefused
<1>3. IInv /\ RaiseInv /\ [Next]_vars =>
        [\A r \in Pipelines :
           pc[r] = "load" /\ LockFree /\ pc'[r] = "idle" /\ basis \in DOMAIN Snapshots =>
             LET T == Snapshots[basis]
             IN  IF Loadable(T) /\ \A m \in registry : m.key \in 1..Cardinality(T.program)
                 THEN warehouse' = Built(T) ELSE UNCHANGED warehouse]_vars
  BY <1>2 DEF vars
<1> QED BY <1>1, <1>3, RaiseStep, GoldInvariant, PTL DEF Spec, LoadsWhatFits
=============================================================================
