----------------------------- MODULE Silver_proofs -----------------------------
(***************************************************************************)
(* Theorems about Silver, for any units, files, ingestions, crashes and         *)
(* repetitions of the validation.  Types hold of any number of pipelines; what   *)
(* Gold reads is proved of pipelines that follow one another (OneAtATime).       *)
(***************************************************************************)
EXTENDS Silver, FiniteSetTheorems, WellFoundedInduction, TLAPS

(***************************************************************************)
(* Rows                                                                     *)
(***************************************************************************)

\* Numbers in a finite set that is not empty have a greatest.
LEMMA GreatestExists ==
  ASSUME NEW S \in SUBSET Nat, IsFiniteSet(S), S # {}
  PROVE  \E m \in S : \A s \in S : s <= m
<1> DEFINE Above(x) == {s \in S : x < s}
           B == {Above(x) : x \in S}
<1>1. B # {} /\ B \subseteq FiniteSubsetsOf(S)
  <2>1. ASSUME NEW x \in S
        PROVE  Above(x) \in SUBSET S /\ IsFiniteSet(Above(x))
    BY FS_Subset
  <2> QED
    BY <2>1 DEF FiniteSubsetsOf
<1>2. PICK b \in B : \A c \in B : ~(<<c, b>> \in StrictSubsetOrdering(S))
  <2> HIDE DEF B
  <2> QED
    BY <1>1, WFMin, FS_StrictSubsetOrderingWellFounded
<1>3. PICK x \in S : b = Above(x)
  OBVIOUS
<1>4. ASSUME NEW y \in S, x < y
      PROVE  FALSE
  <2>1. Above(y) \subseteq Above(x) /\ y \in Above(x) /\ y \notin Above(y)
    <3>1. x \in Nat /\ y \in Nat /\ \A s \in S : s \in Nat
      OBVIOUS
    <3>2. \A s \in S : y < s => x < s
      BY <1>4, <3>1
    <3>3. ~(y < y)
      BY <3>1
    <3> QED
      BY <1>4, <3>2, <3>3
  <2>2. <<Above(y), Above(x)>> \in StrictSubsetOrdering(S)
    BY <2>1 DEF StrictSubsetOrdering
  <2> QED
    BY <1>2, <1>3, <2>2
<1> QED
  BY <1>4

\* The image of a finite set is finite, and no larger.
LEMMA KeysFinite ==
  ASSUME NEW T, IsFiniteSet(T)
  PROVE  IsFiniteSet(Keys(T)) /\ Cardinality(Keys(T)) <= Cardinality(T)
<1> DEFINE f == [r \in T |-> KeyOf(r)]
<1>1. f \in Surjection(T, Keys(T))
  BY DEF Surjection, Keys
<1> QED
  BY <1>1, FS_Surjection

\* Some row with a key, or with the columns of a row, was ingested last.
LEMMA LastOfRows ==
  ASSUME NEW T \in SUBSET SilverRow, IsFiniteSet(T), T # {}
  PROVE  \E m \in T : \A r \in T : r.stamp <= m.stamp
<1> DEFINE f == [r \in T |-> r.stamp]
           S == {r.stamp : r \in T}
<1>1. f \in Surjection(T, S)
  BY DEF Surjection
<1>2. IsFiniteSet(S)
  BY <1>1, FS_Surjection
<1>3. S \in SUBSET Nat /\ S # {}
  BY DEF SilverRow
<1>4. PICK n \in S : \A s \in S : s <= n
  <2> HIDE DEF S
  <2> QED
    BY <1>2, <1>3, GreatestExists
<1> QED
  BY <1>4

\* Dropping duplicates keeps a row of every key, not older than those it drops.
LEMMA DuplicatesDropped ==
  ASSUME NEW T \in SUBSET SilverRow, IsFiniteSet(T)
  PROVE  /\ drop_exact_duplicates(T) \in SUBSET T /\ IsFiniteSet(drop_exact_duplicates(T))
         /\ \A q \in T : \E p \in drop_exact_duplicates(T) :
              KeyOf(p) = KeyOf(q) /\ q.stamp <= p.stamp
<1>1. drop_exact_duplicates(T) \in SUBSET T
  BY DEF drop_exact_duplicates
<1>2. IsFiniteSet(drop_exact_duplicates(T))
  BY <1>1, FS_Subset
<1>3. ASSUME NEW q \in T
      PROVE  \E p \in drop_exact_duplicates(T) : KeyOf(p) = KeyOf(q) /\ q.stamp <= p.stamp
  <2> DEFINE Same == {p \in T : Business(p) = Business(q)}
  <2>1. Same \in SUBSET T /\ Same \in SUBSET SilverRow /\ q \in Same
    OBVIOUS
  <2>2. IsFiniteSet(Same)
    BY <2>1, FS_Subset
  <2>3. PICK m \in Same : \A r \in Same : r.stamp <= m.stamp
    BY <2>1, <2>2, LastOfRows
  <2>4. m \in drop_exact_duplicates(T)
    BY <2>3 DEF drop_exact_duplicates
  <2>5. KeyOf(m) = KeyOf(q)
    <3>1. Business(m) = Business(q) /\ m \in SilverRow /\ q \in SilverRow
      OBVIOUS
    <3>2. Business(m).student = m.student /\ Business(m).sem = m.sem
      BY <3>1 DEF Business, SilverRow
    <3>3. Business(q).student = q.student /\ Business(q).sem = q.sem
      BY <3>1 DEF Business, SilverRow
    <3> QED
      BY <3>1, <3>2, <3>3 DEF KeyOf
  <2> QED
    BY <2>1, <2>3, <2>4, <2>5
<1> QED
  BY <1>1, <1>2, <1>3

\* The four checks find nothing in what they left.
LEMMA CheckedAgain ==
  ASSUME NEW D, NEW students, NEW dropouts,
         NEW V, V = D \ (Checked(D, students, dropouts)[1] \cup Checked(D, students, dropouts)[2] \cup
                         Checked(D, students, dropouts)[3] \cup Checked(D, students, dropouts)[4])
  PROVE  \A i \in 1..4 : Checked(V, students, dropouts)[i] = {}
<1> DEFINE a == UnknownStatus(D)
           b == OutsideCohortRange(D \ a, students)
           c == InconsistentDropout(D \ (a \cup b), dropouts)
           d == ImpossibleTransition(D \ (a \cup b \cup c))
<1>1. V = D \ (a \cup b \cup c \cup d)
  BY DEF Checked
<1>2. UnknownStatus(V) = {}
  BY <1>1 DEF UnknownStatus
<1>3. OutsideCohortRange(V, students) = {}
  BY <1>1 DEF OutsideCohortRange
<1>4. InconsistentDropout(V, dropouts) = {}
  BY <1>1 DEF InconsistentDropout
<1>5. ImpossibleTransition(V) = {}
  BY <1>1 DEF ImpossibleTransition
<1> DEFINE a2 == UnknownStatus(V)
           b2 == OutsideCohortRange(V \ a2, students)
           c2 == InconsistentDropout(V \ (a2 \cup b2), dropouts)
           d2 == ImpossibleTransition(V \ (a2 \cup b2 \cup c2))
<1>6. Checked(V, students, dropouts) = <<a2, b2, c2, d2>>
  BY DEF Checked
<1>7. a2 = {} /\ V \ a2 = V
  BY <1>2
<1>8. b2 = {} /\ V \ (a2 \cup b2) = V
  <2>1. b2 = {}
    BY <1>3, <1>7
  <2> HIDE DEF a2, b2
  <2> QED
    BY <1>7, <2>1
<1>9. c2 = {} /\ V \ (a2 \cup b2 \cup c2) = V
  <2>1. c2 = {}
    BY <1>4, <1>8
  <2> HIDE DEF a2, b2, c2
  <2> QED
    BY <1>7, <1>8, <2>1
<1>10. d2 = {}
  BY <1>5, <1>9
<1> HIDE DEF a2, b2, c2, d2
<1> QED
  BY <1>6, <1>7, <1>8, <1>9, <1>10

(***************************************************************************)
(* Types                                                                    *)
(***************************************************************************)

\* What Bronze holds: whole files, one object per ingestion, so that times are consecutive
StoreInv ==
  /\ IsFiniteSet(objects)
  /\ \A o \in objects : o.content \in Files[o.unit] /\ o.stamp <= used["ingests"]
  /\ \A t \in 1..used["ingests"] : \E o \in objects : o.stamp = t
  /\ used["ingests"] <= MaxIngests /\ basis <= used["ingests"]

FilesFinite == \A k \in DOMAIN files : IsFiniteSet(files[k])

WorkFinite == \A r \in Pipelines : IsFiniteSet(work[r].valid) /\ IsFiniteSet(Quarantined(work[r]))

TypeInv == TypeOK /\ StoreInv /\ FilesFinite /\ WorkFinite

LEMMA EntityList ==
  /\ Len(ENTITIES) = 3 /\ DOMAIN ENTITIES = 1..3
  /\ ENTITIES[1] = "student" /\ ENTITIES[2] = "enrollment" /\ ENTITIES[3] = "dropout"
  /\ Entities = {"student", "enrollment", "dropout"}
BY DEF ENTITIES, Entities

\* Reading Bronze gives finitely many rows.
LEMMA ReadTyped ==
  ASSUME TypeInv, NEW e, NEW store \in SUBSET objects
  PROVE  /\ read_all_bronze(e, store) \in SUBSET SilverRow
         /\ IsFiniteSet(read_all_bronze(e, store))
<1> DEFINE rows(o) == {Clean(row, o.stamp) : row \in o.content}
           S == ObjectsOf(e, store)
           B == {rows(o) : o \in S}
<1>0. S \in SUBSET objects /\ IsFiniteSet(S)
  BY FS_Subset DEF ObjectsOf, TypeInv, StoreInv
<1>1. \A o \in S : /\ o.unit \in Units /\ o.stamp \in 0..MaxIngests /\ o.content \in Files[o.unit]
                   /\ IsFiniteSet(o.content)
  BY <1>0, SilverAssumption DEF TypeInv, TypeOK, StoreInv
<1>2. ASSUME NEW o \in S
      PROVE  rows(o) \in SUBSET SilverRow /\ IsFiniteSet(rows(o))
  <2> DEFINE f == [row \in o.content |-> Clean(row, o.stamp)]
  <2>1. f \in Surjection(o.content, rows(o))
    BY DEF Surjection
  <2>2. IsFiniteSet(rows(o))
    BY <1>1, <2>1, FS_Surjection
  <2>3. \A row \in o.content : Clean(row, o.stamp) \in SilverRow
    BY <1>1, SilverAssumption DEF Clean, SilverRow
  <2> QED
    BY <2>2, <2>3
<1>3. IsFiniteSet(B)
  <2> DEFINE g == [o \in S |-> rows(o)]
  <2>1. g \in Surjection(S, B)
    BY DEF Surjection
  <2> QED
    BY <1>0, <2>1, FS_Surjection
<1>4. IsFiniteSet(UNION B)
  BY <1>2, <1>3, FS_UNION
<1>5. UNION B \in SUBSET SilverRow
  BY <1>2
<1>6. read_all_bronze(e, store) = UNION B
  BY DEF read_all_bronze
<1> QED
  BY <1>4, <1>5, <1>6

\* The newest object is the last ingestion.
LEMMA NewestIs ==
  ASSUME TypeInv
  PROVE  Newest = used["ingests"] /\ Newest \in 0..MaxIngests
<1>0. /\ used["ingests"] \in Nat /\ used["ingests"] <= MaxIngests /\ MaxIngests \in Nat
      /\ \A o \in objects : o.stamp \in 1..used["ingests"]
      /\ \A t \in 1..used["ingests"] : \E o \in objects : o.stamp = t
  BY SilverAssumption DEF TypeInv, TypeOK, StoreInv
<1>1. CASE objects = {}
  BY <1>0, <1>1 DEF Newest
<1>2. CASE objects # {}
  <2> DEFINE S == {o.stamp : o \in objects}
             P(t) == \A o \in objects : o.stamp <= t
  <2>1. used["ingests"] \in S /\ P(used["ingests"])
    BY <1>0, <1>2
  <2>2. \A t \in S : P(t) => t = used["ingests"]
    BY <1>0, <2>1
  <2>3. Newest = CHOOSE t \in S : P(t)
    BY <1>2 DEF Newest
  <2> HIDE DEF S, P
  <2>4. Newest \in S /\ P(Newest)
    BY <2>1, <2>3
  <2> QED
    BY <1>0, <2>2, <2>4
<1> QED
  BY <1>1, <1>2

\* The result of deduplication: of each key one row, ingested last.
LEMMA DedupeTyped ==
  ASSUME NEW T \in SUBSET SilverRow, IsFiniteSet(T), NEW D \in dedupe_enrollment(T)
  PROVE  /\ D \in SUBSET T /\ IsFiniteSet(D) /\ Cardinality(D) <= Cardinality(T)
         /\ Cardinality(D) \in Nat /\ Cardinality(T) \in Nat
         /\ Keys(D) = Keys(T)
         /\ \A r, q \in D : KeyOf(r) = KeyOf(q) => r = q
         /\ \A r \in D, q \in T : KeyOf(q) = KeyOf(r) => q.stamp <= r.stamp
<1>1. D \in SUBSET T
  BY DEF dedupe_enrollment, LatestOf
<1>2. IsFiniteSet(D) /\ Cardinality(D) <= Cardinality(T)
  BY <1>1, FS_Subset
<1>3. Cardinality(D) \in Nat /\ Cardinality(T) \in Nat
  BY <1>2, FS_CardinalityType
<1> QED
  BY <1>1, <1>2, <1>3 DEF dedupe_enrollment, LatestOf, Keys

LEMMA CheckedTyped ==
  ASSUME NEW D, NEW students, NEW dropouts
  PROVE  /\ Checked(D, students, dropouts) \in [1..4 -> SUBSET D]
<1>1. /\ UnknownStatus(D) \in SUBSET D
      /\ \A S \in SUBSET D : OutsideCohortRange(S, students) \in SUBSET D
      /\ \A S \in SUBSET D : InconsistentDropout(S, dropouts) \in SUBSET D
      /\ \A S \in SUBSET D : ImpossibleTransition(S) \in SUBSET D
  BY DEF UnknownStatus, OutsideCohortRange, InconsistentDropout, ImpossibleTransition
<1>2. ASSUME NEW a \in SUBSET D, NEW b \in SUBSET D, NEW c \in SUBSET D, NEW d \in SUBSET D
      PROVE  <<a, b, c, d>> \in [1..4 -> SUBSET D]
  OBVIOUS
<1>3. \A S : D \ S \in SUBSET D
  OBVIOUS
<1> QED
  BY <1>1, <1>2, <1>3 DEF Checked

\* The parts of TypeInv that one action changes together
StoreTypes ==
  /\ \A o \in objects : o.unit \in Units /\ o.stamp \in 1..MaxIngests
  /\ basis \in 0..MaxIngests
  /\ used \in [{"ingests", "starts", "resumes", "crashes"} -> Nat]
  /\ StoreInv

FileTypes ==
  /\ DOMAIN files \subseteq Entities \cup {"quarantine"}
  /\ \A k \in DOMAIN files : files[k] \subseteq SilverRow
  /\ FilesFinite

Places == {"idle", "silver", "clean", "validation", "table", "quarantine", "gate", "gold"}

StageTypes ==
  /\ pc \in [Pipelines -> Places]
  /\ at \in [Pipelines -> DOMAIN ENTITIES]
  /\ failed \in [Pipelines -> BOOLEAN]

WorkTypes == work \in [Pipelines -> Works] /\ WorkFinite

LEMMA TypeParts ==
  TypeInv <=> StoreTypes /\ FileTypes /\ StageTypes /\ WorkTypes
BY DEF TypeInv, TypeOK, StoreTypes, FileTypes, Places, StageTypes, WorkTypes

\* The constant parts of these sets
LEMMA StoreKept ==
  ASSUME StoreTypes, UNCHANGED <<objects, basis>>, UNCHANGED used \/ \E e \in DOMAIN Limit : e # "ingests" /\ Use(e)
  PROVE  StoreTypes'
<1>1. used' \in [{"ingests", "starts", "resumes", "crashes"} -> Nat] /\ used'["ingests"] = used["ingests"]
  BY DEF StoreTypes, Use, Limit
<1> QED
  BY <1>1 DEF StoreTypes, StoreInv

LEMMA FilesKept ==
  ASSUME FileTypes, UNCHANGED files
  PROVE  FileTypes'
BY DEF FileTypes, FilesFinite

LEMMA WorkKept ==
  ASSUME WorkTypes, UNCHANGED work
  PROVE  WorkTypes'
<1>1. \A r \in Pipelines : Quarantined(work[r])' = Quarantined(work[r])
  BY DEF Quarantined
<1> QED
  BY <1>1 DEF WorkTypes, WorkFinite

LEMMA OverwriteTyped ==
  ASSUME FileTypes, NEW k \in Entities \cup {"quarantine"},
         NEW rows \in SUBSET SilverRow, IsFiniteSet(rows), Overwrite(k, rows)
  PROVE  /\ FileTypes'
         /\ DOMAIN files' = DOMAIN files \cup {k} /\ files'[k] = rows
         /\ \A l \in DOMAIN files : l # k => files'[l] = files[l]
<1>1. /\ DOMAIN files' = DOMAIN files \cup {k} /\ files'[k] = rows
      /\ \A l \in DOMAIN files : l # k => files'[l] = files[l]
  BY DEF Overwrite
<1> QED
  BY <1>1 DEF FileTypes, FilesFinite

LEMMA GoTyped ==
  ASSUME StageTypes, NEW r \in Pipelines, NEW p \in Places, Go(r, p)
  PROVE  pc' \in [Pipelines -> Places] /\ pc'[r] = p /\ \A q \in Pipelines : q # r => pc'[q] = pc[q]
BY DEF StageTypes, Go

LEMMA NextEntityTyped ==
  ASSUME StageTypes, NEW r \in Pipelines, failed' \in [Pipelines -> BOOLEAN], NextEntity(r)
  PROVE  StageTypes'
<1>1. CASE at[r] < Len(ENTITIES)
  <2>1. at' = [at EXCEPT ![r] = @ + 1] /\ pc' = pc
    BY <1>1 DEF NextEntity
  <2>2. at[r] + 1 \in DOMAIN ENTITIES
    BY <1>1, EntityList DEF StageTypes
  <2> QED
    BY <2>1, <2>2 DEF StageTypes
<1>2. CASE ~(at[r] < Len(ENTITIES))
  <2>1. at' = at /\ Go(r, IF failed'[r] THEN "idle" ELSE "validation")
    BY <1>2 DEF NextEntity
  <2>2. pc' \in [Pipelines -> Places]
    BY <2>1, GoTyped DEF Places
  <2> QED
    BY <2>1, <2>2 DEF StageTypes
<1> QED
  BY <1>1, <1>2

\* A new object continues the times.
LEMMA IngestTypes ==
  ASSUME TypeInv, NEW u \in Units, Ingest(u)
  PROVE  /\ TypeInv' /\ used' = [used EXCEPT !["ingests"] = @ + 1]
         /\ \E c \in Files[u] :
              objects' = objects \cup {[unit |-> u, stamp |-> used["ingests"] + 1, content |-> c]}
<1>0. /\ used \in [{"ingests", "starts", "resumes", "crashes"} -> Nat] /\ MaxIngests \in Nat
      /\ used["ingests"] < MaxIngests /\ used' = [used EXCEPT !["ingests"] = @ + 1]
      /\ StoreTypes
  BY SilverAssumption, TypeParts DEF Ingest, Use, Limit, StoreTypes
<1>1. used' \in [{"ingests", "starts", "resumes", "crashes"} -> Nat]
      /\ used'["ingests"] = used["ingests"] + 1 /\ used'.ingests = used["ingests"] + 1
  BY <1>0
<1>2. PICK c \in Files[u] :
        objects' = objects \cup {[unit |-> u, stamp |-> used["ingests"] + 1, content |-> c]}
  BY <1>1 DEF Ingest, Bronze!Add
<1> DEFINE new == [unit |-> u, stamp |-> used["ingests"] + 1, content |-> c]
<1>3. IsFiniteSet(objects')
  BY <1>0, <1>2, FS_AddElement DEF StoreTypes, StoreInv
<1>4. \A o \in objects' : /\ o.unit \in Units /\ o.stamp \in 1..MaxIngests
                          /\ o.content \in Files[o.unit] /\ o.stamp <= used'["ingests"]
  <2>1. ASSUME NEW o \in objects
        PROVE  /\ o.unit \in Units /\ o.stamp \in 1..MaxIngests
               /\ o.content \in Files[o.unit] /\ o.stamp <= used'["ingests"]
    BY <1>0, <1>1 DEF StoreTypes, StoreInv
  <2>2. /\ new.unit = u /\ new.stamp = used["ingests"] + 1 /\ new.content = c
        /\ new.stamp \in 1..MaxIngests /\ new.stamp <= used'["ingests"]
    BY <1>0, <1>1
  <2> QED
    BY <1>2, <2>1, <2>2
<1>5. \A t \in 1..used'["ingests"] : \E o \in objects' : o.stamp = t
  <2>1. ASSUME NEW t \in 1..used'["ingests"]
        PROVE  \E o \in objects' : o.stamp = t
    <3>1. CASE t = used["ingests"] + 1
      <4>1. new \in objects' /\ new.stamp = t
        BY <1>2, <3>1
      <4> QED
        BY <4>1
    <3>2. CASE t \in 1..used["ingests"]
      BY <1>0, <1>2, <3>2 DEF StoreTypes, StoreInv
    <3> QED
      BY <1>0, <1>1, <3>1, <3>2
  <2> QED
    BY <2>1
<1>6. StoreTypes'
  <2>1. /\ basis' = basis /\ basis \in 0..MaxIngests /\ basis <= used["ingests"]
    BY <1>0 DEF Ingest, StoreTypes, StoreInv
  <2>2. used'["ingests"] <= MaxIngests /\ basis' <= used'["ingests"]
    BY <1>0, <1>1, <2>1
  <2>3. StoreInv'
    BY <1>3, <1>4, <1>5, <2>2 DEF StoreInv
  <2> QED
    BY <1>1, <1>4, <2>1, <2>3 DEF StoreTypes
<1>7. FileTypes' /\ StageTypes' /\ WorkTypes'
  BY TypeParts, FilesKept, WorkKept DEF Ingest, StageTypes
<1> QED
  BY <1>0, <1>2, <1>6, <1>7
  DEF StoreTypes, FileTypes, StageTypes, WorkTypes, TypeInv, TypeOK, Places

\* What a validation computes
Result(T, D, bad) ==
  [valid |-> D \ (bad[1] \cup bad[2] \cup bad[3] \cup bad[4]), bad |-> bad,
   rowsIn |-> Cardinality(T), duplicates |-> Cardinality(T) - Cardinality(D)]

LEMMA ResultTyped ==
  ASSUME NEW T \in SUBSET SilverRow, IsFiniteSet(T), NEW D \in dedupe_enrollment(T),
         NEW bad \in [1..4 -> SUBSET D]
  PROVE  /\ Result(T, D, bad) \in Works
         /\ Result(T, D, bad).valid \cup Quarantined(Result(T, D, bad)) = D
         /\ IsFiniteSet(Result(T, D, bad).valid) /\ IsFiniteSet(Quarantined(Result(T, D, bad)))
<1> DEFINE w == Result(T, D, bad)
<1>1. /\ D \in SUBSET T /\ Cardinality(D) <= Cardinality(T) /\ IsFiniteSet(D)
      /\ Cardinality(D) \in Nat /\ Cardinality(T) \in Nat
  BY DedupeTyped
<1>2. Cardinality(T) - Cardinality(D) \in Nat
  BY <1>1
<1>3. bad \in [1..4 -> SUBSET SilverRow] /\ D \in SUBSET SilverRow
  BY <1>1
<1>4. w \in Works
  BY <1>1, <1>2, <1>3 DEF Works, Result
<1>5. w.valid \in SUBSET D /\ Quarantined(w) \in SUBSET D /\ w.valid \cup Quarantined(w) = D
  BY DEF Quarantined, Result
<1> HIDE DEF w
<1> QED
  BY <1>1, <1>4, <1>5, FS_Subset DEF w

LEMMA NoWorkTyped == NoWork \in Works /\ IsFiniteSet(NoWork.valid) /\ IsFiniteSet(Quarantined(NoWork))
<1>1. <<{}, {}, {}, {}>> \in [1..4 -> SUBSET SilverRow]
  OBVIOUS
<1>2. NoWork.valid = {} /\ Quarantined(NoWork) = {}
  BY DEF NoWork, Quarantined
<1> QED
  BY <1>1, <1>2, FS_EmptySet DEF NoWork, Works

LEMMA WorkSet ==
  ASSUME WorkTypes, NEW r \in Pipelines,
         NEW w \in Works, IsFiniteSet(w.valid), IsFiniteSet(Quarantined(w)),
         work' = [work EXCEPT ![r] = w]
  PROVE  WorkTypes' /\ work'[r] = w
<1>1. work'[r] = w /\ \A q \in Pipelines : work'[q] \in {w, work[q]}
  BY DEF WorkTypes
<1>2. \A q \in Pipelines : Quarantined(work[q])' = Quarantined(work'[q])
  BY DEF Quarantined
<1> QED
  BY <1>1, <1>2 DEF WorkTypes, WorkFinite

LEMMA InitTypes == Init => TypeInv
<1> SUFFICES ASSUME Init PROVE TypeInv
  OBVIOUS
<1>1. objects = {} /\ files = << >> /\ basis = 0
      /\ used = [ingests |-> 0, starts |-> 0, resumes |-> 0, crashes |-> 0]
  BY DEF Init, Bronze!Init
<1>2. StoreTypes
  <2>1. IsFiniteSet(objects)
    BY <1>1, FS_EmptySet
  <2>2. used \in [{"ingests", "starts", "resumes", "crashes"} -> Nat] /\ used["ingests"] = 0
    BY <1>1
  <2> QED
    BY <1>1, <2>1, <2>2, SilverAssumption DEF StoreTypes, StoreInv
<1>3. FileTypes
  BY <1>1 DEF FileTypes, FilesFinite
<1>4. StageTypes /\ WorkTypes
  BY NoWorkTyped, EntityList DEF Init, StageTypes, Places, WorkTypes, WorkFinite
<1> QED
  BY <1>2, <1>3, <1>4, TypeParts

\* What a validation leaves in work
LEMMA ValidateWork ==
  ASSUME TypeInv, NEW r \in Pipelines, Validate(r)
  PROVE  /\ WorkTypes'
         /\ \E D \in dedupe_enrollment(files["enrollment"]) :
              LET bad == Checked(D, files["student"], files["dropout"])
              IN  /\ work'[r].valid = D \ (bad[1] \cup bad[2] \cup bad[3] \cup bad[4])
                  /\ work'[r].valid \cup Quarantined(work'[r]) = D
                  /\ work'[r].rowsIn = Cardinality(files["enrollment"])
<1> DEFINE T == files["enrollment"]
           bad(D) == Checked(D, files["student"], files["dropout"])
<1>1. PICK D \in dedupe_enrollment(T) : work' = [work EXCEPT ![r] = Result(T, D, bad(D))]
  BY DEF Validate, Result
<1>2. T \in SUBSET SilverRow /\ IsFiniteSet(T)
  BY EntityList, TypeParts DEF Validate, FileTypes, FilesFinite
<1>3. bad(D) \in [1..4 -> SUBSET D]
  BY CheckedTyped
<1> HIDE DEF T, bad
<1> DEFINE w == Result(T, D, bad(D))
<1>4. /\ w \in Works /\ w.valid \cup Quarantined(w) = D
      /\ IsFiniteSet(w.valid) /\ IsFiniteSet(Quarantined(w))
  BY <1>2, <1>3, ResultTyped
<1>5. /\ w.valid = D \ (bad(D)[1] \cup bad(D)[2] \cup bad(D)[3] \cup bad(D)[4])
      /\ w.rowsIn = Cardinality(T)
  BY DEF Result
<1>6. WorkTypes' /\ work'[r] = w
  <2> HIDE DEF w
  <2> QED
    BY <1>1, <1>4, WorkSet, TypeParts DEF w
<1> QED
  BY <1>1, <1>4, <1>5, <1>6 DEF T, bad

\* Every step of a pipeline
LEMMA PipelineTypes ==
  ASSUME TypeInv, NEW r \in Pipelines, Start(r) \/ Resume(r) \/ Step(r) \/ Crash(r)
  PROVE  StoreTypes' /\ FileTypes' /\ StageTypes' /\ WorkTypes'
<1>0. StoreTypes /\ FileTypes /\ StageTypes /\ WorkTypes
  BY TypeParts
<1>1. CASE Start(r) \/ Resume(r)
  <2>1. UNCHANGED <<objects, files, at, failed, work, basis>>
        /\ \E e \in DOMAIN Limit : e # "ingests" /\ Use(e)
    BY <1>1 DEF Start, Resume, Limit
  <2>2. pc' \in [Pipelines -> Places]
    BY <1>0, <1>1, GoTyped DEF Start, Resume, Places
  <2> QED
    BY <1>0, <2>1, <2>2, StoreKept, FilesKept, WorkKept DEF StageTypes
<1>2. CASE BeginSilver(r)
  <2>1. pc' \in [Pipelines -> Places] /\ at' \in [Pipelines -> DOMAIN ENTITIES]
        /\ failed' \in [Pipelines -> BOOLEAN]
    BY <1>0, <1>2, GoTyped, EntityList DEF BeginSilver, Places, StageTypes
  <2> QED
    BY <1>0, <1>2, <2>1, StoreKept, FilesKept, WorkKept DEF BeginSilver, StageTypes
<1>3. CASE CleanEntity(r)
  <2> DEFINE e == ENTITIES[at[r]]
             rows == read_all_bronze(e, objects)
  <2>1. e \in Entities
    BY <1>0 DEF StageTypes, Entities
  <2>2. rows \in SUBSET SilverRow /\ IsFiniteSet(rows)
    BY ReadTyped
  <2>3. drop_exact_duplicates(rows) \in SUBSET SilverRow /\ IsFiniteSet(drop_exact_duplicates(rows))
    <3> HIDE DEF rows
    <3> QED
      BY <2>2, DuplicatesDropped
  <2>4. FileTypes'
    <3>1. Overwrite(e, drop_exact_duplicates(rows))
      BY <1>3 DEF CleanEntity
    <3> HIDE DEF e, rows
    <3> QED
      BY <1>0, <2>1, <2>3, <3>1, OverwriteTyped
  <2>5. StoreTypes'
    <3>1. basis' \in 0..MaxIngests /\ basis' <= used["ingests"]
      BY <1>0, <1>3, NewestIs DEF CleanEntity, StoreTypes, StoreInv
    <3> QED
      BY <1>0, <1>3, <3>1 DEF CleanEntity, StoreTypes, StoreInv
  <2>6. StageTypes'
    BY <1>0, <1>3, NextEntityTyped DEF CleanEntity, StageTypes
  <2> QED
    BY <1>0, <1>3, <2>4, <2>5, <2>6, WorkKept DEF CleanEntity
<1>4. CASE MissingEntity(r)
  <2>1. StageTypes'
    <3>1. failed' \in [Pipelines -> BOOLEAN] /\ NextEntity(r)
      BY <1>0, <1>4 DEF MissingEntity, StageTypes
    <3> QED
      BY <1>0, <3>1, NextEntityTyped
  <2> QED
    BY <1>0, <1>4, <2>1, StoreKept, FilesKept, WorkKept DEF MissingEntity
<1>5. CASE Validate(r)
  <2>1. StageTypes'
    BY <1>0, <1>5, GoTyped DEF Validate, Places, StageTypes
  <2> QED
    BY <1>0, <1>5, <2>1, ValidateWork, StoreKept, FilesKept DEF Validate
<1>6. CASE NothingToValidate(r) \/ Gold(r)
  <2>1. StageTypes'
    BY <1>0, <1>6, GoTyped DEF NothingToValidate, Gold, Places, StageTypes
  <2> QED
    BY <1>0, <1>6, <2>1, StoreKept, FilesKept, WorkKept DEF NothingToValidate, Gold
<1>7. CASE WriteTable(r) \/ WriteQuarantine(r)
  <2>1. /\ work[r].valid \in SUBSET SilverRow /\ Quarantined(work[r]) \in SUBSET SilverRow
        /\ IsFiniteSet(work[r].valid) /\ IsFiniteSet(Quarantined(work[r]))
    BY <1>0 DEF Works, WorkTypes, WorkFinite, Quarantined
  <2>2. FileTypes'
    <3>1. CASE UNCHANGED files
      BY <1>0, <3>1, FilesKept
    <3>2. CASE Overwrite("enrollment", work[r].valid)
      BY <1>0, <2>1, <3>2, OverwriteTyped, EntityList
    <3>3. CASE Overwrite("quarantine", Quarantined(work[r]))
      BY <1>0, <2>1, <3>3, OverwriteTyped
    <3> QED
      BY <1>7, <3>1, <3>2, <3>3 DEF WriteTable, WriteQuarantine
  <2>3. StageTypes'
    BY <1>0, <1>7, GoTyped DEF WriteTable, WriteQuarantine, Places, StageTypes
  <2> QED
    BY <1>0, <1>7, <2>2, <2>3, StoreKept, WorkKept DEF WriteTable, WriteQuarantine
<1>8. CASE Gate(r) \/ Crash(r)
  <2>1. StageTypes'
    BY <1>0, <1>8, GoTyped DEF Gate, Crash, Places, StageTypes
  <2>2. WorkTypes'
    BY <1>0, <1>8, NoWorkTyped, WorkSet DEF Gate, Crash
  <2>3. StoreTypes'
    <3>1. UNCHANGED <<objects, basis>>
          /\ (UNCHANGED used \/ \E e \in DOMAIN Limit : e # "ingests" /\ Use(e))
      BY <1>8 DEF Gate, Crash, Limit
    <3> QED
      BY <1>0, <3>1, StoreKept
  <2> QED
    BY <1>0, <1>8, <2>1, <2>2, <2>3, FilesKept DEF Gate, Crash
<1> QED
  BY <1>1, <1>2, <1>3, <1>4, <1>5, <1>6, <1>7, <1>8 DEF Step

LEMMA NextTypes == TypeInv /\ [Next]_vars => TypeInv'
<1> SUFFICES ASSUME TypeInv, [Next]_vars PROVE TypeInv'
  OBVIOUS
<1>1. ASSUME NEW u \in Units, Ingest(u)
      PROVE  TypeInv'
  BY <1>1, IngestTypes
<1>2. CASE \/ \E r \in Pipelines : Start(r) \/ Resume(r) \/ Step(r) \/ Crash(r)
           \/ UNCHANGED vars
  <2>1. StoreTypes' /\ FileTypes' /\ StageTypes' /\ WorkTypes'
    <3>1. CASE UNCHANGED vars
      BY <3>1, TypeParts, StoreKept, FilesKept, WorkKept DEF vars, StageTypes
    <3> QED
      BY <1>2, <3>1, PipelineTypes
  <2> QED
    BY <2>1 DEF StoreTypes, FileTypes, StageTypes, WorkTypes, TypeInv, TypeOK, Places
<1> QED
  BY <1>1, <1>2 DEF Next

\* Type correctness of the store, the files and the pipelines
THEOREM SilverTypeCorrect == Spec => []TypeOK
<1>1. TypeInv => TypeOK
  BY DEF TypeInv
<1> QED
  BY <1>1, InitTypes, NextTypes, PTL DEF Spec

(***************************************************************************)
(* What Gold reads                                                          *)
(***************************************************************************)

\* Pipelines follow one another.
OneAtATime == \A q, r \in Pipelines : q = r

\* Of the rows B a table was cleaned from, T has the last ingested of every key it still has
HasLatest(T, B) ==
  \A q \in B : KeyOf(q) \in Keys(T) => \E p \in T : KeyOf(p) = KeyOf(q) /\ q.stamp <= p.stamp

\* and no other
OnlyLatest(T, B) == \A p \in T : \A q \in B : KeyOf(q) = KeyOf(p) => q.stamp <= p.stamp

Valid(T, students, dropouts) ==
  /\ \A r, q \in T : KeyOf(r) = KeyOf(q) => r = q
  /\ \A i \in 1..4 : Checked(T, students, dropouts)[i] = {}

TableInv == "enrollment" \in DOMAIN files => HasLatest(files["enrollment"], BasisRows)

\* What validation has computed and written is what Gold will read.
ReadInv(r) ==
  /\ pc[r] \in {"table", "quarantine", "gate", "gold"} => Entities \subseteq DOMAIN files
  /\ pc[r] \in {"table", "quarantine", "gate"} =>
       /\ Valid(work[r].valid, files["student"], files["dropout"])
       /\ OnlyLatest(work[r].valid, BasisRows)
  /\ pc[r] \in {"quarantine", "gate"} => files["enrollment"] = work[r].valid
  /\ pc[r] = "gold" =>
       /\ Valid(files["enrollment"], files["student"], files["dropout"])
       /\ OnlyLatest(files["enrollment"], BasisRows)

QuarantineWritten(r) ==
  \/ Quarantined(work[r]) = {}
  \/ "quarantine" \in DOMAIN files /\ files["quarantine"] = Quarantined(work[r])

\* Where the keys of the cleaned rows are, as long as every validation follows a cleaning
KeepInv(r) ==
  used["resumes"] = 0 =>
    /\ pc[r] = "validation" \/ (pc[r] = "clean" /\ at[r] = 3 /\ ~failed[r]) =>
         "enrollment" \in DOMAIN files /\ files["enrollment"] = drop_exact_duplicates(BasisRows)
    /\ pc[r] \in {"table", "quarantine", "gate"} =>
         /\ Keys(BasisRows) \subseteq Keys(work[r].valid) \cup Keys(Quarantined(work[r]))
         /\ work[r].rowsIn = Cardinality(drop_exact_duplicates(BasisRows))
    /\ pc[r] = "gate" => QuarantineWritten(r)
    /\ pc[r] = "gold" =>
         /\ Keys(BasisRows) \subseteq
              Keys(files["enrollment"]) \cup
                (IF "quarantine" \in DOMAIN files THEN Keys(files["quarantine"]) ELSE {})
         /\ ~Exceeds(Cardinality(Keys(BasisRows) \ Keys(files["enrollment"])),
                     Cardinality(drop_exact_duplicates(BasisRows)))

IInv == TypeInv /\ TableInv /\ \A r \in Pipelines : ReadInv(r) /\ KeepInv(r)

LEMMA BasisTyped ==
  ASSUME TypeInv
  PROVE  BasisRows \in SUBSET SilverRow /\ IsFiniteSet(BasisRows)
<1> DEFINE S == {o \in objects : o.stamp <= basis}
<1>1. S \in SUBSET objects
  OBVIOUS
<1> HIDE DEF S
<1>2. read_all_bronze("enrollment", S) \in SUBSET SilverRow
      /\ IsFiniteSet(read_all_bronze("enrollment", S))
  BY <1>1, ReadTyped
<1> QED
  BY <1>2 DEF BasisRows, S

\* Later ingestions add nothing to what cleaning had before it.
LEMMA IngestKeepsBasis ==
  ASSUME TypeInv, NEW u \in Units, Ingest(u)
  PROVE  BasisRows' = BasisRows
<1>1. PICK c \in Files[u] :
        objects' = objects \cup {[unit |-> u, stamp |-> used["ingests"] + 1, content |-> c]}
  BY IngestTypes
<1>2. basis \in Nat /\ used["ingests"] \in Nat /\ basis <= used["ingests"] /\ basis' = basis
  BY SilverAssumption DEF TypeInv, TypeOK, StoreInv, Ingest
<1>3. {o \in objects : o.stamp <= basis}' = {o \in objects : o.stamp <= basis}
  BY <1>1, <1>2
<1> QED
  BY <1>3 DEF BasisRows

\* Nothing is computed, and the files are left alone.
LEMMA QuietInv ==
  ASSUME IInv, NEW r \in Pipelines, UNCHANGED <<files, BasisRows>>,
         \/ pc'[r] \in {"idle", "silver"}
         \/ pc'[r] = "clean" /\ (at'[r] # 3 \/ failed'[r])
         \/ pc'[r] = "validation" /\ used'["resumes"] # 0
         \/ /\ pc'[r] = pc[r] /\ at'[r] = at[r] /\ failed'[r] = failed[r] /\ work'[r] = work[r]
            /\ used'["resumes"] = used["resumes"]
  PROVE  TableInv' /\ ReadInv(r)' /\ KeepInv(r)'
<1>1. TableInv'
  BY DEF IInv, TableInv
<1>2. CASE \/ pc'[r] \in {"idle", "silver"}
           \/ pc'[r] = "clean" /\ (at'[r] # 3 \/ failed'[r])
           \/ pc'[r] = "validation" /\ used'["resumes"] # 0
  BY <1>1, <1>2 DEF ReadInv, KeepInv
<1>3. CASE /\ pc'[r] = pc[r] /\ at'[r] = at[r] /\ failed'[r] = failed[r] /\ work'[r] = work[r]
           /\ used'["resumes"] = used["resumes"]
  <2>1. Quarantined(work[r])' = Quarantined(work[r])
    BY <1>3 DEF Quarantined
  <2>2. ReadInv(r)'
    BY <1>3 DEF IInv, ReadInv
  <2>3. KeepInv(r)'
    BY <1>3, <2>1 DEF IInv, KeepInv, QuarantineWritten
  <2> QED
    BY <1>1, <2>2, <2>3
<1> QED
  BY <1>2, <1>3

\* Cleaning leaves the latest row of every key, and all keys.
LEMMA CleanInv ==
  ASSUME IInv, TypeInv', NEW r \in Pipelines, CleanEntity(r)
  PROVE  TableInv' /\ ReadInv(r)' /\ KeepInv(r)'
<1> DEFINE e == ENTITIES[at[r]]
           rows == read_all_bronze(e, objects)
<1>0. /\ pc[r] = "clean" /\ StageTypes /\ FileTypes /\ NextEntity(r)
      /\ objects' = objects /\ failed' = failed /\ used' = used /\ work' = work
      /\ Overwrite(e, drop_exact_duplicates(rows))
      /\ basis' = IF e = "enrollment" THEN Newest ELSE basis
  BY TypeParts DEF IInv, CleanEntity
<1>1. rows \in SUBSET SilverRow /\ IsFiniteSet(rows)
  BY ReadTyped DEF IInv
<1>2. /\ DOMAIN files' = DOMAIN files \cup {e} /\ files'[e] = drop_exact_duplicates(rows)
      /\ \A l \in DOMAIN files : l # e => files'[l] = files[l]
  BY <1>0 DEF Overwrite
<1>3. at[r] \in 1..3 /\ failed[r] \in BOOLEAN
  BY <1>0, EntityList DEF StageTypes
<1>4. CASE at[r] = 1
  <2>1. e = "student" /\ BasisRows' = BasisRows
    BY <1>0, <1>4, EntityList DEF BasisRows
  <2>2. pc'[r] = "clean" /\ at'[r] = 2
    BY <1>0, <1>4, EntityList DEF NextEntity, StageTypes
  <2>3. TableInv'
    BY <1>2, <2>1 DEF IInv, TableInv
  <2> QED
    BY <2>2, <2>3 DEF ReadInv, KeepInv
<1>5. CASE at[r] = 2
  <2>1. e = "enrollment" /\ basis' = Newest
    BY <1>0, <1>5, EntityList
  <2>2. BasisRows' = rows
    <3>1. Newest = used["ingests"] /\ \A o \in objects : o.stamp <= used["ingests"]
      BY NewestIs DEF IInv, TypeInv, StoreInv
    <3>2. {o \in objects : o.stamp <= basis}' = objects
      BY <1>0, <2>1, <3>1
    <3> QED
      BY <2>1, <3>2 DEF BasisRows
  <2>3. pc'[r] = "clean" /\ at'[r] = 3
    BY <1>0, <1>5, EntityList DEF NextEntity, StageTypes
  <2>4. files'["enrollment"] = drop_exact_duplicates(BasisRows') /\ "enrollment" \in DOMAIN files'
    BY <1>2, <2>1, <2>2
  <2>5. TableInv'
    <3> HIDE DEF rows
    <3>1. \A q \in rows : \E p \in drop_exact_duplicates(rows) : KeyOf(p) = KeyOf(q) /\ q.stamp <= p.stamp
      BY <1>1, DuplicatesDropped
    <3> QED
      BY <2>2, <2>4, <3>1 DEF TableInv, HasLatest
  <2>6. drop_exact_duplicates(BasisRows)' = drop_exact_duplicates(BasisRows')
    BY DEF drop_exact_duplicates
  <2> QED
    BY <2>3, <2>4, <2>5, <2>6 DEF ReadInv, KeepInv
<1>6. CASE at[r] = 3
  <2>1. e = "dropout" /\ BasisRows' = BasisRows
    BY <1>0, <1>6, EntityList DEF BasisRows
  <2>2. pc'[r] = IF failed[r] THEN "idle" ELSE "validation"
    BY <1>0, <1>6, EntityList DEF NextEntity, StageTypes, Go
  <2>3. TableInv'
    BY <1>2, <2>1 DEF IInv, TableInv
  <2>4. ReadInv(r)'
    BY <2>2 DEF ReadInv
  <2>5. KeepInv(r)'
    <3>1. CASE failed[r]
      BY <2>2, <3>1 DEF KeepInv
    <3>2. CASE ~failed[r]
      <4>1. SUFFICES ASSUME used["resumes"] = 0
                     PROVE  "enrollment" \in DOMAIN files'
                            /\ files'["enrollment"] = drop_exact_duplicates(BasisRows)
        BY <1>0, <2>1, <2>2, <3>2 DEF KeepInv
      <4>2. "enrollment" \in DOMAIN files /\ files["enrollment"] = drop_exact_duplicates(BasisRows)
        BY <1>0, <1>6, <3>2, <4>1 DEF IInv, KeepInv
      <4> QED
        BY <1>2, <2>1, <4>2
    <3> QED
      BY <3>1, <3>2
  <2> QED
    BY <2>3, <2>4, <2>5
<1> QED
  BY <1>3, <1>4, <1>5, <1>6

LEMMA MissingInv ==
  ASSUME IInv, NEW r \in Pipelines, MissingEntity(r)
  PROVE  TableInv' /\ ReadInv(r)' /\ KeepInv(r)'
<1>1. /\ StageTypes /\ pc[r] = "clean" /\ failed' = [failed EXCEPT ![r] = TRUE] /\ NextEntity(r)
      /\ UNCHANGED <<objects, files, basis>>
  BY TypeParts DEF IInv, MissingEntity
<1>2. failed'[r] /\ BasisRows' = BasisRows
  BY <1>1 DEF StageTypes, BasisRows
<1>3. pc'[r] \in {"clean", "idle"}
  BY <1>1, <1>2 DEF NextEntity, Go, StageTypes
<1> QED
  BY <1>1, <1>2, <1>3, QuietInv

\* Validation keeps the latest of each key or removes the key, and its checks hold of what it keeps.
LEMMA ValidateInv ==
  ASSUME IInv, NEW r \in Pipelines, Validate(r)
  PROVE  TableInv' /\ ReadInv(r)' /\ KeepInv(r)'
<1> DEFINE T == files["enrollment"]
           V == work'[r].valid
           Q == Quarantined(work'[r])
<1>0. /\ pc[r] = "validation" /\ pc'[r] = "table" /\ Entities \subseteq DOMAIN files
      /\ UNCHANGED <<objects, files, basis, used>> /\ FileTypes
  BY TypeParts DEF IInv, Validate, Go, StageTypes
<1>1. BasisRows' = BasisRows /\ Q = Quarantined(work[r])'
  BY <1>0 DEF BasisRows, Quarantined
<1>2. T \in SUBSET SilverRow /\ IsFiniteSet(T) /\ "enrollment" \in DOMAIN files
  BY <1>0, EntityList DEF FileTypes, FilesFinite
<1>3. PICK D \in dedupe_enrollment(T) :
        LET bad == Checked(D, files["student"], files["dropout"])
        IN  /\ V = D \ (bad[1] \cup bad[2] \cup bad[3] \cup bad[4])
            /\ V \cup Q = D /\ work'[r].rowsIn = Cardinality(T)
  BY ValidateWork DEF IInv
<1>4. /\ D \in SUBSET T /\ Keys(D) = Keys(T)
      /\ \A p, q \in D : KeyOf(p) = KeyOf(q) => p = q
      /\ \A p \in D, q \in T : KeyOf(q) = KeyOf(p) => q.stamp <= p.stamp
  <2> HIDE DEF T
  <2> QED
    BY <1>2, DedupeTyped
<1>5. Valid(V, files["student"], files["dropout"])
  <2>1. \A i \in 1..4 : Checked(V, files["student"], files["dropout"])[i] = {}
    BY <1>3, CheckedAgain
  <2>2. V \in SUBSET D
    BY <1>3
  <2> HIDE DEF V
  <2> QED
    BY <1>4, <2>1, <2>2 DEF Valid
<1>6. OnlyLatest(V, BasisRows)
  <2>1. HasLatest(T, BasisRows)
    BY <1>2 DEF IInv, TableInv
  <2>2. BasisRows \in SUBSET SilverRow
    BY BasisTyped DEF IInv
  <2>3. ASSUME NEW p \in V, NEW q \in BasisRows, KeyOf(q) = KeyOf(p)
        PROVE  q.stamp <= p.stamp
    <3>1. p \in D /\ p \in T
      BY <1>3, <1>4
    <3>2. KeyOf(q) \in Keys(T)
      BY <2>3, <3>1 DEF Keys
    <3>3. PICK m \in T : KeyOf(m) = KeyOf(q) /\ q.stamp <= m.stamp
      BY <2>1, <3>2 DEF HasLatest
    <3>4. m.stamp <= p.stamp
      BY <1>4, <2>3, <3>1, <3>3
    <3>5. q.stamp \in Nat /\ m.stamp \in Nat /\ p.stamp \in Nat
      BY <1>2, <2>2, <3>1 DEF SilverRow
    <3> QED
      BY <3>3, <3>4, <3>5
  <2> QED
    BY <2>3 DEF OnlyLatest
<1>7. TableInv'
  BY <1>0, <1>1 DEF IInv, TableInv
<1>8. ReadInv(r)'
  <2> HIDE DEF V, Q, T
  <2> QED
    BY <1>0, <1>1, <1>5, <1>6 DEF ReadInv, V
<1>9. KeepInv(r)'
  <2>1. SUFFICES ASSUME used["resumes"] = 0
                 PROVE  /\ Keys(BasisRows) \subseteq Keys(V) \cup Keys(Q)
                        /\ work'[r].rowsIn = Cardinality(drop_exact_duplicates(BasisRows))
    BY <1>0, <1>1 DEF KeepInv
  <2>2. T = drop_exact_duplicates(BasisRows)
    BY <1>0, <2>1 DEF IInv, KeepInv
  <2>3. Keys(BasisRows) \subseteq Keys(T)
    BY <2>2, BasisTyped, DuplicatesDropped DEF IInv, Keys
  <2>4. Keys(D) \subseteq Keys(V) \cup Keys(Q)
    <3>1. V \cup Q = D
      BY <1>3
    <3> HIDE DEF V, Q
    <3> QED
      BY <3>1 DEF Keys
  <2> QED
    BY <1>3, <1>4, <2>2, <2>3, <2>4
<1> QED
  BY <1>7, <1>8, <1>9

LEMMA WriteTableInv ==
  ASSUME IInv, NEW r \in Pipelines, WriteTable(r)
  PROVE  TableInv' /\ ReadInv(r)' /\ KeepInv(r)'
<1>0. /\ pc[r] = "table" /\ pc'[r] = "quarantine" /\ Overwrite("enrollment", work[r].valid)
      /\ UNCHANGED <<objects, work, basis, used>> /\ Entities \subseteq DOMAIN files
  BY TypeParts DEF IInv, WriteTable, Go, StageTypes, ReadInv
<1>1. /\ DOMAIN files' = DOMAIN files \cup {"enrollment"} /\ files'["enrollment"] = work[r].valid
      /\ files'["student"] = files["student"] /\ files'["dropout"] = files["dropout"]
  BY <1>0, EntityList DEF Overwrite
<1>2. BasisRows' = BasisRows /\ Quarantined(work[r])' = Quarantined(work[r])
  BY <1>0 DEF BasisRows, Quarantined
<1>3. /\ Valid(work[r].valid, files["student"], files["dropout"])
      /\ OnlyLatest(work[r].valid, BasisRows)
  BY <1>0 DEF IInv, ReadInv
<1>4. TableInv'
  BY <1>1, <1>2, <1>3 DEF TableInv, HasLatest, OnlyLatest, Keys
<1>5. ReadInv(r)'
  BY <1>0, <1>1, <1>2, <1>3 DEF ReadInv
<1>6. KeepInv(r)'
  BY <1>0, <1>2 DEF IInv, KeepInv
<1> QED
  BY <1>4, <1>5, <1>6

LEMMA WriteQuarantineInv ==
  ASSUME IInv, NEW r \in Pipelines, WriteQuarantine(r)
  PROVE  TableInv' /\ ReadInv(r)' /\ KeepInv(r)'
<1>0. /\ pc[r] = "quarantine" /\ pc'[r] = "gate" /\ Entities \subseteq DOMAIN files
      /\ UNCHANGED <<objects, work, basis, used>>
  BY TypeParts DEF IInv, WriteQuarantine, Go, StageTypes, ReadInv
<1>1. /\ Entities \subseteq DOMAIN files' /\ \A k \in Entities : files'[k] = files[k]
      /\ \/ Quarantined(work[r]) = {}
         \/ "quarantine" \in DOMAIN files' /\ files'["quarantine"] = Quarantined(work[r])
  BY <1>0, EntityList DEF WriteQuarantine, Overwrite
<1>2. BasisRows' = BasisRows /\ Quarantined(work[r])' = Quarantined(work[r])
  BY <1>0 DEF BasisRows, Quarantined
<1>3. TableInv'
  BY <1>0, <1>1, <1>2, EntityList DEF IInv, TableInv
<1>4. ReadInv(r)'
  BY <1>0, <1>1, <1>2, EntityList DEF IInv, ReadInv
<1>5. KeepInv(r)'
  BY <1>0, <1>1, <1>2 DEF IInv, KeepInv, QuarantineWritten
<1> QED
  BY <1>3, <1>4, <1>5

\* The gate lets through what it has compared with all rows read.
LEMMA GateInv ==
  ASSUME IInv, NEW r \in Pipelines, Gate(r)
  PROVE  TableInv' /\ ReadInv(r)' /\ KeepInv(r)'
<1>0. /\ pc[r] = "gate" /\ UNCHANGED <<objects, files, basis, used>>
      /\ pc'[r] = IF GateFails(work[r]) THEN "idle" ELSE "gold"
      /\ WorkTypes
  BY TypeParts DEF IInv, Gate, Go, StageTypes
<1>1. BasisRows' = BasisRows
  BY <1>0 DEF BasisRows
<1>2. CASE GateFails(work[r])
  BY <1>0, <1>1, <1>2, QuietInv
<1>3. CASE ~GateFails(work[r])
  <2> DEFINE V == work[r].valid
             Q == Quarantined(work[r])
  <2>1. pc'[r] = "gold" /\ files["enrollment"] = V
    BY <1>0, <1>3 DEF IInv, ReadInv
  <2>2. TableInv'
    BY <1>0, <1>1 DEF IInv, TableInv
  <2>3. ReadInv(r)'
    BY <1>0, <1>1, <2>1 DEF IInv, ReadInv
  <2>4. ASSUME used["resumes"] = 0
        PROVE  /\ Keys(BasisRows) \subseteq
                    Keys(V) \cup (IF "quarantine" \in DOMAIN files THEN Keys(files["quarantine"]) ELSE {})
               /\ ~Exceeds(Cardinality(Keys(BasisRows) \ Keys(V)),
                           Cardinality(drop_exact_duplicates(BasisRows)))
    <3> DEFINE Lost == Keys(BasisRows) \ Keys(V)
               n == Cardinality(drop_exact_duplicates(BasisRows))
    <3>1. /\ Keys(BasisRows) \subseteq Keys(V) \cup Keys(Q) /\ work[r].rowsIn = n
          /\ QuarantineWritten(r)
      <4>1. KeepInv(r)
        BY DEF IInv
      <4>2. Keys(BasisRows) \subseteq Keys(V) \cup Keys(Q) /\ work[r].rowsIn = n
        BY <1>0, <2>4, <4>1 DEF KeepInv
      <4>3. QuarantineWritten(r)
        BY <1>0, <2>4, <4>1 DEF KeepInv
      <4> QED
        BY <4>2, <4>3
    <3>2. Q = {} => Keys(Q) = {}
      BY DEF Keys
    <3>3. /\ IsFiniteSet(Q) /\ IsFiniteSet(Keys(Q)) /\ Cardinality(Keys(Q)) <= Cardinality(Q)
          /\ Cardinality(Keys(Q)) \in Nat /\ Cardinality(Q) \in Nat
      <4>1. IsFiniteSet(Q)
        BY <1>0 DEF WorkTypes, WorkFinite
      <4> HIDE DEF Q
      <4> QED
        BY <4>1, KeysFinite, FS_CardinalityType
    <3>4. Lost \in SUBSET Keys(Q)
      BY <3>1
    <3>5. Cardinality(Lost) \in Nat /\ Cardinality(Lost) <= Cardinality(Keys(Q))
      <4> HIDE DEF Lost, Q
      <4> QED
        BY <3>3, <3>4, FS_Subset, FS_CardinalityType
    <3>6. n \in Nat
      BY <1>0, <3>1 DEF WorkTypes, Works
    <3>7. ~(4 * Cardinality(Q) > n)
      BY <1>3, <3>1 DEF GateFails, Exceeds
    <3>8. ~(4 * Cardinality(Lost) > n)
      <4> HIDE DEF Lost, Q, n
      <4> QED
        BY <3>3, <3>5, <3>6, <3>7
    <3> QED
      BY <3>1, <3>2, <3>8 DEF Exceeds, QuarantineWritten
  <2>5. KeepInv(r)'
    <3>1. drop_exact_duplicates(BasisRows)' = drop_exact_duplicates(BasisRows)
      BY <1>1 DEF drop_exact_duplicates
    <3> QED
      BY <1>0, <1>1, <2>1, <2>4, <3>1 DEF KeepInv
  <2> QED
    BY <2>2, <2>3, <2>5
<1> QED
  BY <1>2, <1>3

\* Every step of the only pipeline
LEMMA PipelineInv ==
  ASSUME IInv, TypeInv', NEW r \in Pipelines, Start(r) \/ Resume(r) \/ Step(r) \/ Crash(r)
  PROVE  TableInv' /\ ReadInv(r)' /\ KeepInv(r)'
<1>0. StageTypes
  BY TypeParts DEF IInv
<1>1. CASE Start(r) \/ BeginSilver(r) \/ NothingToValidate(r) \/ Gold(r) \/ Crash(r)
  <2>1. UNCHANGED <<objects, files, basis>>
    BY <1>1 DEF Start, BeginSilver, NothingToValidate, Gold, Crash
  <2>2. BasisRows' = BasisRows
    BY <2>1 DEF BasisRows
  <2>3. CASE BeginSilver(r)
    <3>1. pc'[r] = "clean" /\ at'[r] = 1
      BY <1>0, <2>3 DEF BeginSilver, Go, StageTypes
    <3> QED
      BY <2>1, <2>2, <3>1, QuietInv
  <2>4. CASE ~BeginSilver(r)
    <3>1. pc'[r] \in {"idle", "silver"}
      BY <1>0, <1>1, <2>4 DEF Start, NothingToValidate, Gold, Crash, Go, StageTypes
    <3> QED
      BY <2>1, <2>2, <3>1, QuietInv
  <2> QED
    BY <2>3, <2>4
<1>2. CASE Resume(r)
  <2>1. UNCHANGED <<objects, files, basis>> /\ pc'[r] = "validation" /\ used'["resumes"] # 0
    BY <1>0, <1>2 DEF Resume, Go, StageTypes, Use, Limit, IInv, TypeInv, TypeOK
  <2>2. BasisRows' = BasisRows
    BY <2>1 DEF BasisRows
  <2> QED
    BY <2>1, <2>2, QuietInv
<1> QED
  BY <1>1, <1>2, CleanInv, MissingInv, ValidateInv, WriteTableInv, WriteQuarantineInv, GateInv DEF Step

LEMMA IInvHolds ==
  ASSUME OneAtATime
  PROVE  Spec => []IInv
<1>1. Init => IInv
  <2> SUFFICES ASSUME Init PROVE IInv
    OBVIOUS
  <2>1. DOMAIN files = {} /\ \A r \in Pipelines : pc[r] = "idle"
    BY DEF Init
  <2> QED
    BY <2>1, InitTypes DEF IInv, TableInv, ReadInv, KeepInv
<1>2. IInv /\ [Next]_vars => IInv'
  <2> SUFFICES ASSUME IInv, [Next]_vars PROVE IInv'
    OBVIOUS
  <2>1. TypeInv'
    BY NextTypes DEF IInv
  <2>2. ASSUME NEW u \in Units, Ingest(u)
        PROVE  TableInv' /\ \A r \in Pipelines : ReadInv(r)' /\ KeepInv(r)'
    <3>1. /\ UNCHANGED <<files, pc, at, failed, work>> /\ BasisRows' = BasisRows
          /\ used'["resumes"] = used["resumes"]
      BY <2>2, IngestKeepsBasis DEF Ingest, IInv, TypeInv, TypeOK, Use
    <3>2. TableInv'
      BY <3>1 DEF IInv, TableInv
    <3> QED
      BY <3>1, <3>2, QuietInv
  <2>3. ASSUME NEW r \in Pipelines, Start(r) \/ Resume(r) \/ Step(r) \/ Crash(r)
        PROVE  TableInv' /\ \A q \in Pipelines : ReadInv(q)' /\ KeepInv(q)'
    <3>1. TableInv' /\ ReadInv(r)' /\ KeepInv(r)'
      BY <2>1, <2>3, PipelineInv
    <3> QED
      BY <3>1 DEF OneAtATime
  <2>4. CASE UNCHANGED vars
    <3>1. /\ UNCHANGED <<files, pc, at, failed, work, used>> /\ BasisRows' = BasisRows
      BY <2>4 DEF vars, BasisRows
    <3>2. TableInv'
      BY <3>1 DEF IInv, TableInv
    <3> QED
      BY <2>1, <3>1, <3>2, QuietInv DEF IInv
  <2> QED
    BY <2>1, <2>2, <2>3, <2>4 DEF Next, IInv
<1> QED
  BY <1>1, <1>2, PTL DEF Spec

\* Gold reads one row per student and semester, each of which passes the checks against the other tables.
THEOREM ValidatedCorrect ==
  ASSUME OneAtATime
  PROVE  Spec => []GoldReadsValidated
<1>1. IInv => GoldReadsValidated
  BY DEF IInv, ReadInv, Valid, GoldReadsValidated, MayReadGold, GoldInput
<1> QED
  BY <1>1, IInvHolds, PTL

\* The correction ingested last is the one Gold reads, validations repeated alone included.
THEOREM LatestCorrect ==
  ASSUME OneAtATime
  PROVE  Spec => []LatestIngestedWins
<1>1. IInv => LatestIngestedWins
  BY DEF IInv, ReadInv, OnlyLatest, LatestIngestedWins, MayReadGold, GoldInput
<1> QED
  BY <1>1, IInvHolds, PTL

\* No key is lost: it is in the table or in the quarantine file, when no validation was repeated alone.
THEOREM NothingDroppedCorrect ==
  ASSUME OneAtATime
  PROVE  Spec => []NothingDroppedOnFullRuns
<1>1. IInv => NothingDroppedOnFullRuns
  BY DEF IInv, KeepInv, NothingDroppedOnFullRuns, NothingDropped, MayReadGold, GoldInput
<1> QED
  BY <1>1, IInvHolds, PTL

\* Gold never reads a table of which more than the tolerated share was removed, under the same condition.
THEOREM FailClosedCorrect ==
  ASSUME OneAtATime
  PROVE  Spec => []FailClosedOnFullRuns
<1>1. IInv => FailClosedOnFullRuns
  BY DEF IInv, KeepInv, FailClosedOnFullRuns, FailClosed, MayReadGold, GoldInput
<1> QED
  BY <1>1, IInvHolds, PTL
=============================================================================
