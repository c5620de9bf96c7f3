----------------------------- MODULE BronzeStore -----------------------------
(***************************************************************************)
(* What the Bronze layer promises Silver, however ingestions end: objects    *)
(* are only ever added, each with a later ingestion time than all before it, *)
(* and none is changed or removed, except that the whole store may be lost   *)
(* with its volume.                                                         *)
(*                                                                          *)
(* Bronze implements this specification; Silver reads such a store.          *)
(***************************************************************************)
EXTENDS Naturals

CONSTANTS
  Units,     \* the (entity, partition_key) units of ingestion
  Stamps,    \* the ingestion times
  Contents   \* what an object may hold

VARIABLE objects

Object == [unit: Units, stamp: Stamps, content: Contents]

Init == objects = {}

\* A new object; its rows carry the time t as _ingested_at
Add(u, t, c) ==
  /\ \A o \in objects : o.stamp < t
  /\ objects' = objects \cup {[unit |-> u, stamp |-> t, content |-> c]}

Lose == objects' = {}

Next ==
  \/ \E u \in Units, t \in Stamps, c \in Contents : Add(u, t, c)
  \/ Lose

Spec == Init /\ [][Next]_objects
=============================================================================
