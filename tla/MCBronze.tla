------------------------------- MODULE MCBronze -------------------------------
(***************************************************************************)
(* An instance of Bronze for TLC: one unit that must have a source and one    *)
(* semester file, two versions of each.                                      *)
(***************************************************************************)
EXTENDS Bronze

MCContents == {"v1", "v2"}

MCSuspect == {"v2"}
=============================================================================
