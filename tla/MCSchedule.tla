----------------------------- MODULE MCSchedule -----------------------------
(***************************************************************************)
(* Four events, two of which have an initiator that waits, and delays of  *)
(* up to three units.                                                      *)
(***************************************************************************)
EXTENDS Schedule
=============================================================================
