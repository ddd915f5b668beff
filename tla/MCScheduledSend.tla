---------------------------- MODULE MCScheduledSend ----------------------------
(***************************************************************************)
(* ScheduledSend for TLC.                                                   *)
(***************************************************************************)
EXTENDS ScheduledSend, TLC

\* Queue entries are interchangeable, and so are drafts.
Symmetry == Permutations(Row) \cup Permutations(Draft)
===============================================================================
