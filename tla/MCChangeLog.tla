----------------------------- MODULE MCChangeLog ------------------------------
(***************************************************************************)
(* ChangeLog for TLC: ids and clients are model values.                     *)
(***************************************************************************)
EXTENDS ChangeLog, TLC

\* Clients are interchangeable.  Ids are too: nothing orders them but the log.
Symmetry == Permutations(Client) \cup Permutations(Id)
===============================================================================
