------------------------------ MODULE MCImapPool ------------------------------
(***************************************************************************)
(* ImapPool for TLC.                                                        *)
(***************************************************************************)
EXTENDS ImapPool

CONSTANTS interactive, bulk

\* A spare interactive slot, so that a scan meets several entries; one bulk
\* slot, where nested requests contend.
TwoSlots == [r \in Role |-> IF r = interactive THEN 2 ELSE 1]
===============================================================================
