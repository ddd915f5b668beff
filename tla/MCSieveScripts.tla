--------------------------- MODULE MCSieveScripts ---------------------------
(* One session, two names: every request, every failure, every start.      *)
EXTENDS SieveScripts, TLC

CONSTANTS s1
=============================================================================
