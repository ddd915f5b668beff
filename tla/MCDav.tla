------------------------------- MODULE MCDav -------------------------------
(* Model values for Dav: requests and file names are interchangeable. *)
EXTENDS Dav, TLC

CONSTANTS r1, r2, r3, h1, h2, c1

MCSymmetry == Permutations({r1, r2, r3}) \cup Permutations({h1, h2})

\* Two calls for an edit that races another, or an answer that fails; three where a
\* listing, a write and what relies on the listing meet.
Budgets == [card |-> 2, cal |-> 3, guest |-> 2]
=============================================================================
