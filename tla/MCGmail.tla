------------------------------ MODULE MCGmail ------------------------------
(* Model values for GmailPush: the clients are interchangeable.  In a part  *)
(* of the behaviours the calls of the clients overlap and nobody hints, in  *)
(* another one client calls beside the push and the history stays, in the   *)
(* third, which is shorter, all overlap and an account may be new.          *)
EXTENDS GmailPush, TLC

VARIABLE part

CONSTANTS r1, r2

MCSymmetry == Permutations({r1, r2})

\* A client nothing was ever answered to.
Silent(r) == call[r] = Idle /\ client[r].want = {} /\ client[r].state = [h |-> 0, r |-> 0]

PartInit ==
    /\ Init /\ part \in {"clients", "push", "all"}
    /\ part # "all" => cursor = 0
PartNext ==
    /\ Next /\ UNCHANGED part
    /\ part = "clients" => ~ pending'
    /\ part = "push" => \E r \in Request : Silent(r)' /\ UNCHANGED oldest
    /\ part = "all" => spent' < Budget
PartSpec == PartInit /\ [][PartNext]_<<vars, part>>
=============================================================================
