----------------------------- MODULE CallOrder -----------------------------
(***************************************************************************)
(* What RFC 8620 section 3.2 asks of a request: its calls are processed    *)
(* one after the other, each on the data and with the results that those   *)
(* before it left.                                                         *)
(***************************************************************************)
EXTENDS MethodCalls

VARIABLES
    calls,      \* the request
    next,       \* the call to process
    written,    \* the account's data
    responses,
    prior,      \* the last result of each call id
    created     \* creation ids, with those the client passed in

vars == <<calls, next, written, responses, prior, created>>

Init ==
    /\ calls \in UNION {[1..n -> Shapes] : n \in 0..MaxCalls}
    /\ next = 1 /\ written = {} /\ responses = <<>>
    /\ prior = [i \in CallId |-> None]
    /\ created \in [TempId -> {None, 0}]

Process ==
    /\ next \in DOMAIN calls
    /\ \E o \in runCall(next, calls[next], prior, created, written) :
          /\ written' = IF o.wrote THEN written \cup {next} ELSE written
          /\ responses' = responses \o Answer(calls[next], o)
          /\ prior' = Remember(prior, calls[next], o)
          /\ created' = harvestCreatedIds(created, calls[next], o)
    /\ next' = next + 1
    /\ UNCHANGED calls

Spec == Init /\ [][Process]_vars
=============================================================================
