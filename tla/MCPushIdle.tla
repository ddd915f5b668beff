------------------------------ MODULE MCPushIdle ------------------------------
(***************************************************************************)
(* PushIdle for TLC: two accounts, whose streams are the first one's.       *)
(***************************************************************************)
EXTENDS PushIdle

CONSTANTS a1, a2

FirstAccount == [s \in Stream |-> a1]

\* Nothing goes wrong but sockets; or something else may as well.
Weathers == {{}, {"refusal"}, {"leaver", "expiry"}}

\* Two accounts meet without streams, and one meets everything else.
Narrow == IF trouble = {} THEN UNCHANGED stream ELSE subs' \subseteq {a1}

PartSpec == Init /\ [][Next /\ Narrow]_vars /\ Fairness
===============================================================================
