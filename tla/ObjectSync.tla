------------------------------ MODULE ObjectSync ------------------------------
(***************************************************************************)
(* What RFC 8620 synchronisation promises a client, with none of the        *)
(* proxy's machinery: the server has a history of object collections and a  *)
(* client that holds state n holds exactly the collection of state n.       *)
(* There is no log, no eviction, no restart and no diff here.  ChangeLog    *)
(* implements it.                                                           *)
(***************************************************************************)
EXTENDS Integers, Sequences

CONSTANTS Id, Client, Absent

VARIABLES
  snap,      \* snap[n + 1]: the collection at state n, a function on Id
  held       \* held[c]: the state client c holds and its copy of the collection

vars == <<snap, held>>

Current == Len(snap) - 1

Init ==
  /\ snap = <<[i \in Id |-> Absent]>>
  /\ held = [c \in Client |-> [state |-> 0, copy |-> snap[1]]]

\* Any change of the collection gives it a new state.
Change ==
  \E next \in [Id -> (0 .. Current + 1) \cup {Absent}] :
    /\ snap' = Append(snap, next)
    /\ UNCHANGED held

\* A client catches up, by whatever means.
CatchUp(c) ==
  /\ held' = [held EXCEPT ![c] = [state |-> Current, copy |-> snap[Current + 1]]]
  /\ UNCHANGED snap

Next == Change \/ \E c \in Client : CatchUp(c)

Spec == Init /\ [][Next]_vars
===============================================================================
