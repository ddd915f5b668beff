------------------------------- MODULE MCMail -------------------------------
(* Two folders, three letters, and every kind of call on them: in one part  *)
(* of the behaviours calls that read and the thread index, beside what      *)
(* other clients change; in another calls that change, beside them; in the  *)
(* third calls that change beside the thread index.                         *)
EXTENDS Mail

VARIABLE part

CONSTANTS r1, r2, m1, m2, m3, inbox, arch, box

Mail2 == {[at |-> inbox, uid |-> 1, msg |-> m1, seen |-> FALSE],
          [at |-> inbox, uid |-> 2, msg |-> m2, seen |-> FALSE]}

Perms == Permutations(Request)

\* inbox is mailbox 1 or 2, as SetToSeq orders the folders.
BoxOf(p) == Index(p)
A == BoxOf(arch)
I == BoxOf(inbox)

NoMove == [make |-> None, msg |-> None, move |-> None, kill |-> None]
MoveBoth == [NoMove EXCEPT !.move = [src |-> I, uids |-> {1, 2}, dest |-> A, mark |-> TRUE]]
MarkOne == [NoMove EXCEPT !.move = [src |-> I, uids |-> {1}, dest |-> None, mark |-> TRUE]]
KillOne == [NoMove EXCEPT !.kill = [src |-> I, uids |-> {2}, ident |-> I]]
MakeMove == [MoveBoth EXCEPT !.make = A, !.msg = m3]

Sets == {KillOne, MakeMove}
Copies == {[src |-> I, uid |-> 1, dest |-> A, mark |-> TRUE, drop |-> TRUE]}
Submits == {[src |-> I, uid |-> 2, then |-> t, dest |-> A] : t \in {"destroy", "move"}}
Queries == {[box |-> I, meta |-> FALSE], [box |-> None, meta |-> TRUE]}
Gets == {[box |-> I, uids |-> {1, 2}]}
Boxes == {[act |-> "rename", to |-> box, box |-> A, removeEmails |-> FALSE],
          [act |-> "destroy", to |-> None, box |-> A, removeEmails |-> TRUE],
          [act |-> "create", to |-> box, box |-> None, removeEmails |-> FALSE]}

Without(ops) == \A r \in Request : req'[r].op \notin ops

Changing == {"set", "copy", "submit", "boxset"}
PartInit == Init /\ part \in {"read", "change", "index"}
PartNext ==
    /\ Next /\ UNCHANGED part
    /\ part = "read" => Without(Changing)
    /\ part = "change" => Without({"query", "get", "thread"})
    /\ part = "index" => Without({"query", "get"}) /\ others' = 0
PartSpec == PartInit /\ [][PartNext]_<<vars, part>>
=============================================================================
