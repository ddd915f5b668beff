------------------------------ MODULE MCRouter ------------------------------
(* Fourteen calls: reads and writes that name each other's results and creations, call ids
   that are given twice, a name no call creates, a path that is not there, an unknown method. *)
EXTENDS Router

CONSTANTS a, b, t, Get, Set, Odd

Plain(name, id) == [name |-> name, id |-> id, ref |-> None, use |-> None, make |-> None]
Of(id, name, path) == [of |-> id, name |-> name, path |-> path]

MCShapes ==
    {[Plain(Get, i) EXCEPT !.ref = r] :
        i \in {a, b}, r \in {None, Of(a, Get, "ids"), Of(b, Set, "created")}}
    \cup {[Plain(Get, a) EXCEPT !.use = t], [Plain(Get, a) EXCEPT !.ref = Of(b, Set, "ids")], Plain(Odd, a)}
    \cup {[Plain(Set, b) EXCEPT !.use = u, !.make = m] : u \in {None, t}, m \in {None, t}}
    \cup {[Plain(Set, b) EXCEPT !.ref = Of(a, Get, "ids")]}
=============================================================================
