------------------------------- MODULE Router -------------------------------
(***************************************************************************)
(* dispatch: a run of reads that name no earlier call goes out together,   *)
(* anything else runs alone.  Handlers answer in any order; the responses  *)
(* are recorded in the order of the request once all have answered.        *)
(***************************************************************************)
EXTENDS MethodCalls

CONSTANT MaxParallel   \* MAX_PARALLEL_CALLS

ASSUME RouterAssumption == MaxParallel \in Nat \ {0}

VARIABLES
    calls,      \* the request
    next,       \* the first call whose answer is not recorded
    written,    \* the account's data, as the handlers find them
    responses,
    prior,      \* the last result recorded for each call id
    created,    \* creation ids
    flight      \* the calls that have been started: call -> {}, or {its outcome}

request == <<calls, next, responses, prior, created>>
vars == <<request, written, flight>>

\* Conservative: whether the name was ever created is not asked.
hasCrossCallReference(c) == c.ref # None \/ c.use # None

\* Mutant of isParallelSafe: what a read refers to is forgotten.
SafeByName(c) == c.name \in Reading \cup Unknown

isParallelSafe(c) == c.name \in Reading \cup Unknown /\ ~hasCrossCallReference(c)

\* The reads that start at n, up to MaxParallel of them.
InGroup(n, e) == \A k \in n..e : k \in DOMAIN calls /\ isParallelSafe(calls[k])

\* A mutant of Run: without the ceiling.
RunUncapped(n) == {e \in n..Len(calls) : InGroup(n, e)}

Run(n) == {e \in n..(n + MaxParallel - 1) : InGroup(n, e)}

\* A mutant of Group: a call that may not run beside others is left out.
ReadsOnly(n) == Run(n)

\* One call alone, or a run of two or more.
Group(n) == {n} \cup Run(n)

Dispatch ==
    /\ next \in DOMAIN calls /\ flight = <<>>
    /\ flight' = [k \in Group(next) |-> {}]
    /\ UNCHANGED <<request, written>>

Handle(k) ==
    /\ k \in DOMAIN flight /\ flight[k] = {}
    /\ \E o \in runCall(k, calls[k], prior, created, written) :
          /\ flight' = [flight EXCEPT ![k] = {o}]
          /\ written' = IF o.wrote THEN written \cup {k} ELSE written
    /\ UNCHANGED request

AllAnswered == \A k \in DOMAIN flight : flight[k] # {}

Record ==
    /\ next \in DOMAIN flight /\ AllAnswered
    /\ \E o \in flight[next] :
          /\ responses' = responses \o Answer(calls[next], o)
          /\ prior' = Remember(prior, calls[next], o)
          /\ created' = harvestCreatedIds(created, calls[next], o)
    /\ next' = next + 1
    /\ flight' = [k \in DOMAIN flight \ {next} |-> flight[k]]
    /\ UNCHANGED <<calls, written>>

Init ==
    /\ calls \in UNION {[1..n -> Shapes] : n \in 0..MaxCalls}
    /\ next = 1 /\ written = {} /\ responses = <<>> /\ flight = <<>>
    /\ prior = [i \in CallId |-> None]
    /\ created \in [TempId -> {None, 0}]

Next == Dispatch \/ Record \/ \E k \in 1..MaxCalls : Handle(k)

Spec == Init /\ [][Next]_vars

\* Every handler settles, and what awaits it goes on.
Fairness == WF_vars(Dispatch) /\ WF_vars(Record) /\ \A k \in 1..MaxCalls : WF_vars(Handle(k))
FairSpec == Spec /\ Fairness

-----------------------------------------------------------------------------
(* Properties.                                                             *)

\* The cursor goes forward through the request, at most two responses stand for a call, and
\* no more than MaxParallel handlers run.
TypeOK ==
    /\ next \in 1..(Len(calls) + 1) /\ written \subseteq DOMAIN calls
    /\ Len(responses) \in (next - 1)..(2 * next)
    /\ DOMAIN flight \subseteq next..(next + MaxParallel - 1)

\* The writes of the calls that are answered.
Recorded == {k \in written : k < next}

\* The responses are those of calls processed one after the other (RFC 8620 section
\* 3.2, quoted at router.ts:90-93), whatever runs beside what.
InOrder == INSTANCE CallOrder
    WITH calls <- calls, next <- next, written <- Recorded,
         responses <- responses, prior <- prior, created <- created
\* Whatever runs beside what, a request is processed as CallOrder does.
ImplementsCallOrder == InOrder!Spec

\* Every call of a request is answered.
EveryCallAnswered == <>(next > Len(calls))
=============================================================================
