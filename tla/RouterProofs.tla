----------------------------- MODULE RouterProofs -----------------------------
(***************************************************************************)
(* For any methods, any request and any ceiling: the router's groups answer *)
(* as calls processed in order do, and a write never runs beside a call.    *)
(***************************************************************************)
EXTENDS Router, SequenceTheorems, TLAPS

\* s is a sequence, of whatever elements.
Sequential(s) == s \in Seq({s[i] : i \in 1 .. Len(s)})

\* A request's calls, and the responses there are for them.
RequestInv ==
  /\ calls \in Seq(Shapes) /\ Len(calls) <= MaxCalls
  /\ next \in 1 .. Len(calls) + 1
  /\ Sequential(responses)
  /\ Len(responses) \in next - 1 .. 2 * (next - 1)

\* The calls in flight are consecutive, from next on: one call, or reads that
\* name no other.
GroupInv ==
  /\ DOMAIN flight \subseteq (next .. next + MaxParallel - 1) \cap DOMAIN calls
  /\ \A k \in DOMAIN flight : next .. k \subseteq DOMAIN flight
  /\ DOMAIN flight = {next} \/ \A k \in DOMAIN flight : isParallelSafe(calls[k])

\* What a call has come to is what it could come to by itself, after those that
\* are recorded.
OutcomeInv ==
  \A k \in DOMAIN flight :
    flight[k] = {} \/ \E o \in runCall(k, calls[k], prior, created, Recorded) : flight[k] = {o}

\* The writes are those of recorded calls, and of outcomes not recorded yet.
WrittenInv ==
  /\ written \subseteq DOMAIN calls
  /\ \A k \in written : k < next \/ k \in DOMAIN flight
  /\ \A k \in DOMAIN flight : k \in written <=> \E o \in flight[k] : o.wrote

RouterInv == RequestInv /\ GroupInv /\ OutcomeInv /\ WrittenInv
-------------------------------------------------------------------------------
(* Sequences *)

\* A request is a sequence of calls.
LEMMA RequestsAreSequences ==
  ASSUME NEW S, NEW n \in Nat, NEW f \in [1 .. n -> S]
  PROVE  f \in Seq(S) /\ Len(f) = n
<1>1. f \in Seq(S)
  BY SeqDef
<1>2. DOMAIN f = 1 .. n /\ DOMAIN f = 1 .. Len(f) /\ Len(f) \in Nat
  BY <1>1, LenProperties
<1>. QED
  BY <1>1, <1>2

\* Responses are added at the end.
LEMMA Appended ==
  ASSUME NEW s, NEW x, NEW y, NEW t \in {<<x>>, <<x, y>>}, Sequential(s)
  PROVE  /\ Sequential(s \o t)
         /\ Len(s) \in Nat /\ Len(s \o t) \in {Len(s) + 1, Len(s) + 2}
<1>. DEFINE S == {s[i] : i \in 1 .. Len(s)} \cup {x, y}
            r == s \o t
<1>1. s \in Seq(S) /\ t \in Seq(S) /\ Len(t) \in {1, 2}
  <2>1. s \in Seq(S)
    BY SeqMonotonic DEF Sequential
  <2>2. x \in S /\ y \in S
    OBVIOUS
  <2>. HIDE DEF S
  <2>3. CASE t = <<x>>
    BY <2>1, <2>2, <2>3
  <2>4. CASE t = <<x, y>>
    BY <2>1, <2>2, <2>4
  <2>. QED
    BY <2>3, <2>4
<1>2. r \in Seq(S) /\ Len(r) = Len(s) + Len(t) /\ Len(s) \in Nat
  BY <1>1, ConcatProperties, LenProperties
<1>3. r \in [1 .. Len(r) -> S] /\ Len(r) \in Nat
  BY <1>2, LenProperties
<1>. HIDE DEF r, S
<1>4. r \in [1 .. Len(r) -> {r[i] : i \in 1 .. Len(r)}]
  BY <1>3
<1>5. r \in Seq({r[i] : i \in 1 .. Len(r)})
  BY <1>3, <1>4, RequestsAreSequences
<1>6. Sequential(r)
  BY <1>5 DEF Sequential
<1>. QED
  BY <1>1, <1>2, <1>6 DEF r
-------------------------------------------------------------------------------
(* Calls *)

\* A read that names no earlier call comes to the same whatever was recorded, and
\* writes nothing.
LEMMA SafeCalls ==
  ASSUME NEW c \in Call, isParallelSafe(c), NEW n, NEW p, NEW r, NEW w
  PROVE  /\ c.name \notin Creating
         /\ runCall(n, c, p, r, w) = Outcomes(n, c, [arg |-> None, used |-> None], w)
         /\ \A o \in runCall(n, c, p, r, w) : o.wrote = FALSE
<1>1. /\ c.ref = None /\ c.use = None
      /\ \/ c.name \in Unknown /\ c.name \notin Reading
         \/ c.name \in Reading /\ c.name \notin Unknown
      /\ c.name \notin Creating
  BY CallsAssumption DEF isParallelSafe, hasCrossCallReference
<1>2. runCall(n, c, p, r, w) = Outcomes(n, c, [arg |-> None, used |-> None], w)
  BY <1>1 DEF runCall, resolveArgs
<1>3. ASSUME NEW a PROVE \A o \in Outcomes(n, c, a, w) : o.wrote = FALSE
  <2>1. CASE c.name \in Unknown /\ c.name \notin Reading
    <3>1. Outcomes(n, c, a, w) = {Failure("unknownMethod", FALSE)}
      BY <1>1, <2>1 DEF Outcomes
    <3>. QED
      BY <3>1 DEF Failure
  <2>2. CASE c.name \in Reading /\ c.name \notin Unknown
    <3>1. Outcomes(n, c, a, w) =
            {Failure("serverFail", FALSE),
             [name |-> c.name, result |-> [ids |-> w, given |-> a], side |-> FALSE, wrote |-> FALSE]}
      BY <1>1, <2>2 DEF Outcomes
    <3>. QED
      BY <3>1 DEF Failure
  <2>. QED
    BY <1>1, <2>1, <2>2
<1>. QED
  BY <1>1, <1>2, <1>3

\* Every call of a request has the shape of one.
LEMMA CallsOfRequest ==
  ASSUME RequestInv
  PROVE  DOMAIN calls = 1 .. Len(calls) /\ Len(calls) \in Nat /\ \A k \in DOMAIN calls : calls[k] \in Call
<1>1. DOMAIN calls = 1 .. Len(calls) /\ calls \in [1 .. Len(calls) -> Shapes] /\ Len(calls) \in Nat
  BY LenProperties DEF RequestInv
<1>. QED
  BY <1>1, CallsAssumption

\* While a group is unanswered, or reads, the data are those of recorded calls.
LEMMA DataAsRecorded ==
  ASSUME RouterInv, NEW k \in DOMAIN flight, flight[k] = {} \/ isParallelSafe(calls[k])
  PROVE  written = Recorded
<1>1. RequestInv /\ GroupInv /\ OutcomeInv /\ WrittenInv
  BY DEF RouterInv
<1>2. \A j \in DOMAIN calls : calls[j] \in Call
  BY <1>1, CallsOfRequest
<1>3. DOMAIN flight \subseteq DOMAIN calls
  BY <1>1 DEF GroupInv
<1>4. ASSUME NEW j \in DOMAIN flight PROVE j \notin written
  <2>1. CASE isParallelSafe(calls[j])
    <3>. DEFINE c == calls[j]
    <3>0. c \in Call /\ isParallelSafe(c)
      BY <1>2, <1>3, <2>1
    <3>. HIDE DEF c
    <3>1. \A o \in runCall(j, c, prior, created, Recorded) : o.wrote = FALSE
      BY <3>0, SafeCalls
    <3>2. \A o \in flight[j] : o \in runCall(j, c, prior, created, Recorded)
      BY <1>1 DEF OutcomeInv, c
    <3>. QED
      BY <1>1, <3>1, <3>2 DEF WrittenInv
  <2>2. CASE flight[j] = {}
    BY <1>1, <2>2 DEF WrittenInv
  <2>3. CASE DOMAIN flight = {next}
    <3>1. j = k
      BY <2>3
    <3>. QED
      BY <2>1, <2>2, <3>1
  <2>. QED
    BY <1>1, <2>1, <2>3 DEF GroupInv
<1>. QED
  BY <1>1, <1>4 DEF WrittenInv, Recorded
\* CallOrder's calls are the router's.
LEMMA SameCalls ==
  ASSUME NEW n, NEW c, NEW p, NEW r, NEW w, NEW o
  PROVE  /\ InOrder!runCall(n, c, p, r, w) = runCall(n, c, p, r, w)
         /\ InOrder!Answer(c, o) = Answer(c, o)
         /\ InOrder!Remember(p, c, o) = Remember(p, c, o)
         /\ InOrder!harvestCreatedIds(r, c, o) = harvestCreatedIds(r, c, o)
<1>1. InOrder!runCall(n, c, p, r, w) = runCall(n, c, p, r, w)
  BY DEF InOrder!runCall, InOrder!Refused, InOrder!Failure, InOrder!Outcomes, InOrder!resolveArgs,
         InOrder!jsonPointer, runCall, Refused, Failure, Outcomes, resolveArgs, jsonPointer
<1>2. InOrder!Answer(c, o) = Answer(c, o)
  BY DEF InOrder!Answer, InOrder!Response, InOrder!Implicit, Answer, Response, Implicit
<1>3. InOrder!Remember(p, c, o) = Remember(p, c, o)
  BY DEF InOrder!Remember, Remember
<1>4. InOrder!harvestCreatedIds(r, c, o) = harvestCreatedIds(r, c, o)
  BY DEF InOrder!harvestCreatedIds, harvestCreatedIds
<1>. QED
  BY <1>1, <1>2, <1>3, <1>4
-------------------------------------------------------------------------------
(* Steps *)

\* A group is started: nothing of it has happened.
LEMMA DispatchKeeps ==
  ASSUME RouterInv, Dispatch
  PROVE  RouterInv' /\ UNCHANGED InOrder!vars
<1>1. RequestInv /\ GroupInv /\ OutcomeInv /\ WrittenInv
  BY DEF RouterInv
<1>2. /\ next \in DOMAIN calls /\ DOMAIN flight = {} /\ flight' = [k \in Group(next) |-> {}]
      /\ UNCHANGED <<calls, next, responses, prior, created, written>>
  BY DEF Dispatch, request
<1>3. DOMAIN calls = 1 .. Len(calls) /\ Len(calls) \in Nat /\ next \in Nat /\ MaxParallel \in Nat \ {0}
  BY <1>1, <1>2, CallsOfRequest, RouterAssumption
<1>4. DOMAIN flight' = Group(next)
  BY <1>2
<1>5. \A k \in Group(next) : /\ k \in (next .. next + MaxParallel - 1) \cap DOMAIN calls
                             /\ next .. k \subseteq Group(next)
  <2>. SUFFICES ASSUME NEW k \in Group(next)
                PROVE  /\ k \in (next .. next + MaxParallel - 1) \cap DOMAIN calls
                       /\ next .. k \subseteq Group(next)
    OBVIOUS
  <2>1. CASE k = next
    BY <1>2, <1>3, <2>1 DEF Group
  <2>2. CASE k \in Run(next)
    BY <1>3, <2>2 DEF Group, Run, InGroup
  <2>. QED
    BY <2>1, <2>2 DEF Group
<1>6. Group(next) = {next} \/ \A k \in Group(next) : isParallelSafe(calls[k])
  <2>1. CASE Run(next) = {}
    BY <2>1 DEF Group
  <2>2. ASSUME NEW e \in Run(next) PROVE \A k \in Group(next) : isParallelSafe(calls[k])
    <3>1. isParallelSafe(calls[next])
      BY <1>3, <2>2 DEF Run, InGroup
    <3>2. \A k \in Run(next) : isParallelSafe(calls[k])
      BY <1>3 DEF Run, InGroup
    <3>. QED
      BY <3>1, <3>2 DEF Group
  <2>. QED
    BY <2>1, <2>2
<1>7. Recorded' = Recorded
  BY <1>2 DEF Recorded
<1>8. RequestInv'
  BY <1>1, <1>2 DEF RequestInv
<1>9. GroupInv'
  BY <1>2, <1>4, <1>5, <1>6 DEF GroupInv, isParallelSafe, hasCrossCallReference
<1>10. OutcomeInv'
  BY <1>2, <1>4 DEF OutcomeInv
<1>11. WrittenInv'
  <2>1. \A k \in written : k < next
    BY <1>1, <1>2 DEF WrittenInv
  <2>2. \A k \in Group(next) : k \notin written /\ flight'[k] = {}
    BY <1>2, <1>3, <1>5, <2>1
  <2>. QED
    BY <1>1, <1>2, <1>4, <2>1, <2>2 DEF WrittenInv
<1>. QED
  BY <1>2, <1>7, <1>8, <1>9, <1>10, <1>11 DEF RouterInv, InOrder!vars

\* A handler answers: on the data it would find if the calls before it were done.
LEMMA HandleKeeps ==
  ASSUME RouterInv, NEW k, Handle(k)
  PROVE  RouterInv' /\ UNCHANGED InOrder!vars
<1>1. RequestInv /\ GroupInv /\ OutcomeInv /\ WrittenInv
  BY DEF RouterInv
<1>2. PICK o \in runCall(k, calls[k], prior, created, written) :
        /\ flight' = [flight EXCEPT ![k] = {o}]
        /\ written' = IF o.wrote THEN written \cup {k} ELSE written
  BY DEF Handle
<1>3. /\ k \in DOMAIN flight /\ flight[k] = {}
      /\ UNCHANGED <<calls, next, responses, prior, created>>
  BY DEF Handle, request
<1>4. written = Recorded
  BY <1>3, DataAsRecorded
<1>5. /\ DOMAIN flight' = DOMAIN flight /\ flight'[k] = {o}
      /\ \A j \in DOMAIN flight \ {k} : flight'[j] = flight[j]
  BY <1>2, <1>3
<1>6. k \in DOMAIN calls /\ k \in Nat /\ next \in Nat /\ k >= next
  BY <1>1, <1>3, CallsOfRequest DEF GroupInv, RequestInv
<1>7. Recorded' = Recorded
  BY <1>2, <1>3, <1>6 DEF Recorded
<1>8. RequestInv' /\ GroupInv'
  BY <1>1, <1>3, <1>5 DEF RequestInv, GroupInv, isParallelSafe, hasCrossCallReference
<1>9. OutcomeInv'
  BY <1>1, <1>2, <1>3, <1>4, <1>5, <1>7 DEF OutcomeInv
<1>10. WrittenInv'
  <2>1. k \notin written
    BY <1>1, <1>3 DEF WrittenInv
  <2>2. \A j \in DOMAIN flight : j # k => (j \in written' <=> j \in written)
    BY <1>2
  <2>3. k \in written' <=> o.wrote
    BY <1>2, <2>1
  <2>4. \A j \in DOMAIN flight' : j \in written' <=> \E q \in flight'[j] : q.wrote
    BY <1>1, <1>5, <2>2, <2>3 DEF WrittenInv
  <2>5. written' \subseteq DOMAIN calls /\ \A j \in written' : j < next \/ j \in DOMAIN flight
    BY <1>1, <1>2, <1>3, <1>6 DEF WrittenInv
  <2>. QED
    BY <1>3, <1>5, <2>4, <2>5 DEF WrittenInv
<1>. QED
  BY <1>3, <1>7, <1>8, <1>9, <1>10 DEF RouterInv, InOrder!vars

\* A result is recorded: the call is processed, in its turn.
LEMMA RecordKeeps ==
  ASSUME RouterInv, Record
  PROVE  RouterInv' /\ InOrder!Process
<1>1. RequestInv /\ GroupInv /\ OutcomeInv /\ WrittenInv
  BY DEF RouterInv
<1>2. PICK o \in flight[next] :
        /\ responses' = responses \o Answer(calls[next], o)
        /\ prior' = Remember(prior, calls[next], o)
        /\ created' = harvestCreatedIds(created, calls[next], o)
  BY DEF Record
<1>3. /\ next \in DOMAIN flight /\ next' = next + 1
      /\ flight' = [k \in DOMAIN flight \ {next} |-> flight[k]]
      /\ UNCHANGED <<calls, written>>
  BY DEF Record
<1>4. /\ flight[next] = {o} /\ o \in runCall(next, calls[next], prior, created, Recorded)
  BY <1>1, <1>2, <1>3 DEF OutcomeInv
<1>5. /\ next \in DOMAIN calls /\ next \in Nat /\ DOMAIN calls = 1 .. Len(calls) /\ Len(calls) \in Nat
      /\ \A k \in DOMAIN calls : calls[k] \in Call
      /\ DOMAIN flight \subseteq DOMAIN calls
  BY <1>1, <1>3, CallsOfRequest DEF GroupInv, RequestInv
<1>6. Recorded' = IF o.wrote THEN Recorded \cup {next} ELSE Recorded
  <2>1. next \in written <=> o.wrote
    BY <1>1, <1>3, <1>4 DEF WrittenInv
  <2>2. Recorded' = {k \in written : k < next + 1}
    BY <1>3 DEF Recorded
  <2>3. \A k \in written : k \in Nat
    BY <1>1, <1>5 DEF WrittenInv
  <2>4. \A k \in written : k < next + 1 <=> k < next \/ k = next
    BY <1>5, <2>3
  <2>. QED
    BY <2>1, <2>2, <2>4 DEF Recorded
<1>7. InOrder!Process
  <2>1. o \in InOrder!runCall(next, calls[next], prior, created, Recorded)
    BY <1>4, SameCalls
  <2>2. /\ responses' = responses \o InOrder!Answer(calls[next], o)
        /\ prior' = InOrder!Remember(prior, calls[next], o)
        /\ created' = InOrder!harvestCreatedIds(created, calls[next], o)
    BY <1>2, SameCalls
  <2>. QED
    BY <1>3, <1>5, <1>6, <2>1, <2>2 DEF InOrder!Process
<1>8. /\ DOMAIN flight' = DOMAIN flight \ {next}
      /\ \A k \in DOMAIN flight' : flight'[k] = flight[k]
  BY <1>3
<1>9. RequestInv'
  <2>. DEFINE t == Answer(calls[next], o)
              x == Response(calls[next], o)
              y == Implicit(calls[next])
  <2>1. t \in {<<x>>, <<x, y>>}
    BY DEF Answer
  <2>. HIDE DEF t, x, y
  <2>2. /\ Sequential(responses \o t)
        /\ Len(responses) \in Nat /\ Len(responses \o t) \in {Len(responses) + 1, Len(responses) + 2}
    <3>1. Sequential(responses)
      BY <1>1 DEF RequestInv
    <3>. QED
      BY <2>1, <3>1, Appended
  <2>3. responses' = responses \o t
    BY <1>2 DEF t
  <2>4. Sequential(responses)'
    BY <2>2, <2>3 DEF Sequential
  <2>5. Len(responses') \in next' - 1 .. 2 * (next' - 1)
    <3>1. /\ Len(responses) \in next - 1 .. 2 * (next - 1)
          /\ Len(responses') \in {Len(responses) + 1, Len(responses) + 2}
      BY <1>1, <2>2, <2>3 DEF RequestInv
    <3>. QED
      BY <1>3, <1>5, <2>2, <3>1
  <2>. QED
    BY <1>1, <1>3, <1>5, <2>4, <2>5 DEF RequestInv
<1>10. GroupInv'
  <2>1. \A k \in DOMAIN flight \ {next} : k \in Nat /\ k > next
    BY <1>1, <1>5 DEF GroupInv
  <2>2. DOMAIN flight' \subseteq (next' .. next' + MaxParallel - 1) \cap DOMAIN calls'
    BY <1>1, <1>3, <1>5, <1>8, <2>1, RouterAssumption DEF GroupInv
  <2>3. \A k \in DOMAIN flight' : next' .. k \subseteq DOMAIN flight'
    BY <1>1, <1>3, <1>5, <1>8, <2>1 DEF GroupInv
  <2>4. \A k \in DOMAIN flight' : isParallelSafe(calls[k])
    BY <1>1, <1>8 DEF GroupInv
  <2>. QED
    BY <1>3, <2>2, <2>3, <2>4 DEF GroupInv, isParallelSafe, hasCrossCallReference
<1>11. OutcomeInv'
  <2>. SUFFICES ASSUME NEW k \in DOMAIN flight'
                PROVE  flight'[k] = {} \/ \E q \in runCall(k, calls[k], prior', created', Recorded') :
                                            flight'[k] = {q}
    BY <1>3 DEF OutcomeInv
  <2>1. k \in DOMAIN flight /\ k # next /\ flight'[k] = flight[k] /\ calls[k] \in Call
    BY <1>5, <1>8
  <2>2. isParallelSafe(calls[k]) /\ isParallelSafe(calls[next])
    BY <1>1, <1>3, <2>1 DEF GroupInv
  <2>3. o.wrote = FALSE
    <3>. DEFINE c == calls[next]
    <3>0. c \in Call /\ isParallelSafe(c)
      BY <1>5, <2>2
    <3>. HIDE DEF c
    <3>1. \A q \in runCall(next, c, prior, created, Recorded) : q.wrote = FALSE
      BY <3>0, SafeCalls
    <3>. QED
      BY <1>4, <3>1 DEF c
  <2>4. Recorded' = Recorded
    BY <1>6, <2>3
  <2>5. runCall(k, calls[k], prior', created', Recorded) = runCall(k, calls[k], prior, created, Recorded)
    <3>. DEFINE c == calls[k]
                args == [arg |-> None, used |-> None]
    <3>0. c \in Call /\ isParallelSafe(c)
      BY <2>1, <2>2
    <3>. HIDE DEF c
    <3>1. runCall(k, c, prior', created', Recorded) = Outcomes(k, c, args, Recorded)
      BY <3>0, SafeCalls
    <3>2. runCall(k, c, prior, created, Recorded) = Outcomes(k, c, args, Recorded)
      BY <3>0, SafeCalls
    <3>. QED
      BY <3>1, <3>2 DEF c
  <2>. QED
    BY <1>1, <2>1, <2>4, <2>5 DEF OutcomeInv
<1>12. WrittenInv'
  <2>1. written \subseteq Nat
    BY <1>1, <1>5 DEF WrittenInv
  <2>. QED
    BY <1>1, <1>3, <1>5, <1>8, <2>1 DEF WrittenInv
<1>. QED
  BY <1>7, <1>9, <1>10, <1>11, <1>12 DEF RouterInv
-------------------------------------------------------------------------------
(* The theorems *)

\* A request as it comes, and the same one to CallOrder.
LEMMA RouterInit == Init => RouterInv /\ InOrder!Init
<1>. SUFFICES ASSUME Init PROVE RouterInv /\ InOrder!Init
  OBVIOUS
<1>1. PICK n \in 0 .. MaxCalls : calls \in [1 .. n -> Shapes]
  BY DEF Init
<1>2. calls \in Seq(Shapes) /\ Len(calls) = n /\ MaxCalls \in Nat /\ n \in Nat
  BY <1>1, RequestsAreSequences, CallsAssumption
<1>3. /\ next = 1 /\ written = {} /\ responses = <<>> /\ flight = <<>>
      /\ prior = [i \in CallId |-> None] /\ created \in [TempId -> {None, 0}]
      /\ calls \in UNION {[1..m -> Shapes] : m \in 0..MaxCalls}
  BY DEF Init
<1>4. DOMAIN flight = {} /\ Len(responses) = 0 /\ Recorded = {}
  BY <1>3 DEF Recorded
<1>5. Sequential(responses)
  BY <1>3, EmptySeq DEF Sequential
<1>6. RequestInv
  BY <1>1, <1>2, <1>3, <1>4, <1>5 DEF RequestInv
<1>7. GroupInv /\ OutcomeInv /\ WrittenInv
  BY <1>3, <1>4 DEF GroupInv, OutcomeInv, WrittenInv
<1>8. InOrder!Init
  BY <1>3, <1>4 DEF InOrder!Init
<1>. QED
  BY <1>6, <1>7, <1>8 DEF RouterInv

\* Every step keeps the invariant, and is a step of CallOrder or none.
LEMMA RouterStep ==
  RouterInv /\ [Next]_vars => RouterInv' /\ [InOrder!Process]_(InOrder!vars)
<1>. SUFFICES ASSUME RouterInv, [Next]_vars PROVE RouterInv' /\ [InOrder!Process]_(InOrder!vars)
  OBVIOUS
<1>1. CASE Next
  BY <1>1, DispatchKeeps, HandleKeeps, RecordKeeps DEF Next
<1>2. CASE UNCHANGED vars
  <2>1. UNCHANGED <<calls, next, responses, prior, created, written, flight>>
    BY <1>2 DEF vars, request
  <2>2. Recorded' = Recorded
    BY <2>1 DEF Recorded
  <2>3. RouterInv'
    BY <2>1, <2>2 DEF RouterInv, RequestInv, GroupInv, OutcomeInv, WrittenInv, isParallelSafe,
                      hasCrossCallReference
  <2>. QED
    BY <2>1, <2>2, <2>3 DEF InOrder!vars
<1>. QED
  BY <1>1, <1>2

\* The inductive invariant, of every behaviour.
LEMMA AlwaysRouting == Spec => []RouterInv
BY RouterInit, RouterStep, PTL DEF Spec

\* router.ts 250-279: the cursor goes through the request, a call has one or two
\* responses, and no more than MAX_PARALLEL_CALLS handlers run.
THEOREM TypeCorrect == Spec => []TypeOK
<1>1. RouterInv => TypeOK
  <2>. SUFFICES ASSUME RouterInv PROVE TypeOK
    OBVIOUS
  <2>1. Len(calls) \in Nat
    BY CallsOfRequest DEF RouterInv
  <2>. QED
    BY <2>1 DEF RouterInv, RequestInv, GroupInv, WrittenInv, TypeOK
<1>. QED
  BY <1>1, AlwaysRouting, PTL

\* router.ts 90-93, 250-279: whatever runs beside what and however many, the
\* responses are those of calls processed one after the other.
THEOREM RouterImplementsCallOrder == Spec => ImplementsCallOrder
BY RouterInit, RouterStep, PTL DEF Spec, ImplementsCallOrder, InOrder!Spec

\* router.ts 250-268: a call that may write never runs beside another.
WritesRunAlone ==
  \A k \in DOMAIN flight : calls[k].name \in Creating => DOMAIN flight = {k}

\* No */set, */copy or import shares its turn, whatever the request.
THEOREM WritesAlwaysRunAlone == Spec => []WritesRunAlone
<1>1. RouterInv => WritesRunAlone
  <2>. SUFFICES ASSUME RouterInv, NEW k \in DOMAIN flight, calls[k].name \in Creating
                PROVE  DOMAIN flight = {k}
    BY DEF WritesRunAlone
  <2>. DEFINE c == calls[k]
  <2>1. c \in Call /\ c.name \in Creating /\ GroupInv
    BY CallsOfRequest DEF RouterInv, GroupInv
  <2>2. ~isParallelSafe(c)
    BY <2>1, CallsAssumption DEF isParallelSafe
  <2>3. DOMAIN flight = {next}
    BY <2>1, <2>2 DEF GroupInv
  <2>. QED
    BY <2>3
<1>. QED
  BY <1>1, AlwaysRouting, PTL
===============================================================================
