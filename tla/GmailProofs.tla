---------------------------- MODULE GmailProofs ----------------------------
(***************************************************************************)
(* For any messages, clients and lengths of the history: no cache keeps a  *)
(* copy that is older than what the account has caught up with, a client   *)
(* that follows Email/changes is never misled, no arrival is forgotten and *)
(* no hint is left without a sync to come.                                 *)
(***************************************************************************)
EXTENDS GmailPush, SequenceTheorems, WellFoundedInduction, TLAPS

-----------------------------------------------------------------------------
(* The inductive invariant.                                                *)

Kind == {"added", "deleted", "labeled", "sent"}
Record == [kind : Kind, msg : Msg]

\* Nothing happens to a message after its end or before its beginning.
OneLife == \A i, j \in 1..now :
    i < j /\ records[i].msg = records[j].msg =>
        records[i].kind # "deleted" /\ records[j].kind # "added"

RecordsInv ==
    /\ records \in Seq(Record) /\ now <= MaxHistory /\ oldest \in 0..now
    /\ OneLife

\* How far the account has caught up; a new one has not begun to.
reached == IF cursor = None THEN 0 ELSE cursor

\* What was asked for at x knows all that is said of m up to h: every such m, h and x.
Known == {k \in Msg \X Nat \X Nat : \A i \in 1..k[2] : records[i].msg = k[1] => i <= k[3]}
Knows(m, h, x) == <<m, h, x>> \in Known

\* A copy of m asked for at x is as new as the cursor and as our own writes.
Fresh == {k \in Msg \X Nat : Knows(k[1], reached, k[2]) /\ wrote[k[1]] <= k[2]}
Covers(m, x) == <<m, x>> \in Fresh

\* The messages that are there, and when.
Alive == {k \in Msg \X Nat : Exists(k[1], k[2])}

State == [h : Nat, r : Nat]

StoreInv ==
    /\ cursor \in 0..now \cup {None} /\ revision \in Nat
    /\ profile \in 0..now \cup {None}
    /\ cache \in [Msg \cup {Thread} -> 0..now \cup {None}]
    /\ wrote \in [Msg -> 0..now]
    /\ page # None => /\ page.state \in State /\ page.at \in 0..now
                      /\ page.state.h <= reached /\ page.state.h <= page.at

\* Copies are fetched and kept once there is a cursor to hold them against.
WarmInv == warm # None =>
    /\ cursor # None /\ warm.ids \subseteq Msg /\ warm.at \in 0..now /\ warm.rev \in 0..revision
    /\ warm.rev = revision => \A m \in warm.ids : Covers(m, warm.at)

CopiesInv ==
    /\ \A k \in Msg \cup {Thread} : cache[k] # None => cursor # None
    /\ \A m \in Msg : cache[m] # None => Covers(m, cache[m])
    /\ cache[Thread] # None => \A m \in Msg : Covers(m, cache[Thread])
    /\ WarmInv

Fields == DOMAIN Idle
Early == {"idle", "fresh", "profile", "join", "decide"}
Stage == Early \cup {"recheck", "history", "ready", "message", "thread", "list", "delta", "look",
                     "write", "written", "labels", "post"}

CallTyped(c) ==
    /\ DOMAIN c = Fields
    /\ c.at \in Stage /\ c.phase \in 0..2
    /\ c.prof \in 0..now /\ c.base \in 0..reached /\ c.rev \in 0..revision /\ c.got \in 0..now
    /\ c.upto \in 0..now \cup {Gone}
    /\ c.op \in {"get", "write"} => c.msg \in Msg
    /\ c.at = "idle" => c.phase = 0
    /\ c.at \notin Early => cursor # None

\* What a call will store, if the revision stays, is as good as what is stored.
CallOK(p, c) ==
    /\ CallTyped(c)
    /\ c.at = "message" => c.op = "get" /\ (c.rev = revision => Covers(c.msg, c.got))
    /\ c.at = "thread" /\ c.rev = revision => \A m \in Msg : Covers(m, c.got)
    /\ c.at = "ready" => c.prof <= reached
    /\ c.at = "list" => c.prof <= reached /\ c.prof <= c.got
    /\ c.at = "delta" /\ c.upto # Gone => c.base <= c.upto
    /\ c.at \in {"look", "write", "written"} => c.op = "write"
    /\ c.at = "join" => c.owner \in Proc \ {p}

CallsInv ==
    /\ DOMAIN call = Proc
    /\ \A p \in Proc : CallOK(p, call[p])
    /\ flight # None => flight \in Proc /\ At(flight, "history")

\* A client that is not lost knows of every message it need not read again.
Follows(c) == \A m \in Msg \ c.want :
    Knows(m, c.state.h, c.held[m]) \/ (<<m, c.state.h>> \notin Alive /\ <<m, c.since>> \notin Alive)

Client == [lost : BOOLEAN, state : State, since : Nat, held : [Msg -> Nat], want : SUBSET Msg]

\* What is read for a client is not older than its state.
AnswerOK(c, k) ==
    /\ k.at = "message" \/ (k.op = "get" /\ k.phase = 2) => Knows(k.msg, c.state.h, k.got)
    /\ k.at = "delta" => k.base = c.state.h

ClientInv ==
    /\ client \in [Request -> Client]
    /\ \A r \in Request :
         /\ client[r].since <= client[r].state.h /\ client[r].state.h <= reached
         /\ ~ client[r].lost => cursor # None /\ Follows(client[r])
         /\ AnswerOK(client[r], call[r])

PushInv ==
    /\ device \in {"none", "unverified", "verified"} /\ failures \in 0..(MaxFailures - 1)
    /\ undelivered \subseteq Inbox /\ lastDelivered \subseteq Inbox /\ told \subseteq Inbox
    /\ HintsAreFollowed

GmailInv == RecordsInv /\ StoreInv /\ CopiesInv /\ CallsInv /\ ClientInv /\ PushInv /\ ArrivalsAreTold

-----------------------------------------------------------------------------
(* Numbers, and folds over them.                                           *)

\* A set of numbers that is not empty has a least one.
LEMMA Least ==
  ASSUME NEW T \in SUBSET Nat, T # {}
  PROVE  \E x \in T : \A y \in T : x <= y
<1> DEFINE less == {ss \in Nat \X Nat : ss[1] < ss[2]}
<1>1. less = OpToRel(<, Nat)
  BY Zenon DEF OpToRel
<1>2. IsWellFoundedOn(less, Nat)
  BY <1>1, NatLessThanWellFounded, Zenon
<1>3. \E x \in T : \A y \in T : <<y, x>> \notin less
  <2> HIDE DEF less
  <2>. QED
    BY <1>2, WFMin
<1>4. PICK x \in T : \A y \in T : <<y, x>> \notin less
  BY <1>3, Zenon
<1>5. ASSUME NEW y \in T
      PROVE  x <= y
  <2>1. <<y, x>> \notin less /\ y \in Nat /\ x \in Nat
    BY <1>4
  <2>2. ~ (y < x)
    BY <2>1
  <2>. QED
    BY <2>1, <2>2
<1>. QED
  BY <1>5

\* The greatest element of a bounded set of numbers, as FiniteSetsExt computes it.
LEMMA Greatest ==
  ASSUME NEW n \in Nat, NEW T \in SUBSET (0..n), T # {}
  PROVE  /\ Max(T) \in T
         /\ \A y \in T : y <= Max(T)
<1> DEFINE U == {n - y : y \in T}
<1>0. U \in SUBSET Nat /\ U # {}
  <2>1. \A y \in T : n - y \in Nat
    OBVIOUS
  <2>. QED
    BY <2>1, Zenon
<1>1. \E x \in U : \A z \in U : x <= z
  <2> HIDE DEF U
  <2>. QED
    BY <1>0, Least
<1>2. PICK y \in T : \A z \in T : n - y <= n - z
  BY <1>1
<1>3. \A z \in T : y >= z
  BY <1>2
<1>. QED
  BY <1>3 DEF Max

\* The records of m among those of q at the indices s, and what they come to.
About(m, q, s) == {i \in s : q[i].msg = m}
Outcome(m, q, s) ==
  LET T == About(m, q, s)
  IN  IF T = {} THEN None
      ELSE [before |-> ~ \E j \in T : q[j].kind = "added" /\ \A k \in T : j <= k,
            after |-> ~ \E j \in T : /\ q[j].kind = "deleted"
                                     /\ \A k \in T : k <= j \/ q[k].kind = "labeled"]

\* One record more.
One(m, s, r) == IF r.msg = m THEN RecordEvents(s, r.kind) ELSE s

\* What emailDelta keeps of a message is a value, never the lack of one.
LEMMA NotNone == \A b, a \in BOOLEAN : [before |-> b, after |-> a] # None
BY GmailAssumption

\* What each kind of record does to what emailDelta keeps of a message.
LEMMA EventValues ==
  ASSUME NEW b \in BOOLEAN, NEW a \in BOOLEAN
  PROVE  LET s == [before |-> b, after |-> a] IN
         /\ RecordEvents(s, "added") = [before |-> b, after |-> TRUE]
         /\ RecordEvents(s, "sent") = [before |-> b, after |-> TRUE]
         /\ RecordEvents(s, "deleted") = [before |-> b, after |-> FALSE]
         /\ RecordEvents(s, "labeled") = s
<1> DEFINE s == [before |-> b, after |-> a]
<1>1. s # None
  BY NotNone
<1>2. Event(s, "create") = [before |-> b, after |-> TRUE]
  BY <1>1 DEF Event
<1>3. Event(s, "destroy") = [before |-> b, after |-> FALSE]
  BY <1>1 DEF Event
<1>4. Event(s, "update") = s
  BY <1>1 DEF Event
<1>5. Event(Event(s, "destroy"), "create") = [before |-> b, after |-> TRUE]
  <2>1. [before |-> b, after |-> FALSE] # None
    BY NotNone, Zenon
  <2>. QED
    BY <1>3, <2>1 DEF Event
<1>. QED
  BY <1>2, <1>3, <1>4, <1>5 DEF RecordEvents

\* What the first record of a message tells of its time before.
LEMMA FirstEvent ==
  /\ RecordEvents(None, "added") = [before |-> FALSE, after |-> TRUE]
  /\ RecordEvents(None, "sent") = [before |-> TRUE, after |-> TRUE]
  /\ RecordEvents(None, "deleted") = [before |-> TRUE, after |-> FALSE]
  /\ RecordEvents(None, "labeled") = [before |-> TRUE, after |-> TRUE]
<1>1. Event(None, "create") = [before |-> FALSE, after |-> TRUE]
  BY DEF Event
<1>2. Event(None, "destroy") = [before |-> TRUE, after |-> FALSE]
  BY DEF Event
<1>3. Event(None, "update") = [before |-> TRUE, after |-> TRUE]
  BY DEF Event
<1>4. Event([before |-> TRUE, after |-> FALSE], "create") = [before |-> TRUE, after |-> TRUE]
  <2>1. [before |-> TRUE, after |-> FALSE] # None
    BY NotNone, Zenon
  <2>. QED
    BY <2>1 DEF Event
<1>. QED
  BY <1>1, <1>2, <1>3, <1>4 DEF RecordEvents

\* What is at the indices up to n is a record of a known kind.
AreRecords(q, n) == n \in Nat /\ \A i \in 1..n : q[i].kind \in Kind
\* Of the indices s of q, which has n records, x is the last.
IsLast(x, s, q, n) == /\ AreRecords(q, n)
                      /\ s \subseteq 1..n
                      /\ x \in s /\ \A y \in s : y <= x

\* One more record at the end: the closed form takes the step the fold takes.
LEMMA OutcomeGrows ==
  ASSUME NEW m, NEW n, NEW q, NEW s, NEW x, IsLast(x, s, q, n)
  PROVE  Outcome(m, q, s) = One(m, Outcome(m, q, s \ {x}), q[x])
<1>a. /\ n \in Nat /\ \A i \in 1..n : q[i].kind \in Kind
      /\ s \in SUBSET (1..n) /\ x \in s /\ \A y \in s : y <= x
  BY DEF AreRecords, IsLast
<1> DEFINE T == About(m, q, s)
           U == About(m, q, s \ {x})
<1>1. CASE q[x].msg # m
  <2>1. T = U
    BY <1>1 DEF About
  <2>. QED
    BY <1>1, <2>1 DEF Outcome, One
<1>2. CASE q[x].msg = m
  <2>1. T = U \cup {x} /\ x \notin U
    BY <1>2, <1>a DEF About
  <2>2. \A y \in U : y \in 1..n /\ y < x
    BY <1>a DEF About
  <2>3. x \in 1..n /\ q[x].kind \in Kind
    BY <1>a
  <2>4. CASE U = {}
    <3>1. T = {x}
      BY <2>1, <2>4
    <3>2. Outcome(m, q, s \ {x}) = None
      BY <2>4 DEF Outcome
    <3>3. Outcome(m, q, s) = [before |-> q[x].kind # "added", after |-> q[x].kind # "deleted"]
      BY <3>1, <2>3 DEF Outcome
    <3>. QED
      BY <1>2, <2>3, <3>2, <3>3, FirstEvent DEF One, Kind
  <2>5. CASE U # {}
    <3> DEFINE b == ~ \E j \in U : q[j].kind = "added" /\ \A k \in U : j <= k
               a == ~ \E j \in U : q[j].kind = "deleted"
                                  /\ \A k \in U : k <= j \/ q[k].kind = "labeled"
               b2 == ~ \E j \in T : q[j].kind = "added" /\ \A k \in T : j <= k
               a2 == ~ \E j \in T : q[j].kind = "deleted"
                                  /\ \A k \in T : k <= j \/ q[k].kind = "labeled"
    <3>1. Outcome(m, q, s \ {x}) = [before |-> b, after |-> a]
      BY <2>5 DEF Outcome
    <3>2. Outcome(m, q, s) = [before |-> b2, after |-> a2]
      BY <2>1 DEF Outcome
    <3>3. b2 = b
      <4> HIDE DEF T, U
      <4>1. \A j \in U : (\A k \in T : j <= k) <=> (\A k \in U : j <= k)
        BY <2>1, <2>2, <2>3
      <4>2. ~ \A k \in T : x <= k
        BY <2>1, <2>2, <2>3, <2>5
      <4>. QED
        BY <2>1, <4>1, <4>2, Zenon
    <3>4. a2 = IF q[x].kind = "labeled" THEN a ELSE q[x].kind # "deleted"
      <4>1. \A k \in T : k <= x
        BY <2>1, <2>2, <2>3
      <4>2. \A j \in U : ~ (x <= j)
        BY <2>2, <2>3
      <4> HIDE DEF T, U
      <4>3. CASE q[x].kind = "deleted"
        BY <4>1, <4>3, <2>1
      <4>4. CASE q[x].kind = "labeled"
        BY <4>4, <2>1
      <4>5. CASE q[x].kind \notin {"deleted", "labeled"}
        BY <4>2, <4>5, <2>1
      <4>. QED
        BY <4>3, <4>4, <4>5
    <3> HIDE DEF a, b, a2, b2
    <3>5. a \in BOOLEAN /\ b \in BOOLEAN
      BY DEF a, b
    <3>. QED
      BY <1>2, <2>3, <3>1, <3>2, <3>3, <3>4, <3>5, EventValues DEF One, Kind
  <2>. QED
    BY <2>4, <2>5
<1>. QED
  BY <1>1, <1>2

\* emailDelta's fold has the closed form, for a history of any length.
LEMMA FoldIsOutcome ==
  ASSUME NEW m, NEW n \in Nat, NEW q, DOMAIN q = 1..n, AreRecords(q, n)
  PROVE  FoldLeft(LAMBDA s, r : IF r.msg = m THEN RecordEvents(s, r.kind) ELSE s, None, q)
           = Outcome(m, q, 1..n)
<1> DEFINE D == SUBSET (1..n)
           Solves(f) == f = [s \in D |-> IF s = {} THEN None
                                         ELSE One(m, f[s \ {Max(s)}], q[Max(s)])]
           F == [s \in D |-> Outcome(m, q, s)]
<1>1. \A s \in D : s # {} => /\ Max(s) \in s /\ \A y \in s : y <= Max(s)
                            /\ s \ {Max(s)} \in D
  <2>1. \A s \in D : s \in SUBSET (0..n)
    OBVIOUS
  <2>. QED
    BY <2>1, Greatest
<1>2. Solves(F)
  <2>1. ASSUME NEW s \in D
        PROVE  F[s] = IF s = {} THEN None ELSE One(m, F[s \ {Max(s)}], q[Max(s)])
    <3>1. CASE s = {}
      BY <3>1 DEF Outcome, About
    <3>2. CASE s # {}
      <4>1. /\ Max(s) \in s /\ \A y \in s : y <= Max(s)
            /\ s \ {Max(s)} \in D
        BY <3>2, <1>1
      <4>2. Outcome(m, q, s) = One(m, Outcome(m, q, s \ {Max(s)}), q[Max(s)])
        <5> DEFINE x == Max(s)
        <5>1. IsLast(x, s, q, n)
          BY <4>1 DEF IsLast
        <5> HIDE DEF x, D, F, Solves
        <5>3. Outcome(m, q, s) = One(m, Outcome(m, q, s \ {x}), q[x])
          BY <5>1, OutcomeGrows
        <5>. QED
          BY <5>3 DEF x
      <4>. QED
        BY <3>2, <4>1, <4>2
    <3>. QED
      BY <3>1, <3>2
  <2>. QED
    BY <2>1
<1>3. PICK f : /\ Solves(f)
               /\ FoldLeft(LAMBDA s, r : IF r.msg = m THEN RecordEvents(s, r.kind) ELSE s, None, q)
                     = f[1..n]
  <2>1. FoldLeft(LAMBDA s, r : IF r.msg = m THEN RecordEvents(s, r.kind) ELSE s, None, q)
          = (CHOOSE f : Solves(f))[1..n]
    BY DEF FoldLeft, MapThenFoldSet, One
  <2> HIDE DEF Solves, F
  <2>2. Solves(CHOOSE f : Solves(f))
    BY <1>2
  <2>. QED
    BY <2>1, <2>2
<1>4. \A s \in D : f[s] = F[s]
  <2> DEFINE rank(s) == IF s = {} THEN 0 ELSE Max(s)
             Bad == {s \in D : f[s] # F[s]}
             R == {rank(s) : s \in Bad}
  <2>1. ASSUME NEW s \in D
        PROVE  rank(s) \in 0..n
    <3>1. CASE s # {}
      <4>1. Max(s) \in 1..n
        BY <1>1, <3>1
      <4>. QED
        BY <3>1, <4>1
    <3>. QED
      BY <3>1
  <2>2. SUFFICES ASSUME Bad # {} PROVE FALSE
    OBVIOUS
  <2>3. R \in SUBSET Nat /\ R # {}
    <3>1. \A s \in Bad : rank(s) \in Nat
      BY <2>1
    <3> HIDE DEF rank, Bad
    <3>. QED
      BY <2>2, <3>1
  <2>4. PICK k \in R : \A l \in R : k <= l
    <3> HIDE DEF R
    <3>. QED
      BY <2>3, Least
  <2>5. PICK s \in Bad : \A t \in Bad : rank(s) <= rank(t)
    <3> HIDE DEF rank, Bad
    <3>. QED
      BY <2>4
  <2>6. s # {}
    BY <1>2, <1>3, <2>5
  <2> DEFINE t == s \ {Max(s)}
  <2>7. t \in D /\ rank(t) < rank(s)
    <3>1. /\ Max(s) \in s /\ \A y \in s : y <= Max(s)
          /\ t \in D
      BY <1>1, <2>6
    <3>2. t # {} => Max(t) \in t
      BY <1>1, <3>1
    <3> DEFINE x == Max(s)
               z == Max(t)
    <3>3. x \in s /\ (\A y \in s : y <= x) /\ (t # {} => z \in s /\ z # x)
      BY <3>1, <3>2
    <3>4. rank(s) = x /\ rank(t) = IF t = {} THEN 0 ELSE z
      BY <2>6
    <3> HIDE DEF x, z, t
    <3>5. x \in 1..n /\ (t # {} => z \in 1..n)
      BY <3>3
    <3>6. (IF t = {} THEN 0 ELSE z) < x
      BY <3>3, <3>5
    <3> HIDE DEF rank
    <3>. QED
      BY <3>1, <3>4, <3>6
  <2>8. f[t] = F[t]
    <3>1. rank(s) \in 0..n /\ rank(t) \in 0..n
      BY <2>1, <2>7
    <3>2. ~ (rank(s) <= rank(t))
      <4> HIDE DEF rank
      <4>. QED
        BY <2>7, <3>1
    <3> HIDE DEF rank, F
    <3>. QED
      BY <2>5, <2>7, <3>2
  <2>9. f[s] = One(m, f[t], q[Max(s)]) /\ F[s] = One(m, F[t], q[Max(s)])
    BY <1>2, <1>3, <2>6
  <2>. QED
    BY <2>5, <2>8, <2>9
<1>5. f[1..n] = F[1..n]
  BY <1>4
<1>. QED
  BY <1>3, <1>5

-----------------------------------------------------------------------------
(* What the operators of the model say, in terms of records.               *)

\* The assumptions in the form the steps use them.
LEMMA Numbers ==
  /\ None \notin Nat /\ None \notin Proc /\ Push \in Proc /\ Request \subseteq Proc /\ Push \notin Request
  /\ MaxHistory \in Nat /\ MaxFailures \in Nat \ {0} /\ Thread \notin Msg /\ Inbox \subseteq Msg
BY GmailAssumption, PushAssumption DEF Proc

\* The last touch is a touch, if there is one, and no touch is after it.
LEMMA LastIsLast ==
  ASSUME NEW m, NEW to \in Nat
  PROVE  /\ LastTouch(m, to) \in 0..to
         /\ LastTouch(m, to) # 0 => records[LastTouch(m, to)].msg = m
         /\ \A i \in 1..to : records[i].msg = m => i <= LastTouch(m, to)
<1> DEFINE T == {0} \cup Touches(m, 0, to)
<1>1. /\ T \in SUBSET (0..to) /\ T # {}
      /\ \A i \in T : i # 0 => records[i].msg = m
      /\ \A i \in 1..to : records[i].msg = m => i \in T
  BY DEF Touches
<1>2. LastTouch(m, to) = Max(T)
  BY DEF LastTouch
<1> HIDE DEF T
<1>3. Max(T) \in T /\ \A y \in T : y <= Max(T)
  BY <1>1, Greatest
<1>. QED
  BY <1>1, <1>2, <1>3

\* To know a message up to h is to have asked after it was last touched.
LEMMA KnowsIs ==
  ASSUME NEW m \in Msg, NEW to \in Nat, NEW x \in Nat
  PROVE  Knows(m, to, x) <=> LastTouch(m, to) <= x
<1>1. /\ LastTouch(m, to) \in 0..to
      /\ LastTouch(m, to) # 0 => records[LastTouch(m, to)].msg = m
      /\ \A i \in 1..to : records[i].msg = m => i <= LastTouch(m, to)
  BY LastIsLast
<1>. QED
  BY <1>1 DEF Knows, Known

\* The history number is the length of the history.
LEMMA NowIs ==
  ASSUME RecordsInv
  PROVE  /\ now \in Nat /\ now = Len(records) /\ records \in Seq(Record)
         /\ \A i \in 1..now : records[i] \in Record
         /\ now <= MaxHistory /\ Gone \in Nat /\ now < Gone
BY GmailAssumption DEF RecordsInv, now, Gone

\* A message is there if it has come and never been deleted.
LEMMA ExistsIs ==
  ASSUME RecordsInv, NEW m, NEW to \in 0..now
  PROVE  Exists(m, to) <=> /\ \E i \in 1..to : records[i].msg = m
                           /\ \A i \in 1..to : records[i].msg = m => records[i].kind # "deleted"
<1> DEFINE t == LastTouch(m, to)
<1>1. /\ t \in 0..to
      /\ t # 0 => records[t].msg = m
      /\ \A i \in 1..to : records[i].msg = m => i <= t
  BY LastIsLast DEF RecordsInv
<1>2. Exists(m, to) <=> t # 0 /\ records[t].kind # "deleted"
  BY DEF Exists
<1>3. now \in Nat /\ \A i, j \in 1..now : i < j /\ records[i].msg = records[j].msg => records[i].kind # "deleted"
  BY NowIs DEF RecordsInv, OneLife
<1> HIDE DEF t
<1>4. ASSUME t # 0, records[t].kind # "deleted", NEW i \in 1..to, records[i].msg = m
      PROVE  records[i].kind # "deleted"
  <2>1. i <= t /\ t \in 1..now /\ i \in 1..now
    BY <1>1, <1>3, <1>4
  <2>. QED
    BY <1>1, <1>3, <1>4, <2>1
<1>. QED
  BY <1>1, <1>2, <1>4

\* A window of the history as a sequence of its own.
LEMMA Window ==
  ASSUME RecordsInv, NEW from \in Nat, NEW to \in from..now
  PROVE  LET q == SubSeq(records, from + 1, to)
         IN  /\ DOMAIN q = 1..(to - from) /\ to - from \in Nat
             /\ \A i \in 1..(to - from) : q[i] = records[from + i] /\ from + i \in (from + 1)..to
             /\ \A i \in (from + 1)..to : i - from \in 1..(to - from) /\ records[i] = q[i - from]
             /\ AreRecords(q, to - from)
<1>1. /\ records \in Seq(Record) /\ now = Len(records) /\ now \in Nat
      /\ \A i \in 1..now : records[i] \in Record
  BY DEF RecordsInv, now
<1> DEFINE q == SubSeq(records, from + 1, to)
<1>2. q = [i \in 1..(to - from) |-> records[from + i]]
  <2>1. q = [i \in 1..(to - (from + 1) + 1) |-> records[(from + 1) + i - 1]]
    BY <1>1, SubSeqProperties
  <2>2. to - (from + 1) + 1 = to - from /\ \A i \in 1..(to - from) : (from + 1) + i - 1 = from + i
    BY <1>1
  <2>. QED
    BY <2>1, <2>2
<1>. QED
  BY <1>1, <1>2 DEF AreRecords, Record

\* What Email/changes finds out about a message in a window.
LEMMA FateIs ==
  ASSUME RecordsInv, NEW m, NEW from \in Nat, NEW to \in from..now
  PROVE  LET s == Fate(m, from, to)
         IN  /\ s = None => \A i \in (from + 1)..to : records[i].msg # m
             /\ s # None => /\ s.before \in BOOLEAN /\ s.after \in BOOLEAN
                            /\ ~ s.before => \E i \in (from + 1)..to :
                                               records[i].msg = m /\ records[i].kind = "added"
                            /\ ~ s.after => \E i \in (from + 1)..to :
                                              records[i].msg = m /\ records[i].kind = "deleted"
<1> DEFINE q == SubSeq(records, from + 1, to)
           n == to - from
           T == About(m, q, 1..n)
<1>1. /\ DOMAIN q = 1..n /\ n \in Nat
      /\ \A i \in 1..n : q[i] = records[from + i] /\ from + i \in (from + 1)..to
      /\ \A i \in (from + 1)..to : i - from \in 1..n /\ records[i] = q[i - from]
      /\ AreRecords(q, n)
  BY Window
<1> HIDE DEF q, n
<1>2. Fate(m, from, to) = Outcome(m, q, 1..n)
  BY <1>1, FoldIsOutcome DEF Fate, q
<1>3. \A j \in T : from + j \in (from + 1)..to /\ q[j] = records[from + j] /\ records[from + j].msg = m
  BY <1>1 DEF About
<1>4. CASE T = {}
  <2>1. \A i \in (from + 1)..to : records[i].msg # m
    BY <1>1, <1>4 DEF About
  <2>2. Outcome(m, q, 1..n) = None
    BY <1>4 DEF Outcome
  <2>. QED
    BY <1>2, <2>1, <2>2
<1>5. CASE T # {}
  <2> DEFINE b == ~ \E j \in T : q[j].kind = "added" /\ \A k \in T : j <= k
             a == ~ \E j \in T : q[j].kind = "deleted" /\ \A k \in T : k <= j \/ q[k].kind = "labeled"
  <2>1. Outcome(m, q, 1..n) = [before |-> b, after |-> a]
    BY <1>5 DEF Outcome
  <2>2. ~ b => \E i \in (from + 1)..to : records[i].msg = m /\ records[i].kind = "added"
    BY <1>3
  <2>3. ~ a => \E i \in (from + 1)..to : records[i].msg = m /\ records[i].kind = "deleted"
    BY <1>3
  <2>4. b \in BOOLEAN /\ a \in BOOLEAN
    OBVIOUS
  <2> HIDE DEF a, b
  <2>. QED
    BY <1>2, <2>1, <2>2, <2>3, <2>4, NotNone
<1>. QED
  BY <1>4, <1>5

-----------------------------------------------------------------------------
(* How a step leaves what it does not touch.                               *)

\* How far the account has caught up is a number Gmail has reached.
LEMMA ReachedIs ==
  ASSUME StoreInv, RecordsInv
  PROVE  /\ reached \in 0..now /\ reached \in Nat
         /\ cursor # None => reached = cursor /\ cursor \in Nat
         /\ cursor = None => reached = 0
BY NowIs, Numbers DEF StoreInv, reached

\* The locals of a call.
LEMMA RowsAre ==
  /\ DOMAIN Idle = {"op", "at", "phase", "msg", "prof", "base", "rev", "got", "upto", "owner"}
  /\ Fields = {"op", "at", "phase", "msg", "prof", "base", "rev", "got", "upto", "owner"}
BY DEF Idle, Fields

\* History, cursor and revision only grow; as long as the revision stays, what was as
\* new as the cursor still is.
Grows ==
    /\ now' \in Nat /\ now <= now' /\ now' <= MaxHistory
    /\ \A i \in 1..now : records'[i] = records[i]
    /\ reached' \in Nat /\ reached <= reached' /\ reached' <= now'
    /\ revision' \in Nat /\ revision <= revision'
    /\ cursor # None => cursor' # None
    /\ cursor # None /\ revision' = revision => Fresh \subseteq Fresh'

\* Most steps leave all of these alone.
Quiet == UNCHANGED <<records, cursor, revision, wrote>> /\ oldest' \in {oldest, now}

\* When Gmail and the store's counters stand still, so does what is known.
LEMMA QuietGrows ==
  ASSUME StoreInv, RecordsInv, Quiet
  PROVE  /\ Grows /\ RecordsInv'
         /\ reached' = reached /\ now' = now /\ Known' = Known /\ Fresh' = Fresh /\ Alive' = Alive
<1>1. reached' = reached /\ now' = now /\ Known' = Known
  BY DEF Quiet, gmail, reached, now, Known
<1>2. Fresh' = Fresh
  BY <1>1 DEF Quiet, gmail, Fresh, Knows
<1>3. Alive' = Alive
  BY DEF Quiet, gmail, Alive, Exists, LastTouch, Touches
<1>4. RecordsInv'
  BY DEF Quiet, gmail, RecordsInv, OneLife, now
<1>. QED
  BY <1>1, <1>2, <1>3, <1>4, ReachedIs, NowIs DEF Grows, Quiet, gmail, StoreInv

\* What happens later changes nothing about what was known up to h.
LEMMA KnowsGrows ==
  ASSUME RecordsInv, Grows, NEW h \in 0..now
  PROVE  /\ \A m, x : <<m, h, x>> \in Known <=> <<m, h, x>> \in Known'
         /\ \A m : <<m, h>> \in Alive <=> <<m, h>> \in Alive'
<1>1. now \in Nat /\ \A i \in 1..h : i \in 1..now
  BY NowIs
<1>2. \A i \in 1..h : records'[i] = records[i]
  BY <1>1 DEF Grows
<1>3. \A m, x : <<m, h, x>> \in Known <=> <<m, h, x>> \in Known'
  BY <1>2 DEF Known
<1>4. ASSUME NEW m \in Msg
      PROVE  Exists(m, h) <=> Exists(m, h)'
  <2>1. Touches(m, 0, h) = Touches(m, 0, h)'
    <3>1. \A i \in (0 + 1)..h : i \in 1..h
      BY <1>1
    <3>. QED
      BY <1>2, <3>1 DEF Touches
  <2> DEFINE t == LastTouch(m, h)
  <2>2. LastTouch(m, h)' = t
    BY <2>1 DEF LastTouch
  <2>3. t \in 0..h
    BY LastIsLast, <1>1
  <2>4. t # 0 => records'[t] = records[t]
    BY <1>2, <2>3
  <2> HIDE DEF t
  <2>5. Exists(m, h) <=> t # 0 /\ records[t].kind # "deleted"
    BY DEF Exists, t
  <2>6. Exists(m, h)' <=> t # 0 /\ records'[t].kind # "deleted"
    BY <2>2 DEF Exists
  <2>. QED
    BY <2>4, <2>5, <2>6
<1>5. \A m : <<m, h>> \in Alive <=> <<m, h>> \in Alive'
  BY <1>4, <1>1 DEF Alive
<1>. QED
  BY <1>3, <1>5

\* A call that does not move is as good as before.
LEMMA CallStays ==
  ASSUME RecordsInv, StoreInv, Grows, NEW p \in Proc, CallOK(p, call[p]), call'[p] = call[p]
  PROVE  CallOK(p, call[p])'
<1> DEFINE d == call'[p]
<1>0. CallOK(p, d)
  OBVIOUS
<1>1. CallTyped(d)
  BY <1>0 DEF CallOK
<1> HIDE DEF d
<1>2. /\ DOMAIN d = Fields' /\ d.at \in Stage /\ d.phase \in 0..2
      /\ (d.op \in {"get", "write"} => d.msg \in Msg)
      /\ (d.at = "idle" => d.phase = 0)
      /\ (d.at \notin Early => cursor # None /\ cursor' # None)
  BY <1>1 DEF CallTyped, Grows, Fields, Idle
<1>3. /\ d.prof \in 0..now /\ d.base \in 0..reached /\ d.rev \in 0..revision /\ d.got \in 0..now
      /\ d.upto \in 0..now \cup {Gone} /\ Gone' = Gone
  BY <1>1 DEF CallTyped, Gone
<1>4. now \in Nat /\ reached \in Nat /\ revision \in Nat
  BY NowIs, ReachedIs DEF StoreInv
<1>5. /\ d.prof \in 0..now' /\ d.base \in 0..reached' /\ d.rev \in 0..revision' /\ d.got \in 0..now'
      /\ d.upto \in 0..now' \cup {Gone'}
  BY <1>3, <1>4 DEF Grows
<1>6. d.rev = revision' => revision' = revision
  BY <1>3, <1>4 DEF Grows
<1>7. /\ d.at = "message" => d.op = "get" /\ (d.rev = revision' => <<d.msg, d.got>> \in Fresh')
      /\ d.at = "thread" /\ d.rev = revision' => \A m \in Msg : <<m, d.got>> \in Fresh'
  BY <1>0, <1>2, <1>6 DEF CallOK, Covers, Grows, Early
<1>8. /\ d.at = "ready" => d.prof <= reached'
      /\ d.at = "list" => d.prof <= reached' /\ d.prof <= d.got
  BY <1>0, <1>3, <1>4 DEF CallOK, Grows
<1>. QED
  BY <1>0, <1>2, <1>5, <1>7, <1>8 DEF CallOK, CallTyped, Covers, d

\* The locals of a call after a step.
Locals(p, new) ==
    /\ DOMAIN call'[p] = Fields
    /\ \A f \in DOMAIN new : call'[p][f] = new[f]
    /\ \A f \in Fields \ DOMAIN new : call'[p][f] = call[p][f]

\* A call that goes on changes its own locals only.
LEMMA Becoming ==
  ASSUME CallsInv, NEW p \in Proc, NEW new, DOMAIN new \subseteq Fields, Become(p, new)
  PROVE  /\ DOMAIN call' = Proc
         /\ \A q \in Proc : q # p => call'[q] = call[q]
         /\ Locals(p, new)
<1>1. DOMAIN call = Proc /\ DOMAIN call[p] = Fields
  BY DEF CallsInv, CallOK, CallTyped
<1>2. call' = [call EXCEPT ![p] = Over(call[p], new)]
  BY DEF Become
<1>. QED
  BY <1>1, <1>2 DEF Over, Locals

\* A call that ends is idle, and the others are as they were.
LEMMA Ending ==
  ASSUME CallsInv, NEW p \in Proc, Ends(p)
  PROVE  /\ DOMAIN call' = Proc
         /\ \A q \in Proc : q # p => call'[q] = call[q]
         /\ call'[p] = Idle
BY DEF CallsInv, Ends

\* An idle actor is always as it should be.
LEMMA IdleIsOK ==
  ASSUME RecordsInv, StoreInv, NEW p \in Proc
  PROVE  CallOK(p, Idle)
BY NowIs, ReachedIs DEF CallOK, CallTyped, Idle, Fields, StoreInv, Stage, Early

\* The calls stay as they should be when those that moved are.
LEMMA CallsMove ==
  ASSUME RecordsInv, StoreInv, CallsInv, Grows, DOMAIN call' = Proc,
         \A q \in Proc : call'[q] = call[q] \/ CallOK(q, call[q])',
         flight' # None => flight' \in Proc /\ call'[flight'].at = "history"
  PROVE  CallsInv'
<1>1. ASSUME NEW q \in Proc
      PROVE  CallOK(q, call[q])'
  BY CallStays DEF CallsInv
<1>2. Proc' = Proc
  BY DEF Proc
<1> HIDE DEF CallOK
<1>. QED
  BY <1>1, <1>2 DEF CallsInv, At

-----------------------------------------------------------------------------
(* The steps that leave history, cursor and revision as they are.          *)

\* Of a row of the cache: a copy of a message, or of all of them.
CopyOK(k, x) == cursor # None /\ x \in 0..now /\ \A m \in Msg : k \in {m, Thread} => Covers(m, x)

\* Rows are dropped, or filled with what is as new as the cursor.
RowsOK ==
    /\ profile' \in 0..now \cup {None}
    /\ cache' = [k \in Msg \cup {Thread} |-> cache'[k]]
    /\ \A k \in Msg \cup {Thread} : cache'[k] \in {None, cache[k]} \/ CopyOK(k, cache'[k])
    /\ \/ page' \in {None, page}
       \/ /\ page'.state \in State /\ page'.at \in 0..now
          /\ page'.state.h <= reached /\ page'.state.h <= page'.at
    /\ warm' \in {None, warm}

\* Steps that leave the counters alone keep the store, if they keep the rows.
LEMMA RowsStay ==
  ASSUME RecordsInv, StoreInv, CopiesInv, Quiet, RowsOK
  PROVE  StoreInv' /\ CopiesInv'
<1>1. /\ Grows /\ RecordsInv' /\ reached' = reached /\ now' = now /\ Fresh' = Fresh
      /\ cursor' = cursor /\ revision' = revision /\ wrote' = wrote
  BY QuietGrows DEF Quiet, gmail
<1>2. ASSUME NEW k \in Msg \cup {Thread}, cache'[k] # None
      PROVE  CopyOK(k, cache'[k])
  <2>1. CASE cache'[k] = cache[k]
    <3>1. cursor # None /\ cache[k] \in 0..now
      BY <1>2, <2>1 DEF StoreInv, CopiesInv, WarmInv
    <3>2. \A m \in Msg : k \in {m, Thread} => Covers(m, cache[k])
      BY <1>2, <2>1, Numbers DEF CopiesInv, WarmInv
    <3>. QED
      BY <2>1, <3>1, <3>2 DEF CopyOK
  <2>. QED
    BY <1>2, <2>1 DEF RowsOK
<1>3. cache' \in [Msg \cup {Thread} -> 0..now \cup {None}]
  <2>1. ASSUME NEW k \in Msg \cup {Thread}
        PROVE  cache'[k] \in 0..now \cup {None}
    BY <1>2 DEF CopyOK
  <2>2. cache' = [k \in Msg \cup {Thread} |-> cache'[k]]
    BY DEF RowsOK
  <2>. QED
    BY <2>1, <2>2
<1>4. StoreInv'
  BY <1>1, <1>3 DEF StoreInv, RowsOK, State
<1>5. /\ \A k \in Msg \cup {Thread} : cache'[k] # None => cursor # None
      /\ \A m \in Msg : cache'[m] # None => <<m, cache'[m]>> \in Fresh
      /\ cache'[Thread] # None => \A m \in Msg : <<m, cache'[Thread]>> \in Fresh
  BY <1>2 DEF CopyOK, Covers
<1>6. warm' # None =>
        /\ cursor # None /\ warm'.ids \subseteq Msg /\ warm'.at \in 0..now /\ warm'.rev \in 0..revision
        /\ warm'.rev = revision => \A m \in warm'.ids : <<m, warm'.at>> \in Fresh
  BY DEF RowsOK, CopiesInv, WarmInv, Covers
<1>. QED
  BY <1>1, <1>4, <1>5, <1>6 DEF CopiesInv, WarmInv, Covers

\* One call moves.
Moves(p) ==
    /\ DOMAIN call' = Proc
    /\ \A q \in Proc : q # p => call'[q] = call[q]
    /\ CallOK(p, call'[p])
    /\ \/ flight' = flight /\ (flight = p => call'[p].at = "history")
       \/ flight' = p /\ call'[p].at = "history"

\* Such steps keep all calls when they keep the one that moves.
LEMMA QuietCalls ==
  ASSUME RecordsInv, StoreInv, CallsInv, Quiet, NEW p \in Proc, Moves(p)
  PROVE  CallsInv'
<1>1. /\ Grows /\ reached' = reached /\ now' = now /\ Fresh' = Fresh /\ cursor' = cursor /\ revision' = revision
  BY QuietGrows DEF Quiet, gmail
<1>2. CallOK(p, call[p])'
  BY <1>1 DEF CallOK, CallTyped, Covers, Moves, Fields, Idle, Gone, Proc
<1>3. flight' # None => flight' \in Proc /\ call'[flight'].at = "history"
  <2>1. flight # None => flight \in Proc /\ call[flight].at = "history"
    BY DEF CallsInv, At
  <2>. QED
    BY <2>1 DEF Moves
<1>4. DOMAIN call' = Proc /\ \A q \in Proc : call'[q] = call[q] \/ CallOK(q, call[q])'
  <2>1. ASSUME NEW q \in Proc
        PROVE  call'[q] = call[q] \/ CallOK(q, call[q])'
    BY <1>2 DEF Moves
  <2>. QED
    BY <2>1 DEF Moves
<1> HIDE DEF CallOK
<1>. QED
  BY <1>1, <1>3, <1>4, CallsMove

\* A client whose beliefs do not change.
LEMMA FollowsStays ==
  ASSUME RecordsInv, Grows, NEW c, c.since \in Nat, c.state.h \in Nat, c.since <= c.state.h, c.state.h <= now
  PROVE  Follows(c) <=>
           \A m \in Msg \ c.want : \/ <<m, c.state.h, c.held[m]>> \in Known'
                                   \/ <<m, c.state.h>> \notin Alive' /\ <<m, c.since>> \notin Alive'
<1>1. c.state.h \in 0..now /\ c.since \in 0..now
  BY NowIs
<1>. QED
  BY <1>1, KnowsGrows DEF Follows, Knows

\* An answer on its way to a client is as good after later changes as before.
LEMMA AnswerStays ==
  ASSUME RecordsInv, Grows, NEW c, NEW k, c.state.h \in 0..now
  PROVE  AnswerOK(c, k) <=>
           /\ k.at = "message" \/ (k.op = "get" /\ k.phase = 2) => <<k.msg, c.state.h, k.got>> \in Known'
           /\ k.at = "delta" => k.base = c.state.h
BY KnowsGrows DEF AnswerOK, Knows

\* Calls move, and no client learns anything.
LEMMA ClientsStay ==
  ASSUME RecordsInv, StoreInv, ClientInv, Grows, UNCHANGED client,
         \A r \in Request : call'[r] = call[r] \/ AnswerOK(client[r], call'[r])
  PROVE  ClientInv'
<1>1. ASSUME NEW r \in Request
      PROVE  /\ client[r].since <= client[r].state.h /\ client[r].state.h <= reached'
             /\ ~ client[r].lost => cursor' # None /\ Follows(client[r])'
             /\ AnswerOK(client[r], call[r])'
  <2>1. /\ client[r] \in Client /\ client[r].since \in Nat /\ client[r].state.h \in Nat
        /\ client[r].since <= client[r].state.h /\ client[r].state.h <= reached
        /\ ~ client[r].lost => cursor # None /\ Follows(client[r])
        /\ AnswerOK(client[r], call[r])
    BY DEF ClientInv, Client, State
  <2>2. reached \in Nat /\ reached <= reached' /\ reached' \in Nat /\ reached <= now /\ now \in Nat
    BY ReachedIs, NowIs DEF Grows
  <2>3. client[r].state.h <= reached' /\ client[r].state.h <= now /\ client[r].state.h \in 0..now
    BY <2>1, <2>2
  <2>4. ~ client[r].lost => cursor' # None
    BY <2>1 DEF Grows
  <2>5. AnswerOK(client[r], call'[r])
    BY <2>1
  <2>6. AnswerOK(client[r], call[r])'
    BY <2>3, <2>5, AnswerStays DEF AnswerOK, Knows
  <2>7. ~ client[r].lost => Follows(client[r])'
    BY <2>1, <2>3, FollowsStays DEF Follows, Knows
  <2>. QED
    BY <2>1, <2>3, <2>4, <2>6, <2>7
<1>2. client \in [Request -> Client]'
  BY DEF ClientInv, Client, State
<1>. QED
  BY <1>1, <1>2 DEF ClientInv, Follows, AnswerOK, Knows

\* What has been drained stays on its way as long as the push is in its second phase.
LEMMA ArrivalsStay ==
  ASSUME UNCHANGED <<records, cursor>>, ArrivalsAreTold,
         told \cup OnTheWay \cup excused \cup swallowed \subseteq (told \cup OnTheWay \cup excused \cup swallowed)'
  PROVE  ArrivalsAreTold'
<1>1. Arrived' = Arrived
  BY DEF gmail, Arrived, AddedIn, Touches, Exists, LastTouch, now
<1>. QED
  BY <1>1 DEF ArrivalsAreTold

\* One call moves; the rest of the account, the clients and the device stay.
Beside(p) ==
    /\ Quiet /\ RowsOK /\ Moves(p)
    /\ UNCHANGED <<undelivered, lastDelivered, client, excused, swallowed, pushVars>>
    /\ p = Push => call'[p].phase = call[p].phase
    /\ p \in Request => AnswerOK(client[p], call'[p])

\* Steps beside the cache, the calls of others and the clients keep the invariant.
LEMMA BesideOK ==
  ASSUME GmailInv, NEW p \in Proc, Beside(p)
  PROVE  GmailInv'
<1>1. RecordsInv /\ StoreInv /\ CopiesInv /\ CallsInv /\ ClientInv /\ PushInv /\ ArrivalsAreTold
  BY DEF GmailInv
<1>2. Quiet /\ RowsOK /\ Moves(p)
  BY DEF Beside
<1>3. RecordsInv' /\ Grows
  BY <1>1, <1>2, QuietGrows
<1>4. StoreInv' /\ CopiesInv'
  BY <1>1, <1>2, RowsStay
<1>5. CallsInv'
  BY <1>1, <1>2, QuietCalls
<1>6. ClientInv'
  <2>1. UNCHANGED client /\ \A r \in Request : call'[r] = call[r] \/ AnswerOK(client[r], call'[r])
    BY Numbers DEF Beside, Moves
  <2>. QED
    BY <1>1, <1>3, <2>1, ClientsStay
<1>7. PushInv'
  BY <1>1 DEF PushInv, Beside, pushVars, HintsAreFollowed
<1>8. ArrivalsAreTold'
  <2>1. OnTheWay' = OnTheWay
    BY Numbers DEF OnTheWay, Beside, Moves
  <2>2. UNCHANGED <<records, cursor, told, excused, swallowed>>
    BY DEF Beside, Quiet, gmail, pushVars
  <2> HIDE DEF OnTheWay
  <2>. QED
    BY <1>1, <2>1, <2>2, ArrivalsStay
<1>. QED
  BY <1>3, <1>4, <1>5, <1>6, <1>7, <1>8 DEF GmailInv

\* A call that goes on into profile() is one again that has stored nothing.
LEMMA Entering ==
  ASSUME RecordsInv, StoreInv, CallsInv, Quiet, NEW p \in Proc, NEW new, DOMAIN new \subseteq Fields,
         "at" \notin DOMAIN new, Enter(p, new), UNCHANGED flight, call[p].at # "history",
         LET k == Over(call[p], new) IN
           /\ k.phase \in 1..2 /\ k.got \in 0..now /\ k.base \in 0..reached /\ k.rev \in 0..revision
           /\ k.upto \in 0..now \cup {Gone} /\ (k.op \in {"get", "write"} => k.msg \in Msg)
  PROVE  /\ profile' \in 0..now \cup {None} /\ Moves(p)
         /\ \A f \in Fields \ {"at", "prof", "rev", "owner"} : call'[p][f] = Over(call[p], new)[f]
         /\ call'[p].at \notin {"delta", "message"}
<1> DEFINE k == Over(call[p], new)
<1>1. DOMAIN call = Proc /\ DOMAIN call[p] = Fields
  BY DEF CallsInv, CallOK, CallTyped
<1>2. DOMAIN k = Fields
  BY <1>1 DEF Over
<1>3. reached \in Nat /\ now \in Nat /\ revision \in Nat /\ revision' = revision
  BY ReachedIs, NowIs DEF StoreInv, Quiet, gmail
<1>4. flight # None => flight \in Proc \ {p}
  BY DEF CallsInv, At
<1>5. CASE ProfileAsk(p, new)
  <2> DEFINE n == [at |-> "profile", prof |-> now, rev |-> revision']
  <2>1. call' = [call EXCEPT ![p] = Over(call[p], Over(new, n))]
    BY <1>5 DEF ProfileAsk, Become
  <2>2. \A f \in Fields : Over(call[p], Over(new, n))[f] = IF f \in DOMAIN n THEN n[f] ELSE k[f]
    BY <1>1 DEF Over
  <2>3. DOMAIN Over(call[p], Over(new, n)) = Fields
    BY <1>1, RowsAre DEF Over
  <2> HIDE DEF k
  <2>4. /\ call'[p].at = "profile" /\ call'[p].prof = now /\ call'[p].rev = revision
        /\ \A f \in Fields \ {"at", "prof", "rev"} : call'[p][f] = k[f]
        /\ DOMAIN call'[p] = Fields
    BY <1>1, <1>3, <2>1, <2>2, <2>3, RowsAre
  <2>5. CallOK(p, call'[p])
    BY <1>3, <2>4, RowsAre DEF CallOK, CallTyped, Stage, Early, k
  <2>6. DOMAIN call' = Proc /\ \A q \in Proc : q # p => call'[q] = call[q]
    BY <1>1, <2>1
  <2>7. flight # p /\ UNCHANGED flight
    BY <1>4, Numbers
  <2>8. profile' \in 0..now \cup {None}
    BY <1>3, <1>5 DEF ProfileAsk
  <2>9. \A f \in Fields \ {"at", "prof", "rev", "owner"} : call'[p][f] = k[f]
    BY <2>4
  <2>10. call'[p].at \notin {"delta", "message"}
    BY <2>4
  <2> HIDE DEF CallOK
  <2>. QED
    BY <2>5, <2>6, <2>7, <2>8, <2>9, <2>10 DEF Moves, k
<1>6. CASE /\ profile # None /\ UNCHANGED profile
           /\ Become(p, Over(new, [at |-> joined, prof |-> profile, owner |-> flight]))
  <2> DEFINE n == [at |-> joined, prof |-> profile, owner |-> flight]
  <2>1. call' = [call EXCEPT ![p] = Over(call[p], Over(new, n))]
    BY <1>6 DEF Become
  <2>2. \A f \in Fields : Over(call[p], Over(new, n))[f] = IF f \in DOMAIN n THEN n[f] ELSE k[f]
    BY <1>1 DEF Over
  <2>3. DOMAIN Over(call[p], Over(new, n)) = Fields
    BY <1>1, RowsAre DEF Over
  <2> HIDE DEF k
  <2>4. /\ call'[p].at = joined /\ call'[p].prof = profile /\ call'[p].owner = flight
        /\ \A f \in Fields \ {"at", "prof", "owner"} : call'[p][f] = k[f]
        /\ DOMAIN call'[p] = Fields
    BY <1>1, <2>1, <2>2, <2>3, RowsAre
  <2>5. CallOK(p, call'[p])
    BY <1>3, <1>4, <1>6, <2>4, RowsAre DEF CallOK, CallTyped, Stage, Early, k, joined, StoreInv
  <2>6. DOMAIN call' = Proc /\ \A q \in Proc : q # p => call'[q] = call[q]
    BY <1>1, <2>1
  <2>7. flight # p /\ UNCHANGED flight
    BY <1>4, Numbers
  <2>8. profile' \in 0..now \cup {None}
    BY <1>3, <1>6 DEF StoreInv
  <2>9. \A f \in Fields \ {"at", "prof", "rev", "owner"} : call'[p][f] = k[f]
    BY <2>4
  <2>10. call'[p].at \notin {"delta", "message"}
    BY <2>4 DEF joined
  <2> HIDE DEF CallOK
  <2>. QED
    BY <2>5, <2>6, <2>7, <2>8, <2>9, <2>10 DEF Moves, k
<1>. QED
  BY <1>5, <1>6 DEF Enter

\* Rows nobody touches are rows that are right.
LEMMA SameRows ==
  ASSUME StoreInv, UNCHANGED <<cache, page, warm>>, profile' \in 0..now \cup {None}
  PROVE  RowsOK
BY DEF StoreInv, RowsOK

\* A call with no new answer for its client keeps the clients right.
LEMMA AnswerKept ==
  ASSUME ClientInv, NEW r \in Request, call'[r].at \notin {"delta", "message"},
         \/ call'[r].phase # 2
         \/ call'[r].phase = call[r].phase /\ call'[r].op = call[r].op /\ call'[r].msg = call[r].msg
            /\ call'[r].got = call[r].got
  PROVE  AnswerOK(client[r], call'[r])
<1>1. AnswerOK(client[r], call[r])
  BY DEF ClientInv
<1>. QED
  BY <1>1 DEF AnswerOK

\* The invariant in the form the steps use it.
LEMMA Typed ==
  ASSUME GmailInv
  PROVE  /\ RecordsInv /\ StoreInv /\ CopiesInv /\ CallsInv /\ ClientInv /\ PushInv /\ ArrivalsAreTold
         /\ reached \in Nat /\ now \in Nat /\ revision \in Nat /\ reached <= now /\ Gone \in Nat /\ now < Gone
         /\ (cursor # None => cursor = reached) /\ (cursor = None => reached = 0)
         /\ profile \in 0..now \cup {None}
         /\ \A p \in Proc : CallOK(p, call[p]) /\ CallTyped(call[p])
         /\ flight # None => flight \in Proc /\ call[flight].at = "history"
BY ReachedIs, NowIs DEF GmailInv, StoreInv, CallsInv, CallOK, At

\* The history is read to its end, or not at all.
LEMMA HistoryIs ==
  ASSUME RecordsInv, NEW start \in 0..now
  PROVE  HistoryAsk(start) = now \/ HistoryAsk(start) = Gone
BY DEF HistoryAsk

\* A call goes on, beside everything else.
Elsewhere == UNCHANGED <<undelivered, lastDelivered, client, excused, swallowed, pushVars>>

\* A step that goes on within one call keeps the invariant if that call stays right.
LEMMA GoesOn ==
  ASSUME GmailInv, NEW p \in Proc, NEW new, DOMAIN new \subseteq Fields, Become(p, new),
         Quiet, RowsOK, Elsewhere, CallOK(p, call'[p]),
         \/ call[p].at # "history" /\ UNCHANGED flight
         \/ flight' = p /\ call'[p].at = "history",
         p = Push => "phase" \notin DOMAIN new,
         p \in Request => AnswerOK(client[p], call'[p])
  PROVE  GmailInv'
<1>1. DOMAIN call' = Proc /\ (\A q \in Proc : q # p => call'[q] = call[q]) /\ Locals(p, new)
  BY Typed, Becoming
<1>2. p = Push => call'[p].phase = call[p].phase
  BY <1>1, RowsAre DEF Locals
<1>3. call[p].at # "history" => flight # p
  BY Typed, Numbers
<1> HIDE DEF CallOK, AnswerOK
<1>4. Moves(p)
  BY <1>1, <1>3 DEF Moves
<1>. QED
  BY <1>2, <1>4, BesideOK DEF Beside, Elsewhere

\* A call ends, and its client with what it knew.
LEMMA EndsWell ==
  ASSUME GmailInv, NEW r \in Request, Ends(r), Quiet, RowsOK, Elsewhere, call[r].at # "history", UNCHANGED flight
  PROVE  GmailInv'
<1>1. r \in Proc /\ r # Push
  BY Numbers
<1>2. DOMAIN call' = Proc /\ (\A q \in Proc : q # r => call'[q] = call[q]) /\ call'[r] = Idle
  BY <1>1, Typed, Ending
<1>3. CallOK(r, call'[r])
  BY <1>1, <1>2, IdleIsOK, Typed
<1>4. AnswerOK(client[r], call'[r])
  BY <1>2 DEF AnswerOK, Idle
<1>5. flight # r
  BY Typed, <1>1, Numbers
<1> HIDE DEF CallOK, AnswerOK
<1>6. Moves(r)
  BY <1>1, <1>2, <1>3, <1>5 DEF Moves
<1>. QED
  BY <1>1, <1>4, <1>6, BesideOK DEF Beside, Elsewhere

\* A call ends, and its client has learnt something.
LEMMA EndsWiser ==
  ASSUME GmailInv, NEW r \in Request, Ends(r), Quiet, RowsOK, call[r].at # "history", UNCHANGED flight,
         UNCHANGED <<undelivered, lastDelivered, excused, swallowed, pushVars>>,
         NEW c, client' = [client EXCEPT ![r] = c], c \in Client,
         c.since <= c.state.h, c.state.h <= reached, ~ c.lost => cursor # None /\ Follows(c)
  PROVE  GmailInv'
<1>1. r \in Proc /\ r # Push
  BY Numbers
<1>2. DOMAIN call' = Proc /\ (\A q \in Proc : q # r => call'[q] = call[q]) /\ call'[r] = Idle
  BY <1>1, Typed, Ending
<1>3. CallOK(r, call'[r])
  BY <1>1, <1>2, IdleIsOK, Typed
<1>4. flight # r
  BY Typed, <1>1, Numbers
<1>5. Moves(r)
  BY <1>1, <1>2, <1>3, <1>4 DEF Moves
<1>6. /\ RecordsInv' /\ Grows /\ reached' = reached /\ Known' = Known /\ Alive' = Alive /\ UNCHANGED cursor
  BY Typed, QuietGrows DEF Quiet, gmail
<1>7. StoreInv' /\ CopiesInv' /\ CallsInv'
  BY <1>1, <1>5, Typed, RowsStay, QuietCalls
<1>8. ClientInv'
  <2>1. client' \in [Request -> Client] /\ client'[r] = c /\ \A q \in Request \ {r} : client'[q] = client[q]
    BY Typed DEF ClientInv
  <2>2. ASSUME NEW q \in Request
        PROVE  /\ client'[q].since <= client'[q].state.h /\ client'[q].state.h <= reached
               /\ ~ client'[q].lost => cursor # None /\ Follows(client'[q])
               /\ AnswerOK(client'[q], call'[q])
    <3>1. CASE q = r
      BY <1>2, <2>1, <3>1 DEF AnswerOK, Idle
    <3>2. CASE q # r
      <4>1. q \in Proc /\ client'[q] = client[q] /\ call'[q] = call[q]
        BY <1>2, <2>1, <3>2, Numbers
      <4> HIDE DEF AnswerOK, Follows
      <4>. QED
        BY <4>1, Typed DEF ClientInv
    <3>. QED
      BY <3>1, <3>2
  <2>. QED
    BY <1>6, <2>1, <2>2 DEF ClientInv, Follows, AnswerOK, Knows, Client, State
<1>9. PushInv'
  BY Typed DEF PushInv, pushVars, HintsAreFollowed
<1>10. ArrivalsAreTold'
  <2>1. OnTheWay' = OnTheWay
    BY Numbers, <1>1, <1>2 DEF OnTheWay
  <2>2. UNCHANGED <<records, cursor, told, excused, swallowed>>
    BY DEF Quiet, gmail, pushVars
  <2> HIDE DEF OnTheWay
  <2>. QED
    BY Typed, <2>1, <2>2, ArrivalsStay
<1>. QED
  BY <1>6, <1>7, <1>8, <1>9, <1>10 DEF GmailInv

-----------------------------------------------------------------------------
(* profile(), up to the sync.                                              *)

LEMMA ProfileArrivesOK ==
  ASSUME GmailInv, NEW p \in Proc, ProfileArrives(p), UNCHANGED pushVars
  PROVE  GmailInv'
<1> DEFINE new == [at |-> joined, owner |-> flight, rev |-> 0]
<1>1. /\ call[p].at = "profile" /\ Become(p, new) /\ Quiet /\ Elsewhere /\ UNCHANGED <<cache, page, warm, flight>>
      /\ profile' \in {call[p].prof, profile}
  BY DEF ProfileArrives, Answered, At, Quiet, gmail, Elsewhere, memory, history
<1>2. CallTyped(call[p])
  BY Typed
<1>3. RowsOK
  BY <1>1, <1>2, Typed, SameRows DEF CallTyped
<1>4. DOMAIN new \subseteq Fields /\ "phase" \notin DOMAIN new
  BY RowsAre
<1>5. Locals(p, new)
  BY <1>1, <1>4, Typed, Becoming
<1>6. CallOK(p, call'[p])
  BY <1>1, <1>2, <1>5, Typed, RowsAre DEF Locals, CallOK, CallTyped, Stage, Early, joined
<1>7. p \in Request => AnswerOK(client[p], call'[p])
  BY <1>5, Typed, AnswerKept, RowsAre DEF Locals, joined
<1> HIDE DEF CallOK, AnswerOK, new
<1>. QED
  BY <1>1, <1>3, <1>4, <1>6, <1>7, GoesOn

LEMMA UpToDateOK ==
  ASSUME GmailInv, NEW p \in Proc, UpToDate(p), UNCHANGED pushVars
  PROVE  GmailInv'
<1> DEFINE new == [at |-> "ready"]
<1>1. /\ call[p].at = "decide" /\ Become(p, new) /\ Quiet /\ Elsewhere
      /\ UNCHANGED <<cache, page, profile, warm, flight>> /\ cursor = call[p].prof
  BY DEF UpToDate, Answered, At, Quiet, gmail, Elsewhere, memory, history, store, rows
<1>2. CallTyped(call[p])
  BY Typed
<1>3. RowsOK
  BY <1>1, Typed, SameRows
<1>4. DOMAIN new \subseteq Fields /\ "phase" \notin DOMAIN new
  BY RowsAre
<1>5. Locals(p, new)
  BY <1>1, <1>4, Typed, Becoming
<1>6. cursor # None /\ call[p].prof <= reached
  BY <1>1, <1>2, Typed, Numbers DEF CallTyped
<1>7. CallOK(p, call'[p])
  BY <1>1, <1>2, <1>5, <1>6, Typed, RowsAre DEF Locals, CallOK, CallTyped, Stage, Early
<1>8. p \in Request => AnswerOK(client[p], call'[p])
  BY <1>5, Typed, AnswerKept, RowsAre DEF Locals
<1> HIDE DEF CallOK, AnswerOK, new
<1>. QED
  BY <1>1, <1>3, <1>4, <1>7, <1>8, GoesOn

LEMMA StaleProfileOK ==
  ASSUME GmailInv, NEW p \in Proc, StaleProfile(p), UNCHANGED pushVars
  PROVE  GmailInv'
<1> DEFINE new == [at |-> "recheck", base |-> cursor, prof |-> now]
<1>1. /\ call[p].at = "decide" /\ Become(p, new) /\ Quiet /\ Elsewhere
      /\ UNCHANGED <<cache, page, profile, warm, flight>> /\ cursor # None
  BY DEF StaleProfile, Answered, At, Quiet, gmail, Elsewhere, memory, history, store, rows
<1>2. CallTyped(call[p])
  BY Typed
<1>3. RowsOK
  BY <1>1, Typed, SameRows
<1>4. DOMAIN new \subseteq Fields /\ "phase" \notin DOMAIN new
  BY RowsAre
<1>5. Locals(p, new)
  BY <1>1, <1>4, Typed, Becoming
<1>6. CallOK(p, call'[p])
  BY <1>1, <1>2, <1>5, Typed, RowsAre DEF Locals, CallOK, CallTyped, Stage, Early
<1>7. p \in Request => AnswerOK(client[p], call'[p])
  BY <1>5, Typed, AnswerKept, RowsAre DEF Locals
<1> HIDE DEF CallOK, AnswerOK, new
<1>. QED
  BY <1>1, <1>3, <1>4, <1>6, <1>7, GoesOn

LEMMA RecheckArrivesOK ==
  ASSUME GmailInv, NEW p \in Proc, RecheckArrives(p), UNCHANGED pushVars
  PROVE  GmailInv'
<1>1. /\ call[p].at = "recheck" /\ Quiet /\ Elsewhere
      /\ UNCHANGED <<cache, page, warm, flight>> /\ profile' = call[p].prof
  BY DEF RecheckArrives, Answered, At, Quiet, gmail, Elsewhere, memory, history
<1>2. CallTyped(call[p]) /\ cursor # None
  BY <1>1, Typed DEF CallTyped, Early
<1>3. RowsOK
  BY <1>1, <1>2, Typed, SameRows DEF CallTyped
<1>4. ASSUME NEW new, Become(p, new),
             \/ new = [at |-> joined, base |-> 0, owner |-> flight]
             \/ new = [at |-> "ready", prof |-> call[p].base, base |-> 0]
      PROVE  GmailInv'
  <2>1. DOMAIN new \subseteq Fields /\ "phase" \notin DOMAIN new
    BY <1>4, RowsAre
  <2>2. Locals(p, new)
    BY <1>4, <2>1, Typed, Becoming
  <2>3. /\ DOMAIN call'[p] = Fields
        /\ \/ call'[p].at = joined /\ call'[p].owner = flight /\ call'[p].prof = call[p].prof
           \/ call'[p].at = "ready" /\ call'[p].prof = call[p].base /\ call'[p].owner = call[p].owner
        /\ call'[p].base = 0 /\ \A f \in Fields \ {"at", "base", "owner", "prof"} : call'[p][f] = call[p][f]
    BY <1>4, <2>2, RowsAre DEF Locals
  <2>4. CallOK(p, call'[p])
    BY <1>1, <1>2, <2>3, Typed, RowsAre DEF CallOK, CallTyped, Stage, Early, joined
  <2>5. p \in Request => AnswerOK(client[p], call'[p])
    BY <2>3, Typed, AnswerKept, RowsAre DEF joined
  <2> HIDE DEF CallOK, AnswerOK
  <2>. QED
    BY <1>1, <1>3, <1>4, <2>1, <2>4, <2>5, GoesOn
<1>. QED
  BY <1>4 DEF RecheckArrives

LEMMA SyncStartsOK ==
  ASSUME GmailInv, NEW p \in Proc, SyncStarts(p), UNCHANGED pushVars
  PROVE  GmailInv'
<1> DEFINE new == [at |-> "history", base |-> cursor, rev |-> revision, upto |-> HistoryAsk(cursor)]
<1>1. /\ call[p].at = "decide" /\ Become(p, new) /\ Quiet /\ Elsewhere
      /\ UNCHANGED <<cache, page, profile, warm>> /\ flight' = p /\ cursor # None
  BY DEF SyncStarts, Answered, At, Quiet, gmail, Elsewhere, memory, history, store, rows
<1>2. CallTyped(call[p])
  BY Typed
<1>3. RowsOK
  BY <1>1, Typed, SameRows
<1>4. DOMAIN new \subseteq Fields /\ "phase" \notin DOMAIN new
  BY RowsAre
<1>5. Locals(p, new)
  BY <1>1, <1>4, Typed, Becoming
<1>6. HistoryAsk(cursor) \in 0..now \cup {Gone}
  BY <1>1, Typed DEF HistoryAsk
<1>7. call'[p].at = "history"
  BY <1>5 DEF Locals
<1>8. CallOK(p, call'[p])
  BY <1>1, <1>2, <1>5, <1>6, Typed, RowsAre DEF Locals, CallOK, CallTyped, Stage, Early
<1>9. p \in Request => AnswerOK(client[p], call'[p])
  BY <1>5, Typed, AnswerKept, RowsAre DEF Locals
<1> HIDE DEF CallOK, AnswerOK, new
<1>. QED
  BY <1>1, <1>3, <1>4, <1>7, <1>8, <1>9, GoesOn

-----------------------------------------------------------------------------
(* The methods.                                                            *)

\* The same for a step that enters a method from profile().
LEMMA GoesIn ==
  ASSUME GmailInv, NEW r \in Request, NEW new, DOMAIN new \subseteq Fields, "at" \notin DOMAIN new, Enter(r, new),
         call[r].at # "history", Quiet, Elsewhere, UNCHANGED flight,
         profile' \in 0..now \cup {None} => RowsOK,
         LET k == Over(call[r], new) IN
           /\ k.phase \in 1..2 /\ k.got \in 0..now /\ k.base \in 0..reached /\ k.rev \in 0..revision
           /\ k.upto \in 0..now \cup {Gone} /\ (k.op \in {"get", "write"} => k.msg \in Msg)
           /\ k.op = "get" /\ k.phase = 2 => Knows(k.msg, client[r].state.h, k.got)
  PROVE  GmailInv'
<1> DEFINE k == Over(call[r], new)
<1>1. r \in Proc /\ r # Push
  BY Numbers
<1>2. /\ profile' \in 0..now \cup {None} /\ Moves(r)
      /\ \A f \in Fields \ {"at", "prof", "rev", "owner"} : call'[r][f] = k[f]
      /\ call'[r].at \notin {"delta", "message"}
  BY <1>1, Entering, Typed
<1>3. /\ call'[r].op = k.op /\ call'[r].phase = k.phase /\ call'[r].msg = k.msg /\ call'[r].got = k.got
  BY <1>2, RowsAre
<1>4. AnswerOK(client[r], call'[r])
  BY <1>2, <1>3 DEF AnswerOK
<1> HIDE DEF AnswerOK
<1>. QED
  BY <1>1, <1>2, <1>4, BesideOK DEF Beside, Elsewhere

\* Who knows a message up to h knows it up to any earlier number.
LEMMA KnowsLess ==
  ASSUME NEW m, NEW h \in Nat, NEW g \in Nat, g <= h, NEW x, Knows(m, h, x)
  PROVE  Knows(m, g, x)
BY DEF Knows, Known

\* What is asked for now knows everything.
LEMMA NowCovers ==
  ASSUME GmailInv
  PROVE  /\ \A m \in Msg, h \in 0..now : Knows(m, h, now)
         /\ \A m \in Msg : Covers(m, now)
<1>1. now \in Nat /\ reached \in 0..now /\ \A m \in Msg : wrote[m] \in 0..now
  BY Typed DEF StoreInv
<1>2. \A m \in Msg, h \in 0..now : Knows(m, h, now)
  BY <1>1 DEF Knows, Known
<1>. QED
  BY <1>1, <1>2 DEF Covers, Fresh

LEMMA GetCachedOK ==
  ASSUME GmailInv, NEW r \in Request, GetCached(r), UNCHANGED pushVars
  PROVE  GmailInv'
<1> DEFINE new == [phase |-> 2, prof |-> 0, got |-> cache[call[r].msg]]
           k == Over(call[r], new)
<1>1. /\ call[r].at = "ready" /\ call[r].op = "get" /\ cache[call[r].msg] # None
      /\ Enter(r, new) /\ Quiet /\ Elsewhere /\ UNCHANGED <<cache, page, warm, flight>>
  BY DEF GetCached, Continues, At, Quiet, gmail, Elsewhere, memory, history
<1>2. CallTyped(call[r]) /\ call[r].msg \in Msg
  BY <1>1, Typed, Numbers DEF CallTyped
<1>3. profile' \in 0..now \cup {None} => RowsOK
  BY <1>1, Typed, SameRows
<1>4. DOMAIN new \subseteq Fields /\ "at" \notin DOMAIN new
  BY RowsAre
<1>5. /\ k.phase = 2 /\ k.got = cache[call[r].msg] /\ k.base = call[r].base /\ k.rev = call[r].rev
      /\ k.upto = call[r].upto /\ k.op = "get" /\ k.msg = call[r].msg
  BY <1>1, <1>2, RowsAre DEF Over, CallTyped
<1>6. k.got \in 0..now /\ Covers(k.msg, k.got)
  BY <1>1, <1>2, <1>5, Typed DEF CopiesInv, WarmInv, StoreInv
<1>7. Knows(k.msg, client[r].state.h, k.got)
  <2>1. Knows(k.msg, reached, k.got)
    BY <1>6 DEF Covers, Fresh
  <2>2. client[r].state.h \in Nat /\ client[r].state.h <= reached
    BY Typed DEF ClientInv, Client, State
  <2>. QED
    BY <2>1, <2>2, KnowsLess, Typed
<1>8. /\ k.phase \in 1..2 /\ k.got \in 0..now /\ k.base \in 0..reached /\ k.rev \in 0..revision
      /\ k.upto \in 0..now \cup {Gone} /\ (k.op \in {"get", "write"} => k.msg \in Msg)
  BY <1>2, <1>5, <1>6 DEF CallTyped
<1> HIDE DEF new
<1>. QED
  BY <1>1, <1>3, <1>4, <1>7, <1>8, GoesIn

LEMMA GetAskOK ==
  ASSUME GmailInv, NEW r \in Request, GetAsk(r), UNCHANGED pushVars
  PROVE  GmailInv'
<1> DEFINE new == [at |-> "message", prof |-> 0, got |-> now, rev |-> revision]
<1>1. /\ call[r].at = "ready" /\ call[r].op = "get" /\ Become(r, new) /\ Quiet /\ Elsewhere
      /\ UNCHANGED <<page, profile, warm, flight>> /\ cache' = [cache EXCEPT ![call[r].msg] = None]
  BY DEF GetAsk, Continues, At, Quiet, gmail, Elsewhere, memory, history
<1>2. r \in Proc /\ r # Push /\ CallTyped(call[r]) /\ call[r].msg \in Msg /\ cursor # None
  BY <1>1, Typed, Numbers DEF CallTyped, Early
<1>3. RowsOK
  BY <1>1, Typed DEF RowsOK, StoreInv
<1>4. DOMAIN new \subseteq Fields
  BY RowsAre
<1>5. Locals(r, new)
  BY <1>1, <1>2, <1>4, Typed, Becoming
<1>6. \A m \in Msg : Covers(m, now)
  BY NowCovers
<1>7. CallOK(r, call'[r])
  BY <1>1, <1>2, <1>5, <1>6, Typed, RowsAre DEF Locals, CallOK, CallTyped, Stage, Early
<1>8. AnswerOK(client[r], call'[r])
  <2>1. client[r].state.h \in 0..now
    BY Typed DEF ClientInv, Client, State
  <2>2. Knows(call[r].msg, client[r].state.h, now)
    BY <1>2, <2>1, NowCovers
  <2>. QED
    BY <1>1, <1>2, <1>5, <2>2, RowsAre DEF Locals, AnswerOK
<1> HIDE DEF CallOK, AnswerOK, new
<1>. QED
  BY <1>1, <1>2, <1>3, <1>4, <1>7, <1>8, GoesOn

LEMMA MessageArrivesOK ==
  ASSUME GmailInv, NEW r \in Request, MessageArrives(r), UNCHANGED pushVars
  PROVE  GmailInv'
<1> DEFINE new == [phase |-> 2, rev |-> 0]
           k == Over(call[r], new)
<1>1. /\ call[r].at = "message" /\ Enter(r, new) /\ Quiet /\ Elsewhere /\ UNCHANGED <<page, warm, flight>>
      /\ cache' = IF Unmoved(call[r].rev) /\ Exists(call[r].msg, call[r].got)
                  THEN [cache EXCEPT ![call[r].msg] = call[r].got] ELSE cache
  BY DEF MessageArrives, Answered, At, Quiet, gmail, Elsewhere, memory, history
<1>2. /\ r \in Proc /\ CallTyped(call[r]) /\ call[r].op = "get" /\ call[r].msg \in Msg /\ cursor # None
      /\ (call[r].rev = revision => Covers(call[r].msg, call[r].got)) /\ call[r].got \in 0..now
  BY <1>1, Typed, Numbers DEF CallTyped, CallOK, Early
<1>3. profile' \in 0..now \cup {None} => RowsOK
  <2>1. ASSUME NEW m \in Msg, call[r].msg \in {m, Thread}
        PROVE  m = call[r].msg
    BY <1>2, <2>1, Numbers
  <2>2. call[r].rev = revision => CopyOK(call[r].msg, call[r].got)
    BY <1>2, <2>1 DEF CopyOK
  <2> HIDE DEF CopyOK
  <2>. QED
    BY <1>1, <1>2, <2>2, Typed DEF RowsOK, StoreInv, Unmoved
<1>4. DOMAIN new \subseteq Fields /\ "at" \notin DOMAIN new
  BY RowsAre
<1>5. /\ k.phase = 2 /\ k.got = call[r].got /\ k.base = call[r].base /\ k.rev = 0
      /\ k.upto = call[r].upto /\ k.op = "get" /\ k.msg = call[r].msg
  BY <1>1, <1>2, RowsAre DEF Over, CallTyped
<1>6. Knows(k.msg, client[r].state.h, k.got)
  BY <1>1, <1>5, Typed DEF ClientInv, AnswerOK
<1>7. /\ k.phase \in 1..2 /\ k.got \in 0..now /\ k.base \in 0..reached /\ k.rev \in 0..revision
      /\ k.upto \in 0..now \cup {Gone} /\ (k.op \in {"get", "write"} => k.msg \in Msg)
  BY <1>2, <1>5, Typed DEF CallTyped
<1> HIDE DEF new
<1>. QED
  BY <1>1, <1>3, <1>4, <1>6, <1>7, GoesIn

LEMMA GetAnswersOK ==
  ASSUME GmailInv, NEW r \in Request, GetAnswers(r), UNCHANGED pushVars
  PROVE  GmailInv'
<1> DEFINE m0 == call[r].msg
           c == [client[r] EXCEPT !.held = [@ EXCEPT ![m0] = call[r].got], !.want = @ \ {m0}]
<1>1. /\ call[r].at = "ready" /\ call[r].op = "get" /\ call[r].phase = 2 /\ Ends(r) /\ Quiet
      /\ UNCHANGED <<cache, page, profile, warm, flight, undelivered, lastDelivered, excused, swallowed>>
      /\ TakeCopy(r)
  BY DEF GetAnswers, Continues, At, Quiet, gmail, memory, history, store, rows
<1>2. CallTyped(call[r]) /\ m0 \in Msg /\ cursor # None /\ call[r].got \in Nat
  BY <1>1, Typed, Numbers DEF CallTyped, Early
<1>3. RowsOK
  BY <1>1, Typed, SameRows
<1>4. client[r] \in Client /\ client \in [Request -> Client] /\ client[r].since <= client[r].state.h
      /\ client[r].state.h <= reached
      /\ (~ client[r].lost => cursor # None /\ Follows(client[r])) /\ AnswerOK(client[r], call[r])
  BY Typed DEF ClientInv
<1>5. c \in Client /\ c.state = client[r].state /\ c.since = client[r].since /\ c.lost = client[r].lost
      /\ c.held = [client[r].held EXCEPT ![m0] = call[r].got] /\ c.want = client[r].want \ {m0}
  BY <1>2, <1>4 DEF Client
<1>6. client' = [client EXCEPT ![r] = c]
  BY <1>1, <1>2, <1>4 DEF TakeCopy, Client
<1>7. ~ c.lost => cursor # None /\ Follows(c)
  <2>1. Knows(m0, c.state.h, c.held[m0])
    BY <1>1, <1>2, <1>4, <1>5 DEF AnswerOK, Client
  <2>2. \A m \in Msg \ {m0} : c.held[m] = client[r].held[m]
    BY <1>4, <1>5 DEF Client
  <2>. QED
    BY <1>4, <1>5, <2>1, <2>2 DEF Follows
<1> HIDE DEF c
<1>. QED
  BY <1>1, <1>3, <1>4, <1>5, <1>6, <1>7, EndsWiser

\* A thread kept at x gives each of its messages a copy of the same age.
LEMMA InThreadOK ==
  ASSUME GmailInv, NEW x, CopyOK(Thread, x), cache' = InThread(x), UNCHANGED <<page, profile, warm>>
  PROVE  RowsOK
<1>1. DOMAIN cache = Msg \cup {Thread}
  BY Typed DEF StoreInv
<1>2. \A k \in Msg \cup {Thread} : cache'[k] \in {x, cache[k]}
  BY <1>1 DEF InThread
<1>3. \A k \in Msg \cup {Thread} : CopyOK(k, x)
  BY DEF CopyOK
<1>4. cache' = [k \in Msg \cup {Thread} |-> cache'[k]]
  BY <1>1 DEF InThread
<1> HIDE DEF CopyOK
<1>. QED
  BY <1>2, <1>3, <1>4, Typed DEF RowsOK

LEMMA ThreadCachedOK ==
  ASSUME GmailInv, NEW r \in Request, ThreadCached(r), UNCHANGED pushVars
  PROVE  GmailInv'
<1>1. /\ call[r].at = "ready" /\ cache[Thread] # None /\ Ends(r) /\ Quiet /\ Elsewhere
      /\ UNCHANGED <<page, profile, warm, flight>> /\ cache' = InThread(cache[Thread])
  BY DEF ThreadCached, Continues, At, Quiet, gmail, Elsewhere, memory, history
<1>2. CopyOK(Thread, cache[Thread])
  BY <1>1, Typed DEF CopyOK, CopiesInv, WarmInv, StoreInv
<1>3. RowsOK
  BY <1>1, <1>2, InThreadOK
<1>. QED
  BY <1>1, <1>3, EndsWell

LEMMA ThreadAskOK ==
  ASSUME GmailInv, NEW r \in Request, ThreadAsk(r), UNCHANGED pushVars
  PROVE  GmailInv'
<1> DEFINE new == [at |-> "thread", prof |-> 0, got |-> now, rev |-> revision]
<1>1. /\ call[r].at = "ready" /\ call[r].op = "thread" /\ Become(r, new) /\ Quiet /\ Elsewhere
      /\ UNCHANGED <<page, profile, warm, flight>> /\ cache' = [cache EXCEPT ![Thread] = None]
  BY DEF ThreadAsk, Continues, At, Quiet, gmail, Elsewhere, memory, history
<1>2. r \in Proc /\ r # Push /\ CallTyped(call[r]) /\ cursor # None
  BY <1>1, Typed, Numbers DEF CallTyped, Early
<1>3. RowsOK
  BY <1>1, Typed DEF RowsOK, StoreInv
<1>4. DOMAIN new \subseteq Fields
  BY RowsAre
<1>5. Locals(r, new)
  BY <1>1, <1>2, <1>4, Typed, Becoming
<1>6. \A m \in Msg : Covers(m, now)
  BY NowCovers
<1>7. CallOK(r, call'[r])
  BY <1>1, <1>2, <1>5, <1>6, Typed, RowsAre DEF Locals, CallOK, CallTyped, Stage, Early
<1>8. AnswerOK(client[r], call'[r])
  BY <1>1, <1>2, <1>5, RowsAre DEF Locals, AnswerOK
<1> HIDE DEF CallOK, AnswerOK, new
<1>. QED
  BY <1>1, <1>2, <1>3, <1>4, <1>7, <1>8, GoesOn

LEMMA ThreadArrivesOK ==
  ASSUME GmailInv, NEW r \in Request, ThreadArrives(r), UNCHANGED pushVars
  PROVE  GmailInv'
<1>1. /\ call[r].at = "thread" /\ Ends(r) /\ Quiet /\ Elsewhere
      /\ UNCHANGED <<page, profile, warm, flight>>
      /\ cache' = IF Unmoved(call[r].rev) THEN InThread(call[r].got) ELSE cache
  BY DEF ThreadArrives, Answered, At, Quiet, gmail, Elsewhere, memory, history
<1>2. /\ r \in Proc /\ CallTyped(call[r]) /\ cursor # None
      /\ (call[r].rev = revision => \A m \in Msg : Covers(m, call[r].got)) /\ call[r].got \in 0..now
  BY <1>1, Typed, Numbers DEF CallTyped, CallOK, Early
<1>3. call[r].rev = revision => CopyOK(Thread, call[r].got)
  BY <1>2 DEF CopyOK
<1>4. RowsOK
  BY <1>1, <1>3, Typed, InThreadOK, SameRows DEF Unmoved
<1>. QED
  BY <1>1, <1>4, EndsWell

\* A client that takes a list as new as its state has nothing to read but what is there.
LEMMA ListIsKnown ==
  ASSUME NEW s \in State, NEW x \in Nat, s.h <= x,
         NEW c, c = [lost |-> FALSE, state |-> s, since |-> s.h, held |-> [m \in Msg |-> x],
                     want |-> {m \in Msg : Exists(m, x)}]
  PROVE  c \in Client /\ Follows(c) /\ c.since <= c.state.h
<1>1. s.h \in Nat
  BY DEF State
<1>2. c \in Client
  BY <1>1 DEF Client
<1>3. \A m \in Msg : <<m, s.h, x>> \in Known
  BY <1>1 DEF Known
<1>. QED
  BY <1>1, <1>2, <1>3 DEF Follows, Knows

LEMMA QueryCachedOK ==
  ASSUME GmailInv, NEW r \in Request, QueryCached(r), UNCHANGED pushVars
  PROVE  GmailInv'
<1> DEFINE c == [lost |-> FALSE, state |-> page.state, since |-> page.state.h, held |-> [m \in Msg |-> page.at],
                 want |-> {m \in Msg : Exists(m, page.at)}]
<1>1. /\ call[r].at = "ready" /\ page # None /\ Ends(r) /\ Quiet
      /\ UNCHANGED <<cache, page, profile, warm, flight, undelivered, lastDelivered, excused, swallowed>>
      /\ client' = [client EXCEPT ![r] = c]
  BY DEF QueryCached, Continues, At, Quiet, gmail, memory, history, store, rows, TakeList
<1>2. cursor # None
  BY <1>1, Typed, Numbers DEF CallTyped, Early
<1>3. RowsOK
  BY <1>1, Typed, SameRows
<1>4. page.state \in State /\ page.at \in Nat /\ page.state.h <= page.at /\ page.state.h <= reached
  BY <1>1, Typed DEF StoreInv
<1>5. c \in Client /\ Follows(c) /\ c.since <= c.state.h
  BY <1>4, ListIsKnown
<1>6. c.state.h <= reached
  BY <1>4
<1> HIDE DEF c
<1>. QED
  BY <1>1, <1>2, <1>3, <1>5, <1>6, EndsWiser

LEMMA QueryAskOK ==
  ASSUME GmailInv, NEW r \in Request, QueryAsk(r), UNCHANGED pushVars
  PROVE  GmailInv'
<1> DEFINE new == [at |-> "list", got |-> now, rev |-> revision]
<1>1. /\ call[r].at = "ready" /\ call[r].op = "reload" /\ Become(r, new) /\ Quiet /\ Elsewhere
      /\ UNCHANGED <<cache, profile, warm, flight>> /\ page' = None
  BY DEF QueryAsk, Continues, At, Quiet, gmail, Elsewhere, memory, history
<1>2. r \in Proc /\ r # Push /\ CallTyped(call[r]) /\ cursor # None /\ call[r].prof <= reached
  BY <1>1, Typed, Numbers DEF CallTyped, CallOK, Early
<1>3. RowsOK
  BY <1>1, Typed DEF RowsOK, StoreInv
<1>4. DOMAIN new \subseteq Fields
  BY RowsAre
<1>5. Locals(r, new)
  BY <1>1, <1>2, <1>4, Typed, Becoming
<1>6. CallOK(r, call'[r])
  BY <1>1, <1>2, <1>5, Typed, RowsAre DEF Locals, CallOK, CallTyped, Stage, Early
<1>7. AnswerOK(client[r], call'[r])
  BY <1>1, <1>2, <1>5, RowsAre DEF Locals, AnswerOK
<1> HIDE DEF CallOK, AnswerOK, new
<1>. QED
  BY <1>1, <1>2, <1>3, <1>4, <1>6, <1>7, GoesOn

LEMMA ListArrivesOK ==
  ASSUME GmailInv, NEW r \in Request, ListArrives(r), UNCHANGED pushVars
  PROVE  GmailInv'
<1> DEFINE s == [h |-> call[r].prof, r |-> call[r].rev]
           x == call[r].got
           c == [lost |-> FALSE, state |-> s, since |-> s.h, held |-> [m \in Msg |-> x],
                 want |-> {m \in Msg : Exists(m, x)}]
<1>1. /\ call[r].at = "list" /\ Ends(r) /\ Quiet
      /\ UNCHANGED <<cache, profile, warm, flight, undelivered, lastDelivered, excused, swallowed>>
      /\ client' = [client EXCEPT ![r] = c] /\ page' \in {[state |-> s, at |-> x], page}
  BY DEF ListArrives, Answered, At, Quiet, gmail, memory, history, TakeList
<1>2. /\ cursor # None /\ call[r].prof <= reached /\ call[r].prof <= x /\ x \in 0..now /\ s \in State
  BY <1>1, Typed, Numbers DEF CallTyped, CallOK, Early, State
<1>3. RowsOK
  BY <1>1, <1>2, Typed DEF RowsOK, StoreInv
<1>4. c \in Client /\ Follows(c) /\ c.since <= c.state.h
  BY <1>2, ListIsKnown
<1>5. c.state.h <= reached
  BY <1>2
<1> HIDE DEF c, s, x
<1>. QED
  BY <1>1, <1>2, <1>3, <1>4, <1>5, EndsWiser

LEMMA NoChangesOK ==
  ASSUME GmailInv, NEW r \in Request, NoChanges(r) \/ WriteAnswers(r), UNCHANGED pushVars
  PROVE  GmailInv'
<1>1. /\ call[r].at = "ready" /\ Ends(r) /\ Quiet /\ Elsewhere
      /\ UNCHANGED <<cache, page, profile, warm, flight>>
  BY DEF NoChanges, WriteAnswers, Continues, At, Quiet, gmail, Elsewhere, memory, history, store, rows
<1>2. RowsOK
  BY <1>1, Typed, SameRows
<1>. QED
  BY <1>1, <1>2, EndsWell

\* A client that is told to start again.
LEMMA LosesTrackOK ==
  ASSUME GmailInv, NEW r \in Request, OnlyRevisionMoved(r) \/ TooManyChanges(r), UNCHANGED pushVars
  PROVE  GmailInv'
<1> DEFINE c == [client[r] EXCEPT !.lost = TRUE]
<1>1. /\ call[r].at \in {"ready", "delta"} /\ Ends(r) /\ Quiet
      /\ UNCHANGED <<cache, page, profile, warm, flight, undelivered, lastDelivered, excused, swallowed>>
      /\ client' = [client EXCEPT ![r].lost = TRUE]
  BY DEF OnlyRevisionMoved, TooManyChanges, Continues, Answered, At, Quiet, gmail, memory, history, store, rows,
         CannotCalculate
<1>2. RowsOK
  BY <1>1, Typed, SameRows
<1>3. client[r] \in Client /\ client[r].since <= client[r].state.h /\ client[r].state.h <= reached
  BY Typed DEF ClientInv
<1>4. c \in Client /\ c.since <= c.state.h /\ c.state.h <= reached /\ c.lost
  BY <1>3 DEF Client
<1>5. client' = [client EXCEPT ![r] = c]
  BY <1>1
<1> HIDE DEF c
<1>. QED
  BY <1>1, <1>2, <1>4, <1>5, EndsWiser

LEMMA ChangesAskOK ==
  ASSUME GmailInv, NEW r \in Request, ChangesAsk(r), UNCHANGED pushVars
  PROVE  GmailInv'
<1> DEFINE h == client[r].state.h
           new == [at |-> "delta", prof |-> 0, base |-> h, upto |-> HistoryAsk(h)]
<1>1. /\ call[r].at = "ready" /\ call[r].op = "changes" /\ Become(r, new) /\ Quiet /\ Elsewhere
      /\ UNCHANGED <<cache, page, profile, warm, flight>>
  BY DEF ChangesAsk, Continues, At, Quiet, gmail, Elsewhere, memory, history, store, rows
<1>2. r \in Proc /\ r # Push /\ CallTyped(call[r]) /\ cursor # None
  BY <1>1, Typed, Numbers DEF CallTyped, Early
<1>3. RowsOK
  BY <1>1, Typed, SameRows
<1>4. DOMAIN new \subseteq Fields
  BY RowsAre
<1>5. Locals(r, new)
  BY <1>1, <1>2, <1>4, Typed, Becoming
<1>6. h \in 0..reached /\ h \in 0..now
  BY Typed DEF ClientInv, Client, State
<1>7. HistoryAsk(h) = now \/ HistoryAsk(h) = Gone
  BY <1>6, Typed, HistoryIs
<1> HIDE DEF h
<1>8. CallOK(r, call'[r])
  BY <1>1, <1>2, <1>5, <1>6, <1>7, Typed, RowsAre DEF Locals, CallOK, CallTyped, Stage, Early
<1>9. AnswerOK(client[r], call'[r])
  BY <1>1, <1>2, <1>5, RowsAre DEF Locals, AnswerOK, h
<1> HIDE DEF CallOK, AnswerOK, new
<1>. QED
  BY <1>1, <1>2, <1>3, <1>4, <1>8, <1>9, GoesOn

LEMMA WriteLookOK ==
  ASSUME GmailInv, NEW r \in Request, WriteLook(r), UNCHANGED pushVars
  PROVE  GmailInv'
<1> DEFINE new == [at |-> "look", prof |-> 0, got |-> now]
<1>1. /\ call[r].at = "ready" /\ call[r].op = "write" /\ Become(r, new) /\ Quiet /\ Elsewhere
      /\ UNCHANGED <<cache, page, profile, warm, flight>>
  BY DEF WriteLook, Continues, At, Quiet, gmail, Elsewhere, memory, history, store, rows
<1>2. r \in Proc /\ r # Push /\ CallTyped(call[r]) /\ cursor # None
  BY <1>1, Typed, Numbers DEF CallTyped, Early
<1>3. RowsOK
  BY <1>1, Typed, SameRows
<1>4. DOMAIN new \subseteq Fields
  BY RowsAre
<1>5. Locals(r, new)
  BY <1>1, <1>2, <1>4, Typed, Becoming
<1>6. CallOK(r, call'[r])
  BY <1>1, <1>2, <1>5, Typed, RowsAre DEF Locals, CallOK, CallTyped, Stage, Early
<1>7. AnswerOK(client[r], call'[r])
  BY <1>1, <1>2, <1>5, RowsAre DEF Locals, AnswerOK
<1> HIDE DEF CallOK, AnswerOK, new
<1>. QED
  BY <1>1, <1>2, <1>3, <1>4, <1>6, <1>7, GoesOn

LEMMA NothingToWriteOK ==
  ASSUME GmailInv, NEW r \in Request, NothingToWrite(r), UNCHANGED pushVars
  PROVE  GmailInv'
<1> DEFINE new == [phase |-> 2, got |-> 0]
           k == Over(call[r], new)
<1>1. /\ call[r].at = "look" /\ Enter(r, new) /\ Quiet /\ Elsewhere /\ UNCHANGED <<cache, page, warm, flight>>
  BY DEF NothingToWrite, Answered, At, Quiet, gmail, Elsewhere, memory, history
<1>2. r \in Proc /\ CallTyped(call[r]) /\ call[r].op = "write"
  BY <1>1, Typed, Numbers DEF CallOK
<1>3. profile' \in 0..now \cup {None} => RowsOK
  BY <1>1, Typed, SameRows
<1>4. DOMAIN new \subseteq Fields /\ "at" \notin DOMAIN new
  BY RowsAre
<1>5. /\ k.phase = 2 /\ k.got = 0 /\ k.base = call[r].base /\ k.rev = call[r].rev
      /\ k.upto = call[r].upto /\ k.op = "write" /\ k.msg = call[r].msg
  BY <1>1, <1>2, RowsAre DEF Over, CallTyped
<1>6. /\ k.phase \in 1..2 /\ k.got \in 0..now /\ k.base \in 0..reached /\ k.rev \in 0..revision
      /\ k.upto \in 0..now \cup {Gone} /\ (k.op \in {"get", "write"} => k.msg \in Msg) /\ k.op # "get"
  BY <1>2, <1>5, Typed DEF CallTyped
<1> HIDE DEF new
<1>. QED
  BY <1>1, <1>3, <1>4, <1>6, GoesIn

LEMMA StartOK ==
  ASSUME GmailInv, NEW r \in Request, Start(r), UNCHANGED pushVars
  PROVE  GmailInv'
<1>1. /\ call[r].at = "idle" /\ Quiet /\ Elsewhere /\ UNCHANGED <<cache, page, warm, flight>>
  BY DEF Start, At, Quiet, gmail, Elsewhere, memory, history
<1>2. PICK c \in Calls(r) : Enter(r, [op |-> c[1], msg |-> c[2], phase |-> 1])
  BY DEF Start
<1> DEFINE new == [op |-> c[1], msg |-> c[2], phase |-> 1]
           k == Over(call[r], new)
<1>3. r \in Proc /\ CallTyped(call[r]) /\ client[r].want \subseteq Msg
  BY Typed, Numbers DEF ClientInv, Client
<1>4. c[1] \in {"get", "write"} => c[2] \in Msg
  <2>1. /\ c \in {<<"reload", None>>, <<"changes", None>>, <<"thread", None>>}
           \/ c \in {"get"} \X client[r].want \/ c \in {"write"} \X Msg
    BY DEF Calls
  <2>. QED
    BY <1>3, <2>1
<1>5. profile' \in 0..now \cup {None} => RowsOK
  BY <1>1, Typed, SameRows
<1>6. DOMAIN new \subseteq Fields /\ "at" \notin DOMAIN new
  BY RowsAre
<1>7. /\ k.phase = 1 /\ k.got = call[r].got /\ k.base = call[r].base /\ k.rev = call[r].rev
      /\ k.upto = call[r].upto /\ k.op = c[1] /\ k.msg = c[2]
  BY <1>3, RowsAre DEF Over, CallTyped
<1>8. /\ k.phase \in 1..2 /\ k.got \in 0..now /\ k.base \in 0..reached /\ k.rev \in 0..revision
      /\ k.upto \in 0..now \cup {Gone} /\ (k.op \in {"get", "write"} => k.msg \in Msg) /\ k.phase # 2
  BY <1>3, <1>4, <1>7, Typed DEF CallTyped
<1>9. Enter(r, new)
  BY <1>2
<1> HIDE DEF new
<1>. QED
  BY <1>1, <1>5, <1>6, <1>8, <1>9, GoesIn

\* A read that fails ends its call and leaves all else.
LEMMA FailsToReadOK ==
  ASSUME GmailInv, NEW r \in Request, UNCHANGED pushVars,
         call[r].at \in {"profile", "recheck", "message", "thread", "list", "delta", "look"}, Ends(r),
         UNCHANGED <<gmail, store, undelivered, lastDelivered, warm, flight, client, excused, swallowed, wrote>>
  PROVE  GmailInv'
<1>1. /\ call[r].at # "history" /\ Quiet /\ Elsewhere /\ UNCHANGED <<cache, page, profile, warm, flight>>
  BY DEF Quiet, gmail, Elsewhere, store, rows
<1>2. RowsOK
  BY <1>1, Typed, SameRows
<1>. QED
  BY <1>1, <1>2, EndsWell

-----------------------------------------------------------------------------
(* The push.                                                               *)

\* The push moves, and the account and the clients stay.
LEMMA PushMoves ==
  ASSUME GmailInv, Quiet, RowsOK, Moves(Push), UNCHANGED client, PushInv', ArrivalsAreTold'
  PROVE  GmailInv'
<1>1. \A r \in Request : call'[r] = call[r]
  BY Numbers DEF Moves
<1>2. RecordsInv' /\ Grows
  BY Typed, QuietGrows
<1>3. StoreInv' /\ CopiesInv' /\ CallsInv'
  BY Typed, RowsStay, QuietCalls, Numbers
<1>4. ClientInv'
  BY <1>1, <1>2, Typed, ClientsStay
<1>. QED
  BY <1>2, <1>3, <1>4 DEF GmailInv

\* The push ends.
LEMMA PushEnds ==
  ASSUME GmailInv, Ends(Push), call[Push].at # "history", UNCHANGED flight
  PROVE  Moves(Push) /\ call'[Push].phase = 0
<1>1. DOMAIN call' = Proc /\ (\A q \in Proc : q # Push => call'[q] = call[q]) /\ call'[Push] = Idle
  BY Typed, Ending, Numbers
<1>2. CallOK(Push, call'[Push])
  BY <1>1, IdleIsOK, Typed, Numbers
<1>3. flight # Push
  BY Typed, Numbers
<1> HIDE DEF CallOK
<1>. QED
  BY <1>1, <1>2, <1>3 DEF Moves, Idle

LEMMA FreshArrivesOK ==
  ASSUME GmailInv, FreshArrives
  PROVE  GmailInv'
<1> DEFINE new == [at |-> joined, owner |-> flight]
<1>1. /\ call[Push].at = "fresh" /\ Become(Push, new) /\ Quiet /\ Elsewhere
      /\ UNCHANGED <<cache, page, warm, flight>> /\ profile' = call[Push].prof
  BY DEF FreshArrives, Answered, At, Quiet, gmail, Elsewhere, memory, history
<1>2. CallTyped(call[Push]) /\ Push \in Proc /\ Push \notin Request
  BY Typed, Numbers
<1>3. RowsOK
  BY <1>1, <1>2, Typed, SameRows DEF CallTyped
<1>4. DOMAIN new \subseteq Fields /\ "phase" \notin DOMAIN new
  BY RowsAre
<1>5. Locals(Push, new)
  BY <1>1, <1>2, <1>4, Typed, Becoming
<1>6. CallOK(Push, call'[Push])
  BY <1>1, <1>2, <1>5, Typed, RowsAre DEF Locals, CallOK, CallTyped, Stage, Early, joined
<1> HIDE DEF CallOK, AnswerOK, new
<1>. QED
  BY <1>1, <1>2, <1>3, <1>4, <1>6, GoesOn

LEMMA StatesAskOK ==
  ASSUME GmailInv, StatesAsk
  PROVE  GmailInv'
<1> DEFINE new == [at |-> "labels", prof |-> 0]
<1>1. /\ call[Push].at = "ready" /\ call[Push].op = "push" /\ Become(Push, new) /\ Quiet /\ Elsewhere
      /\ UNCHANGED <<cache, page, warm, flight, profile>>
  BY DEF StatesAsk, Continues, At, Quiet, gmail, Elsewhere, memory, history, store, rows
<1>2. CallTyped(call[Push]) /\ Push \in Proc /\ Push \notin Request /\ cursor # None
  BY <1>1, Typed, Numbers DEF CallTyped, Early
<1>3. RowsOK
  BY <1>1, Typed, SameRows
<1>4. DOMAIN new \subseteq Fields /\ "phase" \notin DOMAIN new
  BY RowsAre
<1>5. Locals(Push, new)
  BY <1>1, <1>2, <1>4, Typed, Becoming
<1>6. CallOK(Push, call'[Push])
  BY <1>1, <1>2, <1>5, Typed, RowsAre DEF Locals, CallOK, CallTyped, Stage, Early
<1> HIDE DEF CallOK, AnswerOK, new
<1>. QED
  BY <1>1, <1>2, <1>3, <1>4, <1>6, GoesOn

LEMMA CompareOK ==
  ASSUME GmailInv, Compare
  PROVE  GmailInv'
<1>1. /\ call[Push].at = "ready" /\ call[Push].op = "push" /\ call[Push].phase = 1 /\ Quiet
      /\ lastDelivered' = undelivered /\ undelivered' = {}
      /\ UNCHANGED <<cache, page, warm, flight, client, excused, swallowed, pending, waiting, device, failures,
                     owed, told>>
  BY DEF Compare, Continues, At, Quiet, gmail, history
<1>2. CallTyped(call[Push]) /\ Push \in Proc
  BY Typed, Numbers
<1>3. PushInv'
  BY <1>1, Typed DEF PushInv, HintsAreFollowed
<1>4. UNCHANGED <<records, cursor, told, excused, swallowed>>
  BY <1>1 DEF Quiet, gmail
<1>5. OnTheWay = undelivered
  BY <1>1 DEF OnTheWay
<1>6. CASE Enter(Push, [phase |-> 2])
  <2> DEFINE new == [phase |-> 2]
             k == Over(call[Push], new)
  <2>1. DOMAIN new \subseteq Fields /\ "at" \notin DOMAIN new
    BY RowsAre
  <2>2. /\ k.phase = 2 /\ k.got = call[Push].got /\ k.base = call[Push].base /\ k.rev = call[Push].rev
        /\ k.upto = call[Push].upto /\ k.op = "push" /\ k.msg = call[Push].msg
    BY <1>1, <1>2, RowsAre DEF Over, CallTyped
  <2>3. /\ k.phase \in 1..2 /\ k.got \in 0..now /\ k.base \in 0..reached /\ k.rev \in 0..revision
        /\ k.upto \in 0..now \cup {Gone} /\ (k.op \in {"get", "write"} => k.msg \in Msg)
    BY <1>2, <2>2, Typed DEF CallTyped
  <2>4. Enter(Push, new)
    BY <1>6
  <2> HIDE DEF new
  <2>5. /\ profile' \in 0..now \cup {None} /\ Moves(Push)
        /\ \A f \in Fields \ {"at", "prof", "rev", "owner"} : call'[Push][f] = k[f]
    BY <1>1, <1>2, <2>1, <2>3, <2>4, Typed, Entering
  <2>6. call'[Push].phase = 2
    BY <2>2, <2>5, RowsAre
  <2>7. RowsOK
    BY <1>1, <2>5, Typed, SameRows
  <2>8. OnTheWay' = undelivered
    BY <1>1, <2>6 DEF OnTheWay
  <2>9. ArrivalsAreTold'
    BY <1>4, <1>5, <2>8, Typed, ArrivalsStay
  <2>. QED
    BY <1>1, <1>3, <2>5, <2>7, <2>9, PushMoves
<1>7. CASE Ends(Push) /\ UNCHANGED profile /\ undelivered = {}
  <2>1. Moves(Push)
    BY <1>1, <1>7, PushEnds
  <2>2. RowsOK
    BY <1>1, <1>7, Typed, SameRows
  <2>3. OnTheWay = {}
    BY <1>5, <1>7
  <2>4. ArrivalsAreTold'
    BY <1>4, <2>3, Typed, ArrivalsStay
  <2>. QED
    BY <1>1, <1>3, <2>1, <2>2, <2>4, PushMoves
<1>. QED
  BY <1>6, <1>7 DEF Compare

\* What was on its way has been told, or is lost with its excuse.
LEMMA PushSettles ==
  ASSUME GmailInv, Ends(Push), call[Push].at # "history", UNCHANGED flight, Quiet, RowsOK,
         UNCHANGED <<undelivered, lastDelivered, client, swallowed, pending, waiting, owed>>,
         told \subseteq told', excused \subseteq excused', told' \subseteq Inbox,
         lastDelivered \subseteq told' \cup excused' \/ call[Push].phase # 2,
         device' \in {"none", "unverified", "verified"}, failures' \in 0..(MaxFailures - 1)
  PROVE  GmailInv'
<1>1. Moves(Push)
  BY PushEnds
<1>2. PushInv'
  BY Typed DEF PushInv, HintsAreFollowed
<1>3. ArrivalsAreTold'
  <2>1. undelivered \subseteq OnTheWay'
    BY DEF OnTheWay
  <2>2. OnTheWay \subseteq undelivered \cup told' \cup excused'
    BY DEF OnTheWay
  <2>3. UNCHANGED <<records, cursor>>
    BY DEF Quiet, gmail
  <2>. QED
    BY <2>1, <2>2, <2>3, Typed, ArrivalsStay
<1>. QED
  BY <1>1, <1>2, <1>3, PushMoves

LEMMA StatesArriveOK ==
  ASSUME GmailInv, StatesArrive
  PROVE  GmailInv'
<1>1. /\ call[Push].at = "labels" /\ Quiet
      /\ UNCHANGED <<cache, page, profile, warm, flight, undelivered, lastDelivered, client, excused, swallowed,
                     published, pending, waiting, device, failures, owed>>
  BY DEF StatesArrive, Answered, At, Quiet, gmail, history, memory, store, rows
<1>2. RowsOK /\ lastDelivered \subseteq Inbox /\ told \subseteq Inbox
      /\ device \in {"none", "unverified", "verified"} /\ failures \in 0..(MaxFailures - 1)
  BY <1>1, Typed, SameRows DEF PushInv
<1>3. CASE Become(Push, [at |-> "post"]) /\ UNCHANGED told
  <2> DEFINE new == [at |-> "post"]
  <2>1. CallTyped(call[Push]) /\ Push \in Proc /\ Push \notin Request /\ cursor # None
    BY <1>1, Typed, Numbers DEF CallTyped, Early
  <2>2. DOMAIN new \subseteq Fields /\ "phase" \notin DOMAIN new
    BY RowsAre
  <2>3. Locals(Push, new)
    BY <1>3, <2>1, <2>2, Typed, Becoming
  <2>4. CallOK(Push, call'[Push])
    BY <1>1, <2>1, <2>3, Typed, RowsAre DEF Locals, CallOK, CallTyped, Stage, Early
  <2>5. Elsewhere /\ Become(Push, new)
    BY <1>1, <1>3 DEF Elsewhere, pushVars
  <2> HIDE DEF CallOK, new
  <2>. QED
    BY <1>1, <1>2, <2>1, <2>2, <2>4, <2>5, GoesOn
<1>4. CASE Ends(Push) /\ told' = told \cup lastDelivered
  BY <1>1, <1>2, <1>4, PushSettles
<1>. QED
  BY <1>3, <1>4 DEF StatesArrive

LEMMA PostOkOK ==
  ASSUME GmailInv, PostOk
  PROVE  GmailInv'
<1>1. /\ call[Push].at = "post" /\ Quiet /\ Ends(Push) /\ told' = told \cup lastDelivered /\ failures' = 0
      /\ UNCHANGED <<cache, page, profile, warm, flight, undelivered, lastDelivered, client, excused, swallowed,
                     published, pending, waiting, device, owed>>
  BY DEF PostOk, Answered, At, Quiet, gmail, history, memory, store, rows
<1>2. RowsOK /\ lastDelivered \subseteq Inbox /\ told \subseteq Inbox
      /\ device \in {"none", "unverified", "verified"} /\ 0 \in 0..(MaxFailures - 1)
  BY <1>1, Typed, SameRows, Numbers DEF PushInv
<1>. QED
  BY <1>1, <1>2, PushSettles

LEMMA PostFailsOK ==
  ASSUME GmailInv, PostFails
  PROVE  GmailInv'
<1>1. /\ call[Push].at = "post" /\ Quiet /\ Ends(Push) /\ excused' = excused \cup lastDelivered
      /\ UNCHANGED <<cache, page, profile, warm, flight, undelivered, lastDelivered, client, swallowed,
                     pending, waiting, owed, told>>
      /\ \/ device' = "none" /\ failures' = 0
         \/ failures + 1 < MaxFailures /\ failures' = failures + 1 /\ UNCHANGED device
  BY DEF PostFails, Answered, At, Quiet, gmail, memory, store, rows
<1>2. RowsOK /\ told \subseteq Inbox /\ device \in {"none", "unverified", "verified"} /\ failures \in 0..(MaxFailures - 1)
  BY <1>1, Typed, SameRows DEF PushInv
<1>3. failures' \in 0..(MaxFailures - 1) /\ device' \in {"none", "unverified", "verified"}
  BY <1>1, <1>2, Numbers
<1>. QED
  BY <1>1, <1>2, <1>3, PushSettles

\* A step that touches no call, seen as a step of the push.
LEMMA NothingMoves ==
  ASSUME GmailInv, UNCHANGED <<call, flight>>
  PROVE  Moves(Push)
<1>1. DOMAIN call = Proc /\ CallOK(Push, call[Push]) /\ (flight = Push => call[Push].at = "history")
  BY Typed, Numbers DEF CallsInv
<1> HIDE DEF CallOK
<1>. QED
  BY <1>1 DEF Moves

\* Hints and subscriptions touch no copy and no call.
LEMMA HintsOK ==
  ASSUME GmailInv, Receive \/ WaiterSchedules \/ Subscribe \/ Verify
  PROVE  GmailInv'
<1>1. /\ Quiet
      /\ UNCHANGED <<cache, page, profile, warm, call, flight, undelivered, lastDelivered, client, excused,
                     swallowed, told>>
      /\ \/ UNCHANGED <<device, failures>>
         \/ UNCHANGED failures /\ device' = "verified"
         \/ device' = "unverified" /\ failures' = 0
      /\ \/ UNCHANGED <<pending, waiting, owed>>
         \/ pending' = TRUE
  BY DEF Receive, WaiterSchedules, Subscribe, Verify, Quiet, gmail, memory, history, store, rows, syncVars
<1>2. RowsOK
  BY <1>1, Typed, SameRows
<1>3. Moves(Push)
  BY <1>1, NothingMoves
<1>4. PushInv'
  BY <1>1, Typed, Numbers DEF PushInv, HintsAreFollowed
<1>5. ArrivalsAreTold'
  <2>1. OnTheWay' = OnTheWay /\ UNCHANGED <<records, cursor, told, excused, swallowed>>
    BY <1>1 DEF OnTheWay, Quiet, gmail
  <2> HIDE DEF OnTheWay
  <2>. QED
    BY <2>1, Typed, ArrivalsStay
<1>. QED
  BY <1>1, <1>2, <1>3, <1>4, <1>5, PushMoves

LEMMA TimerFiresOK ==
  ASSUME GmailInv, TimerFires
  PROVE  GmailInv'
<1>1. /\ Quiet
      /\ UNCHANGED <<cache, page, profile, warm, flight, undelivered, lastDelivered, client, excused,
                     swallowed, told, device, failures>>
  BY DEF TimerFires, Quiet, gmail, memory, history, store, rows
<1>2. RowsOK
  BY <1>1, Typed, SameRows
<1>3. UNCHANGED <<records, cursor, told, excused, swallowed>>
  BY <1>1 DEF Quiet, gmail
<1>4. CASE At(Push, "idle") /\ SyncBegins
  <2> DEFINE new == [op |-> "push", at |-> "fresh", phase |-> 1, prof |-> now]
  <2>1. CallTyped(call[Push]) /\ Push \in Proc /\ call[Push].at = "idle" /\ call[Push].phase = 0
    BY <1>4, Typed, Numbers DEF CallTyped, At
  <2>2. DOMAIN new \subseteq Fields
    BY RowsAre
  <2>3. Become(Push, new) /\ owed' = FALSE
    BY <1>4 DEF SyncBegins
  <2>4. DOMAIN call' = Proc /\ (\A q \in Proc : q # Push => call'[q] = call[q]) /\ Locals(Push, new)
    BY <2>1, <2>2, <2>3, Typed, Becoming
  <2>5. CallOK(Push, call'[Push])
    BY <2>1, <2>4, Typed, RowsAre DEF Locals, CallOK, CallTyped, Stage, Early
  <2>6. call'[Push].phase = 1
    BY <2>4 DEF Locals
  <2>7. flight # Push
    BY <2>1, Typed, Numbers
  <2> HIDE DEF CallOK
  <2>8. Moves(Push)
    BY <1>1, <2>4, <2>5, <2>7 DEF Moves
  <2>9. PushInv'
    BY <1>1, <2>3, Typed DEF PushInv, HintsAreFollowed
  <2>10. OnTheWay' = OnTheWay
    BY <1>1, <2>1, <2>6 DEF OnTheWay
  <2>11. ArrivalsAreTold'
    BY <1>3, <2>10, Typed, ArrivalsStay
  <2>. QED
    BY <1>1, <1>2, <2>8, <2>9, <2>11, PushMoves
<1>5. CASE SyncAgainLater
  <2>1. waiting' = TRUE /\ UNCHANGED call
    BY <1>5 DEF SyncAgainLater
  <2>2. Moves(Push)
    BY <1>1, <2>1, NothingMoves
  <2>3. PushInv'
    BY <1>1, <2>1, Typed DEF PushInv, HintsAreFollowed
  <2>4. OnTheWay' = OnTheWay
    BY <1>1, <2>1 DEF OnTheWay
  <2>5. ArrivalsAreTold'
    BY <1>3, <2>4, Typed, ArrivalsStay
  <2>. QED
    BY <1>1, <1>2, <2>2, <2>3, <2>5, PushMoves
<1>. QED
  BY <1>4, <1>5 DEF TimerFires, sync

-----------------------------------------------------------------------------
(* A sync that is over, and what ends with it.                             *)

\* The end of a sync moves those who joined it, and nobody else.
LEMMA Releasing ==
  ASSUME CallsInv, NEW p \in Proc, NEW mine, NEW theirs, Release(p, mine, theirs)
  PROVE  /\ DOMAIN call' = Proc /\ flight' = None /\ call'[p] = mine
         /\ \A q \in Proc \ {p} :
              \/ call'[q] = call[q] /\ ~ (call[q].at = "join" /\ call[q].owner = p)
              \/ call'[q] = Over(call[q], theirs) /\ call[q].at = "join" /\ call[q].owner = p
BY DEF Release, At

\* The locals of an idle actor replace all others.
LEMMA OverIdle ==
  ASSUME NEW c, DOMAIN c = Fields
  PROVE  Over(c, Idle) = Idle
<1>1. DOMAIN Over(c, Idle) = DOMAIN Idle /\ \A f \in DOMAIN Idle : Over(c, Idle)[f] = Idle[f]
  BY DEF Over, Fields
<1>2. Over(c, Idle) = [f \in DOMAIN Idle |-> Over(c, Idle)[f]]
  BY DEF Over, Fields
<1>3. Idle = [f \in DOMAIN Idle |-> Idle[f]]
  BY DEF Idle
<1>. QED
  BY <1>1, <1>2, <1>3

\* Calls that end, whatever they were at; what the push had drained has its excuse.
LEMMA CallsEnd ==
  ASSUME GmailInv, Quiet, UNCHANGED <<cache, page, profile, client, swallowed, told, device, failures>>,
         warm' \in {None, warm}, flight' = None, DOMAIN call' = Proc,
         \A p \in Proc : call'[p] = Idle \/ call'[p] = call[p],
         undelivered' \subseteq undelivered, lastDelivered' \subseteq lastDelivered, excused \subseteq excused',
         undelivered \subseteq undelivered' \cup excused',
         \/ call[Push].phase # 2
         \/ lastDelivered \subseteq excused'
         \/ lastDelivered' = lastDelivered /\ call'[Push] = call[Push],
         UNCHANGED <<pending, waiting, owed>> \/ owed' = FALSE
  PROVE  GmailInv'
<1>1. /\ RecordsInv' /\ Grows
      /\ reached' = reached /\ now' = now /\ Fresh' = Fresh /\ cursor' = cursor /\ revision' = revision
  BY Typed, QuietGrows DEF Quiet, gmail
<1>2. RowsOK
  BY Typed DEF RowsOK, StoreInv
<1>3. StoreInv' /\ CopiesInv'
  BY <1>2, Typed, RowsStay
<1>4. CallsInv'
  <2>1. ASSUME NEW q \in Proc
        PROVE  call'[q] = call[q] \/ CallOK(q, call[q])'
    <3>1. CallOK(q, Idle)
      BY Typed, IdleIsOK
    <3>2. call'[q] = Idle => CallOK(q, call[q])'
      BY <1>1, <3>1 DEF CallOK, CallTyped, Covers, Fields, Idle, Gone, Proc
    <3> HIDE DEF CallOK
    <3>. QED
      BY <3>2
  <2> HIDE DEF CallOK
  <2>. QED
    BY <1>1, <2>1, Typed, CallsMove
<1>5. ClientInv'
  <2>1. \A r \in Request : r \in Proc
    BY Numbers
  <2>2. \A r \in Request : call'[r] = call[r] \/ AnswerOK(client[r], call'[r])
    BY <2>1 DEF AnswerOK, Idle
  <2>. QED
    BY <1>1, <2>2, Typed, ClientsStay
<1>6. PushInv'
  BY Typed DEF PushInv, HintsAreFollowed
<1>7. ArrivalsAreTold'
  <2>1. OnTheWay \subseteq excused' \cup OnTheWay'
    BY Numbers DEF OnTheWay
  <2>2. UNCHANGED <<records, cursor>>
    BY DEF Quiet, gmail
  <2>. QED
    BY <2>1, <2>2, Typed, ArrivalsStay
<1>. QED
  BY <1>1, <1>3, <1>4, <1>5, <1>6, <1>7 DEF GmailInv

\* A sync that fails takes with it the calls that wait for it.
LEMMA SyncFails ==
  ASSUME GmailInv, NEW p \in Proc, Release(p, Idle, Idle)
  PROVE  /\ DOMAIN call' = Proc /\ flight' = None
         /\ \A q \in Proc : call'[q] = Idle \/ call'[q] = call[q]
         /\ call'[Push] = call[Push] \/ p = Push \/ (call[Push].at = "join" /\ call[Push].owner = p)
<1>1. /\ DOMAIN call' = Proc /\ flight' = None /\ call'[p] = Idle
      /\ \A q \in Proc \ {p} :
           \/ call'[q] = call[q] /\ ~ (call[q].at = "join" /\ call[q].owner = p)
           \/ call'[q] = Over(call[q], Idle) /\ call[q].at = "join" /\ call[q].owner = p
  BY Typed, Releasing
<1>2. \A q \in Proc : Over(call[q], Idle) = Idle
  BY Typed, OverIdle DEF CallTyped
<1>. QED
  BY <1>1, <1>2, Numbers

LEMMA FailsOK ==
  ASSUME GmailInv, NEW r \in Request, Fails(r), UNCHANGED pushVars
  PROVE  GmailInv'
<1>1. UNCHANGED <<gmail, store, undelivered, lastDelivered, warm, client, swallowed, wrote>>
  BY DEF Fails
<1>2. CASE /\ call[r].at \in {"profile", "recheck", "message", "thread", "list", "delta", "look"}
           /\ Ends(r) /\ UNCHANGED <<flight, excused>>
  BY <1>1, <1>2, FailsToReadOK
<1>3. CASE Release(r, Idle, Idle) /\ excused' = excused \cup LostBy(r)
  <2>1. r \in Proc
    BY Numbers
  <2>2. /\ DOMAIN call' = Proc /\ flight' = None
        /\ \A q \in Proc : call'[q] = Idle \/ call'[q] = call[q]
        /\ call'[Push] = call[Push] \/ r = Push \/ (call[Push].at = "join" /\ call[Push].owner = r)
    BY <1>3, <2>1, SyncFails
  <2>3. /\ Quiet
        /\ UNCHANGED <<cache, page, profile, warm, client, swallowed, told, device, failures, pending, waiting, owed>>
    BY <1>1 DEF Quiet, gmail, store, rows, pushVars
  <2>4. \/ call[Push].phase # 2
        \/ lastDelivered \subseteq excused'
        \/ lastDelivered' = lastDelivered /\ call'[Push] = call[Push]
    BY <1>1, <1>3, <2>2 DEF LostBy, At
  <2>. QED
    BY <1>1, <1>3, <2>2, <2>3, <2>4, CallsEnd
<1>. QED
  BY <1>2, <1>3 DEF Fails

LEMMA PushFailsOK ==
  ASSUME GmailInv, PushFails
  PROVE  GmailInv'
<1>1. /\ UNCHANGED <<undelivered, lastDelivered, cache, page, profile, warm, client, swallowed, told, device, failures,
                     pending, waiting, owed, published>>
      /\ Quiet /\ excused' = excused \cup (IF call[Push].phase = 2 THEN lastDelivered ELSE {})
  BY DEF PushFails, Quiet, gmail, store, rows, pushVars
<1>2. CASE call[Push].at \in {"fresh", "profile", "recheck", "labels"} /\ Ends(Push) /\ UNCHANGED flight
  <2>1. RowsOK
    BY <1>1, Typed, SameRows
  <2>2. told \subseteq Inbox /\ device \in {"none", "unverified", "verified"} /\ failures \in 0..(MaxFailures - 1)
    BY Typed DEF PushInv
  <2>. QED
    BY <1>1, <1>2, <2>1, <2>2, PushSettles
<1>3. CASE Release(Push, Idle, Idle)
  <2>1. /\ DOMAIN call' = Proc /\ flight' = None
        /\ \A q \in Proc : call'[q] = Idle \/ call'[q] = call[q]
    BY <1>3, SyncFails, Numbers
  <2>. QED
    BY <1>1, <2>1, CallsEnd
<1>. QED
  BY <1>2, <1>3 DEF PushFails

\* A crash drops the calls and what is in memory only; what is on disk is right by itself.
LEMMA CrashOK ==
  ASSUME GmailInv, Crash
  PROVE  GmailInv'
<1>1. /\ Quiet
      /\ UNCHANGED <<cache, page, profile, client, swallowed, told, device, failures>>
      /\ warm' = None /\ flight' = None /\ undelivered' = {} /\ lastDelivered' = {} /\ owed' = FALSE
      /\ call' = [p \in Proc |-> Idle]
      /\ excused' = excused \cup undelivered \cup (IF call[Push].phase = 2 THEN lastDelivered ELSE {})
  BY DEF Crash, Quiet, gmail, store, rows
<1>. QED
  BY <1>1, CallsEnd

-----------------------------------------------------------------------------
(* The prefetch lands, the history expires.                                *)

LEMMA WarmArrivesOK ==
  ASSUME GmailInv, WarmArrives \/ HistoryExpires, UNCHANGED pushVars
  PROVE  GmailInv'
<1>1. /\ Quiet
      /\ UNCHANGED <<page, profile, call, flight, undelivered, lastDelivered, client, excused, swallowed>>
  BY DEF WarmArrives, HistoryExpires, Quiet, gmail, memory, history, store, rows
<1>2. Moves(Push)
  BY <1>1, NothingMoves
<1>3. PushInv'
  BY <1>1, Typed DEF PushInv, HintsAreFollowed, pushVars
<1>4. ArrivalsAreTold'
  <2>1. OnTheWay' = OnTheWay /\ UNCHANGED <<records, cursor, told, excused, swallowed>>
    BY <1>1 DEF OnTheWay, Quiet, pushVars
  <2> HIDE DEF OnTheWay
  <2>. QED
    BY <2>1, Typed, ArrivalsStay
<1>5. RowsOK
  <2>1. CASE HistoryExpires
    BY <1>1, <2>1, Typed, SameRows DEF HistoryExpires, store, rows, memory
  <2>2. CASE WarmArrives
    <3>1. /\ warm # None /\ warm' = None
          /\ cache' = IF warm.rev = revision
                      THEN [k \in DOMAIN cache |-> IF k \in warm.ids /\ Exists(k, warm.at) THEN warm.at ELSE cache[k]]
                      ELSE cache
      BY <2>2 DEF WarmArrives, Unmoved
    <3>2. /\ cursor # None /\ warm.ids \subseteq Msg /\ warm.at \in 0..now
          /\ warm.rev = revision => \A m \in warm.ids : Covers(m, warm.at)
      BY <3>1, Typed DEF CopiesInv, WarmInv
    <3>3. warm.rev = revision => \A k \in warm.ids : CopyOK(k, warm.at)
      BY <3>2, Numbers DEF CopyOK
    <3>4. DOMAIN cache = Msg \cup {Thread} /\ cache = [k \in Msg \cup {Thread} |-> cache[k]]
      BY Typed DEF StoreInv
    <3>5. cache' = [k \in Msg \cup {Thread} |-> cache'[k]]
      BY <3>1, <3>4
    <3>6. \A k \in Msg \cup {Thread} : cache'[k] \in {None, cache[k]} \/ CopyOK(k, cache'[k])
      <4> HIDE DEF CopyOK
      <4>. QED
        BY <3>1, <3>3, <3>4
    <3> HIDE DEF CopyOK
    <3>. QED
      BY <1>1, <3>1, <3>5, <3>6, Typed DEF RowsOK
  <2>. QED
    BY <2>1, <2>2
<1>. QED
  BY <1>1, <1>2, <1>3, <1>4, <1>5, PushMoves

-----------------------------------------------------------------------------
(* A write.                                                                *)

\* The cache is dropped, whatever is under way: what was asked for before will not be kept.
LEMMA Drops ==
  ASSUME GmailInv, UNCHANGED <<gmail, cursor, warm>>, revision' = revision + 1, cache' = NoRows, page' = None,
         profile' = None, wrote' \in [Msg -> 0..now]
  PROVE  RecordsInv' /\ Grows /\ StoreInv' /\ CopiesInv' /\ reached' = reached /\ now' = now
<1>1. reached' = reached /\ now' = now
  BY DEF gmail, reached, now
<1>2. RecordsInv'
  BY <1>1, Typed DEF gmail, RecordsInv, OneLife, now
<1>3. revision' \in Nat /\ revision <= revision' /\ revision' # revision /\ \A x \in 0..revision : x \in 0..revision' /\ x # revision'
  BY Typed
<1>4. Grows
  BY <1>1, <1>3, Typed, NowIs DEF Grows, gmail
<1>5. StoreInv'
  BY <1>1, <1>3, Typed DEF StoreInv, NoRows
<1>6. CopiesInv'
  BY <1>1, <1>3, Typed DEF CopiesInv, WarmInv, NoRows
<1>. QED
  BY <1>1, <1>2, <1>4, <1>5, <1>6

\* A call of a client goes on while the cache is dropped.
LEMMA DropsAndGoesOn ==
  ASSUME GmailInv, NEW r \in Request, UNCHANGED <<gmail, cursor, memory, client, excused, swallowed, pushVars>>,
         revision' = revision + 1, cache' = NoRows, page' = None, profile' = None, wrote' \in [Msg -> 0..now],
         DOMAIN call' = Proc, \A q \in Proc : q # r => call'[q] = call[q], call[r].at # "history",
         CallOK(r, call[r])', AnswerOK(client[r], call'[r])
  PROVE  GmailInv'
<1>1. RecordsInv' /\ Grows /\ StoreInv' /\ CopiesInv'
  BY Drops DEF memory
<1>2. r \in Proc /\ r # Push /\ \A q \in Request : q \in Proc
  BY Numbers
<1>3. flight' # None => flight' \in Proc /\ call'[flight'].at = "history"
  BY Typed DEF memory
<1>4. CallsInv'
  <2> HIDE DEF CallOK
  <2>. QED
    BY <1>1, <1>3, Typed, CallsMove
<1>5. ClientInv'
  <2> HIDE DEF AnswerOK
  <2>. QED
    BY <1>1, <1>2, Typed, ClientsStay
<1>6. PushInv'
  BY Typed DEF PushInv, HintsAreFollowed, pushVars, memory
<1>7. ArrivalsAreTold'
  <2>1. OnTheWay' = OnTheWay /\ UNCHANGED <<records, cursor, told, excused, swallowed>>
    BY <1>2, Numbers DEF OnTheWay, gmail, pushVars, memory
  <2> HIDE DEF OnTheWay
  <2>. QED
    BY <2>1, Typed, ArrivalsStay
<1>. QED
  BY <1>1, <1>4, <1>5, <1>6, <1>7 DEF GmailInv

LEMMA WriteSentOK ==
  ASSUME GmailInv, NEW r \in Request, WriteSent(r), UNCHANGED pushVars
  PROVE  GmailInv'
<1> DEFINE new == [at |-> "write", got |-> 0]
<1>1. /\ call[r].at = "look" /\ Become(r, new) /\ UNCHANGED <<gmail, cursor, memory, client, excused, swallowed, wrote>>
      /\ revision' = revision + 1 /\ cache' = NoRows /\ page' = None /\ profile' = None
  BY DEF WriteSent, Answered, At, invalidate, history
<1>2. r \in Proc /\ CallTyped(call[r]) /\ cursor # None /\ call[r].op = "write" /\ wrote' \in [Msg -> 0..now]
  BY <1>1, Typed, Numbers DEF CallTyped, Early, CallOK, StoreInv
<1>3. DOMAIN new \subseteq Fields
  BY RowsAre
<1>4. DOMAIN call' = Proc /\ (\A q \in Proc : q # r => call'[q] = call[q]) /\ Locals(r, new)
  BY <1>1, <1>2, <1>3, Typed, Becoming
<1>5. reached' = reached /\ now' = now
  BY <1>1, <1>2, Drops DEF memory
<1>6. CallOK(r, call[r])'
  BY <1>1, <1>2, <1>4, <1>5, Typed, RowsAre DEF Locals, CallOK, CallTyped, Stage, Early, Fields, Idle, Gone
<1>7. AnswerOK(client[r], call'[r])
  BY <1>2, <1>4, RowsAre DEF Locals, AnswerOK
<1> HIDE DEF CallOK, AnswerOK
<1>. QED
  BY <1>1, <1>2, <1>4, <1>6, <1>7, DropsAndGoesOn

LEMMA WriteOverOK ==
  ASSUME GmailInv, NEW r \in Request, WriteOver(r), UNCHANGED pushVars
  PROVE  GmailInv'
<1> DEFINE new == [phase |-> 2, got |-> 0]
           n == [at |-> "profile", prof |-> now, rev |-> revision']
           all == Over(new, n)
<1>1. /\ call[r].at \in {"written", "write"} /\ Become(r, all)
      /\ UNCHANGED <<gmail, cursor, memory, client, excused, swallowed>>
      /\ revision' = revision + 1 /\ cache' = NoRows /\ page' = None /\ profile' = None
      /\ wrote' \in {wrote, [wrote EXCEPT ![call[r].msg] = call[r].got]}
  BY DEF WriteOver, Answered, At, invalidate, DropAfterWrite, ProfileAsk
<1>2. r \in Proc /\ CallTyped(call[r]) /\ cursor # None /\ call[r].op = "write"
  BY <1>1, Typed, Numbers DEF CallTyped, Early, CallOK
<1>3. wrote' \in [Msg -> 0..now]
  BY <1>1, <1>2, Typed DEF StoreInv, CallTyped
<1>4. /\ DOMAIN all = {"phase", "got", "at", "prof", "rev"} /\ all["phase"] = 2 /\ all["got"] = 0
      /\ all["at"] = "profile" /\ all["prof"] = now /\ all["rev"] = revision'
  BY DEF Over
<1>5. DOMAIN all \subseteq Fields
  BY <1>4, RowsAre
<1> HIDE DEF all
<1>6. DOMAIN call' = Proc /\ (\A q \in Proc : q # r => call'[q] = call[q]) /\ Locals(r, all)
  BY <1>1, <1>2, <1>5, Typed, Becoming
<1>7. reached' = reached /\ now' = now
  BY <1>1, <1>3, Drops DEF memory
<1>8. CallOK(r, call[r])'
  BY <1>1, <1>2, <1>4, <1>6, <1>7, Typed, RowsAre DEF Locals, CallOK, CallTyped, Stage, Early, Fields, Idle, Gone
<1>9. AnswerOK(client[r], call'[r])
  BY <1>2, <1>4, <1>6, RowsAre DEF Locals, AnswerOK
<1> HIDE DEF CallOK, AnswerOK
<1>. QED
  BY <1>1, <1>2, <1>3, <1>6, <1>8, <1>9, DropsAndGoesOn

-----------------------------------------------------------------------------
(* What happens in Gmail.                                                  *)

\* The history of a message, when one more thing happens.
LEMMA Appended ==
  ASSUME GmailInv, NEW m \in Msg, NEW kind \in Kind, Happens(m, kind),
         kind = "added" => \A i \in 1..now : records[i].msg # m,
         \A i \in 1..now : records[i].msg = m => records[i].kind # "deleted"
  PROVE  /\ now' = now + 1 /\ records'[now + 1] = [kind |-> kind, msg |-> m]
         /\ \A i \in 1..now : records'[i] = records[i]
         /\ RecordsInv'
<1> DEFINE e == [kind |-> kind, msg |-> m]
<1>1. records \in Seq(Record) /\ now = Len(records) /\ e \in Record /\ now < MaxHistory /\ UNCHANGED oldest
      /\ records' = Append(records, e) /\ now \in Nat /\ oldest \in 0..now /\ MaxHistory \in Nat
  BY Typed, NowIs, Numbers DEF Happens, Record, RecordsInv
<1>2. /\ records' \in Seq(Record) /\ Len(records') = now + 1 /\ records'[now + 1] = e
      /\ \A i \in 1..now : records'[i] = records[i]
  BY <1>1
<1>3. now' = now + 1
  BY <1>2 DEF now
<1>4. OneLife'
  <2>1. SUFFICES ASSUME NEW i \in 1..(now + 1), NEW j \in 1..(now + 1), i < j, records'[i].msg = records'[j].msg
                 PROVE  records'[i].kind # "deleted" /\ records'[j].kind # "added"
    BY <1>3 DEF OneLife
  <2>2. CASE j \in 1..now
    <3>1. i \in 1..now
      BY <1>1, <2>1, <2>2
    <3>. QED
      BY <1>2, <2>1, <2>2, <3>1, Typed DEF RecordsInv, OneLife
  <2>3. CASE j = now + 1
    <3>1. i \in 1..now
      BY <1>1, <2>1, <2>3
    <3>2. records[i].msg = m
      BY <1>2, <2>1, <2>3, <3>1
    <3>. QED
      BY <1>2, <2>3, <3>1, <3>2
  <2>. QED
    BY <1>1, <2>2, <2>3
<1>5. RecordsInv'
  BY <1>1, <1>2, <1>3, <1>4 DEF RecordsInv
<1>. QED
  BY <1>2, <1>3, <1>5

\* The account does not notice.
LEMMA Unnoticed ==
  ASSUME GmailInv, now' = now + 1, \A i \in 1..now : records'[i] = records[i], RecordsInv',
         UNCHANGED <<store, warm, wrote>>
  PROVE  Grows /\ StoreInv' /\ CopiesInv' /\ reached' = reached /\ Fresh' = Fresh
<1>1. reached' = reached /\ now' \in Nat /\ now' <= MaxHistory /\ UNCHANGED <<cursor, revision, cache, profile, page>>
  BY Typed DEF reached, store, rows, RecordsInv
<1>2. \A i \in 1..reached : records'[i] = records[i]
  BY Typed
<1>3. Fresh' = Fresh
  BY <1>1, <1>2 DEF Fresh, Knows, Known
<1>4. Grows
  BY <1>1, <1>3, Typed DEF Grows
<1>5. 0..now \subseteq 0..now'
  BY Typed
<1>6. StoreInv'
  BY <1>1, <1>5, Typed DEF StoreInv
<1>7. CopiesInv'
  BY <1>1, <1>3, <1>5, Typed DEF CopiesInv, WarmInv, Covers
<1>. QED
  BY <1>1, <1>3, <1>4, <1>6, <1>7

\* What has arrived can only go.
LEMMA ArrivedShrinks ==
  ASSUME GmailInv, now' = now + 1, \A i \in 1..now : records'[i] = records[i], UNCHANGED cursor, RecordsInv'
  PROVE  Arrived' \subseteq Arrived
<1>1. SUFFICES ASSUME NEW m \in Inbox, cursor # None, AddedIn(m, 0, cursor)', Exists(m, now)'
               PROVE  m \in Arrived
  BY DEF Arrived
<1>2. m \in Msg /\ cursor \in 0..now /\ now \in Nat
  BY <1>1, Typed, Numbers
<1>3. PICK i \in 1..cursor : records[i].msg = m /\ records[i].kind = "added"
  <2>1. \A i \in (0 + 1)..cursor : i \in 1..now /\ i \in 1..cursor
    BY <1>2
  <2>. QED
    BY <1>1, <2>1 DEF AddedIn, Touches
<1>4. AddedIn(m, 0, cursor)
  <2>1. i \in (0 + 1)..cursor
    BY <1>2
  <2>. QED
    BY <1>3, <2>1 DEF AddedIn, Touches
<1>5. \A j \in 1..now : records[j].msg = m => records[j].kind # "deleted"
  <2>1. SUFFICES ASSUME NEW j \in 1..now, records[j].msg = m, records[j].kind = "deleted"
                 PROVE  FALSE
    OBVIOUS
  <2> DEFINE T == {0} \cup Touches(m, 0, now)'
             t == Max(T)
  <2>2. T \in SUBSET (0..(now + 1)) /\ T # {} /\ j \in T /\ \A k \in T : k # 0 => records'[k].msg = m
    BY <1>2, <2>1 DEF Touches
  <2>3. LastTouch(m, now)' = t
    BY DEF LastTouch
  <2> HIDE DEF T
  <2>4. t \in T /\ \A k \in T : k <= t
    <3> DEFINE n == now + 1
    <3>1. n \in Nat /\ T \in SUBSET (0..n) /\ T # {}
      BY <1>2, <2>2
    <3> HIDE DEF n
    <3>. QED
      BY <3>1, Greatest
  <2> HIDE DEF t
  <2>5. t \in 1..(now + 1) /\ j <= t /\ records'[t].msg = m
    BY <1>2, <2>1, <2>2, <2>4
  <2>6. records'[t].kind # "deleted"
    BY <1>1, <2>3 DEF Exists
  <2>7. j # t /\ records'[j] = records[j]
    BY <2>1, <2>6
  <2>8. j \in 1..now' /\ t \in 1..now' /\ j < t
    BY <1>2, <2>1, <2>5, <2>7
  <2>. QED
    BY <2>1, <2>5, <2>7, <2>8 DEF RecordsInv, OneLife
<1>6. Exists(m, now)
  <2>1. i \in 1..now /\ now \in 0..now
    BY <1>2
  <2>. QED
    BY <1>3, <1>5, <2>1, Typed, ExistsIs
<1>. QED
  BY <1>1, <1>4, <1>6 DEF Arrived

\* Arrivals stay accounted for when none is added and no account of one is lost.
LEMMA ArrivalsShrink ==
  ASSUME GmailInv, Arrived' \subseteq Arrived,
         told \cup OnTheWay \cup excused \cup swallowed \subseteq (told \cup OnTheWay \cup excused \cup swallowed)'
  PROVE  ArrivalsAreTold'
BY Typed DEF ArrivalsAreTold

LEMMA GmailChangesOK ==
  ASSUME GmailInv, NEW m \in Msg, GmailChanges(m), UNCHANGED pushVars
  PROVE  GmailInv'
<1>1. UNCHANGED <<store, memory, call, client, excused, swallowed, wrote>>
  BY DEF GmailChanges, history
<1>2. PICK kind \in Kind : /\ Happens(m, kind)
                           /\ \/ kind = "added" /\ LastTouch(m, now) = 0
                              \/ kind # "added" /\ Exists(m, now)
  BY DEF GmailChanges, Kind
<1>3. now \in Nat /\ now \in 0..now
  BY Typed
<1>4. kind = "added" => \A i \in 1..now : records[i].msg # m
  <2>1. \A i \in 1..now : records[i].msg = m => i <= LastTouch(m, now)
    BY <1>3, LastIsLast
  <2>. QED
    BY <1>2, <1>3, <2>1
<1>5. \A i \in 1..now : records[i].msg = m => records[i].kind # "deleted"
  BY <1>2, <1>3, <1>4, Typed, ExistsIs
<1>6. now' = now + 1 /\ (\A i \in 1..now : records'[i] = records[i]) /\ RecordsInv'
  BY <1>2, <1>4, <1>5, Appended
<1>7. Grows /\ StoreInv' /\ CopiesInv'
  BY <1>1, <1>6, Unnoticed DEF memory
<1>8. CallsInv'
  <2>1. flight' # None => flight' \in Proc /\ call'[flight'].at = "history"
    BY <1>1, Typed DEF memory
  <2>2. DOMAIN call' = Proc /\ \A q \in Proc : call'[q] = call[q]
    BY <1>1, Typed DEF CallsInv
  <2> HIDE DEF CallOK
  <2>. QED
    BY <1>7, <2>1, <2>2, Typed, CallsMove
<1>9. ClientInv'
  <2>1. \A r \in Request : call'[r] = call[r]
    BY <1>1
  <2>. QED
    BY <1>1, <1>7, <2>1, Typed, ClientsStay
<1>10. PushInv'
  BY <1>1, Typed DEF PushInv, HintsAreFollowed, pushVars, memory
<1>11. ArrivalsAreTold'
  <2>1. OnTheWay' = OnTheWay /\ UNCHANGED <<cursor, told, excused, swallowed>>
    BY <1>1 DEF OnTheWay, memory, store, pushVars
  <2> HIDE DEF OnTheWay
  <2>. QED
    BY <1>6, <2>1, ArrivedShrinks, ArrivalsShrink
<1>. QED
  BY <1>6, <1>7, <1>8, <1>9, <1>10, <1>11 DEF GmailInv

LEMMA WriteTakesEffectOK ==
  ASSUME GmailInv, NEW r \in Request, WriteTakesEffect(r), UNCHANGED pushVars
  PROVE  GmailInv'
<1> DEFINE m == call[r].msg
           new == [at |-> "written", got |-> now + 1]
<1>1. UNCHANGED <<store, memory, client, excused, swallowed, wrote>> /\ Happens(m, "labeled") /\ Exists(m, now)
      /\ call[r].at = "write" /\ Become(r, new)
  BY DEF WriteTakesEffect, At, history
<1>2. r \in Proc /\ r # Push /\ CallTyped(call[r]) /\ cursor # None /\ call[r].op = "write" /\ m \in Msg
  BY <1>1, Typed, Numbers DEF CallTyped, Early, CallOK
<1>3. now \in Nat /\ now \in 0..now
  BY Typed
<1>4. \A i \in 1..now : records[i].msg = m => records[i].kind # "deleted"
  BY <1>1, <1>2, <1>3, Typed, ExistsIs
<1>5. now' = now + 1 /\ (\A i \in 1..now : records'[i] = records[i]) /\ RecordsInv'
  BY <1>1, <1>2, <1>4, Appended DEF Kind
<1>6. Grows /\ StoreInv' /\ CopiesInv' /\ reached' = reached
  BY <1>1, <1>5, Unnoticed DEF memory
<1>7. DOMAIN new \subseteq Fields
  BY RowsAre
<1>8. DOMAIN call' = Proc /\ (\A q \in Proc : q # r => call'[q] = call[q]) /\ Locals(r, new)
  BY <1>1, <1>2, <1>7, Typed, Becoming
<1>9. CallOK(r, call[r])'
  BY <1>1, <1>2, <1>5, <1>6, <1>8, Typed, RowsAre DEF Locals, CallOK, CallTyped, Stage, Early, Fields, Idle, Gone,
     store
<1>10. AnswerOK(client[r], call'[r])
  BY <1>2, <1>8, RowsAre DEF Locals, AnswerOK
<1>11. CallsInv'
  <2>1. flight' # None => flight' \in Proc /\ call'[flight'].at = "history"
    BY <1>1, <1>8, Typed DEF memory
  <2> HIDE DEF CallOK
  <2>. QED
    BY <1>6, <1>8, <1>9, <2>1, Typed, CallsMove
<1>12. ClientInv'
  <2>1. \A q \in Request : call'[q] = call[q] \/ AnswerOK(client[q], call'[q])
    BY <1>8, <1>10, Numbers
  <2>. QED
    BY <1>1, <1>6, <2>1, Typed, ClientsStay
<1>13. PushInv'
  BY <1>1, Typed DEF PushInv, HintsAreFollowed, pushVars, memory
<1>14. ArrivalsAreTold'
  <2>1. OnTheWay' = OnTheWay /\ UNCHANGED <<cursor, told, excused, swallowed>>
    BY <1>1, <1>2, <1>8, Numbers DEF OnTheWay, memory, store, pushVars
  <2> HIDE DEF OnTheWay
  <2>. QED
    BY <1>5, <2>1, ArrivedShrinks, ArrivalsShrink
<1>. QED
  BY <1>5, <1>6, <1>11, <1>12, <1>13, <1>14 DEF GmailInv

-----------------------------------------------------------------------------
(* The cursor moves.                                                       *)

\* Arrivals of a window are delivered, but for those that are missed.
LEMMA Delivered ==
  ASSUME GmailInv, NEW from \in Nat, NEW to \in 0..now, NEW missed, NEW m \in Inbox, AddedIn(m, 0, to), Exists(m, now)
  PROVE  AddedIn(m, 0, from) \/ m \in deliveries(from, to, missed) \/ m \in missed
<1>1. m \in Msg /\ now \in 0..now /\ now \in Nat
  BY Typed, Numbers
<1>2. \A i \in 1..now : records[i].msg = m => records[i].kind # "deleted"
  BY <1>1, Typed, ExistsIs
<1>3. PICK i \in (0 + 1)..to : records[i].msg = m /\ records[i].kind = "added"
  BY DEF AddedIn, Touches
<1>4. CASE i <= from
  <2>1. i \in (0 + 1)..from
    BY <1>3, <1>4
  <2>. QED
    BY <1>3, <2>1 DEF AddedIn, Touches
<1>5. CASE i > from
  <2>1. i \in (from + 1)..to /\ \A j \in (from + 1)..to : j \in 1..now
    BY <1>1, <1>5
  <2>2. AddedIn(m, from, to) /\ \A j \in Touches(m, from, to) : records[j].kind # "deleted"
    BY <1>2, <1>3, <2>1 DEF AddedIn, Touches
  <2>. QED
    BY <1>1, <2>2 DEF deliveries, addedMessages
<1>. QED
  BY <1>4, <1>5

\* All that was told, is on its way or has an excuse stays so; so it is for what the cursor passes.
LEMMA ArrivalsPassed ==
  ASSUME GmailInv, UNCHANGED records, NEW from \in Nat, NEW to \in 0..now, NEW missed,
         \/ UNCHANGED cursor
         \/ /\ cursor' = to /\ from <= reached
            /\ deliveries(from, to, missed) \subseteq undelivered' \cup excused' \cup swallowed'
            /\ missed \subseteq excused',
         told \cup OnTheWay \cup excused \cup swallowed \subseteq (told \cup OnTheWay \cup excused \cup swallowed)'
  PROVE  ArrivalsAreTold'
<1>1. SUFFICES ASSUME NEW m \in Arrived'
               PROVE  m \in (told \cup OnTheWay \cup excused \cup swallowed)'
  BY DEF ArrivalsAreTold
<1>2. m \in Inbox /\ cursor' # None /\ AddedIn(m, 0, cursor') /\ Exists(m, now)
  BY <1>1 DEF Arrived, AddedIn, Touches, Exists, LastTouch, now
<1>3. CASE UNCHANGED cursor
  <2>1. m \in Arrived
    BY <1>2, <1>3 DEF Arrived
  <2>. QED
    BY <2>1, Typed DEF ArrivalsAreTold
<1>4. CASE /\ cursor' = to /\ from <= reached
           /\ deliveries(from, to, missed) \subseteq undelivered' \cup excused' \cup swallowed'
           /\ missed \subseteq excused'
  <2>1. AddedIn(m, 0, from) \/ m \in deliveries(from, to, missed) \/ m \in missed
    BY <1>2, <1>4, Delivered
  <2>2. CASE AddedIn(m, 0, from)
    <3>1. PICK i \in (0 + 1)..from : records[i].msg = m /\ records[i].kind = "added"
      BY <2>2 DEF AddedIn, Touches
    <3>2. i \in (0 + 1)..reached /\ reached # 0
      BY <1>4, <3>1, Typed
    <3>3. cursor # None /\ reached = cursor
      BY <3>2, Typed
    <3>4. AddedIn(m, 0, cursor)
      BY <3>1, <3>2, <3>3 DEF AddedIn, Touches
    <3>5. m \in Arrived
      BY <1>2, <3>3, <3>4 DEF Arrived
    <3>. QED
      BY <3>5, Typed DEF ArrivalsAreTold
  <2>3. CASE m \in deliveries(from, to, missed) \/ m \in missed
    BY <1>4, <2>3 DEF OnTheWay
  <2>. QED
    BY <2>1, <2>2, <2>3
<1>. QED
  BY <1>3, <1>4

LEMMA FirstCursorOK ==
  ASSUME GmailInv, NEW p \in Proc, FirstCursor(p), UNCHANGED pushVars
  PROVE  GmailInv'
<1> DEFINE new == [at |-> "ready"]
           h == call[p].prof
<1>1. /\ call[p].at = "decide" /\ Become(p, new) /\ cursor = None /\ cursor' = h
      /\ UNCHANGED <<gmail, revision, cache, profile, page, memory, client, swallowed, wrote>>
      /\ excused' = excused \cup deliveries(0, h, {})
  BY DEF FirstCursor, Answered, At, checkpoint, rows
<1>2. CallTyped(call[p]) /\ h \in 0..now
  BY Typed DEF CallTyped
<1>3. reached = 0 /\ reached' = h /\ now' = now /\ cursor' # None
  BY <1>1, <1>2, Typed, Numbers DEF reached, gmail, now
<1>4. RecordsInv'
  BY <1>1, <1>3, Typed DEF gmail, RecordsInv, OneLife
<1>5. Grows
  BY <1>1, <1>2, <1>3, Typed, NowIs DEF Grows, gmail
<1>6. StoreInv'
  BY <1>1, <1>2, <1>3, Typed DEF StoreInv, State
<1>7. CopiesInv'
  BY <1>1, Typed DEF CopiesInv, WarmInv, memory
<1>8. DOMAIN new \subseteq Fields
  BY RowsAre
<1>9. DOMAIN call' = Proc /\ (\A q \in Proc : q # p => call'[q] = call[q]) /\ Locals(p, new)
  BY <1>1, <1>8, Typed, Becoming
<1>10. CallOK(p, call[p])'
  BY <1>1, <1>2, <1>3, <1>9, Typed, RowsAre DEF Locals, CallOK, CallTyped, Stage, Early, Fields, Idle, Gone
<1>11. CallsInv'
  <2>1. flight' # None => flight' \in Proc /\ call'[flight'].at = "history"
    BY <1>1, <1>9, Typed DEF memory
  <2> HIDE DEF CallOK
  <2>. QED
    BY <1>5, <1>9, <1>10, <2>1, Typed, CallsMove
<1>12. ClientInv'
  <2>1. p \in Request => AnswerOK(client[p], call'[p])
    BY <1>9, Typed, AnswerKept, RowsAre DEF Locals
  <2>2. \A q \in Request : call'[q] = call[q] \/ AnswerOK(client[q], call'[q])
    BY <1>9, <2>1, Numbers
  <2>. QED
    BY <1>1, <1>5, <2>2, Typed, ClientsStay
<1>13. PushInv'
  BY <1>1, Typed DEF PushInv, HintsAreFollowed, pushVars, memory
<1>14. ArrivalsAreTold'
  <2>1. OnTheWay' = OnTheWay /\ UNCHANGED <<records, told, swallowed>>
    BY <1>1, <1>9, Numbers, RowsAre DEF OnTheWay, memory, gmail, pushVars, Locals
  <2>2. cursor' = h /\ 0 <= reached /\ {} \subseteq excused'
        /\ deliveries(0, h, {}) \subseteq undelivered' \cup excused' \cup swallowed'
    BY <1>1, <1>3
  <2>3. told \cup OnTheWay \cup excused \cup swallowed \subseteq (told \cup OnTheWay \cup excused \cup swallowed)'
    BY <1>1, <2>1
  <2> HIDE DEF OnTheWay, h
  <2>. QED
    BY <1>2, <2>1, <2>2, <2>3, ArrivalsPassed
<1>. QED
  BY <1>4, <1>5, <1>6, <1>7, <1>11, <1>12, <1>13, <1>14 DEF GmailInv

\* The cursor moves to the end of a window that began no later than where it was.
LEMMA Checkpoints ==
  ASSUME GmailInv, cursor # None, NEW base \in 0..reached, NEW upto \in 0..now,
         checkpoint(upto, Touched(base, upto), FALSE), UNCHANGED <<gmail, wrote>>
  PROVE  /\ RecordsInv' /\ Grows /\ StoreInv' /\ (UNCHANGED warm \/ WarmInv' => CopiesInv')
         /\ cursor' # None /\ cursor' = reached' /\ now' = now /\ revision' \in {revision, revision + 1}
         /\ \/ reached' = reached /\ upto <= reached /\ UNCHANGED store
            \/ reached' = upto /\ reached < upto
<1>1. cursor = reached /\ reached \in Nat /\ reached <= now /\ now \in Nat /\ revision \in Nat
      /\ \A i \in 1..now : records[i].msg \in Msg
  BY Typed, NowIs DEF Record
<1>2. now' = now /\ Known' = Known
  BY DEF gmail, now, Known
<1>3. RecordsInv'
  BY <1>2, Typed DEF gmail, RecordsInv, OneLife
<1>4. CASE UNCHANGED store /\ upto <= reached
  <2>1. Quiet /\ UNCHANGED <<cache, page, profile>>
    BY <1>4 DEF Quiet, gmail, store, rows
  <2>2. Grows /\ reached' = reached /\ Fresh' = Fresh
    BY <2>1, Typed, QuietGrows
  <2>3. StoreInv'
    BY <1>2, <2>1, <2>2, Typed DEF StoreInv, Quiet
  <2>4. UNCHANGED warm \/ WarmInv' => CopiesInv'
    BY <1>2, <2>1, <2>2, Typed DEF CopiesInv, WarmInv, Quiet, Covers
  <2>. QED
    BY <1>1, <1>2, <1>3, <1>4, <2>1, <2>2, <2>3, <2>4 DEF Quiet
<1>5. ASSUME cursor' = upto, reached < upto,
             \/ /\ Touched(base, upto) # {} /\ revision' = revision + 1
                /\ Evict(Touched(base, upto))
             \/ Touched(base, upto) = {} /\ UNCHANGED <<revision, rows>>
      PROVE  Grows /\ StoreInv' /\ (UNCHANGED warm \/ WarmInv' => CopiesInv') /\ reached' = upto /\ cursor' # None
  <2>1. cursor' # None /\ reached' = upto
    BY <1>5, Numbers DEF reached
  <2>2. ASSUME NEW m \in Msg, NEW x \in Nat, m \notin Touched(base, upto), <<m, x>> \in Fresh
        PROVE  <<m, x>> \in Fresh'
    <3>1. ASSUME NEW i \in 1..upto, records[i].msg = m
          PROVE  i <= x
      <4>1. CASE i <= base
        <5>1. i \in 1..reached
          BY <1>1, <4>1
        <5>. QED
          BY <2>2, <3>1, <5>1 DEF Fresh, Knows, Known
      <4>2. CASE i > base
        <5>1. i \in (base + 1)..upto
          BY <1>1, <4>2
        <5>. QED
          BY <2>2, <3>1, <5>1 DEF Touched
      <4>. QED
        BY <1>1, <4>1, <4>2
    <3>2. <<m, upto, x>> \in Known
      BY <3>1 DEF Known
    <3>3. wrote'[m] <= x
      BY <2>2 DEF Fresh
    <3>. QED
      BY <1>2, <2>1, <3>2, <3>3 DEF Fresh, Knows
  <2>3. cursor # None /\ revision' = revision => Fresh \subseteq Fresh'
    <3>1. CASE revision' = revision + 1
      BY <1>1, <3>1
    <3>2. CASE Touched(base, upto) = {}
      <4>1. \A m \in Msg, x \in Nat : <<m, x>> \in Fresh => <<m, x>> \in Fresh'
        BY <2>2, <3>2
      <4>2. \A k \in Fresh : k = <<k[1], k[2]>> /\ k[1] \in Msg /\ k[2] \in Nat
        BY DEF Fresh
      <4>. QED
        BY <4>1, <4>2
    <3>. QED
      BY <1>5, <3>1, <3>2
  <2>4. Grows
    BY <1>1, <1>2, <1>5, <2>1, <2>3, Typed, NowIs DEF Grows, gmail
  <2>5. /\ cache' \in [Msg \cup {Thread} -> 0..now \cup {None}] /\ profile' = profile /\ page' \in {None, page}
        /\ \A m \in Msg : cache'[m] # None => cache'[m] = cache[m] /\ m \notin Touched(base, upto)
        /\ cache'[Thread] # None => cache'[Thread] = cache[Thread] /\ Touched(base, upto) = {}
    BY <1>5, Typed DEF Evict, StoreInv, rows
  <2>6. revision' \in Nat /\ revision' \in {revision, revision + 1}
    BY <1>1, <1>5
  <2>7. StoreInv'
    <3>1. page' # None => page'.state \in State /\ page'.at \in 0..now /\ page'.state.h <= reached /\ page'.state.h <= page'.at
      BY <2>5, Typed DEF StoreInv
    <3>2. page' # None => page'.state.h <= reached'
      BY <1>1, <1>5, <2>1, <3>1 DEF State
    <3>3. wrote' \in [Msg -> 0..now] /\ profile' \in 0..now \cup {None}
      BY <2>5, Typed DEF StoreInv
    <3>. QED
      BY <1>2, <1>5, <2>5, <2>6, <3>1, <3>2, <3>3 DEF StoreInv, State
  <2>8. ASSUME UNCHANGED warm \/ WarmInv'
        PROVE  CopiesInv'
    <3>1. \A k \in Msg \cup {Thread} : cache[k] # None => cache[k] \in Nat
      BY <1>1, Typed DEF StoreInv
    <3>2. \A m \in Msg : cache'[m] # None => <<m, cache'[m]>> \in Fresh'
      BY <2>2, <2>5, <3>1, Typed DEF CopiesInv, WarmInv, Covers
    <3>3. cache'[Thread] # None => \A m \in Msg : <<m, cache'[Thread]>> \in Fresh'
      BY <2>2, <2>5, <3>1, Typed DEF CopiesInv, WarmInv, Covers
    <3>4. warm # None =>
            /\ warm.ids \subseteq Msg /\ warm.at \in 0..now /\ warm.rev \in 0..revision
            /\ warm.rev = revision => \A m \in warm.ids : <<m, warm.at>> \in Fresh
      BY Typed DEF CopiesInv, WarmInv, Covers
    <3>5. warm # None => warm.rev \in 0..revision' /\ (warm.rev = revision' => revision' = revision)
      BY <1>1, <2>6, <3>4
    <3>6. warm # None /\ warm.rev = revision' => \A m \in warm.ids : <<m, warm.at>> \in Fresh'
      BY <2>3, <3>4, <3>5
    <3>. QED
      BY <1>2, <2>1, <2>8, <3>2, <3>3, <3>4, <3>5, <3>6 DEF CopiesInv, WarmInv, Covers
  <2>. QED
    BY <2>1, <2>4, <2>7, <2>8
<1>6. \/ UNCHANGED store /\ upto <= reached
      \/ /\ cursor' = upto /\ reached < upto
         /\ \/ Touched(base, upto) # {} /\ revision' = revision + 1 /\ Evict(Touched(base, upto))
            \/ Touched(base, upto) = {} /\ UNCHANGED <<revision, rows>>
  BY <1>1 DEF checkpoint
<1>. QED
  BY <1>1, <1>2, <1>3, <1>4, <1>5, <1>6

\* A sync that is over: its call goes on from the cursor, those that waited decide again.
LEMMA CallsLand ==
  ASSUME GmailInv, RecordsInv', Grows, cursor' # None, cursor' = reached', NEW p \in Proc, call[p].at = "history",
         Release(p, [call[p] EXCEPT !.at = "ready", !.prof = cursor', !.base = 0, !.rev = 0, !.upto = 0, !.owner = None],
                 [at |-> "decide", owner |-> None])
  PROVE  CallsInv' /\ (UNCHANGED client => ClientInv') /\ call'[Push].phase = call[Push].phase /\ flight' = None
<1> DEFINE theirs == [at |-> "decide", owner |-> None]
<1>1. /\ DOMAIN call' = Proc /\ flight' = None
      /\ call'[p] = [call[p] EXCEPT !.at = "ready", !.prof = cursor', !.base = 0, !.rev = 0, !.upto = 0, !.owner = None]
      /\ \A q \in Proc \ {p} : call'[q] = call[q] \/ (call'[q] = Over(call[q], theirs) /\ call[q].at = "join")
  BY Typed, Releasing
<1>2. ASSUME NEW q \in Proc, call'[q] # call[q]
      PROVE  /\ DOMAIN call'[q] = Fields /\ call'[q].phase = call[q].phase /\ call'[q].op = call[q].op
             /\ call'[q].msg = call[q].msg /\ call'[q].got = call[q].got
             /\ \/ /\ call'[q].at = "ready" /\ call'[q].prof = cursor' /\ call'[q].base = 0 /\ call'[q].rev = 0
                   /\ call'[q].upto = 0
                \/ /\ call'[q].at = "decide" /\ call'[q].prof = call[q].prof /\ call'[q].base = call[q].base
                   /\ call'[q].rev = call[q].rev /\ call'[q].upto = call[q].upto
  <2>1. DOMAIN call[q] = Fields
    BY Typed DEF CallTyped
  <2>2. CASE q = p
    BY <1>1, <2>1, <2>2, RowsAre
  <2>3. CASE q # p /\ call'[q] = Over(call[q], theirs)
    BY <2>1, <2>3, RowsAre DEF Over
  <2>. QED
    BY <1>1, <1>2, <2>2, <2>3
<1>3. ASSUME NEW q \in Proc, call'[q] # call[q]
      PROVE  CallOK(q, call[q])'
  <2>1. CallTyped(call[q])
    BY Typed
  <2>2. /\ call'[q].prof \in 0..now' /\ call'[q].base \in 0..reached' /\ call'[q].rev \in 0..revision'
        /\ call'[q].got \in 0..now' /\ call'[q].upto \in 0..now' \cup {Gone}
    BY <1>2, <1>3, <2>1, Typed DEF CallTyped, Grows
  <2>3. cursor' <= reached'
    BY DEF Grows
  <2>. QED
    BY <1>2, <1>3, <2>1, <2>2, <2>3 DEF CallOK, CallTyped, Stage, Early, Fields, Idle, Gone
<1>4. CallsInv'
  <2>1. DOMAIN call' = Proc /\ \A q \in Proc : call'[q] = call[q] \/ CallOK(q, call[q])'
    <3> HIDE DEF CallOK
    <3>. QED
      BY <1>1, <1>3
  <2> HIDE DEF CallOK
  <2>. QED
    BY <1>1, <2>1, Typed, CallsMove
<1>5. ASSUME UNCHANGED client
      PROVE  ClientInv'
  <2>1. ASSUME NEW r \in Request
        PROVE  call'[r] = call[r] \/ AnswerOK(client[r], call'[r])
    <3>1. r \in Proc
      BY Numbers
    <3>. QED
      BY <1>2, <3>1, Typed, AnswerKept
  <2> HIDE DEF AnswerOK
  <2>. QED
    BY <1>5, <2>1, Typed, ClientsStay
<1>6. call'[Push].phase = call[Push].phase
  BY <1>2, Numbers
<1>. QED
  BY <1>1, <1>4, <1>5, <1>6

LEMMA SyncLandsOK ==
  ASSUME GmailInv, NEW p \in Proc, SyncLands(p), UNCHANGED pushVars
  PROVE  GmailInv'
<1> DEFINE base == call[p].base
           upto == call[p].upto
<1>1. /\ call[p].at = "history" /\ upto # Gone /\ UNCHANGED <<gmail, lastDelivered, client, swallowed, wrote>>
      /\ Release(p, [call[p] EXCEPT !.at = "ready", !.prof = cursor', !.base = 0, !.rev = 0, !.upto = 0, !.owner = None],
                 [at |-> "decide", owner |-> None])
      /\ \/ checkpoint(upto, Touched(base, upto), FALSE) /\ prefetch(Touched(base, upto))
         \/ UNCHANGED <<store, warm>>
  BY DEF SyncLands, Answered, At
<1>2. PICK missed \in SUBSET (Unlabelled \cap addedMessages(base, upto) \cap Inbox) :
        excused' = excused \cup missed /\ undelivered' = undelivered \cup deliveries(base, upto, missed)
  BY DEF SyncLands, Collect
<1>3. cursor # None /\ base \in 0..reached /\ upto \in 0..now /\ base \in Nat
  BY <1>1, Typed DEF CallTyped, Early
<1> HIDE DEF base, upto
<1>4. /\ RecordsInv' /\ Grows /\ StoreInv' /\ CopiesInv' /\ cursor' # None /\ cursor' = reached' /\ now' = now
      /\ (UNCHANGED cursor \/ cursor' = upto)
  <2>1. CASE UNCHANGED <<store, warm>>
    <3>1. Quiet /\ UNCHANGED <<cache, page, profile, warm>>
      BY <1>1, <2>1 DEF Quiet, gmail, store, rows
    <3>2. RowsOK
      BY <3>1, Typed, SameRows
    <3>3. RecordsInv' /\ Grows /\ reached' = reached /\ now' = now /\ cursor' = cursor
      BY <3>1, Typed, QuietGrows DEF Quiet
    <3>. QED
      BY <1>3, <3>1, <3>2, <3>3, Typed, RowsStay
  <2>2. CASE checkpoint(upto, Touched(base, upto), FALSE) /\ prefetch(Touched(base, upto))
    <3>1. /\ RecordsInv' /\ Grows /\ StoreInv' /\ (UNCHANGED warm \/ WarmInv' => CopiesInv')
          /\ cursor' # None /\ cursor' = reached' /\ now' = now
          /\ (reached' = reached \/ reached' = upto)
      BY <1>1, <1>3, <2>2, Checkpoints
    <3>2. ASSUME warm' = [ids |-> Touched(base, upto), at |-> now, rev |-> revision']
          PROVE  WarmInv'
      <4>1. Touched(base, upto) \subseteq Msg
        <5>1. \A i \in (base + 1)..upto : i \in 1..now
          BY <1>3, Typed
        <5>. QED
          BY <5>1, Typed, NowIs DEF Touched, Record
      <4>2. now \in Nat /\ reached' \in Nat /\ reached' <= now /\ revision' \in Nat
        BY <3>1, Typed DEF Grows
      <4>3. \A m \in Msg : wrote'[m] <= now
        BY <3>1, <4>2 DEF StoreInv
      <4>4. \A m \in Msg : <<m, reached', now>> \in Known'
        BY <4>2 DEF Known
      <4>5. \A m \in Msg : <<m, now>> \in Fresh'
        BY <4>2, <4>3, <4>4 DEF Fresh, Knows
      <4>. QED
        BY <3>1, <3>2, <4>1, <4>2, <4>5 DEF WarmInv, Covers
    <3>3. CopiesInv'
      BY <2>2, <3>1, <3>2 DEF prefetch
    <3>. QED
      BY <1>3, <3>1, <3>3, Typed
  <2>. QED
    BY <1>1, <2>1, <2>2
<1>5. CallsInv' /\ ClientInv' /\ call'[Push].phase = call[Push].phase
  BY <1>1, <1>4, CallsLand
<1>6. PushInv'
  <2>1. undelivered' \subseteq Inbox
    BY <1>2, Typed DEF PushInv, deliveries
  <2>. QED
    BY <1>1, <2>1, Typed DEF PushInv, HintsAreFollowed, pushVars
<1>7. ArrivalsAreTold'
  <2>1. OnTheWay \subseteq OnTheWay' /\ UNCHANGED <<records, told, swallowed>>
    BY <1>1, <1>2, <1>5 DEF OnTheWay, gmail, pushVars
  <2>2. told \cup OnTheWay \cup excused \cup swallowed \subseteq (told \cup OnTheWay \cup excused \cup swallowed)'
    BY <1>2, <2>1
  <2>3. deliveries(base, upto, missed) \subseteq undelivered' \cup excused' \cup swallowed' /\ missed \subseteq excused'
    BY <1>2
  <2>4. base <= reached
    BY <1>3, Typed
  <2> HIDE DEF OnTheWay
  <2>. QED
    BY <1>3, <1>4, <2>1, <2>2, <2>3, <2>4, ArrivalsPassed
<1>. QED
  BY <1>4, <1>5, <1>6, <1>7 DEF GmailInv

LEMMA SyncResetsOK ==
  ASSUME GmailInv, NEW p \in Proc, SyncResets(p), UNCHANGED pushVars
  PROVE  GmailInv'
<1> DEFINE base == call[p].base
           h == call[p].prof
<1>1. /\ call[p].at = "history" /\ UNCHANGED <<gmail, undelivered, lastDelivered, warm, client, swallowed, wrote>>
      /\ Release(p, [call[p] EXCEPT !.at = "ready", !.prof = cursor', !.base = 0, !.rev = 0, !.upto = 0, !.owner = None],
                 [at |-> "decide", owner |-> None])
      /\ \/ checkpoint(h, {}, TRUE) /\ excused' = excused \cup {m \in Msg : AddedIn(m, base, h)}
         \/ UNCHANGED <<store, excused>>
  BY DEF SyncResets, Answered, At
<1>2. cursor # None /\ base \in 0..reached /\ h \in 0..now /\ base \in Nat /\ reached \in Nat /\ cursor = reached
  BY <1>1, Typed DEF CallTyped, Early
<1> HIDE DEF base, h
<1>3. CASE UNCHANGED store
  <2>1. Quiet /\ UNCHANGED <<cache, page, profile, warm>> /\ excused \subseteq excused'
    BY <1>1, <1>3 DEF Quiet, gmail, store, rows
  <2>2. RowsOK
    BY <2>1, Typed, SameRows
  <2>3. RecordsInv' /\ Grows /\ reached' = reached /\ cursor' = cursor /\ StoreInv' /\ CopiesInv'
    BY <2>1, <2>2, Typed, QuietGrows, RowsStay DEF Quiet
  <2>4. CallsInv' /\ ClientInv' /\ call'[Push].phase = call[Push].phase
    BY <1>1, <1>2, <2>3, CallsLand
  <2>5. PushInv'
    BY <1>1, Typed DEF PushInv, HintsAreFollowed, pushVars
  <2>6. ArrivalsAreTold'
    <3>1. OnTheWay' = OnTheWay /\ UNCHANGED <<records, cursor, told, swallowed>>
      BY <1>1, <2>3, <2>4 DEF OnTheWay, gmail, pushVars
    <3> HIDE DEF OnTheWay
    <3>. QED
      BY <2>1, <3>1, Typed, ArrivalsStay
  <2>. QED
    BY <2>3, <2>4, <2>5, <2>6 DEF GmailInv
<1>4. CASE /\ ~ cursor >= h /\ checkpoint(h, {}, TRUE)
           /\ excused' = excused \cup {m \in Msg : AddedIn(m, base, h)}
  <2>1. /\ cursor' = h /\ cursor # None /\ reached < h /\ revision' = revision + 1 /\ cache' = NoRows
        /\ profile' = None /\ page' = None
    BY <1>2, <1>4 DEF checkpoint, invalidate
  <2>2. now' = now /\ reached' = h /\ cursor' # None
    BY <1>1, <1>2, <2>1, Numbers DEF gmail, now, reached
  <2>3. RecordsInv'
    BY <1>1, <2>2, Typed DEF gmail, RecordsInv, OneLife
  <2>4. revision' \in Nat /\ revision <= revision' /\ revision' # revision /\ \A x \in 0..revision : x \in 0..revision' /\ x # revision'
    BY <2>1, Typed
  <2>5. Grows
    BY <1>1, <1>2, <2>1, <2>2, <2>4, Typed, NowIs DEF Grows, gmail
  <2>6. StoreInv'
    BY <1>1, <1>2, <2>1, <2>2, <2>4, Typed DEF StoreInv, NoRows
  <2>7. CopiesInv'
    BY <1>1, <2>1, <2>2, <2>4, Typed DEF CopiesInv, WarmInv, NoRows
  <2>8. CallsInv' /\ ClientInv' /\ call'[Push].phase = call[Push].phase
    BY <1>1, <2>1, <2>2, <2>3, <2>5, CallsLand
  <2>9. PushInv'
    BY <1>1, Typed DEF PushInv, HintsAreFollowed, pushVars
  <2>10. ArrivalsAreTold'
    <3>1. OnTheWay' = OnTheWay /\ UNCHANGED <<records, told, swallowed>>
      BY <1>1, <2>8 DEF OnTheWay, gmail, pushVars
    <3>2. told \cup OnTheWay \cup excused \cup swallowed \subseteq (told \cup OnTheWay \cup excused \cup swallowed)'
      BY <1>4, <3>1
    <3>3. deliveries(base, h, {}) \subseteq undelivered' \cup excused' \cup swallowed' /\ {} \subseteq excused'
      BY <1>4 DEF deliveries, addedMessages
    <3>4. base <= reached
      BY <1>2
    <3> HIDE DEF OnTheWay
    <3>. QED
      BY <1>2, <2>1, <3>1, <3>2, <3>3, <3>4, ArrivalsPassed
  <2>. QED
    BY <2>3, <2>6, <2>7, <2>8, <2>9, <2>10 DEF GmailInv
<1>5. checkpoint(h, {}, TRUE) /\ cursor >= h => UNCHANGED store
  BY <1>2 DEF checkpoint
<1>. QED
  BY <1>1, <1>3, <1>4, <1>5

-----------------------------------------------------------------------------
(* Email/changes.                                                          *)

\* A message that came and went inside a window was there at neither end of it.
LEMMA CameAndWent ==
  ASSUME RecordsInv, NEW m \in Msg, NEW since \in Nat, NEW base \in Nat, NEW upto \in 0..now, since <= base,
         NEW i \in (base + 1)..upto, records[i].msg = m, records[i].kind = "added",
         NEW j \in (base + 1)..upto, records[j].msg = m, records[j].kind = "deleted"
  PROVE  ~ Exists(m, upto) /\ ~ Exists(m, since)
<1>1. now \in Nat /\ i \in 1..now /\ i \in 1..upto /\ j \in 1..upto /\ since \in 0..now /\ \A k \in 1..since : k \in 1..now /\ k < i
  BY NowIs
<1>2. ~ Exists(m, upto)
  BY <1>1, ExistsIs
<1>3. \A k \in 1..since : records[k].msg # m
  BY <1>1 DEF RecordsInv, OneLife
<1>. QED
  BY <1>1, <1>2, <1>3, ExistsIs

\* A message of which a window says nothing is there after it only if it was before.
LEMMA Untouched ==
  ASSUME RecordsInv, NEW m \in Msg, NEW base \in 0..now, NEW upto \in base..now,
         \A i \in (base + 1)..upto : records[i].msg # m
  PROVE  /\ Exists(m, upto) => Exists(m, base)
         /\ \A x \in Nat : Knows(m, base, x) => Knows(m, upto, x)
<1>1. /\ now \in Nat /\ base \in Nat /\ upto \in 0..now /\ upto \in Nat
      /\ \A i \in 1..upto : records[i].msg = m => i \in 1..base
      /\ \A i \in 1..base : i \in 1..upto
  BY NowIs
<1>2. Exists(m, upto) => Exists(m, base)
  BY <1>1, ExistsIs
<1>3. \A x \in Nat : Knows(m, base, x) => Knows(m, upto, x)
  BY <1>1 DEF Knows, Known
<1>. QED
  BY <1>2, <1>3

\* A client that takes what Email/changes says of a window follows at the end of it.
LEMMA TakesChanges ==
  ASSUME RecordsInv, NEW c \in Client, c.since <= c.state.h, Follows(c),
         NEW upto \in c.state.h..now, NEW rev \in Nat,
         NEW d, d \in Client, d.state = [h |-> upto, r |-> rev], d.since = c.since,
         LET delta == emailDelta(c.state.h, upto) IN
           /\ d.want = (c.want \cup delta.created \cup delta.updated) \ delta.destroyed
           /\ d.held = [m \in Msg |-> IF m \in delta.destroyed THEN upto ELSE c.held[m]]
  PROVE  Follows(d)
<1> DEFINE base == c.state.h
           delta == emailDelta(base, upto)
<1>1. /\ base \in Nat /\ upto \in Nat /\ now \in Nat /\ upto \in 0..now /\ base \in 0..now /\ c.since \in Nat
      /\ \A m \in Msg : c.held[m] \in Nat
  BY NowIs DEF Client, State
<1>2. SUFFICES ASSUME NEW m \in Msg \ d.want
               PROVE  Knows(m, upto, d.held[m]) \/ (<<m, upto>> \notin Alive /\ <<m, c.since>> \notin Alive)
  BY DEF Follows
<1>3. CASE m \in delta.destroyed
  <2>1. d.held[m] = upto
    BY <1>3
  <2>. QED
    BY <1>1, <2>1 DEF Knows, Known
<1>4. CASE m \notin delta.destroyed
  <2> DEFINE s == Fate(m, base, upto)
  <2>1. d.held[m] = c.held[m] /\ m \notin c.want /\ m \notin delta.created /\ m \notin delta.updated
    BY <1>2, <1>4
  <2>2. s # None => ~ (s.before = FALSE /\ s.after = TRUE) /\ ~ (s.before = TRUE /\ s.after = TRUE)
                    /\ ~ (s.before = TRUE /\ s.after = FALSE)
    BY <1>4, <2>1 DEF emailDelta
  <2>3. /\ s = None => \A i \in (base + 1)..upto : records[i].msg # m
        /\ s # None => /\ s.before \in BOOLEAN /\ s.after \in BOOLEAN
                       /\ ~ s.before => \E i \in (base + 1)..upto : records[i].msg = m /\ records[i].kind = "added"
                       /\ ~ s.after => \E i \in (base + 1)..upto : records[i].msg = m /\ records[i].kind = "deleted"
    BY <1>1, FateIs
  <2> HIDE DEF s, base, delta
  <2>4. CASE s = None
    <3>1. \A i \in (base + 1)..upto : records[i].msg # m
      BY <2>3, <2>4
    <3>2. /\ Exists(m, upto) => Exists(m, base)
          /\ Knows(m, base, c.held[m]) => Knows(m, upto, c.held[m])
      BY <1>1, <3>1, Untouched DEF base
    <3>3. Knows(m, base, c.held[m]) \/ (<<m, base>> \notin Alive /\ <<m, c.since>> \notin Alive)
      BY <2>1 DEF Follows, base
    <3>. QED
      BY <1>1, <2>1, <3>2, <3>3 DEF Alive
  <2>5. CASE s # None
    <3>1. ~ s.before /\ ~ s.after
      BY <2>2, <2>3, <2>5
    <3>2. PICK i \in (base + 1)..upto : records[i].msg = m /\ records[i].kind = "added"
      BY <2>3, <2>5, <3>1
    <3>3. PICK j \in (base + 1)..upto : records[j].msg = m /\ records[j].kind = "deleted"
      BY <2>3, <2>5, <3>1
    <3>4. c.since <= base
      BY DEF base
    <3>5. ~ Exists(m, upto) /\ ~ Exists(m, c.since)
      BY <1>1, <3>2, <3>3, <3>4, CameAndWent
    <3>. QED
      BY <3>5 DEF Alive
  <2>. QED
    BY <2>4, <2>5
<1>. QED
  BY <1>3, <1>4

LEMMA ChangesArriveOK ==
  ASSUME GmailInv, NEW r \in Request, ChangesArrive(r), UNCHANGED pushVars
  PROVE  GmailInv'
<1> DEFINE base == call[r].base
           upto == call[r].upto
           c == client[r]
           delta == emailDelta(base, upto)
           d == [c EXCEPT !.state = [h |-> upto, r |-> revision'],
                          !.want = (@ \cup delta.created \cup delta.updated) \ delta.destroyed,
                          !.held = [m \in Msg |-> IF m \in delta.destroyed THEN upto ELSE @[m]]]
<1>1. /\ call[r].at = "delta" /\ upto # Gone /\ checkpoint(upto, Touched(base, upto), FALSE) /\ TakeChanges(r, delta, upto)
      /\ swallowed' = IF cursor' = cursor THEN swallowed ELSE swallowed \cup deliveries(cursor, upto, {})
      /\ Ends(r) /\ UNCHANGED <<gmail, memory, excused, wrote>>
  BY DEF ChangesArrive, Answered, At
<1>2. r \in Proc /\ r # Push /\ \A q \in Request : q \in Proc
  BY Numbers
<1>3. cursor # None /\ base \in 0..reached /\ upto \in 0..now /\ base <= upto /\ cursor = reached
  BY <1>1, <1>2, Typed DEF CallTyped, CallOK, Early
<1>4. /\ c \in Client /\ client \in [Request -> Client] /\ c.since <= c.state.h /\ c.state.h <= reached /\ base = c.state.h
      /\ (~ c.lost => Follows(c))
  BY <1>1, Typed DEF ClientInv, AnswerOK
<1>5. /\ RecordsInv' /\ Grows /\ StoreInv' /\ CopiesInv' /\ cursor' # None /\ cursor' = reached' /\ now' = now
      /\ revision' \in Nat
      /\ \/ reached' = reached /\ upto <= reached /\ UNCHANGED store
         \/ reached' = upto /\ reached < upto
  <2> HIDE DEF base, upto
  <2>1. /\ RecordsInv' /\ Grows /\ StoreInv' /\ (UNCHANGED warm \/ WarmInv' => CopiesInv')
        /\ cursor' # None /\ cursor' = reached' /\ now' = now
        /\ \/ reached' = reached /\ upto <= reached /\ UNCHANGED store
           \/ reached' = upto /\ reached < upto
    BY <1>1, <1>3, Checkpoints
  <2>. QED
    BY <1>1, <2>1 DEF memory, Grows
<1>6. DOMAIN call' = Proc /\ (\A q \in Proc : q # r => call'[q] = call[q]) /\ call'[r] = Idle
  BY <1>1, <1>2, Typed, Ending
<1>7. CallsInv'
  <2>1. CallOK(r, call[r])'
    BY <1>5, <1>6, Typed DEF Grows, CallOK, CallTyped, Idle, Fields, Stage, Early, Gone
  <2>2. flight' # None => flight' \in Proc /\ call'[flight'].at = "history"
    BY <1>1, <1>6, Typed DEF memory
  <2>3. \A q \in Proc : call'[q] = call[q] \/ CallOK(q, call[q])'
    <3> HIDE DEF CallOK
    <3>. QED
      BY <1>6, <2>1
  <2> HIDE DEF CallOK
  <2>. QED
    BY <1>5, <1>6, <2>2, <2>3, Typed, CallsMove
<1>8. /\ d \in Client /\ d.state = [h |-> upto, r |-> revision'] /\ d.since = c.since /\ d.lost = c.lost
      /\ d.want = (c.want \cup delta.created \cup delta.updated) \ delta.destroyed
      /\ d.held = [m \in Msg |-> IF m \in delta.destroyed THEN upto ELSE c.held[m]]
  <2>1. delta.created \subseteq Msg /\ delta.updated \subseteq Msg
    BY DEF emailDelta
  <2>2. upto \in Nat
    BY <1>3, Typed
  <2> HIDE DEF delta, upto
  <2>. QED
    BY <1>4, <1>5, <2>1, <2>2 DEF Client, State
<1>9. client' = [client EXCEPT ![r] = d]
  BY <1>1, <1>4 DEF TakeChanges, Client
<1>10. ~ d.lost => Follows(d)
  <2>1. upto \in c.state.h..now
    BY <1>3, <1>4, Typed DEF Client, State
  <2> HIDE DEF d, c, upto
  <2>2. delta = emailDelta(c.state.h, upto)
    BY <1>4
  <2> HIDE DEF delta, base
  <2>. QED
    BY <1>4, <1>5, <1>8, <2>1, <2>2, Typed, TakesChanges
<1>11. ClientInv'
  <2>1. d.since <= d.state.h /\ d.state.h <= reached' /\ d.state.h \in 0..now
    <3>1. d.state.h = upto /\ d.since = c.since /\ c.since \in Nat /\ c.state.h \in Nat
      BY <1>4, <1>8 DEF Client, State
    <3>. QED
      BY <1>3, <1>4, <1>5, <3>1, Typed
  <2>2. d.state.h \in Nat /\ d.since \in Nat
    BY <1>8 DEF Client, State
  <2> HIDE DEF d
  <2>3. client' \in [Request -> Client] /\ client'[r] = d /\ \A q \in Request \ {r} : client'[q] = client[q]
    BY <1>4, <1>8, <1>9
  <2>4. ASSUME NEW q \in Request
        PROVE  /\ client'[q].since <= client'[q].state.h /\ client'[q].state.h <= reached' /\ client'[q].state.h <= now
               /\ client'[q].since \in Nat /\ client'[q].state.h \in 0..now /\ client'[q].state.h \in Nat
               /\ ~ client'[q].lost => Follows(client'[q])
               /\ AnswerOK(client'[q], call'[q])
    <3>1. CASE q = r
      BY <1>6, <1>10, <2>1, <2>2, <2>3, <3>1, Typed DEF AnswerOK, Idle
    <3>2. CASE q # r
      <4>1. client'[q] = client[q] /\ call'[q] = call[q]
        BY <1>2, <1>6, <2>3, <3>2
      <4>2. /\ client[q] \in Client /\ client[q].since <= client[q].state.h /\ client[q].state.h <= reached
            /\ (~ client[q].lost => Follows(client[q])) /\ AnswerOK(client[q], call[q])
            /\ client[q].since \in Nat /\ client[q].state.h \in Nat
        BY Typed DEF ClientInv, Client, State
      <4>3. client[q].state.h <= reached' /\ client[q].state.h <= now /\ client[q].state.h \in 0..now
        BY <1>5, <4>2, Typed DEF Grows
      <4> HIDE DEF AnswerOK, Follows
      <4>. QED
        BY <4>1, <4>2, <4>3
    <3>. QED
      BY <3>1, <3>2
  <2>5. ASSUME NEW q \in Request
        PROVE  (~ client[q].lost => Follows(client[q]))' /\ AnswerOK(client[q], call[q])'
    <3>1. ~ client'[q].lost => Follows(client[q])'
      BY <1>5, <2>4, Typed, FollowsStays DEF Follows, Knows
    <3>2. AnswerOK(client[q], call[q])'
      BY <1>5, <2>4, Typed, AnswerStays DEF AnswerOK, Knows
    <3>. QED
      BY <3>1, <3>2
  <2>. QED
    BY <1>5, <2>3, <2>4, <2>5 DEF ClientInv, Client, State, Follows, AnswerOK, Knows
<1>12. PushInv'
  BY <1>1, Typed DEF PushInv, HintsAreFollowed, pushVars, memory
<1>13. ArrivalsAreTold'
  <2>1. OnTheWay' = OnTheWay /\ UNCHANGED <<records, told, excused>> /\ swallowed \subseteq swallowed'
    BY <1>1, <1>2, <1>6, Numbers DEF OnTheWay, memory, gmail, pushVars
  <2>2. told \cup OnTheWay \cup excused \cup swallowed \subseteq (told \cup OnTheWay \cup excused \cup swallowed)'
    BY <2>1
  <2>3. \/ UNCHANGED cursor
        \/ /\ cursor' = upto /\ cursor <= reached /\ {} \subseteq excused'
           /\ deliveries(cursor, upto, {}) \subseteq undelivered' \cup excused' \cup swallowed'
    BY <1>1, <1>3, <1>5, Typed
  <2>4. cursor \in Nat
    BY <1>3, Typed
  <2> HIDE DEF OnTheWay, upto, base
  <2>. QED
    BY <1>3, <2>1, <2>2, <2>3, <2>4, ArrivalsPassed
<1>. QED
  BY <1>5, <1>7, <1>11, <1>12, <1>13 DEF GmailInv

-----------------------------------------------------------------------------
(* The invariant.                                                          *)

\* An account begins right, new or known to the bridge.
LEMMA Initially ==
  ASSUME Init
  PROVE  GmailInv
<1>1. /\ cursor \in {None, 0} /\ records = <<>> /\ oldest = 0 /\ revision = 0 /\ cache = NoRows /\ profile = None
      /\ page = None /\ flight = None /\ undelivered = {} /\ lastDelivered = {} /\ warm = None
      /\ call = [p \in Proc |-> Idle] /\ wrote = [m \in Msg |-> 0] /\ told = {} /\ device = "verified" /\ failures = 0
      /\ owed = FALSE
      /\ client = [r \in Request |-> [lost |-> cursor = None, state |-> [h |-> 0, r |-> 0], since |-> 0,
                                      held |-> [m \in Msg |-> 0], want |-> {}]]
  BY DEF Init, SyncInit
<1>2. now = 0 /\ reached = 0
  BY <1>1, Numbers DEF now, reached
<1>3. RecordsInv
  BY <1>1, <1>2, Numbers DEF RecordsInv, OneLife
<1>4. StoreInv
  BY <1>1, <1>2 DEF StoreInv, NoRows
<1>5. CopiesInv
  BY <1>1 DEF CopiesInv, WarmInv, NoRows
<1>6. CallsInv
  <2>1. \A p \in Proc : CallOK(p, Idle)
    BY <1>3, <1>4, IdleIsOK
  <2> HIDE DEF CallOK
  <2>. QED
    BY <1>1, <2>1 DEF CallsInv
<1>7. ClientInv
  <2>1. client \in [Request -> Client]
    BY <1>1 DEF Client, State
  <2>2. \A m \in Msg : <<m, 0, 0>> \in Known
    BY DEF Known
  <2>3. ASSUME NEW r \in Request
        PROVE  /\ client[r].since = 0 /\ client[r].state.h = 0 /\ (~ client[r].lost => cursor # None)
               /\ Follows(client[r]) /\ AnswerOK(client[r], call[r])
    <3>1. call[r] = Idle
      BY <1>1, Numbers
    <3>2. /\ client[r].since = 0 /\ client[r].state.h = 0 /\ (~ client[r].lost => cursor # None)
          /\ \A m \in Msg : client[r].held[m] = 0
      BY <1>1
    <3>3. Follows(client[r])
      BY <2>2, <3>2 DEF Follows, Knows
    <3>4. AnswerOK(client[r], call[r])
      BY <3>1 DEF AnswerOK, Idle
    <3>. QED
      BY <3>2, <3>3, <3>4
  <2>. QED
    BY <1>2, <2>1, <2>3 DEF ClientInv
<1>8. PushInv
  BY <1>1, Numbers DEF PushInv, HintsAreFollowed
<1>9. ArrivalsAreTold
  <2>1. ASSUME NEW m, cursor # None
        PROVE  ~ AddedIn(m, 0, cursor)
    <3>1. cursor = 0 /\ (0 + 1)..0 = {}
      BY <1>1, <2>1
    <3>. QED
      BY <3>1 DEF AddedIn, Touches
  <2>. QED
    BY <2>1 DEF ArrivalsAreTold, Arrived
<1>. QED
  BY <1>3, <1>4, <1>5, <1>6, <1>7, <1>8, <1>9 DEF GmailInv

\* Every step of the account and its clients keeps the invariant.
LEMMA SyncStepOK ==
  ASSUME GmailInv, SyncStep, UNCHANGED pushVars
  PROVE  GmailInv'
<1>1. ASSUME NEW p \in Proc, Profile(p)
      PROVE  GmailInv'
  <2> HIDE DEF GmailInv
  <2>. QED
    BY <1>1, ProfileArrivesOK, FirstCursorOK, UpToDateOK, StaleProfileOK, RecheckArrivesOK, SyncStartsOK, SyncLandsOK,
       SyncResetsOK DEF Profile
<1>2. ASSUME NEW r \in Request, Method(r)
      PROVE  GmailInv'
  <2>1. CASE Start(r) \/ Fails(r)
    BY <2>1, StartOK, FailsOK
  <2>2. CASE GetCached(r) \/ GetAsk(r) \/ MessageArrives(r) \/ GetAnswers(r)
    BY <2>2, GetCachedOK, GetAskOK, MessageArrivesOK, GetAnswersOK
  <2>3. CASE ThreadCached(r) \/ ThreadAsk(r) \/ ThreadArrives(r)
    BY <2>3, ThreadCachedOK, ThreadAskOK, ThreadArrivesOK
  <2>4. CASE QueryCached(r) \/ QueryAsk(r) \/ ListArrives(r)
    BY <2>4, QueryCachedOK, QueryAskOK, ListArrivesOK
  <2>5. CASE NoChanges(r) \/ OnlyRevisionMoved(r) \/ ChangesAsk(r) \/ TooManyChanges(r) \/ ChangesArrive(r)
    BY <2>5, NoChangesOK, LosesTrackOK, ChangesAskOK, ChangesArriveOK
  <2>6. CASE WriteLook(r) \/ NothingToWrite(r) \/ WriteSent(r) \/ WriteTakesEffect(r) \/ WriteOver(r) \/ WriteAnswers(r)
    BY <2>6, WriteLookOK, NothingToWriteOK, WriteSentOK, WriteTakesEffectOK, WriteOverOK, NoChangesOK
  <2>. QED
    BY <1>2, <2>1, <2>2, <2>3, <2>4, <2>5, <2>6 DEF Method
<1>3. ASSUME NEW m \in Msg, GmailChanges(m)
      PROVE  GmailInv'
  BY <1>3, GmailChangesOK
<1>4. CASE HistoryExpires \/ WarmArrives
  BY <1>4, WarmArrivesOK
<1>. QED
  BY <1>1, <1>2, <1>3, <1>4 DEF SyncStep

\* Every step keeps the invariant.
LEMMA StepOK ==
  ASSUME GmailInv, [Next]_vars
  PROVE  GmailInv'
<1>1. CASE SyncStep /\ UNCHANGED pushVars
  BY <1>1, SyncStepOK
<1>2. CASE Receive \/ TimerFires \/ WaiterSchedules
  BY <1>2, HintsOK, TimerFiresOK
<1>3. CASE FreshArrives \/ Compare \/ StatesAsk \/ StatesArrive
  BY <1>3, FreshArrivesOK, CompareOK, StatesAskOK, StatesArriveOK
<1>4. CASE PostOk \/ PostFails \/ PushFails
  BY <1>4, PostOkOK, PostFailsOK, PushFailsOK
<1>5. CASE Subscribe \/ Verify \/ Crash
  BY <1>5, HintsOK, CrashOK
<1>6. CASE UNCHANGED vars
  <2>1. /\ Quiet
        /\ UNCHANGED <<cache, page, profile, warm, call, flight, undelivered, lastDelivered, client, excused, swallowed,
                       pushVars>>
    BY <1>6 DEF vars, syncVars, Quiet, gmail, store, rows, memory, history
  <2>2. RowsOK /\ Moves(Push)
    BY <2>1, Typed, SameRows, NothingMoves
  <2>3. PushInv'
    BY <2>1, Typed DEF PushInv, HintsAreFollowed, pushVars
  <2>4. ArrivalsAreTold'
    <3>1. OnTheWay' = OnTheWay /\ UNCHANGED <<records, cursor, told, excused, swallowed>>
      BY <2>1 DEF OnTheWay, Quiet, pushVars
    <3> HIDE DEF OnTheWay
    <3>. QED
      BY <3>1, Typed, ArrivalsStay
  <2>. QED
    BY <2>1, <2>2, <2>3, <2>4, PushMoves
<1>. QED
  BY <1>1, <1>2, <1>3, <1>4, <1>5, <1>6 DEF Next

\* Every step of the account, its clients, Gmail and the device keeps the invariant.
THEOREM Inductive == Spec => []GmailInv
<1>1. Init => GmailInv
  BY Initially
<1>2. GmailInv /\ [Next]_vars => GmailInv'
  BY StepOK
<1>. QED
  BY <1>1, <1>2, PTL DEF Spec

\* What the cache keeps of a message or a thread is at least as new as the cursor and as the
\* last write that is over, for any number of messages and clients (mail.ts:89-100, 264-288).
THEOREM CachesAreCurrent == Spec => []CacheOK
<1>1. ASSUME GmailInv
      PROVE  CacheOK
  <2>1. now \in Nat /\ now <= MaxHistory /\ MaxHistory \in Nat /\ \A x \in 0..now : x \in Index
    BY <1>1, Typed, NowIs, Numbers DEF Index
  <2>2. TypeOK
    <3>1. records \in Seq([kind : {"added", "deleted", "labeled", "sent"}, msg : Msg]) /\ oldest \in Index
      BY <1>1, <2>1, Typed DEF RecordsInv, Record, Kind
    <3>2. /\ cursor \in Index \cup {None} /\ revision \in Nat
          /\ cache \in [Msg \cup {Thread} -> Index \cup {None}] /\ profile \in Index \cup {None}
      BY <1>1, <2>1, Typed DEF StoreInv
    <3>3. flight \in Proc \cup {None} /\ \A p \in Proc : call[p].at = "join" => call[p].owner \in Proc \ {p}
      BY <1>1, Typed DEF CallOK
    <3>. QED
      BY <1>1, <3>1, <3>2, <3>3, Typed DEF TypeOK, PushInv
  <2>3. ASSUME NEW m \in Msg, NEW k \in {m, Thread}, cache[k] # None
        PROVE  LastTouch(m, cursor) <= cache[k] /\ wrote[m] <= cache[k]
    <3>1. cursor = reached /\ reached \in Nat /\ cache[k] \in Nat
      BY <1>1, <2>3, Typed DEF CopiesInv, StoreInv
    <3>2. Covers(m, cache[k])
      BY <1>1, <2>3, Typed DEF CopiesInv
    <3>. QED
      BY <3>1, <3>2, KnowsIs DEF Covers, Fresh
  <2>4. page # None => page.state.h <= page.at
    BY <1>1, Typed DEF StoreInv
  <2>. QED
    BY <2>2, <2>3, <2>4 DEF CacheOK, CacheIsCurrent, OwnWritesAreSeen
<1>. QED
  BY <1>1, Inductive, PTL

\* A client that follows Email/changes is never misled about a message, whatever runs beside
\* its calls and however the history expires (history.ts:112-139, mail.ts:1254-1308).
THEOREM ClientsAreCurrent == Spec => []ClientIsCurrent
<1>1. ASSUME GmailInv
      PROVE  ClientIsCurrent
  <2>1. SUFFICES ASSUME NEW r \in Request, ~ client[r].lost, NEW m \in Msg \ client[r].want
                 PROVE  \/ LastTouch(m, client[r].state.h) <= client[r].held[m]
                        \/ ~ (Exists(m, client[r].state.h) \/ Exists(m, client[r].since))
    BY DEF ClientIsCurrent
  <2>2. /\ client[r].state.h \in Nat /\ client[r].since \in Nat /\ client[r].held[m] \in Nat
        /\ Follows(client[r])
    BY <1>1, <2>1, Typed DEF ClientInv, Client, State
  <2>3. \/ Knows(m, client[r].state.h, client[r].held[m])
        \/ <<m, client[r].state.h>> \notin Alive /\ <<m, client[r].since>> \notin Alive
    BY <2>1, <2>2 DEF Follows
  <2>. QED
    BY <2>1, <2>2, <2>3, KnowsIs DEF Alive
<1>. QED
  BY <1>1, Inductive, PTL

\* An arrival the cursor has passed is told of, on its way, excused, or one an Email/changes
\* took the cursor over, whichever of any number of calls moved it (mail.ts:114-119, 312-316).
THEOREM ArrivalsAreKept == Spec => []ArrivalsAreTold
<1>1. GmailInv => ArrivalsAreTold
  BY DEF GmailInv
<1>. QED
  BY <1>1, Inductive, PTL

\* No hint is left without a push sync that begins after it (push.ts:155-160).
THEOREM HintsLead == Spec => []HintsAreFollowed
<1>1. GmailInv => HintsAreFollowed
  BY DEF GmailInv, PushInv
<1>. QED
  BY <1>1, Inductive, PTL

=============================================================================
