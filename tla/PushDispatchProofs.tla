-------------------------- MODULE PushDispatchProofs --------------------------
(***************************************************************************)
(* For any kinds, streams, subscriptions and limits, and any number of      *)
(* POSTs that overlap: nobody who listens is kept from a state, a           *)
(* subscription is retired after a streak, and the IDLE manager follows.    *)
(***************************************************************************)
EXTENDS PushDispatch, FiniteSetTheorems, TLAPS

\* A window has the kinds that moved; shutdown leaves none.
PendingInv ==
  /\ \A k \in pending : counter[k] >= 1
  /\ phase # "up" => pending = {}

\* failureCount is the streak as long as the row is there; whose row was never
\* made has neither, and no POST.
StreakInv ==
  \A i \in Sub :
    /\ i \in Rows => fails[i] = streak[i]
    /\ row[i] = "retired" => streak[i] >= MaxFailures
    /\ row[i] = "none" => fails[i] = 0 /\ streak[i] = 0 /\ \A p \in posts : p.sub # i

PushInv ==
  /\ TypeOK /\ PendingInv /\ StreakInv
  /\ Cardinality(Rows) <= MaxSubs
  /\ SupervisorUpToDate /\ BumpsAreForwarded
-------------------------------------------------------------------------------
(* Kinds, rows and counts *)

Ids == Listener \cup Sub
RowStates == {"none", "unverified", "verified", "destroyed", "gone", "retired"}

\* A pushed kind is not that of the subscriptions, and its counter is bounded.
LEMMA PushedKinds ==
  ASSUME TypeOK
  PROVE  /\ SubKind \in Kind /\ Pushed \subseteq Kind \ {SubKind}
         /\ \A k \in Pushed : counter[k] \in Nat /\ counter[k] <= MaxState
BY KindAssumption, BoundsAssumption DEF TypeOK, Bound

\* The rows of an account are finitely many, and fewer when one goes.
LEMMA RowsAreFew ==
  ASSUME NEW S \in SUBSET Sub, NEW T \in SUBSET S
  PROVE  IsFiniteSet(S) /\ Cardinality(S) \in Nat /\ Cardinality(T) <= Cardinality(S)
BY ListenersAssumption, FS_Subset, FS_CardinalityType

\* A step that leaves the subscriptions' rows and failures alone.
LEMMA RowsUntouched ==
  ASSUME PushInv, UNCHANGED <<row, fresh, fails, streak, watched>>,
         \A i \in Sub : row[i] = "none" => \A p \in posts' : p.sub # i
  PROVE  StreakInv' /\ (Cardinality(Rows) <= MaxSubs)' /\ SupervisorUpToDate'
<1>1. Rows' = Rows
  BY DEF Rows
<1>. QED
  BY <1>1 DEF PushInv, StreakInv, SupervisorUpToDate, AnyActive, Active

\* A step that leaves the listeners and what they were sent alone.
LEMMA ListenersUntouched ==
  ASSUME PushInv, UNCHANGED <<stream, filter, heard>>,
         \A i \in Sub : Active(i, row, fresh)' => Active(i, row, fresh),
         pending \subseteq pending',
         \A k \in Pushed : counter'[k] = counter[k] \/ k \in pending'
  PROVE  BumpsAreForwarded'
<1>1. \A x \in Ids : filter[x] \subseteq Pushed
  BY DEF PushInv, TypeOK, Ids
<1>2. \A x \in Ids : Listening(x)' => Listening(x)
  BY DEF Listening, Ids
<1>. QED
  BY <1>1, <1>2 DEF PushInv, BumpsAreForwarded, Ids
-------------------------------------------------------------------------------
(* Bumps and flushes *)

\* onBump(): what moved is in the window.
LEMMA BumpKeeps ==
  ASSUME PushInv, NEW kinds \in SUBSET (Kind \ {SubKind}), Bump(kinds)
  PROVE  PushInv'
<1>1. /\ phase = "up" /\ \A k \in kinds : counter[k] < Bound(k)
      /\ counter' = [k \in Kind |-> IF k \in kinds THEN counter[k] + 1 ELSE counter[k]]
      /\ pending' = pending \cup kinds
      /\ UNCHANGED <<stream, closeAfter, filter, row, fresh, knows, posts, fails, heard, streak,
                     watched, phase>>
  BY DEF Bump, listeners, subscriptions
<1>2. TypeOK /\ PendingInv /\ StreakInv
  BY DEF PushInv
<1>3. \A k \in Kind : counter[k] \in Nat /\ Bound(k) \in Nat /\ counter[k] <= Bound(k)
  BY <1>2, BoundsAssumption DEF TypeOK, Bound
<1>4. \A k \in Kind : counter'[k] \in Nat /\ counter'[k] <= Bound(k)
  BY <1>1, <1>3
<1>5. TypeOK'
  <2>1. counter' \in [Kind -> Nat] /\ \A k \in Kind : counter'[k] <= Bound(k)' /\ pending' \subseteq Kind
    BY <1>1, <1>2, <1>3, <1>4 DEF TypeOK, Bound
  <2>. QED
    BY <1>1, <1>2, <2>1 DEF TypeOK
<1>6. PendingInv'
  BY <1>1, <1>2, <1>3 DEF PendingInv, TypeOK
<1>7. StreakInv' /\ (Cardinality(Rows) <= MaxSubs)' /\ SupervisorUpToDate'
  BY <1>1, <1>2, RowsUntouched DEF StreakInv
<1>8. BumpsAreForwarded'
  <2>1. \A k \in Pushed : counter'[k] = counter[k] \/ k \in pending'
    BY <1>1, <1>2, PushedKinds
  <2>. QED
    BY <1>1, <2>1, ListenersUntouched DEF Active
<1>. QED
  BY <1>5, <1>6, <1>7, <1>8 DEF PushInv

\* flush(), by its timer or by the shutdown: all of the window is sent.
LEMMA FlushKeeps ==
  ASSUME PushInv, Flush, phase' \in {"up", "flushed"}
  PROVE  PushInv'
<1>. DEFINE told == {l \in Listener : stream[l] = "open" /\ Changed(l) # {}}
            sent == {i \in Sub : Active(i, row, fresh) /\ Changed(i) # {}}
            news(i) == [sub |-> i, what |-> "change", states |-> [k \in Changed(i) |-> counter[k]]]
<1>1. /\ pending' = {}
      /\ heard' = [x \in Ids |-> [k \in Pushed |->
           IF x \in told \cup sent /\ k \in Changed(x) THEN counter[k] ELSE heard[x][k]]]
      /\ stream' = [l \in Listener |-> IF l \in told \cap closeAfter THEN "ended" ELSE stream[l]]
      /\ posts' = posts \cup {news(i) : i \in sent}
      /\ UNCHANGED <<counter, closeAfter, filter, row, fresh, knows, fails, streak, watched>>
  BY DEF Flush, subscriptions, Ids
<1>2. TypeOK /\ PendingInv /\ StreakInv /\ BumpsAreForwarded
  BY DEF PushInv
<1>3. \A x \in Ids : filter[x] \subseteq Pushed /\ Changed(x) = pending \cap filter[x]
  BY <1>2 DEF TypeOK, Changed, Ids
<1>4. \A i \in Sub : news(i) \in Post
  <2>. SUFFICES ASSUME NEW i \in Sub PROVE news(i) \in Post
    OBVIOUS
  <2>1. Changed(i) \in SUBSET Pushed /\ \A k \in Changed(i) : counter[k] \in 1 .. MaxState
    BY <1>2, <1>3, PushedKinds, BoundsAssumption DEF PendingInv, Ids
  <2>2. [k \in Changed(i) |-> counter[k]] \in [Changed(i) -> 1 .. MaxState]
    BY <2>1
  <2>3. news(i) \in [sub : Sub, what : {"change"}, states : [Changed(i) -> 1 .. MaxState]]
    BY <2>2
  <2>. HIDE DEF news
  <2>. QED
    BY <2>1, <2>3 DEF Post
<1>5. \A i \in Sub : news(i).sub = i
  OBVIOUS
<1>. HIDE DEF news
<1>6. TypeOK'
  <2>1. posts' \subseteq Post
    BY <1>1, <1>2, <1>4 DEF TypeOK
  <2>2. heard' \in [Ids -> [Pushed -> Nat]]
    BY <1>1, <1>2, PushedKinds DEF TypeOK, Ids
  <2>3. stream' \in [Listener -> {"closed", "open", "ended"}]
    BY <1>1, <1>2 DEF TypeOK
  <2>4. /\ counter' \in [Kind -> Nat] /\ \A k \in Kind : counter'[k] <= Bound(k)'
        /\ pending' \subseteq Kind
    BY <1>1, <1>2 DEF TypeOK, Bound
  <2>. QED
    BY <1>1, <1>2, <2>1, <2>2, <2>3, <2>4 DEF TypeOK, Ids
<1>7. PendingInv'
  BY <1>1 DEF PendingInv
<1>8. StreakInv' /\ (Cardinality(Rows) <= MaxSubs)' /\ SupervisorUpToDate'
  <2>1. \A i \in Sub : row[i] = "none" => \A p \in posts' : p.sub # i
    BY <1>1, <1>2, <1>5 DEF StreakInv, Active
  <2>. QED
    BY <1>1, <2>1, RowsUntouched
<1>9. BumpsAreForwarded'
  <2>. SUFFICES ASSUME NEW x \in Ids, Listening(x)', NEW k \in filter[x]
                PROVE  heard'[x][k] = counter[k]
    BY <1>1 DEF BumpsAreForwarded, Ids
  <2>1. k \in Pushed /\ Changed(x) = pending \cap filter[x]
    BY <1>3
  <2>2. Listening(x)
    BY <1>1 DEF Listening, Ids
  <2>3. CASE k \in pending
    <3>1. k \in Changed(x) /\ x \in told \cup sent
      BY <2>1, <2>2, <2>3 DEF Listening, Ids
    <3>. QED
      BY <1>1, <2>1, <3>1
  <2>4. CASE k \notin pending
    <3>1. heard[x][k] = counter[k]
      BY <1>2, <2>2, <2>4 DEF BumpsAreForwarded, Ids
    <3>. QED
      BY <1>1, <2>1, <2>4, <3>1
  <2>. QED
    BY <2>3, <2>4
<1>. QED
  BY <1>6, <1>7, <1>8, <1>9 DEF PushInv
-------------------------------------------------------------------------------
(* Streams, expiry and the end *)

\* Streams come and go, subscriptions expire, the process exits.
LEMMA ComingsAndGoingsKeep ==
  ASSUME PushInv,
         \/ Exit
         \/ \E l \in Listener : ListenerOpens(l) \/ ListenerCloses(l)
         \/ \E i \in Sub : Expires(i)
         \/ UNCHANGED vars
  PROVE  PushInv'
<1>0. TypeOK /\ PendingInv /\ StreakInv /\ BumpsAreForwarded
  BY DEF PushInv
<1>1. CASE Exit \/ UNCHANGED vars
  <2>1. /\ UNCHANGED <<counter, pending, stream, closeAfter, filter, row, fresh, knows, posts, fails,
                       heard, streak, watched>>
        /\ phase' = phase \/ (phase = "flushed" /\ phase' = "exited")
    BY <1>1 DEF Exit, vars, listeners, subscriptions
  <2>2. TypeOK' /\ PendingInv'
    BY <1>0, <2>1 DEF TypeOK, PendingInv, Bound
  <2>3. StreakInv' /\ (Cardinality(Rows) <= MaxSubs)' /\ SupervisorUpToDate'
    BY <1>0, <2>1, RowsUntouched DEF StreakInv
  <2>4. BumpsAreForwarded'
    BY <2>1, ListenersUntouched DEF Active
  <2>. QED
    BY <2>2, <2>3, <2>4 DEF PushInv
<1>2. ASSUME NEW l \in Listener, ListenerOpens(l) PROVE PushInv'
  <2>1. PICK kinds \in SUBSET Pushed : filter' = [filter EXCEPT ![l] = kinds]
    BY <1>2 DEF ListenerOpens
  <2>2. /\ stream' = [stream EXCEPT ![l] = "open"] /\ heard' = [heard EXCEPT ![l] = Present]
        /\ closeAfter' \subseteq Listener
        /\ UNCHANGED <<counter, pending, row, fresh, knows, posts, fails, streak, watched, phase>>
    BY <1>0, <1>2 DEF ListenerOpens, subscriptions, TypeOK
  <2>3. Present \in [Pushed -> Nat]
    BY <1>0, PushedKinds DEF Present
  <2>4. TypeOK' /\ PendingInv'
    BY <1>0, <2>1, <2>2, <2>3 DEF TypeOK, PendingInv, Bound
  <2>5. StreakInv' /\ (Cardinality(Rows) <= MaxSubs)' /\ SupervisorUpToDate'
    BY <1>0, <2>2, RowsUntouched DEF StreakInv
  <2>6. BumpsAreForwarded'
    <3>. SUFFICES ASSUME NEW x \in Ids, Listening(x)', NEW k \in filter'[x]
                  PROVE  heard'[x][k] = counter[k] \/ k \in pending
      BY <2>2 DEF BumpsAreForwarded, Ids
    <3>1. CASE x = l
      <4>1. heard'[x] = Present /\ k \in Pushed
        BY <1>0, <2>1, <2>2, <3>1 DEF TypeOK, Ids
      <4>. QED
        BY <4>1 DEF Present
    <3>2. CASE x # l
      <4>1. heard'[x] = heard[x] /\ filter'[x] = filter[x]
        BY <1>0, <2>1, <2>2, <3>2 DEF TypeOK, Ids
      <4>2. Listening(x)
        BY <1>0, <2>2, <3>2 DEF Listening, TypeOK, Ids
      <4>. QED
        BY <1>0, <4>1, <4>2 DEF BumpsAreForwarded, Ids
    <3>. QED
      BY <3>1, <3>2
  <2>. QED
    BY <2>4, <2>5, <2>6 DEF PushInv
<1>3. ASSUME NEW l \in Listener, ListenerCloses(l) PROVE PushInv'
  <2>1. /\ stream' = [stream EXCEPT ![l] = "closed"]
        /\ UNCHANGED <<counter, pending, closeAfter, filter, row, fresh, knows, posts, fails, heard,
                       streak, watched, phase>>
    BY <1>3 DEF ListenerCloses, subscriptions
  <2>2. TypeOK' /\ PendingInv'
    BY <1>0, <2>1 DEF TypeOK, PendingInv, Bound
  <2>3. StreakInv' /\ (Cardinality(Rows) <= MaxSubs)' /\ SupervisorUpToDate'
    BY <1>0, <2>1, RowsUntouched DEF StreakInv
  <2>4. \A x \in Ids : Listening(x)' => Listening(x)
    BY <1>0, <2>1 DEF Listening, TypeOK, Ids
  <2>5. BumpsAreForwarded'
    BY <1>0, <2>1, <2>4 DEF BumpsAreForwarded, Ids
  <2>. QED
    BY <2>2, <2>3, <2>5 DEF PushInv
<1>4. ASSUME NEW i \in Sub, Expires(i) PROVE PushInv'
  <2>1. /\ fresh' = fresh \ {i}
        /\ UNCHANGED <<counter, pending, stream, closeAfter, filter, row, knows, posts, fails, heard,
                       streak, watched, phase>>
    BY <1>4 DEF Expires, listeners
  <2>2. TypeOK' /\ PendingInv'
    BY <1>0, <2>1 DEF TypeOK, PendingInv, Bound
  <2>3. Rows' = Rows
    BY <2>1 DEF Rows
  <2>4. StreakInv' /\ (Cardinality(Rows) <= MaxSubs)'
    BY <1>0, <2>1, <2>3 DEF StreakInv, PushInv
  <2>5. SupervisorUpToDate'
    BY <2>1 DEF PushInv, SupervisorUpToDate, AnyActive, Active
  <2>6. BumpsAreForwarded'
    BY <2>1, ListenersUntouched DEF Active
  <2>. QED
    BY <2>2, <2>4, <2>5, <2>6 DEF PushInv
<1>. QED
  BY <1>1, <1>2, <1>3, <1>4
-------------------------------------------------------------------------------
(* PushSubscription/set *)

\* The whole handler: what is verified or changed has its states, what was not
\* there yet or is gone does not listen.
LEMMA SetKeeps ==
  ASSUME PushInv, NEW created \in SUBSET Sub, NEW verified \in SUBSET Sub,
         NEW updated \in SUBSET Sub, NEW destroyed \in SUBSET Sub,
         PushSubscriptionSet(created, verified, updated, destroyed)
  PROVE  PushInv'
<1>. DEFINE after == [i \in Sub |-> CASE i \in destroyed -> "destroyed"
                                     [] i \in verified \ destroyed -> "verified"
                                     [] i \in created -> "unverified"
                                     [] OTHER -> row[i]]
            code(i) == [sub |-> i, what |-> "verify"]
<1>0. TypeOK /\ PendingInv /\ StreakInv /\ BumpsAreForwarded
  BY DEF PushInv
<1>1. PICK late \in SUBSET (created \cup updated) : fresh' = (fresh \cup created \cup updated) \ late
  BY DEF PushSubscriptionSet
<1>2. PICK kinds \in SUBSET Pushed :
        filter' = [x \in Ids |-> IF x \in created \cup updated THEN kinds ELSE filter[x]]
  BY DEF PushSubscriptionSet, Ids
<1>3. /\ phase = "up" /\ counter[SubKind] < MaxSets /\ Room(created)
      /\ \A i \in created : row[i] = "none"
      /\ \A i \in verified : row[i] = "unverified"
      /\ updated \subseteq Rows /\ destroyed \subseteq Rows
  BY DEF PushSubscriptionSet
<1>4. /\ row' = after
      /\ heard' = [x \in Ids |-> IF x \in verified \cup updated THEN Present ELSE heard[x]]
      /\ posts' = posts \cup {code(i) : i \in created}
      /\ counter' = [counter EXCEPT ![SubKind] = @ + 1]
      /\ pending' = pending \cup {SubKind}
      /\ watched' = IF verified \cup updated \cup destroyed # {}
                    THEN AnyActive(after, fresh') ELSE watched
      /\ UNCHANGED <<stream, closeAfter, knows, fails, streak, phase>>
  BY DEF PushSubscriptionSet, listeners, Ids
<1>5. \A i \in Sub : /\ i \in destroyed => row'[i] = "destroyed"
                     /\ i \in verified \ destroyed => row'[i] = "verified"
                     /\ i \in created => row'[i] = "unverified"
                     /\ i \notin destroyed \cup verified \cup created => row'[i] = row[i]
  BY <1>3, <1>4 DEF Rows
<1>6. \A i \in created : code(i) \in Post /\ code(i).sub = i
  BY DEF Post
<1>. HIDE DEF code
<1>7. TypeOK'
  <2>1. row' \in [Sub -> RowStates]
    BY <1>0, <1>4 DEF TypeOK, RowStates
  <2>2. Present \in [Pushed -> Nat]
    BY <1>0, PushedKinds DEF Present
  <2>3. heard' \in [Ids -> [Pushed -> Nat]] /\ filter' \in [Ids -> SUBSET Pushed]
    BY <1>0, <1>2, <1>4, <2>2 DEF TypeOK, Ids
  <2>4. /\ counter' \in [Kind -> Nat] /\ \A k \in Kind : counter'[k] <= Bound(k)' /\ pending' \subseteq Kind
    BY <1>0, <1>3, <1>4, PushedKinds, BoundsAssumption DEF TypeOK, Bound
  <2>5. posts' \subseteq Post /\ fresh' \subseteq Sub /\ watched' \in BOOLEAN
    BY <1>0, <1>1, <1>4, <1>6 DEF TypeOK, AnyActive
  <2>. QED
    BY <1>0, <1>4, <2>1, <2>3, <2>4, <2>5 DEF TypeOK, Ids, RowStates
<1>8. PendingInv'
  BY <1>0, <1>3, <1>4, PushedKinds DEF PendingInv, TypeOK
<1>9. StreakInv'
  <2>1. \A i \in Sub : /\ i \in Rows' => i \in Rows \/ row[i] = "none"
                       /\ row'[i] = "retired" => row[i] = "retired"
                       /\ row'[i] = "none" => row[i] = "none" /\ i \notin created
    BY <1>3, <1>5 DEF Rows
  <2>. QED
    BY <1>0, <1>4, <1>6, <2>1 DEF StreakInv
<1>10. Cardinality(Rows') <= MaxSubs
  <2>1. Rows' \subseteq Rows \cup created /\ Rows \in SUBSET Sub /\ Rows \cup created \in SUBSET Sub
    BY <1>3, <1>5 DEF Rows
  <2>2. IsFiniteSet(Rows) /\ IsFiniteSet(created) /\ Rows \cap created = {}
    BY <1>3, <2>1, RowsAreFew DEF Rows
  <2>3. Cardinality(Rows \cup created) = Cardinality(Rows) + Cardinality(created)
    <3>1. Cardinality(Rows \cup created) = Cardinality(Rows) + Cardinality(created) - Cardinality(Rows \cap created)
      BY <2>2, FS_Union
    <3>2. Cardinality(Rows \cap created) = 0
      BY <2>2, FS_EmptySet
    <3>3. Cardinality(Rows) \in Nat /\ Cardinality(created) \in Nat
      BY <2>2, FS_CardinalityType
    <3>. QED
      BY <3>1, <3>2, <3>3
  <2>4. /\ Cardinality(Rows') <= Cardinality(Rows \cup created)
        /\ Cardinality(Rows') \in Nat /\ Cardinality(Rows \cup created) \in Nat
    BY <2>1, RowsAreFew
  <2>. QED
    BY <1>3, <2>3, <2>4, BoundsAssumption DEF Room
<1>11. SupervisorUpToDate'
  <2>1. CASE verified \cup updated \cup destroyed # {}
    <3>1. watched' = AnyActive(row', fresh') /\ fresh' \subseteq Sub
      BY <1>4, <1>7, <2>1 DEF TypeOK
    <3>. QED
      BY <3>1 DEF SupervisorUpToDate, AnyActive, Active
  <2>2. CASE verified \cup updated \cup destroyed = {}
    <3>1. /\ \A i \in Sub : row'[i] = "verified" <=> row[i] = "verified"
          /\ \A i \in Sub : row[i] = "verified" /\ i \in fresh' => i \in fresh
      BY <1>1, <1>3, <1>5, <2>2
    <3>2. watched' = watched
      BY <1>4, <2>2
    <3>. QED
      BY <3>1, <3>2 DEF PushInv, SupervisorUpToDate, AnyActive, Active
  <2>. QED
    BY <2>1, <2>2
<1>12. BumpsAreForwarded'
  <2>. SUFFICES ASSUME NEW x \in Ids, Listening(x)', NEW k \in filter'[x]
                PROVE  heard'[x][k] = counter'[k] \/ k \in pending'
    BY DEF BumpsAreForwarded, Ids
  <2>1. k \in Pushed /\ counter'[k] = counter[k]
    BY <1>0, <1>4, <1>7, PushedKinds DEF TypeOK, Ids
  <2>2. CASE x \in verified \cup updated
    BY <1>4, <2>1, <2>2 DEF Present
  <2>3. CASE x \in Sub \ (verified \cup updated)
    <3>1. row'[x] = "verified" /\ x \in fresh' /\ x \notin Listener
      BY <2>3, ListenersAssumption DEF Listening, Active
    <3>2. x \notin created /\ row[x] = "verified" /\ x \in fresh
      BY <1>1, <1>5, <2>3, <3>1
    <3>3. Listening(x) /\ filter'[x] = filter[x] /\ heard'[x] = heard[x]
      BY <1>2, <1>4, <2>3, <3>1, <3>2 DEF Listening, Active
    <3>. QED
      BY <1>0, <1>4, <2>1, <3>3 DEF BumpsAreForwarded, Ids
  <2>4. CASE x \in Listener
    <3>1. x \notin Sub
      BY <2>4, ListenersAssumption
    <3>2. Listening(x) /\ filter'[x] = filter[x] /\ heard'[x] = heard[x]
      BY <1>2, <1>4, <2>4, <3>1 DEF Listening
    <3>. QED
      BY <1>0, <1>4, <2>1, <3>2 DEF BumpsAreForwarded, Ids
  <2>. QED
    BY <2>2, <2>3, <2>4 DEF Ids
<1>. QED
  BY <1>7, <1>8, <1>9, <1>10, <1>11, <1>12 DEF PushInv
-------------------------------------------------------------------------------
(* Answers to POSTs *)

\* The answer to p: its failures are counted or forgotten as those of a row that
\* is there are, and the row goes with how, or stays.
Answered(p, n, how) ==
  LET i == p.sub
  IN /\ UNCHANGED <<counter, pending, stream, closeAfter, filter, fresh, heard, phase>>
     /\ i \in Sub /\ n \in Nat /\ posts' \subseteq posts /\ knows' \subseteq Sub
     /\ streak' = Counted(i, n)
     /\ \/ /\ Delete(i, how) /\ how \in {"gone", "retired"}
           /\ how = "retired" /\ i \in Rows => n >= MaxFailures
        \/ /\ fails' = [fails EXCEPT ![i] = IF n = 0 THEN 0 ELSE @ + 1]
           /\ fails'[i] < MaxFailures /\ n \in {0, streak[i] + 1}
           /\ UNCHANGED <<row, watched>>

\* Each answer is such a step.
LEMMA AnswersAreCounted ==
  ASSUME PushInv, NEW p \in posts, PostOk(p) \/ PostGone(p) \/ PostFails(p)
  PROVE  \E n, how : Answered(p, n, how)
<1>. DEFINE i == p.sub
<1>0. TypeOK /\ StreakInv
  BY DEF PushInv
<1>1. i \in Sub
  BY <1>0 DEF TypeOK, Post
<1>2. /\ streak[i] \in Nat /\ fails[i] \in 0 .. MaxFailures - 1 /\ MaxFailures \in Nat \ {0}
      /\ fails \in [Sub -> 0 .. MaxFailures - 1]
      /\ knows \subseteq Sub /\ Received(p) \subseteq Sub
  BY <1>0, <1>1, BoundsAssumption DEF TypeOK, Received
<1>3. UNCHANGED <<counter, pending, stream, closeAfter, filter, fresh, heard, phase>> /\ posts' \subseteq posts
  BY DEF PostOk, PostGone, PostFails, listeners
<1>4. CASE PostOk(p)
  <2>1. /\ fails' = [fails EXCEPT ![i] = 0] /\ streak' = Counted(i, 0) /\ UNCHANGED <<row, watched>>
        /\ knows' \subseteq Sub
    BY <1>2, <1>4 DEF PostOk
  <2>2. fails'[i] < MaxFailures
    BY <1>1, <1>2, <2>1
  <2>3. Answered(p, 0, "gone")
    BY <1>1, <1>3, <2>1, <2>2 DEF Answered
  <2>. QED
    BY <2>3
<1>5. CASE PostGone(p)
  <2>1. Answered(p, streak[i] + 1, "gone")
    BY <1>1, <1>2, <1>3, <1>5 DEF PostGone, Answered
  <2>. QED
    BY <2>1
<1>6. CASE PostFails(p)
  <2>1. knows' \subseteq Sub /\ streak' = Counted(i, streak[i] + 1)
    BY <1>2, <1>6 DEF PostFails
  <2>2. CASE fails[i] + 1 >= MaxFailures /\ Delete(i, "retired")
    <3>1. i \in Rows => streak[i] + 1 >= MaxFailures
      BY <1>0, <1>1, <2>2 DEF StreakInv
    <3>2. Answered(p, streak[i] + 1, "retired")
      BY <1>1, <1>2, <1>3, <2>1, <2>2, <3>1 DEF Answered
    <3>. QED
      BY <3>2
  <2>3. CASE fails[i] + 1 < MaxFailures /\ fails' = [fails EXCEPT ![i] = @ + 1] /\ UNCHANGED <<row, watched>>
    <3>1. fails'[i] < MaxFailures /\ streak[i] + 1 # 0
      BY <1>1, <1>2, <2>3
    <3>2. Answered(p, streak[i] + 1, "retired")
      BY <1>1, <1>2, <1>3, <2>1, <2>3, <3>1 DEF Answered
    <3>. QED
      BY <3>2
  <2>. QED
    BY <1>6, <2>2, <2>3 DEF PostFails
<1>. QED
  BY <1>4, <1>5, <1>6

\* Such a step keeps the invariant, whatever other POSTs are on their way.
LEMMA AnswerKeeps ==
  ASSUME PushInv, NEW p \in posts, NEW n, NEW how, Answered(p, n, how)
  PROVE  PushInv'
<1>. DEFINE i == p.sub
<1>0. TypeOK /\ PendingInv /\ StreakInv /\ SupervisorUpToDate
  BY DEF PushInv
<1>1. /\ UNCHANGED <<counter, pending, stream, closeAfter, filter, fresh, heard, phase>>
      /\ i \in Sub /\ n \in Nat /\ posts' \subseteq posts /\ knows' \subseteq Sub
  BY DEF Answered
<1>2. /\ streak \in [Sub -> Nat] /\ fails \in [Sub -> 0 .. MaxFailures - 1] /\ row \in [Sub -> RowStates]
      /\ MaxFailures \in Nat \ {0}
  BY <1>0, BoundsAssumption DEF TypeOK, RowStates
<1>3. row[i] # "none"
  BY <1>0, <1>1 DEF StreakInv
<1>4. /\ streak' \in [Sub -> Nat]
      /\ \A j \in Sub \ {i} : streak'[j] = streak[j]
      /\ i \in Rows => streak'[i] = n
      /\ i \notin Rows => streak'[i] = streak[i]
  BY <1>1, <1>2 DEF Answered, Counted
<1>5. \/ /\ Delete(i, how) /\ how \in {"gone", "retired"}
         /\ how = "retired" /\ i \in Rows => n >= MaxFailures
      \/ /\ fails' = [fails EXCEPT ![i] = IF n = 0 THEN 0 ELSE @ + 1]
         /\ fails'[i] < MaxFailures /\ n \in {0, streak[i] + 1}
         /\ UNCHANGED <<row, watched>>
  BY DEF Answered
<1>6. /\ fails' \in [Sub -> 0 .. MaxFailures - 1] /\ row' \in [Sub -> RowStates]
      /\ \A j \in Sub \ {i} : fails'[j] = fails[j] /\ row'[j] = row[j]
      /\ \/ row'[i] = row[i]
         \/ i \in Rows /\ row'[i] = how /\ how \in {"gone", "retired"}
      /\ watched' \in BOOLEAN
  <2>1. CASE Delete(i, how) /\ how \in {"gone", "retired"}
    BY <1>1, <1>2, <2>1 DEF Delete, AnyActive, RowStates
  <2>2. CASE fails' = [fails EXCEPT ![i] = IF n = 0 THEN 0 ELSE @ + 1]
             /\ fails'[i] < MaxFailures /\ UNCHANGED <<row, watched>>
    BY <1>0, <1>1, <1>2, <2>2 DEF TypeOK
  <2>. QED
    BY <1>5, <2>1, <2>2
<1>7. TypeOK'
  <2>1. posts' \subseteq Post
    BY <1>0, <1>1 DEF TypeOK
  <2>. QED
    BY <1>0, <1>1, <1>4, <1>6, <2>1 DEF TypeOK, Bound, RowStates
<1>8. PendingInv'
  BY <1>0, <1>1 DEF PendingInv
<1>9. Rows' \in SUBSET Rows /\ Rows \in SUBSET Sub /\ \A j \in Sub : row'[j] = "verified" => row[j] = "verified"
  BY <1>6 DEF Rows
<1>10. Cardinality(Rows') <= MaxSubs
  <2>1. Cardinality(Rows') <= Cardinality(Rows) /\ Cardinality(Rows) \in Nat /\ Cardinality(Rows') \in Nat
    BY <1>9, RowsAreFew
  <2>. QED
    BY <2>1, BoundsAssumption DEF PushInv
<1>11. StreakInv'
  <2>. SUFFICES ASSUME NEW j \in Sub
                PROVE  /\ j \in Rows' => fails'[j] = streak'[j]
                       /\ row'[j] = "retired" => streak'[j] >= MaxFailures
                       /\ row'[j] = "none" => fails'[j] = 0 /\ streak'[j] = 0 /\ \A q \in posts' : q.sub # j
    BY DEF StreakInv
  <2>1. CASE j # i
    BY <1>0, <1>1, <1>4, <1>6, <2>1 DEF StreakInv, Rows
  <2>2. CASE j = i
    <3>1. row'[i] # "none"
      BY <1>3, <1>6
    <3>2. i \in Rows' => fails'[i] = streak'[i]
      <4>1. SUFFICES ASSUME i \in Rows' PROVE fails'[i] = streak'[i]
        OBVIOUS
      <4>2. i \in Rows /\ row'[i] = row[i]
        BY <1>6, <4>1 DEF Rows
      <4>3. ~ (Delete(i, how) /\ how \in {"gone", "retired"})
        BY <1>1, <1>2, <4>1, <4>2 DEF Delete, Rows
      <4>4. fails'[i] = IF n = 0 THEN 0 ELSE fails[i] + 1
        BY <1>1, <1>2, <1>5, <4>3
      <4>5. n \in {0, streak[i] + 1} /\ fails[i] = streak[i] /\ streak[i] \in Nat
        BY <1>0, <1>1, <1>2, <1>5, <4>2, <4>3 DEF StreakInv
      <4>. QED
        BY <1>4, <4>2, <4>4, <4>5
    <3>3. row'[i] = "retired" => streak'[i] >= MaxFailures
      <4>1. CASE i \in Rows /\ row'[i] = how
        BY <1>2, <1>4, <1>5, <4>1 DEF Rows
      <4>2. CASE row'[i] = row[i]
        BY <1>0, <1>1, <1>4, <4>2 DEF StreakInv, Rows
      <4>. QED
        BY <1>6, <4>1, <4>2
    <3>. QED
      BY <2>2, <3>1, <3>2, <3>3
  <2>. QED
    BY <2>1, <2>2
<1>12. SupervisorUpToDate'
  <2>1. CASE Delete(i, how)
    <3>1. watched' = AnyActive(row', fresh) /\ fresh' = fresh /\ fresh \subseteq Sub
      BY <1>0, <1>1, <2>1 DEF Delete, TypeOK
    <3>. QED
      BY <3>1 DEF SupervisorUpToDate, AnyActive, Active
  <2>2. CASE UNCHANGED <<row, watched>>
    BY <1>0, <1>1, <2>2 DEF SupervisorUpToDate, AnyActive, Active
  <2>. QED
    BY <1>5, <2>1, <2>2
<1>13. BumpsAreForwarded'
  BY <1>1, <1>9, ListenersUntouched DEF Active
<1>. QED
  BY <1>7, <1>8, <1>10, <1>11, <1>12, <1>13 DEF PushInv
-------------------------------------------------------------------------------
(* The theorems *)

\* Nothing has moved and nobody listens at first.
LEMMA PushInit == Init => PushInv
<1>. SUFFICES ASSUME Init PROVE PushInv
  OBVIOUS
<1>1. Rows = {}
  BY DEF Init, Rows
<1>2. Cardinality(Rows) <= MaxSubs
  BY <1>1, FS_EmptySet, BoundsAssumption
<1>3. TypeOK
  <2>1. counter \in [Kind -> Nat] /\ \A k \in Kind : counter[k] <= Bound(k)
    BY BoundsAssumption DEF Init, Bound
  <2>2. Present \in [Pushed -> Nat]
    BY <2>1, KindAssumption DEF Present
  <2>3. heard \in [Listener \cup Sub -> [Pushed -> Nat]]
    BY <2>2 DEF Init
  <2>4. fails \in [Sub -> 0 .. MaxFailures - 1]
    BY BoundsAssumption DEF Init
  <2>. QED
    BY <2>1, <2>3, <2>4 DEF Init, TypeOK
<1>4. PendingInv /\ StreakInv /\ SupervisorUpToDate
  BY <1>1 DEF Init, PendingInv, StreakInv, SupervisorUpToDate, AnyActive, Active
<1>5. BumpsAreForwarded
  BY DEF Init, BumpsAreForwarded, Present
<1>. QED
  BY <1>2, <1>3, <1>4, <1>5 DEF PushInv

\* Every step keeps the invariant.
LEMMA PushStep == PushInv /\ [Next]_vars => PushInv'
<1>. SUFFICES ASSUME PushInv, [Next]_vars PROVE PushInv'
  OBVIOUS
<1>1. CASE FlushFires \/ FlushAll
  <2>1. Flush /\ phase' \in {"up", "flushed"}
    BY <1>1 DEF FlushFires, FlushAll
  <2>. QED
    BY <2>1, FlushKeeps
<1>2. ASSUME NEW p \in posts, PostOk(p) \/ PostGone(p) \/ PostFails(p) PROVE PushInv'
  BY <1>2, AnswersAreCounted, AnswerKeeps
<1>. QED
  BY <1>1, <1>2, BumpKeeps, SetKeeps, ComingsAndGoingsKeep DEF Next

\* The inductive invariant, of every behaviour.
LEMMA AlwaysPush == Spec => []PushInv
BY PushInit, PushStep, PTL DEF Spec

\* dispatcher.ts 113-132, 178-244, push.ts 120-272: an account has no more rows than
\* MAX_SUBS_PER_ACCOUNT, a subscription is retired by MAX_CONSECUTIVE_FAILURES
\* failing answers in a row and no fewer, and the IDLE manager believes in
\* subscriptions exactly when there are some, expiry apart.
THEOREM SubscriptionsAreKept == Spec => []SubsOK
<1>1. PushInv => RetiredAfterStreak
  <2>. SUFFICES ASSUME PushInv, NEW i \in Sub
                PROVE  /\ row[i] = "retired" => streak[i] >= MaxFailures
                       /\ i \in Rows => streak[i] < MaxFailures
    BY DEF RetiredAfterStreak
  <2>1. fails[i] \in 0 .. MaxFailures - 1 /\ MaxFailures \in Nat \ {0}
    BY BoundsAssumption DEF PushInv, TypeOK
  <2>. QED
    BY <2>1 DEF PushInv, StreakInv
<1>2. PushInv => SubsOK
  BY <1>1 DEF PushInv, SubsOK
<1>. QED
  BY <1>2, AlwaysPush, PTL

\* dispatcher.ts 113-158: whoever listens was sent the present state of every
\* kind he asked for, or a flush that will send it is pending.
THEOREM NoStateIsKeptBack == Spec => []BumpsAreForwarded
<1>1. PushInv => BumpsAreForwarded
  BY DEF PushInv
<1>. QED
  BY <1>1, AlwaysPush, PTL

\* dispatcher.ts 169-176: once the shutdown has flushed, everybody who listens was
\* sent what there is; what remains under way are POSTs.
ShutdownTellsAll ==
  phase # "up" => \A x \in Listener \cup Sub : Listening(x) =>
                    \A k \in filter[x] : heard[x][k] = counter[k]

THEOREM ShutdownLosesNothing == Spec => []ShutdownTellsAll
<1>1. PushInv => ShutdownTellsAll
  BY DEF PushInv, PendingInv, BumpsAreForwarded, ShutdownTellsAll
<1>. QED
  BY <1>1, AlwaysPush, PTL
===============================================================================
