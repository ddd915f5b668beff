----------------------------- MODULE PushDispatch -----------------------------
(***************************************************************************)
(* The fan-out of push/dispatcher.ts for one account: state bumps coalesced  *)
(* into flushes, the EventSource listeners of jmap/eventsource.ts, the push *)
(* subscriptions of jmap/methods/push.ts with the POSTs that are on their   *)
(* way to their relays, and the shutdown of server.ts.  Accounts share      *)
(* nothing here.                                                            *)
(*                                                                          *)
(* Types are abstracted to the kinds they ride on, a filter to the pushed   *)
(* kinds it lets through (none: only types no event is sent for).           *)
(* deliver() is not awaited by flush(), so any number of POSTs of a         *)
(* subscription overlap, and their answers come in any order.               *)
(***************************************************************************)
EXTENDS Integers, FiniteSets

CONSTANTS
  Kind,          \* the store's state kinds
  Pushed,        \* the keys of KIND_TO_JMAP_TYPES
  SubKind,       \* "push_subscription"
  Listener,      \* EventSource streams
  Sub,           \* push subscription ids
  MaxSubs,       \* MAX_SUBS_PER_ACCOUNT
  MaxFailures,   \* MAX_CONSECUTIVE_FAILURES
  MaxState,      \* bound: bumps of a kind other than SubKind
  MaxSets,       \* bound: bumps of SubKind
  SubsMayExpire  \* whether a subscription may pass its expiry date

ASSUME KindAssumption == Pushed \subseteq Kind /\ SubKind \in Kind \ Pushed
ASSUME ListenersAssumption == IsFiniteSet(Sub) /\ Listener \cap Sub = {}
ASSUME BoundsAssumption ==
  /\ MaxSubs \in Nat /\ MaxFailures \in Nat \ {0} /\ MaxState \in Nat /\ MaxSets \in Nat
  /\ SubsMayExpire \in BOOLEAN

VARIABLES
  counter,      \* state_log
  pending,      \* the kinds of the pending change; none: no timer runs
  stream,       \* stream[l]: closed, open, or ended (closeafter, after its event)
  filter,       \* the kinds a listener or subscription asked for
  closeAfter,   \* listeners that end after one event
  row,          \* row[i]: none, unverified, verified; once deleted: destroyed
                \* (by its client), gone (404/410), retired (failures)
  fresh,        \* rows that are not past their expiry date
  knows,        \* subscriptions whose client knows the verification code
  posts,        \* POSTs on their way
  fails,        \* failureCount
  heard,        \* history: heard[x][k] is the state of k last sent to x, or the
                \* one it could fetch itself when it began to listen
  streak,       \* history: failing answers since the last 2xx, while the row is there
  watched,      \* what the IDLE manager last saw: is any subscription active?
  phase         \* up, flushed (shutdown, the pool is closing), exited

subscriptions == <<row, fresh, knows>>
listeners     == <<stream, closeAfter>>
vars == <<counter, pending, listeners, filter, subscriptions, posts, fails, heard,
          streak, watched, phase>>

Bound(k) == IF k = SubKind THEN MaxSets ELSE MaxState

Rows == {i \in Sub : row[i] \in {"unverified", "verified"}}

\* activePushSubscriptions()
Active(i, rows, ok) == rows[i] = "verified" /\ i \in ok
AnyActive(rows, ok) == \E i \in Sub : Active(i, rows, ok)

\* The states a client can fetch itself, of the kinds it may be told of.
Present == [k \in Pushed |-> counter[k]]

Init ==
  /\ counter = [k \in Kind |-> 0]
  /\ pending = {}
  /\ stream = [l \in Listener |-> "closed"]
  /\ filter = [x \in Listener \cup Sub |-> Pushed]
  /\ closeAfter = {}
  /\ row = [i \in Sub |-> "none"]
  /\ fresh = {}
  /\ knows = {}
  /\ posts = {}
  /\ fails = [i \in Sub |-> 0]
  /\ heard = [x \in Listener \cup Sub |-> Present]
  /\ streak = [i \in Sub |-> 0]
  /\ watched = FALSE
  /\ phase = "up"

-------------------------------------------------------------------------------
(* Bumps and flushes *)

\* Mutant of Bump: a kind bumped while the timer runs is not added.
BumpOnceAWindow(kinds) ==
  /\ phase = "up"
  /\ kinds # {} /\ \A k \in kinds : counter[k] < Bound(k)
  /\ counter' = [k \in Kind |-> IF k \in kinds THEN counter[k] + 1 ELSE counter[k]]
  /\ pending' = IF pending = {} THEN kinds ELSE pending
  /\ UNCHANGED <<listeners, filter, subscriptions, posts, fails, heard, streak, watched, phase>>

\* onBump(), for the bumps a handler makes one after the other.
Bump(kinds) ==
  /\ phase = "up"
  /\ kinds # {} /\ \A k \in kinds : counter[k] < Bound(k)
  /\ counter' = [k \in Kind |-> IF k \in kinds THEN counter[k] + 1 ELSE counter[k]]
  /\ pending' = pending \cup kinds
  /\ UNCHANGED <<listeners, filter, subscriptions, posts, fails, heard, streak, watched, phase>>

\* What a flush of the pending kinds sends to one of those who listen.
Changed(x) == pending \cap filter[x]

\* flush(): the counters are read now; every open stream and every active
\* subscription that asked for one of the kinds is sent their states.
Flush ==
  LET told == {l \in Listener : stream[l] = "open" /\ Changed(l) # {}}
      sent == {i \in Sub : Active(i, row, fresh) /\ Changed(i) # {}}
  IN /\ pending' = {}
     /\ heard' = [x \in Listener \cup Sub |-> [k \in Pushed |->
          IF x \in told \cup sent /\ k \in Changed(x) THEN counter[k] ELSE heard[x][k]]]
     /\ stream' = [l \in Listener |->
          IF l \in told \cap closeAfter THEN "ended" ELSE stream[l]]
     /\ posts' = posts \cup {[sub |-> i, what |-> "change",
                              states |-> [k \in Changed(i) |-> counter[k]]] : i \in sent}
     /\ UNCHANGED <<counter, closeAfter, filter, subscriptions, fails, streak, watched>>

\* The coalescing timer.
FlushFires == phase = "up" /\ pending # {} /\ Flush /\ UNCHANGED phase

\* Shutdown: flushAll(), then the pool closes, then the process exits.
FlushAll == phase = "up" /\ Flush /\ phase' = "flushed"

Exit ==
  /\ phase = "flushed"
  /\ phase' = "exited"
  /\ UNCHANGED <<counter, pending, listeners, filter, subscriptions, posts, fails, heard,
                 streak, watched>>

-------------------------------------------------------------------------------
(* Streams *)

ListenerOpens(l) ==
  /\ phase = "up"
  /\ stream[l] = "closed"
  /\ stream' = [stream EXCEPT ![l] = "open"]
  /\ \E kinds \in SUBSET Pushed : filter' = [filter EXCEPT ![l] = kinds]
  /\ closeAfter' \in {closeAfter \ {l}, closeAfter \cup {l}}
  /\ heard' = [heard EXCEPT ![l] = Present]
  /\ UNCHANGED <<counter, pending, subscriptions, posts, fails, streak, watched, phase>>

ListenerCloses(l) ==
  /\ phase = "up"
  /\ stream[l] # "closed"
  /\ stream' = [stream EXCEPT ![l] = "closed"]
  /\ UNCHANGED <<counter, pending, closeAfter, filter, subscriptions, posts, fails, heard,
                 streak, watched, phase>>

-------------------------------------------------------------------------------
(* PushSubscription/set *)

\* The creates that fit: existing rows are counted before this call's destroys.
Room(created) == Cardinality(Rows) + Cardinality(created) <= MaxSubs

\* The whole handler: create, then update (with or without the verification
\* code), then destroy, then one bump and, unless it only created, one notice to
\* the IDLE manager.  Items it refuses are left out of the sets.
PushSubscriptionSet(created, verified, updated, destroyed) ==
  LET after == [i \in Sub |-> CASE i \in destroyed -> "destroyed"
                                [] i \in verified \ destroyed -> "verified"
                                [] i \in created -> "unverified"
                                [] OTHER -> row[i]]
  IN /\ phase = "up" /\ counter[SubKind] < MaxSets
     /\ created \cup verified \cup updated \cup destroyed # {}
     /\ created \subseteq {i \in Sub : row[i] = "none"} /\ Room(created)
     /\ verified \subseteq {i \in knows : row[i] = "unverified"}
     /\ updated \subseteq Rows /\ verified \cap updated = {}
     /\ destroyed \subseteq Rows
     /\ row' = after
     /\ \E late \in SUBSET (created \cup updated) :
          /\ late # {} => SubsMayExpire
          /\ fresh' = (fresh \cup created \cup updated) \ late
     /\ \E kinds \in SUBSET Pushed :
          filter' = [x \in Listener \cup Sub |->
                       IF x \in created \cup updated THEN kinds ELSE filter[x]]
     /\ heard' = [x \in Listener \cup Sub |->
                    IF x \in verified \cup updated THEN Present ELSE heard[x]]
     /\ posts' = posts \cup {[sub |-> i, what |-> "verify"] : i \in created}
     /\ counter' = [counter EXCEPT ![SubKind] = @ + 1]
     /\ pending' = pending \cup {SubKind}
     /\ watched' = IF verified \cup updated \cup destroyed # {}
                   THEN AnyActive(after, fresh') ELSE watched
     /\ UNCHANGED <<listeners, knows, fails, streak, phase>>

\* A verified subscription passes its expiry date.
Expires(i) ==
  /\ phase = "up" /\ SubsMayExpire
  /\ Active(i, row, fresh)
  /\ fresh' = fresh \ {i}
  /\ UNCHANGED <<counter, pending, listeners, filter, row, knows, posts, fails, heard,
                 streak, watched, phase>>

-------------------------------------------------------------------------------
(* deliver(), when its POST ends *)

\* The relay hands the code of a verification POST it received to the client.
Received(p) == IF p.what = "verify" THEN knows \cup {p.sub} ELSE knows

\* History.
Counted(i, n) == IF i \in Rows THEN [streak EXCEPT ![i] = n] ELSE streak

\* The row goes, if it still exists, and the IDLE manager is told.
Delete(i, how) ==
  /\ row' = IF i \in Rows THEN [row EXCEPT ![i] = how] ELSE row
  /\ fails' = [fails EXCEPT ![i] = 0]
  /\ watched' = AnyActive(row', fresh)

\* Mutant of PostOk: the failures before are not forgotten.
PostOkStillCounting(p) ==
  /\ phase # "exited"
  /\ posts' = posts \ {p}
  /\ knows' = Received(p)
  /\ streak' = Counted(p.sub, 0)
  /\ UNCHANGED <<counter, pending, listeners, filter, row, fresh, fails, heard, watched, phase>>

PostOk(p) ==
  /\ phase # "exited"
  /\ posts' = posts \ {p}
  /\ knows' = Received(p)
  /\ fails' = [fails EXCEPT ![p.sub] = 0]
  /\ streak' = Counted(p.sub, 0)
  /\ UNCHANGED <<counter, pending, listeners, filter, row, fresh, heard, watched, phase>>

\* 404 or 410.
PostGone(p) ==
  /\ phase # "exited"
  /\ posts' = posts \ {p}
  /\ streak' = Counted(p.sub, streak[p.sub] + 1)
  /\ Delete(p.sub, "gone")
  /\ UNCHANGED <<counter, pending, listeners, filter, fresh, knows, heard, phase>>

\* Any other answer, no answer in time, or no connection.  The relay may have
\* received the POST all the same.
PostFails(p) ==
  LET i == p.sub
  IN /\ phase # "exited"
     /\ posts' = posts \ {p}
     /\ knows' \in {knows, Received(p)}
     /\ streak' = Counted(i, streak[i] + 1)
     /\ \/ fails[i] + 1 >= MaxFailures /\ Delete(i, "retired")
        \/ /\ fails[i] + 1 < MaxFailures
           /\ fails' = [fails EXCEPT ![i] = @ + 1]
           /\ UNCHANGED <<row, watched>>
     /\ UNCHANGED <<counter, pending, listeners, filter, fresh, heard, phase>>

Next ==
  \/ \E kinds \in SUBSET (Kind \ {SubKind}) : Bump(kinds)
  \/ FlushFires \/ FlushAll \/ Exit
  \/ \E l \in Listener : ListenerOpens(l) \/ ListenerCloses(l)
  \/ \E created, verified, updated, destroyed \in SUBSET Sub :
       PushSubscriptionSet(created, verified, updated, destroyed)
  \/ \E i \in Sub : Expires(i)
  \/ \E p \in posts : PostOk(p) \/ PostGone(p) \/ PostFails(p)

Spec == Init /\ [][Next]_vars

-------------------------------------------------------------------------------
(* Properties *)

Post == [sub : Sub, what : {"verify"}]
          \cup UNION {[sub : Sub, what : {"change"}, states : [K -> 1 .. MaxState]] : K \in SUBSET Pushed}

TypeOK ==
  /\ counter \in [Kind -> Nat] /\ \A k \in Kind : counter[k] <= Bound(k)
  /\ pending \subseteq Kind
  /\ stream \in [Listener -> {"closed", "open", "ended"}] /\ closeAfter \subseteq Listener
  /\ filter \in [Listener \cup Sub -> SUBSET Pushed]
  /\ row \in [Sub -> {"none", "unverified", "verified", "destroyed", "gone", "retired"}]
  /\ fresh \subseteq Sub /\ knows \subseteq Sub
  /\ posts \subseteq Post
  /\ fails \in [Sub -> 0 .. MaxFailures - 1]
  /\ heard \in [Listener \cup Sub -> [Pushed -> Nat]]
  /\ streak \in [Sub -> Nat]
  /\ watched \in BOOLEAN /\ phase \in {"up", "flushed", "exited"}

Listening(x) == IF x \in Listener THEN stream[x] = "open" ELSE Active(x, row, fresh)

\* dispatcher.ts 113-115, README 102-103: coalescing loses nothing.  Whoever
\* listens was sent the present state of every pushed kind he asked for, or a
\* flush that will send it is pending; once flushAll() ran, none is.
BumpsAreForwarded ==
  \A x \in Listener \cup Sub : Listening(x) =>
    \A k \in filter[x] : heard[x][k] = counter[k] \/ k \in pending

\* README 103-104: a subscription is retired by MaxFailures failing answers in
\* a row, and by no fewer, whatever POSTs of it overlap; none outlives them.
RetiredAfterStreak ==
  \A i \in Sub :
    /\ row[i] = "retired" => streak[i] >= MaxFailures
    /\ i \in Rows => streak[i] < MaxFailures

\* server.ts 45-48: the IDLE manager has been told of every change of the set of
\* active subscriptions, whether a client or a relay's answer made it.  Only an
\* expiry may leave it believing in a subscription, which is then still a row.
SupervisorUpToDate ==
  /\ AnyActive(row, fresh) => watched
  /\ watched => AnyActive(row, Sub)

\* Subscriptions come, are verified, fail and go as push.ts 101-103 and README
\* 103-104 say, and the IDLE manager follows them.
SubsOK ==
  /\ TypeOK
  /\ Cardinality(Rows) <= MaxSubs
  /\ RetiredAfterStreak
  /\ SupervisorUpToDate

===============================================================================
