------------------------------ MODULE ChangeLog -------------------------------
(***************************************************************************)
(* The state counter and the in-memory change log of state/store.ts for one *)
(* (account, kind), the fold of jmap/methods/_shared.ts that turns log      *)
(* entries into a `*/changes' response, and the JMAP clients that replay    *)
(* the response over their copy.  Keys are independent of each other, so    *)
(* one stands for all.                                                      *)
(*                                                                          *)
(* A handler's mutation of the backend and its recordChanges call are one   *)
(* step here (EmailMethods takes them apart).  `snap' is a history          *)
(* variable: the collection the server had at every state.                  *)
(***************************************************************************)
EXTENDS Integers, Sequences, FiniteSets, SequencesExt

CONSTANTS
  Id,         \* object ids
  Client,     \* JMAP clients
  LogLimit,   \* CHANGE_LOG_LIMIT
  MaxBatch,   \* ids one recordChanges call may carry (maxObjectsInSet)
  MaxState,   \* bound: states of a run
  Absent,     \* the value of an id that names no object
  CannotCalculate

ASSUME LogLimitAssumption == LogLimit \in Nat \ {0}
ASSUME MaxBatchAssumption == MaxBatch \in Nat \ {0}
ASSUME MaxStateAssumption == MaxState \in Nat
ASSUME NullsAssumption == Absent \notin Int /\ CannotCalculate # {}

VARIABLES
  counter,    \* state_log.state, in SQLite
  log,        \* changeLog.get(key), in memory
  batch,      \* history: batch[n] is what recordChanges logged for state n
  snap,       \* history: snap[n + 1] is the collection at state n
  used,       \* history: ids that have existed (ids are never handed out twice)
  held        \* held[c]: the state client c holds and its copy of the collection

vars == <<counter, log, batch, snap, used, held>>

Action == {"created", "updated", "destroyed"}
Entry == [state : 1 .. MaxState, action : Action, id : Id]

objects == snap[counter + 1]
Alive == {i \in Id : objects[i] # Absent}

-------------------------------------------------------------------------------
(* recordChanges and bumpState *)

\* The id lists a diff may carry, in the order the handler lists them.
IdLists == UNION {[1 .. m -> Id] : m \in 0 .. MaxBatch}
IsListOf(ids, S) == Range(ids) \subseteq S /\ IsInjective(ids)

Tagged(ids, action, state) ==
  [k \in DOMAIN ids |-> [state |-> state, action |-> action, id |-> ids[k]]]

\* The entries one call logs, all tagged with the state it leads to.
Rows(created, updated, destroyed, state) ==
  Tagged(created, "created", state) \o Tagged(updated, "updated", state)
                                    \o Tagged(destroyed, "destroyed", state)

\* Mutant of Evict: the log is never trimmed.
EvictNothing(buf) == buf

\* while (buf.length > CHANGE_LOG_LIMIT) buf.shift()
Evict(buf) ==
  IF Len(buf) > LogLimit
  THEN SubSeq(buf, Len(buf) - LogLimit + 1, Len(buf))
  ELSE buf

Init ==
  /\ counter = 0
  /\ log = <<>>
  /\ batch = <<>>
  /\ snap = <<[i \in Id |-> Absent]>>
  /\ used = {}
  /\ held = [c \in Client |-> [state |-> 0, copy |-> snap[1]]]

\* A set method changed the collection and records what it changed.  Objects
\* carry the state that last touched them as their value.
RecordChanges(created, updated, destroyed) ==
  LET next == counter + 1
      rows == Rows(created, updated, destroyed, next)
  IN /\ counter < MaxState
     /\ Len(rows) \in 1 .. MaxBatch
     /\ IsListOf(created, Id \ used)
     /\ IsListOf(updated, Alive)
     /\ IsListOf(destroyed, Alive)
     /\ counter' = next
     /\ log' = Evict(log \o rows)
     /\ batch' = Append(batch, rows)
     /\ snap' = Append(snap, [i \in Id |->
                  CASE i \in Range(destroyed) -> Absent
                    [] i \in (Range(created) \cup Range(updated)) \ Range(destroyed) -> next
                    [] OTHER -> objects[i]])
     /\ used' = used \cup Range(created)
     /\ UNCHANGED held

\* bumpState() alone (an IDLE arrival, expunge or flag change, a submission):
\* the collection may have changed in any way and nothing says how.
BumpState ==
  \E arrived \in SUBSET (Id \ used), touched \in SUBSET Alive :
    \E gone \in SUBSET touched :
      /\ counter < MaxState
      /\ counter' = counter + 1
      /\ batch' = Append(batch, <<>>)
      /\ snap' = Append(snap, [i \in Id |->
                   CASE i \in gone -> Absent
                     [] i \in (arrived \cup touched) \ gone -> counter + 1
                     [] OTHER -> objects[i]])
      /\ used' = used \cup arrived
      /\ UNCHANGED <<log, held>>

\* The process restarts: the counter is in SQLite, the log is not.
Restart ==
  /\ log # <<>>
  /\ log' = <<>>
  /\ UNCHANGED <<counter, batch, snap, used, held>>

-------------------------------------------------------------------------------
(* entriesSince and changesFromLog *)

InWindow(e, since) == e.state > since /\ e.state <= counter

\* buf.filter(...): the places of the entries in the range.
Window(since) == {k \in DOMAIN log : InWindow(log[k], since)}

\* Mutant of EveryStateLogged: the first state of the range is not looked for.
EveryLaterStateLogged(since) ==
  LET logged == {log[k].state : k \in Window(since)}
  IN \A n \in since + 2 .. counter : n \in logged

\* No state in (since, counter] was moved by a bare bump or lost by a restart.
EveryStateLogged(since) ==
  LET logged == {log[k].state : k \in Window(since)}
  IN \A n \in since + 1 .. counter : n \in logged

\* Mutant of Answerable: the oldest state tested against since itself.
AnswerableOffByOne(since) ==
  \/ since = counter
  \/ /\ since < counter
     /\ log # <<>>
     /\ log[1].state <= since
     /\ counter - since <= LogLimit
     /\ EveryStateLogged(since)

Answerable(since) ==
  \/ since = counter
  \/ /\ since < counter
     /\ log # <<>>
     /\ log[1].state <= since + 1
     /\ counter - since <= LogLimit
     /\ EveryStateLogged(since)

\* The entries of the range, by their places in the log.
EntriesSince(since) ==
  IF since = counter THEN {}
  ELSE IF Answerable(since) THEN Window(since)
  ELSE CannotCalculate

NoChanges == [created |-> {}, updated |-> {}, destroyed |-> {}]

\* Mutant of Fold: a destroy cancels an update as it cancels a creation.
FoldForgetsDestroy(diff, e) ==
  CASE e.action = "created" -> [diff EXCEPT !.created = @ \cup {e.id}]
    [] e.action = "updated" ->
         IF e.id \in diff.created THEN diff ELSE [diff EXCEPT !.updated = @ \cup {e.id}]
    [] e.action = "destroyed" ->
         IF e.id \in diff.created \cup diff.updated
         THEN [diff EXCEPT !.created = @ \ {e.id}, !.updated = @ \ {e.id}]
         ELSE [diff EXCEPT !.destroyed = @ \cup {e.id}]

\* One turn of the loop in changesFromLog.
Fold(diff, e) ==
  CASE e.action = "created" ->
         [created   |-> diff.created \cup {e.id},
          updated   |-> diff.updated \ {e.id},
          destroyed |-> diff.destroyed \ {e.id}]
    [] e.action = "updated" ->
         IF e.id \in diff.created \cup diff.destroyed THEN diff
         ELSE [diff EXCEPT !.updated = @ \cup {e.id}]
    [] e.action = "destroyed" ->
         IF e.id \in diff.created
         THEN [diff EXCEPT !.created = @ \ {e.id}, !.updated = @ \ {e.id}]
         ELSE [diff EXCEPT !.updated = @ \ {e.id}, !.destroyed = @ \cup {e.id}]

\* The loop takes the entries in the order of the log: the last one comes on top.
Changes(since) ==
  MapThenFoldSet(LAMBDA e, diff : Fold(diff, e), NoChanges, LAMBDA k : log[k], Max,
                 EntriesSince(since))

-------------------------------------------------------------------------------
(* Clients *)

\* A client replays the diff: it fetches the ids named created or updated and
\* forgets the ids named destroyed.
Replay(copy, diff) ==
  [i \in Id |-> CASE i \in diff.destroyed -> Absent
                  [] i \in (diff.created \cup diff.updated) \ diff.destroyed -> objects[i]
                  [] OTHER -> copy[i]]

\* `*/changes' answered with a diff.
SyncByChanges(c) ==
  /\ Answerable(held[c].state)
  /\ held' = [held EXCEPT ![c] =
       [state |-> counter, copy |-> Replay(held[c].copy, Changes(held[c].state))]]
  /\ UNCHANGED <<counter, log, batch, snap, used>>

\* cannotCalculateChanges: the client drops its copy and fetches everything.
Resync(c) ==
  /\ ~Answerable(held[c].state)
  /\ held' = [held EXCEPT ![c] = [state |-> counter, copy |-> objects]]
  /\ UNCHANGED <<counter, log, batch, snap, used>>

Next ==
  \/ \E created, updated, destroyed \in IdLists :
       RecordChanges(created, updated, destroyed)
  \/ BumpState
  \/ Restart
  \/ \E c \in Client : SyncByChanges(c) \/ Resync(c)

Spec == Init /\ [][Next]_vars

-------------------------------------------------------------------------------
(* Properties *)

\* Type invariant; the log never has more than LogLimit entries.
TypeOK ==
  /\ counter \in 0 .. MaxState
  /\ log \in Seq(Entry) /\ Len(log) <= LogLimit
  /\ batch \in Seq(Seq(Entry)) /\ Len(batch) = counter
  /\ snap \in Seq([Id -> (0 .. MaxState) \cup {Absent}]) /\ Len(snap) = counter + 1
  /\ used \subseteq Id
  /\ held \in [Client -> [state : 0 .. MaxState,
                          copy : [Id -> (0 .. MaxState) \cup {Absent}]]]

InLog(e) == \E k \in DOMAIN log : log[k] = e

\* What was recorded for state n is still in the log, all of it.
Whole(n) == batch[n] # <<>> /\ \A k \in DOMAIN batch[n] : InLog(batch[n][k])

\* Eviction went through the batch of state n and left a part of it.
Cut(n) == ~Whole(n) /\ \E k \in DOMAIN batch[n] : InLog(batch[n][k])

\* entriesSince answers only for a range it has every entry of, except that
\* the oldest batch of the log may have lost its head to eviction.
AnswerCoversRange ==
  \A since \in 0 .. counter :
    Answerable(since) => \A n \in since + 1 .. counter : Whole(n) \/ (n = since + 1 /\ Cut(n))

\* README 196-199: a client with a recent sinceState gets its diff.  A range
\* whose every state still has its whole batch in the log is never refused,
\* whatever was restarted, bumped or evicted before it.
WholeRangeAnswered ==
  \A since \in 0 .. counter :
    (\A n \in since + 1 .. counter : Whole(n)) => Answerable(since)

\* Why AnswerCoversRange is inductive: the log is ordered by state, holds only
\* what batch says was recorded, and misses nothing above its oldest state.
Ordered == \A j, k \in DOMAIN log : j <= k => log[j].state <= log[k].state
Sourced == \A k \in DOMAIN log :
             /\ log[k].state <= counter
             /\ \E m \in DOMAIN batch[log[k].state] : batch[log[k].state][m] = log[k]
BatchTagged == \A n \in 1 .. counter : \A k \in DOMAIN batch[n] : batch[n][k].state = n
CompleteAbove ==
  log # <<>> =>
    \A n \in log[1].state + 1 .. counter : \A k \in DOMAIN batch[n] : InLog(batch[n][k])
LogInv == TypeOK /\ Ordered /\ Sourced /\ BatchTagged /\ CompleteAbove

\* The comment at store.ts 266-271: "any sinceState referring to an evicted
\* entry must answer `cannotCalculateChanges'".  A batch of several ids that
\* eviction cut into still passes the test on the oldest entry's state.
EvictedNeverAnswered ==
  \A since \in 0 .. counter :
    Answerable(since) => \A n \in since + 1 .. counter : Whole(n)

\* A client that only replays diffs holds, at every state it names, exactly the
\* collection of that state: log, eviction, gaps and restarts are invisible.
Abstract == INSTANCE ObjectSync
  WITH Id <- Id, Client <- Client, Absent <- Absent, snap <- snap, held <- held
\* What clients see of the change log is an ObjectSync.
ImplementsObjectSync == Abstract!Spec
===============================================================================
