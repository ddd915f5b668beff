------------------------------- MODULE PushIdle -------------------------------
(***************************************************************************)
(* The IDLE workers of push/idle.ts, the EventSource streams of             *)
(* jmap/eventsource.ts that ask for them, and the IMAP sockets they hold.   *)
(* A step runs from one await to the next; the awaits are the dial          *)
(* (openCredentials, openImap), mailboxOpen and the logout inside stop().    *)
(*                                                                          *)
(* sync() is not atomic: each call keeps the accounts it wanted when it     *)
(* began, and waits for one logout after the other.  What resumes when a    *)
(* socket closes runs as a microtask, so before any other event (Settled).  *)
(* Backoff delays are abstracted to "some time later".  closeAll() is left  *)
(* out: the process exits after it.                                         *)
(***************************************************************************)
EXTENDS Integers, FiniteSets, Functions

CONSTANTS
  Account,
  Stream,           \* EventSource requests
  AccountOf,        \* the account of a stream, a function on Stream
  Worker,           \* Worker objects
  Conn,             \* IMAP sockets of the workers
  Sync,             \* bound: sync() calls under way at a time
  None,
  Troubles          \* the sets of troubles a behaviour may meet

\* INBOX may be refused; a client may leave while its request is authenticated;
\* a push subscription may reach its expiry date.
Trouble == {"refusal", "leaver", "expiry"}

ASSUME AccountOfAssumption == AccountOf \in [Stream -> Account]
ASSUME StreamAssumption == IsFiniteSet(Stream)
ASSUME NoneAssumption == None \notin Worker \cup Conn \cup Account
ASSUME TroublesAssumption == Troubles \subseteq SUBSET Trouble

VARIABLES
  subs,       \* accounts with an active push subscription, in SQLite
  stream,     \* stream[s]: away, open, or ghost (the client left before add())
  streams,    \* the open-stream count of an account
  grace,      \* accounts whose grace timer runs
  workers,    \* the workers map
  worker,     \* the Worker objects
  link,       \* link[c]: dial, select, idle, stray (INBOX was refused),
              \* leaving, closed
  holder,     \* the worker whose handlers are attached to the socket
  sync,       \* sync[s]: what call s waits for, and the accounts it wanted
  missed,     \* history: accounts a sync() passed over, stopped although they
              \* are wanted, or started although they are not
  trouble     \* what may go wrong in this behaviour; never changes

demand  == <<subs, stream, streams, grace>>
vars    == <<demand, workers, worker, link, holder, sync, missed, trouble>>

Desired == {a \in Account : a \in subs \/ streams[a] > 0 \/ a \in grace}

Fresh == [closing |-> FALSE, client |-> None, reconnect |-> FALSE, refresh |-> FALSE]
NotSyncing == [want |-> {}, account |-> None, worker |-> None, conn |-> None]

Init ==
  /\ subs = {}
  /\ stream = [s \in Stream |-> "away"]
  /\ streams = [a \in Account |-> 0]
  /\ grace = {}
  /\ workers = [a \in Account |-> None]
  /\ worker = [w \in Worker |-> Fresh]
  /\ link = [c \in Conn |-> "closed"]
  /\ holder = [c \in Conn |-> None]
  /\ sync = [s \in Sync |-> NotSyncing]
  /\ missed = {}
  /\ trouble \in Troubles

-------------------------------------------------------------------------------
(* sync(), stop() and start() *)

Running(s) == sync[s] # NotSyncing
Resumable(s) == Running(s) /\ link[sync[s].conn] = "closed"

\* No promise has settled: the event loop may take its next event.
Settled == \A s \in Sync : ~Resumable(s)

UnusedConn(c) ==
  link[c] = "closed" /\ \A s \in Sync : sync[s].conn # c
UnusedWorker(w) ==
  /\ w \notin Range(workers) /\ ~worker[w].reconnect
  /\ \A c \in Conn : holder[c] = w => link[c] = "closed"
  /\ \A s \in Sync : sync[s].worker # w

\* One unused object for each account of new; which ones does not matter.
Fit(new, unused) == {f \in [new -> unused] : IsInjective(f)}
OneOf(set) == IF set = {} THEN {} ELSE {CHOOSE x \in set : TRUE}

\* Mutant of Stopped: the connections' handlers are not told.
StoppedUnmarked(k) == [k EXCEPT !.reconnect = FALSE, !.refresh = FALSE]

\* Mutant of Stopped: the reconnect timer is left to fire.
StoppedTimerLeft(k) == [k EXCEPT !.closing = TRUE, !.refresh = FALSE]

\* stop(), up to its logout.
Stopped(k) == [k EXCEPT !.closing = TRUE, !.reconnect = FALSE, !.refresh = FALSE]

\* The loop over the workers map stops one worker that has a client, and waits;
\* on its way it has stopped some that have none.
StopNext(s, want, map, objs) ==
  \E a \in {b \in Account : map[b] # None /\ b \notin want} :
  \E quick \in SUBSET {b \in Account \ want : map[b] # None /\ objs[map[b]].client = None} :
    LET w == map[a]
        c == objs[w].client
    IN /\ c # None
       /\ workers' = [b \in Account |-> IF b \in quick THEN None ELSE map[b]]
       /\ worker' = [x \in Worker |->
            IF x = w \/ \E b \in quick : x = map[b] THEN Stopped(objs[x]) ELSE objs[x]]
       /\ link' = [link EXCEPT ![c] = "leaving"]
       /\ sync' = [sync EXCEPT ![s] = [want |-> want, account |-> a, worker |-> w, conn |-> c]]
       /\ missed' = (missed \ (quick \cup {a})) \cup ((quick \cup {a}) \cap Desired')
       /\ UNCHANGED <<holder, trouble>>

\* Nothing waits any more: the last workers without a client are stopped, and a
\* worker is started, and dials, for every wanted account that has none.
StartMissing(s, want, map, objs) ==
  LET over == {b \in Account : map[b] # None /\ b \notin want}
      new  == {a \in want : map[a] = None}
  IN /\ \A b \in over : objs[map[b]].client = None
     /\ \E w \in OneOf(Fit(new, {x \in Worker : UnusedWorker(x)})),
           c \in OneOf(Fit(new, {x \in Conn : UnusedConn(x)})) :
          /\ workers' = [a \in Account |-> CASE a \in over -> None
                                             [] a \in new -> w[a]
                                             [] OTHER -> map[a]]
          /\ worker' = [x \in Worker |->
               CASE x \in Range(w) -> Fresh
                 [] \E b \in over : x = map[b] -> Stopped(objs[x])
                 [] OTHER -> objs[x]]
          /\ link' = [x \in Conn |-> IF x \in Range(c) THEN "dial" ELSE link[x]]
          /\ holder' = [x \in Conn |->
               IF x \in Range(c) THEN w[CHOOSE a \in new : c[a] = x] ELSE holder[x]]
     /\ sync' = [sync EXCEPT ![s] = NotSyncing]
     /\ missed' = (missed \ (new \cup over)) \cup (over \cap Desired') \cup (new \ Desired') \cup
                     {a \in want : map[a] # None /\ objs[map[a]].closing}
     /\ UNCHANGED trouble

RunSync(s, want, map, objs) ==
  StopNext(s, want, map, objs) \/ StartMissing(s, want, map, objs)

\* A sync() call begins, with the demand it finds.
BeginSync(want) ==
  \E s \in OneOf({y \in Sync : ~Running(y)}) : RunSync(s, want, workers, worker)

\* The logout is over: the account's entry goes, whatever it is by now, and the
\* loop goes on with the accounts it wanted at first.
StopEnds(s) ==
  /\ Resumable(s)
  /\ UNCHANGED demand
  /\ RunSync(s, sync[s].want,
             [workers EXCEPT ![sync[s].account] = None],
             [worker EXCEPT ![sync[s].worker].client = None])

-------------------------------------------------------------------------------
(* What changes the demand *)

\* A subscription is verified, changed or destroyed (by its client or by the
\* dispatcher).  A boot that finds subscriptions comes to the same as adding
\* them one by one.
SubscriberChange ==
  /\ Settled
  /\ \E a \in Account : subs' \in {subs, subs \cup {a}, subs \ {a}}
  /\ UNCHANGED <<stream, streams, grace>>
  /\ BeginSync(Desired')

\* A subscription expires: the query stops returning it, and nobody is told.
SubExpires(a) ==
  /\ Settled /\ "expiry" \in trouble
  /\ a \in subs
  /\ subs' = subs \ {a}
  /\ UNCHANGED <<stream, streams, grace, workers, worker, link, holder, sync, missed, trouble>>

\* Mutant of StreamOpens: the count goes up and no sync() is asked for.
StreamOpensQuietly(s) ==
  LET a == AccountOf[s]
  IN /\ Settled
     /\ stream[s] = "away"
     /\ stream' = [stream EXCEPT ![s] = "open"]
     /\ streams' = [streams EXCEPT ![a] = @ + 1]
     /\ grace' = grace \ {a}
     /\ UNCHANGED <<subs, workers, worker, link, holder, sync, missed, trouble>>

\* add() and streamOpened(), once the request is authenticated.  When the
\* client has left meanwhile the response's "close" is over already, and the
\* listener add() attaches will never run.
StreamOpens(s) ==
  LET a == AccountOf[s]
  IN /\ Settled
     /\ stream[s] = "away"
     /\ \E how \in {"open", "ghost"} :
          /\ how = "ghost" => "leaver" \in trouble
          /\ stream' = [stream EXCEPT ![s] = how]
     /\ streams' = [streams EXCEPT ![a] = @ + 1]
     /\ grace' = grace \ {a}
     /\ UNCHANGED subs
     /\ BeginSync(Desired')

\* The response closes: streamClosed().
StreamCloses(s) ==
  LET a == AccountOf[s]
  IN /\ Settled
     /\ stream[s] = "open"
     /\ stream' = [stream EXCEPT ![s] = "away"]
     /\ streams' = [streams EXCEPT ![a] = @ - 1]
     /\ grace' = IF streams[a] = 1 THEN grace \cup {a} ELSE grace
     /\ UNCHANGED <<subs, workers, worker, link, holder, sync, missed, trouble>>

GraceEnds(a) ==
  /\ Settled
  /\ a \in grace
  /\ grace' = grace \ {a}
  /\ UNCHANGED <<subs, stream, streams>>
  /\ BeginSync(Desired')

-------------------------------------------------------------------------------
(* connect() and its handlers *)

\* scheduleReconnect()
Reconnecting(k) == IF k.closing THEN k ELSE [k EXCEPT !.reconnect = TRUE]

DialOk(c) ==
  /\ Settled
  /\ link[c] = "dial"
  /\ link' = [link EXCEPT ![c] = "select"]
  /\ UNCHANGED <<demand, workers, worker, holder, sync, missed, trouble>>

\* Mutant of DialFails: a failed dial is only logged.
DialFailsForGood(c) ==
  /\ Settled
  /\ link[c] = "dial"
  /\ link' = [link EXCEPT ![c] = "closed"]
  /\ holder' = [holder EXCEPT ![c] = None]
  /\ UNCHANGED <<demand, workers, worker, sync, missed, trouble>>

DialFails(c) ==
  /\ Settled
  /\ link[c] = "dial"
  /\ link' = [link EXCEPT ![c] = "closed"]
  /\ holder' = [holder EXCEPT ![c] = None]
  /\ worker' = [worker EXCEPT ![holder[c]] = Reconnecting(@)]
  /\ UNCHANGED <<demand, workers, sync, missed, trouble>>

\* INBOX is open: the socket becomes the worker's client, also when the worker
\* was stopped meanwhile.
SelectOk(c) ==
  /\ Settled
  /\ link[c] = "select"
  /\ link' = [link EXCEPT ![c] = "idle"]
  /\ worker' = [worker EXCEPT ![holder[c]] = [@ EXCEPT !.client = c, !.refresh = TRUE]]
  /\ UNCHANGED <<demand, workers, holder, sync, missed, trouble>>

\* INBOX is refused: connect() throws, and the socket stays open.
SelectFails(c) ==
  /\ Settled /\ "refusal" \in trouble
  /\ link[c] = "select"
  /\ link' = [link EXCEPT ![c] = "stray"]
  /\ worker' = [worker EXCEPT ![holder[c]] = Reconnecting(@)]
  /\ UNCHANGED <<demand, workers, holder, sync, missed, trouble>>

\* The "close" handler, for a LOGOUT or a broken connection.  When it breaks
\* under mailboxOpen, connect() throws as well, to the same effect.
Close(c) ==
  LET k == worker[holder[c]]
  IN /\ Settled
     /\ link[c] \in {"select", "idle", "stray", "leaving"}
     /\ link' = [link EXCEPT ![c] = "closed"]
     /\ holder' = [holder EXCEPT ![c] = None]
     /\ worker' = [worker EXCEPT ![holder[c]] =
          Reconnecting([k EXCEPT !.refresh = FALSE,
                                 !.client = IF @ = c THEN None ELSE @])]
     /\ UNCHANGED <<demand, workers, sync, missed, trouble>>

\* The reconnect timer fires and dials.
Reconnect(w) ==
  /\ Settled
  /\ worker[w].reconnect
  /\ worker' = [worker EXCEPT ![w].reconnect = FALSE]
  /\ \E c \in OneOf({x \in Conn : UnusedConn(x)}) :
       /\ link' = [link EXCEPT ![c] = "dial"]
       /\ holder' = [holder EXCEPT ![c] = w]
  /\ UNCHANGED <<demand, workers, sync, missed, trouble>>

\* The refresh timer: a NOOP and another turn, or the end of the rotation.
Refresh(w) ==
  /\ Settled
  /\ worker[w].refresh
  /\ worker[w].client = None \/ worker[w].closing
  /\ worker' = [worker EXCEPT ![w].refresh = FALSE]
  /\ UNCHANGED <<demand, workers, link, holder, sync, missed, trouble>>

Next ==
  \/ \E s \in Sync : StopEnds(s)
  \/ SubscriberChange
  \/ \E a \in Account : SubExpires(a) \/ GraceEnds(a)
  \/ \E s \in Stream : StreamOpens(s) \/ StreamCloses(s)
  \/ \E c \in Conn : DialOk(c) \/ DialFails(c) \/ SelectOk(c) \/ SelectFails(c) \/ Close(c)
  \/ \E w \in Worker : Reconnect(w) \/ Refresh(w)

Spec == Init /\ [][Next]_vars

\* Timers fire, promises settle, a LOGOUT ends in a close, and a server that a
\* worker dials and asks for INBOX again and again answers it some time.  A
\* timer may find every socket of the bound in use, but not for ever.
Fairness ==
  /\ \A s \in Sync : WF_vars(StopEnds(s))
  /\ \A w \in Worker :
       /\ SF_vars(Reconnect(w))
       /\ SF_vars(\E c \in Conn : holder[c] = w /\ DialOk(c))
       /\ SF_vars(\E c \in Conn : holder[c] = w /\ SelectOk(c))
  /\ \A c \in Conn : WF_vars(link[c] = "leaving" /\ Close(c))

FairSpec == Spec /\ Fairness

-------------------------------------------------------------------------------
(* Properties *)

TypeOK ==
  /\ subs \subseteq Account /\ grace \subseteq Account
  /\ stream \in [Stream -> {"away", "open", "ghost"}]
  /\ streams \in [Account -> 0 .. Cardinality(Stream)]
  /\ workers \in [Account -> Worker \cup {None}]
  /\ worker \in [Worker -> [closing : BOOLEAN, client : Conn \cup {None},
                            reconnect : BOOLEAN, refresh : BOOLEAN]]
  /\ link \in [Conn -> {"dial", "select", "idle", "stray", "leaving", "closed"}]
  /\ holder \in [Conn -> Worker \cup {None}]
  /\ sync \in [Sync -> [want : SUBSET Account, account : Account \cup {None},
                        worker : Worker \cup {None}, conn : Conn \cup {None}]]
  /\ missed \subseteq Account /\ trouble \in Troubles

Quiet == \A s \in Sync : ~Running(s)
Connecting(w) == \E c \in Conn : holder[c] = w /\ link[c] \in {"dial", "select"}
Live(w) == \E a \in Account : workers[a] = w /\ ~worker[w].closing

\* idle.ts 29-39, 144 and the catch clauses of connect(): whichever of its dial,
\* SELECT, close events and timers came last, a worker that was not stopped has
\* a client or something that will get it one, a connection in IDLE has its NOOP
\* rotation or a reconnect that will start one; and no reconnect timer survives
\* the stop of its worker.
TimersFollowLife ==
  \A w \in Worker :
    /\ Live(w) => worker[w].client # None \/ worker[w].reconnect \/ Connecting(w)
    /\ Live(w) /\ worker[w].client # None =>
         worker[w].refresh \/ worker[w].reconnect \/ Connecting(w)
    /\ worker[w].closing => ~worker[w].reconnect

\* A worker that can still connect is the one the map names for some account:
\* two of an account would each hold a connection and announce every arrival,
\* and one the map has lost could never be stopped.  After a refused INBOX a
\* worker may have two sockets, and the code does lose one (idle.ts 154).
LiveWorkersAreMapped ==
  "refusal" \notin trouble => \A w \in Worker :
    /\ ~worker[w].closing
    /\ worker[w].reconnect \/ \E c \in Conn : holder[c] = w
                                 /\ link[c] \in {"dial", "select", "idle"}
    => w \in Range(workers)

\* Workers have their types, and one that can still dial or idle is in the map.
WorkersOK == TypeOK /\ LiveWorkersAreMapped

\* README 109-112: when no sync() is under way, every account with a verified
\* subscription, an open stream or a grace period has its worker; unless some
\* sync() found that worker still logging out, or stopped it by a demand it had
\* read before (idle.ts 64, 79).
NeedHasWorker ==
  "refusal" \notin trouble =>
    \A a \in Desired : workers[a] # None \/ a \in missed

\* idle.ts 61: every worker of the map is wanted, unless some sync() started it
\* by a demand it had read before; only an expiry goes unnoticed until the next
\* change.
NoWorkerWithoutNeed ==
  "expiry" \notin trouble =>
    \A a \in Account : workers[a] # None => a \in Desired \/ a \in missed

\* idle.ts 61-62: whatever sync() calls overlapped, when all are over the workers
\* are those the demand asks for.
WorkersMatchNeed == Quiet => NeedHasWorker /\ NoWorkerWithoutNeed

\* A worker that is not stopped gets its connection, however often the server
\* is down before.
WorkerConnects ==
  \A w \in Worker :
    Live(w) /\ trouble = {} ~> (worker[w].client # None \/ worker[w].closing)
===============================================================================
