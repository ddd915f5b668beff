---------------------------- MODULE PushIdleProofs ----------------------------
(***************************************************************************)
(* For any accounts, streams, workers and overlapping sync() calls: the     *)
(* workers of the map are the live ones, their timers follow their life,    *)
(* and when no sync() is under way they are those the demand asks for.      *)
(***************************************************************************)
EXTENDS PushIdle, FiniteSetTheorems, TLAPS

StreamsOf(a) == {s \in Stream : AccountOf[s] = a /\ stream[s] # "away"}

\* An account's streams are counted, ghosts included.
CountInv == \A a \in Account : streams[a] = Cardinality(StreamsOf(a))

\* Sockets and the workers whose handlers they have.
SocketInv ==
  /\ \A c \in Conn : link[c] = "closed" <=> holder[c] = None
  /\ \A c \in Conn : link[c] = "leaving" => worker[holder[c]].closing
  /\ \A w \in Worker : worker[w].client # None =>
       holder[worker[w].client] = w /\ link[worker[w].client] \in {"idle", "leaving"}

\* What a sync() waits for: the logout of a worker it has stopped.  Those that
\* may go on wait for the same one.
SyncInv ==
  /\ \A s \in Sync : Running(s) =>
       /\ sync[s].account \in Account \ sync[s].want
       /\ sync[s].worker \in Worker /\ worker[sync[s].worker].closing
       /\ sync[s].conn \in Conn /\ link[sync[s].conn] \in {"leaving", "closed"}
  /\ \A s, t \in Sync : Resumable(s) /\ Resumable(t) => sync[s].conn = sync[t].conn

\* While INBOX is never refused a worker has one socket or a timer for one, and
\* is in the map for one account.
OneSocket ==
  /\ \A c \in Conn : link[c] # "stray"
  /\ \A c, d \in Conn : holder[c] # None /\ holder[c] = holder[d] => c = d
  /\ \A w \in Worker : worker[w].reconnect => \A c \in Conn : holder[c] # w
  /\ \A a, b \in Account : workers[a] # None /\ workers[a] = workers[b] => a = b

\* And the entry a sync() will remove is that of the worker it stopped.
OwnEntry ==
  /\ \A s \in Sync : Running(s) =>
       CASE link[sync[s].conn] = "leaving" ->
              /\ workers[sync[s].account] = sync[s].worker
              /\ worker[sync[s].worker].client = sync[s].conn
         [] link[sync[s].conn] = "closed" ->
              /\ workers[sync[s].account] \in {sync[s].worker, None}
              /\ \A c \in Conn : holder[c] # sync[s].worker
  /\ \A s, t \in Sync : Running(s) /\ Running(t) /\ sync[s].conn = sync[t].conn
       => sync[s].account = sync[t].account /\ sync[s].worker = sync[t].worker

CalmInv == "refusal" \notin trouble => OneSocket /\ OwnEntry

\* Who is wanted has a worker that stays, or was missed, or is on the list of a
\* sync() under way.
NeedInv ==
  "refusal" \notin trouble =>
    \A a \in Desired :
      \/ workers[a] # None /\ ~worker[workers[a]].closing
      \/ a \in missed
      \/ \E s \in Sync : Running(s) /\ a \in sync[s].want

\* Who has a worker is wanted, or was missed, or will be stopped.
SurplusInv ==
  "expiry" \notin trouble =>
    \A a \in Account : workers[a] # None =>
      \/ a \in Desired
      \/ a \in missed
      \/ \E s \in Sync : Running(s) /\ a \notin sync[s].want

LifeInv == TypeOK /\ CountInv /\ SocketInv /\ SyncInv /\ TimersFollowLife
IdleInv == LifeInv /\ CalmInv /\ LiveWorkersAreMapped /\ NeedInv /\ SurplusInv
-------------------------------------------------------------------------------
(* The demand *)

DemandOK ==
  /\ subs \subseteq Account /\ grace \subseteq Account
  /\ stream \in [Stream -> {"away", "open", "ghost"}]
  /\ streams \in [Account -> 0 .. Cardinality(Stream)]

\* The streams of an account are finitely many, and no more than all.
LEMMA StreamsAreFew ==
  ASSUME NEW S \in SUBSET Stream
  PROVE  IsFiniteSet(S) /\ Cardinality(S) \in 0 .. Cardinality(Stream)
<1>1. IsFiniteSet(S) /\ Cardinality(S) <= Cardinality(Stream)
  BY StreamAssumption, FS_Subset
<1>2. Cardinality(S) \in Nat /\ Cardinality(Stream) \in Nat
  BY <1>1, StreamAssumption, FS_CardinalityType
<1>. QED
  BY <1>1, <1>2

\* Opening and closing a stream keeps the count.
LEMMA CountKept ==
  ASSUME DemandOK, CountInv, NEW s \in Stream, NEW how \in {"open", "ghost"},
         \/ /\ stream[s] = "away" /\ stream' = [stream EXCEPT ![s] = how]
            /\ streams' = [streams EXCEPT ![AccountOf[s]] = @ + 1]
         \/ /\ stream[s] # "away" /\ stream' = [stream EXCEPT ![s] = "away"]
            /\ streams' = [streams EXCEPT ![AccountOf[s]] = @ - 1]
  PROVE  /\ CountInv' /\ streams' \in [Account -> 0 .. Cardinality(Stream)]
         /\ stream' \in [Stream -> {"away", "open", "ghost"}]
<1>. DEFINE a == AccountOf[s]
<1>1. a \in Account /\ streams \in [Account -> 0 .. Cardinality(Stream)]
      /\ stream \in [Stream -> {"away", "open", "ghost"}]
  BY AccountOfAssumption DEF DemandOK
<1>2. \A b \in Account \ {a} : StreamsOf(b)' = StreamsOf(b) /\ streams'[b] = streams[b]
  BY <1>1 DEF StreamsOf
<1>3. IsFiniteSet(StreamsOf(a)) /\ Cardinality(StreamsOf(a)) \in Nat
  BY StreamsAreFew, FS_CardinalityType DEF StreamsOf
<1>4. streams'[a] = Cardinality(StreamsOf(a)')
  <2>1. CASE stream[s] = "away" /\ stream' = [stream EXCEPT ![s] = how]
             /\ streams' = [streams EXCEPT ![a] = @ + 1]
    <3>1. StreamsOf(a)' = StreamsOf(a) \cup {s} /\ s \notin StreamsOf(a)
      BY <1>1, <2>1 DEF StreamsOf
    <3>2. Cardinality(StreamsOf(a)') = Cardinality(StreamsOf(a)) + 1
      BY <1>3, <3>1, FS_AddElement
    <3>. QED
      BY <1>1, <2>1, <3>2 DEF CountInv
  <2>2. CASE stream[s] # "away" /\ stream' = [stream EXCEPT ![s] = "away"]
             /\ streams' = [streams EXCEPT ![a] = @ - 1]
    <3>1. StreamsOf(a)' = StreamsOf(a) \ {s} /\ s \in StreamsOf(a)
      BY <1>1, <2>2 DEF StreamsOf
    <3>2. Cardinality(StreamsOf(a)') = Cardinality(StreamsOf(a)) - 1
      BY <1>3, <3>1, FS_RemoveElement
    <3>. QED
      BY <1>1, <2>2, <3>2 DEF CountInv
  <2>. QED
    BY <2>1, <2>2
<1>5. CountInv'
  BY <1>2, <1>4 DEF CountInv
<1>6. \A b \in Account : streams'[b] \in 0 .. Cardinality(Stream)
  <2>1. \A b \in Account : StreamsOf(b)' \in SUBSET Stream
    BY DEF StreamsOf
  <2>. QED
    BY <2>1, <1>5, StreamsAreFew DEF CountInv
<1>. QED
  BY <1>1, <1>5, <1>6

\* An account whose last stream closes is wanted for a while yet.
LEMMA DemandKept ==
  ASSUME DemandOK, CountInv, NEW s \in Stream, StreamCloses(s)
  PROVE  DemandOK' /\ CountInv' /\ Desired' = Desired
<1>. DEFINE a == AccountOf[s]
<1>1. /\ a \in Account /\ streams \in [Account -> 0 .. Cardinality(Stream)]
      /\ Cardinality(Stream) \in Nat
  BY AccountOfAssumption, StreamAssumption, FS_CardinalityType DEF DemandOK
<1>2. /\ stream[s] = "open" /\ stream' = [stream EXCEPT ![s] = "away"]
      /\ streams' = [streams EXCEPT ![a] = @ - 1]
      /\ grace' = IF streams[a] = 1 THEN grace \cup {a} ELSE grace
      /\ UNCHANGED subs
  BY DEF StreamCloses
<1>3. CountInv' /\ DemandOK'
  BY <1>1, <1>2, CountKept DEF DemandOK
<1>4. streams[a] \in Nat /\ streams[a] # 0
  <2>1. s \in StreamsOf(a) /\ StreamsOf(a) \in SUBSET Stream
    BY <1>2 DEF StreamsOf
  <2>2. Cardinality(StreamsOf(a)) # 0
    BY <2>1, StreamsAreFew, FS_EmptySet
  <2>. QED
    BY <1>1, <2>2 DEF CountInv
<1>5. \A b \in Account : b # a => streams'[b] = streams[b] /\ (b \in grace' <=> b \in grace)
  BY <1>1, <1>2
<1>6. a \in Desired /\ a \in Desired'
  BY <1>1, <1>2, <1>4 DEF Desired
<1>7. \A b \in Account : b \in Desired' <=> b \in Desired
  BY <1>2, <1>5, <1>6 DEF Desired
<1>. QED
  BY <1>3, <1>7 DEF Desired

\* The events that begin a sync() with the demand they leave.
LEMMA Beginning ==
  ASSUME DemandOK, CountInv,
         SubscriberChange \/ (\E s \in Stream : StreamOpens(s)) \/ (\E a \in Account : GraceEnds(a))
  PROVE  Settled /\ DemandOK' /\ CountInv' /\ BeginSync(Desired')
<1>1. CASE SubscriberChange
  BY <1>1 DEF SubscriberChange, DemandOK, CountInv, StreamsOf
<1>2. ASSUME NEW s \in Stream, StreamOpens(s) PROVE Settled /\ DemandOK' /\ CountInv' /\ BeginSync(Desired')
  <2>1. PICK how \in {"open", "ghost"} : stream' = [stream EXCEPT ![s] = how]
    BY <1>2 DEF StreamOpens
  <2>2. /\ Settled /\ BeginSync(Desired') /\ stream[s] = "away" /\ subs' = subs
        /\ streams' = [streams EXCEPT ![AccountOf[s]] = @ + 1] /\ grace' \subseteq grace
    BY <1>2 DEF StreamOpens
  <2>3. /\ CountInv' /\ streams' \in [Account -> 0 .. Cardinality(Stream)]
        /\ stream' \in [Stream -> {"away", "open", "ghost"}]
    BY <2>1, <2>2, CountKept
  <2>. QED
    BY <2>2, <2>3 DEF DemandOK
<1>3. ASSUME NEW a \in Account, GraceEnds(a) PROVE Settled /\ DemandOK' /\ CountInv' /\ BeginSync(Desired')
  BY <1>3 DEF GraceEnds, DemandOK, CountInv, StreamsOf
<1>. QED
  BY <1>1, <1>2, <1>3
-------------------------------------------------------------------------------
(* sync() *)

WorkerObject == [closing : BOOLEAN, client : Conn \cup {None},
                 reconnect : BOOLEAN, refresh : BOOLEAN]
SyncCall == [want : SUBSET Account, account : Account \cup {None},
             worker : Worker \cup {None}, conn : Conn \cup {None}]

\* What a turn of sync() s starts from: the accounts it wants, the map without
\* the entry it has just removed, and the worker of that entry without a client.
Turn(s, want, map, objs) ==
  /\ s \in Sync /\ want \in SUBSET Account
  /\ map \in [Account -> Worker \cup {None}] /\ \A a \in Account : map[a] \in {workers[a], None}
  /\ objs \in [Worker -> WorkerObject]
  /\ \A x \in Worker :
       \/ objs[x] = worker[x]
       \/ worker[x].closing /\ objs[x] = [worker[x] EXCEPT !.client = None]
  /\ TypeOK /\ SocketInv /\ SyncInv /\ TimersFollowLife
  /\ DemandOK' /\ CountInv'
  /\ RunSync(s, want, map, objs)

\* While INBOX is not refused: the removed entry was that of a stopped worker,
\* and the other calls' entries are untouched, or about accounts s does not want.
CalmTurn(s, want, map, objs) ==
  /\ \A a \in Account : map[a] # workers[a] => worker[workers[a]].closing
  /\ \A t \in Sync \ {s} : Running(t) =>
       IF link[sync[t].conn] = "leaving"
       THEN map[sync[t].account] = sync[t].worker /\ objs[sync[t].worker].client = sync[t].conn
       ELSE sync[t].account \notin want

\* Who is wanted, and who has a worker, when the turn begins.
NeedTurn(s, want, map) ==
  \A b \in Desired' :
    \/ map[b] # None /\ ~worker[map[b]].closing
    \/ b \in missed
    \/ b \in want
    \/ \E t \in Sync \ {s} : Running(t) /\ b \in sync[t].want

SurplusTurn(s, want, map) ==
  \A b \in Account : map[b] # None =>
    \/ b \in Desired'
    \/ b \in missed
    \/ b \notin want
    \/ \E t \in Sync \ {s} : Running(t) /\ b \notin sync[t].want

\* The invariant but for the types and the count, after the turn.
Rest == SocketInv /\ SyncInv /\ TimersFollowLife /\ CalmInv /\ LiveWorkersAreMapped
          /\ NeedInv /\ SurplusInv

\* stop() marks the worker and clears its timers.
LEMMA StoppedObject ==
  ASSUME NEW k \in WorkerObject
  PROVE  /\ Stopped(k) \in WorkerObject
         /\ Stopped(k).closing /\ ~Stopped(k).reconnect /\ Stopped(k).client = k.client
BY DEF Stopped, WorkerObject

\* s stops the worker of account a and waits; quick are those it stopped in passing.
Stops(s, want, map, objs, a, quick) ==
  /\ a \in Account \ want /\ map[a] \in Worker /\ objs[map[a]].client \in Conn
  /\ quick \in SUBSET (Account \ want) /\ a \notin quick
  /\ \A b \in quick : map[b] \in Worker /\ objs[map[b]].client = None
  /\ \A b \in Account : workers'[b] = IF b \in quick THEN None ELSE map[b]
  /\ \A x \in Worker : worker'[x] =
       IF x = map[a] \/ \E b \in quick : x = map[b] THEN Stopped(objs[x]) ELSE objs[x]
  /\ \A d \in Conn : link'[d] = IF d = objs[map[a]].client THEN "leaving" ELSE link[d]
  /\ sync'[s] = [want |-> want, account |-> a, worker |-> map[a], conn |-> objs[map[a]].client]
  /\ \A t \in Sync \ {s} : sync'[t] = sync[t]
  /\ \A b \in Account : b \in missed' <=>
       IF b = a \/ b \in quick THEN b \in Desired' ELSE b \in missed
  /\ UNCHANGED <<holder, trouble>>

\* StopNext, in those terms, and its types.
LEMMA Stopping ==
  ASSUME NEW s, NEW want, NEW map, NEW objs, Turn(s, want, map, objs), StopNext(s, want, map, objs)
  PROVE  TypeOK' /\ \E a, quick : Stops(s, want, map, objs, a, quick)
<1>1. PICK a \in {b \in Account : map[b] # None /\ b \notin want},
           quick \in SUBSET {b \in Account \ want : map[b] # None /\ objs[map[b]].client = None} :
        LET w == map[a]
            c == objs[w].client
        IN  /\ c # None
            /\ workers' = [b \in Account |-> IF b \in quick THEN None ELSE map[b]]
            /\ worker' = [x \in Worker |->
                 IF x = w \/ \E b \in quick : x = map[b] THEN Stopped(objs[x]) ELSE objs[x]]
            /\ link' = [link EXCEPT ![c] = "leaving"]
            /\ sync' = [sync EXCEPT ![s] = [want |-> want, account |-> a, worker |-> w, conn |-> c]]
            /\ missed' = (missed \ (quick \cup {a})) \cup ((quick \cup {a}) \cap Desired')
            /\ UNCHANGED <<holder, trouble>>
  BY DEF StopNext
<1>2. map[a] \in Worker /\ objs[map[a]].client \in Conn /\ \A b \in quick : map[b] \in Worker
  BY <1>1 DEF Turn, WorkerObject
<1>3. \A x \in Worker : Stopped(objs[x]) \in WorkerObject
  BY StoppedObject DEF Turn
<1>4. /\ workers' \in [Account -> Worker \cup {None}] /\ worker' \in [Worker -> WorkerObject]
      /\ link' \in [Conn -> {"dial", "select", "idle", "stray", "leaving", "closed"}]
      /\ missed' \subseteq Account
  BY <1>1, <1>2, <1>3 DEF Turn, TypeOK, Desired
<1>5. sync' \in [Sync -> SyncCall]
  BY <1>1, <1>2 DEF Turn, TypeOK, SyncCall
<1>6. TypeOK'
  BY <1>1, <1>4, <1>5 DEF Turn, TypeOK, DemandOK, SyncCall, WorkerObject
<1>7. a \notin quick /\ quick \in SUBSET (Account \ want) /\ \A b \in quick : objs[map[b]].client = None
  BY <1>1
<1>8. /\ \A d \in Conn : link'[d] = IF d = objs[map[a]].client THEN "leaving" ELSE link[d]
      /\ sync'[s] = [want |-> want, account |-> a, worker |-> map[a], conn |-> objs[map[a]].client]
      /\ \A t \in Sync \ {s} : sync'[t] = sync[t]
  BY <1>1 DEF Turn, TypeOK
<1>9. Stops(s, want, map, objs, a, quick)
  BY <1>1, <1>2, <1>7, <1>8 DEF Stops
<1>. QED
  BY <1>6, <1>9

\* What stopping does to the workers and the calls.
LEMMA StopEffects ==
  ASSUME NEW s, NEW want, NEW map, NEW objs, NEW a, NEW quick,
         Turn(s, want, map, objs), Stops(s, want, map, objs, a, quick)
  PROVE  /\ \A x \in Worker :
              /\ worker'[x].client = objs[x].client
              /\ worker'[x].client \in {worker[x].client, None}
              /\ worker[x].closing => worker'[x].closing
              /\ worker'[x].reconnect => worker[x].reconnect
              /\ worker'[x].closing => ~worker'[x].reconnect
              /\ ~worker'[x].closing =>
                   worker'[x] = worker[x] /\ x # map[a] /\ \A b \in quick : x # map[b]
         /\ holder[objs[map[a]].client] = map[a]
         /\ link[objs[map[a]].client] \in {"idle", "leaving"}
         /\ worker'[map[a]].closing
         /\ Running(s)' /\ \A t \in Sync \ {s} : Running(t)' <=> Running(t)
<1>1. ASSUME NEW x \in Worker
      PROVE  /\ worker'[x].client = objs[x].client
             /\ worker'[x].client \in {worker[x].client, None}
             /\ worker[x].closing => worker'[x].closing
             /\ worker'[x].reconnect => worker[x].reconnect
             /\ worker'[x].closing => ~worker'[x].reconnect
             /\ ~worker'[x].closing =>
                   worker'[x] = worker[x] /\ x # map[a] /\ \A b \in quick : x # map[b]
  <2>1. worker[x] \in WorkerObject /\ objs[x] \in WorkerObject
    BY DEF Turn, TypeOK, WorkerObject
  <2>2. /\ objs[x].closing = worker[x].closing /\ objs[x].reconnect = worker[x].reconnect
        /\ objs[x].client \in {worker[x].client, None}
        /\ ~worker[x].closing => objs[x] = worker[x]
    BY <2>1 DEF Turn, WorkerObject
  <2>3. worker[x].closing => ~worker[x].reconnect
    BY DEF Turn, TimersFollowLife
  <2>4. /\ Stopped(objs[x]).closing /\ ~Stopped(objs[x]).reconnect
        /\ Stopped(objs[x]).client = objs[x].client
    BY <2>1, StoppedObject
  <2>5. CASE x = map[a] \/ \E b \in quick : x = map[b]
    <3>1. worker'[x] = Stopped(objs[x])
      BY <2>5 DEF Stops
    <3>. QED
      BY <2>2, <2>4, <3>1
  <2>6. CASE ~(x = map[a] \/ \E b \in quick : x = map[b])
    <3>1. worker'[x] = objs[x]
      BY <2>6 DEF Stops
    <3>. QED
      BY <2>2, <2>3, <2>6, <3>1
  <2>. QED
    BY <2>5, <2>6
<1>2. worker'[map[a]].closing
  BY <1>1 DEF Stops
<1>3. objs[map[a]].client = worker[map[a]].client /\ worker[map[a]].client # None
  BY <1>1, NoneAssumption DEF Stops
<1>4. holder[objs[map[a]].client] = map[a] /\ link[objs[map[a]].client] \in {"idle", "leaving"}
  BY <1>3 DEF Turn, SocketInv, Stops
<1>5. Running(s)' /\ \A t \in Sync \ {s} : Running(t)' <=> Running(t)
  BY NoneAssumption DEF Stops, Running, NotSyncing
<1>. QED
  BY <1>1, <1>2, <1>4, <1>5

\* A turn that ends in the wait for a logout.
LEMMA StopKeeps ==
  ASSUME NEW s, NEW want, NEW map, NEW objs, NEW a, NEW quick,
         Turn(s, want, map, objs), Stops(s, want, map, objs, a, quick), TypeOK',
         CalmInv, LiveWorkersAreMapped,
         "refusal" \notin trouble => CalmTurn(s, want, map, objs) /\ NeedTurn(s, want, map),
         "expiry" \notin trouble => SurplusTurn(s, want, map)
  PROVE  Rest'
<1>. DEFINE c == objs[map[a]].client
<1>. USE NoneAssumption
<1>0. /\ c \in Conn /\ map[a] \in Worker /\ a \in Account \ want /\ s \in Sync /\ a \notin quick
      /\ workers \in [Account -> Worker \cup {None}] /\ workers' \in [Account -> Worker \cup {None}]
      /\ holder' = holder /\ trouble' = trouble
      /\ holder \in [Conn -> Worker \cup {None}]
      /\ quick \in SUBSET Account /\ \A b \in quick : map[b] \in Worker /\ objs[map[b]].client = None
  BY DEF Turn, Stops, TypeOK
<1>1. \A x \in Worker :
        /\ worker'[x].client = objs[x].client
        /\ worker'[x].client \in {worker[x].client, None}
        /\ worker[x].closing => worker'[x].closing
        /\ worker'[x].reconnect => worker[x].reconnect
        /\ worker'[x].closing => ~worker'[x].reconnect
        /\ ~worker'[x].closing =>
             worker'[x] = worker[x] /\ x # map[a] /\ \A b \in quick : x # map[b]
  BY StopEffects
<1>2. holder[c] = map[a] /\ link[c] \in {"idle", "leaving"} /\ worker'[map[a]].closing
  BY StopEffects
<1>3. Running(s)' /\ \A t \in Sync \ {s} : Running(t)' <=> Running(t)
  BY StopEffects
<1>4. /\ \A d \in Conn : link'[d] = IF d = c THEN "leaving" ELSE link[d]
      /\ sync'[s] = [want |-> want, account |-> a, worker |-> map[a], conn |-> c]
      /\ \A t \in Sync \ {s} : sync'[t] = sync[t]
  BY DEF Stops
<1>5. /\ \A b \in Account : workers'[b] = IF b \in quick THEN None ELSE map[b]
      /\ \A b \in Account : map[b] \in {workers[b], None}
  BY DEF Stops, Turn
<1>6. SocketInv'
  <2>1. \A d \in Conn : link'[d] = "closed" <=> holder'[d] = None
    BY <1>0, <1>2, <1>4 DEF Turn, SocketInv
  <2>2. ASSUME NEW d \in Conn, link'[d] = "leaving" PROVE worker'[holder'[d]].closing
    <3>1. CASE d = c
      BY <1>0, <1>2, <3>1
    <3>2. CASE d # c
      <4>1. link[d] = "leaving" /\ holder[d] \in Worker /\ worker[holder[d]].closing
        BY <1>0, <1>4, <2>2, <3>2 DEF Turn, SocketInv
      <4>. QED
        BY <1>0, <1>1, <4>1
    <3>. QED
      BY <3>1, <3>2
  <2>3. ASSUME NEW x \in Worker, worker'[x].client # None
        PROVE  holder'[worker'[x].client] = x /\ link'[worker'[x].client] \in {"idle", "leaving"}
    <3>1. worker'[x].client = worker[x].client /\ worker[x].client \in Conn
      BY <1>1, <2>3 DEF Turn, TypeOK
    <3>. QED
      BY <1>0, <1>4, <2>3, <3>1 DEF Turn, SocketInv
  <2>. QED
    BY <2>1, <2>2, <2>3 DEF SocketInv
<1>7. SyncInv'
  <2>1. ASSUME NEW t \in Sync, Running(t)'
        PROVE  /\ sync'[t].account \in Account \ sync'[t].want
               /\ sync'[t].worker \in Worker /\ worker'[sync'[t].worker].closing
               /\ sync'[t].conn \in Conn /\ link'[sync'[t].conn] \in {"leaving", "closed"}
    <3>1. CASE t = s
      BY <1>0, <1>2, <1>4, <3>1
    <3>2. CASE t # s
      BY <1>1, <1>3, <1>4, <2>1, <3>2 DEF Turn, SyncInv
    <3>. QED
      BY <3>1, <3>2
  <2>2. \A t \in Sync : Resumable(t)' => t # s /\ Resumable(t) /\ sync'[t].conn = sync[t].conn
    <3>. SUFFICES ASSUME NEW t \in Sync, Resumable(t)'
                  PROVE  t # s /\ Resumable(t) /\ sync'[t].conn = sync[t].conn
      OBVIOUS
    <3>1. t # s
      BY <1>0, <1>4 DEF Resumable
    <3>2. sync'[t].conn = sync[t].conn /\ Running(t) /\ sync[t].conn \in Conn
      BY <1>3, <1>4, <3>1 DEF Resumable, Turn, SyncInv
    <3>. QED
      BY <1>2, <1>4, <3>1, <3>2 DEF Resumable
  <2>. QED
    BY <2>1, <2>2 DEF Turn, SyncInv
<1>8. ASSUME NEW x \in Worker, NEW b \in Account, workers'[b] = x, ~worker'[x].closing
      PROVE  workers[b] = x /\ ~worker[x].closing /\ worker'[x] = worker[x]
  BY <1>0, <1>1, <1>5, <1>8
<1>9. TimersFollowLife'
  <2>. SUFFICES ASSUME NEW x \in Worker
                PROVE  /\ Live(x)' => worker'[x].client # None \/ worker'[x].reconnect \/ Connecting(x)'
                       /\ Live(x)' /\ worker'[x].client # None =>
                            worker'[x].refresh \/ worker'[x].reconnect \/ Connecting(x)'
                       /\ worker'[x].closing => ~worker'[x].reconnect
    BY DEF TimersFollowLife
  <2>1. Live(x)' => Live(x) /\ worker'[x] = worker[x]
    BY <1>8 DEF Live
  <2>2. Connecting(x) => Connecting(x)'
    BY <1>0, <1>2, <1>4 DEF Connecting
  <2>. QED
    BY <1>1, <2>1, <2>2 DEF Turn, TimersFollowLife
<1>10. ASSUME "refusal" \notin trouble PROVE OneSocket' /\ OwnEntry'
  <2>1. OneSocket /\ OwnEntry /\ CalmTurn(s, want, map, objs)
    BY <1>10 DEF CalmInv
  <2>2. OneSocket'
    BY <1>0, <1>1, <1>4, <1>5, <2>1 DEF OneSocket
  <2>3. ASSUME NEW t \in Sync \ {s}, Running(t)
        PROVE  /\ sync[t].account \in Account /\ sync[t].worker \in Worker /\ sync[t].conn \in Conn
               /\ link[sync[t].conn] \in {"leaving", "closed"}
    BY <2>3 DEF Turn, SyncInv
  <2>4. ASSUME NEW t \in Sync \ {s}, Running(t), sync[t].conn = c
        PROVE  sync[t].account = a /\ sync[t].worker = map[a]
    <3>1. map[sync[t].account] = sync[t].worker /\ objs[sync[t].worker].client = c
      BY <1>2, <2>1, <2>3, <2>4 DEF CalmTurn
    <3>2. worker[sync[t].worker].client = c
      BY <1>0, <1>1, <2>3, <2>4, <3>1
    <3>3. sync[t].worker = map[a]
      BY <1>0, <1>2, <2>3, <2>4, <3>2 DEF Turn, SocketInv
    <3>. QED
      BY <1>0, <1>5, <2>1, <2>3, <2>4, <3>1, <3>3 DEF OneSocket
  <2>5. ASSUME NEW t \in Sync, Running(t)'
        PROVE  CASE link'[sync'[t].conn] = "leaving" ->
                      /\ workers'[sync'[t].account] = sync'[t].worker
                      /\ worker'[sync'[t].worker].client = sync'[t].conn
                 [] link'[sync'[t].conn] = "closed" ->
                      /\ workers'[sync'[t].account] \in {sync'[t].worker, None}
                      /\ \A d \in Conn : holder'[d] # sync'[t].worker
    <3>1. CASE t = s
      <4>1. link'[sync'[s].conn] = "leaving" /\ sync'[s].account = a /\ sync'[s].worker = map[a]
        BY <1>0, <1>4
      <4>2. workers'[a] = map[a] /\ worker'[map[a]].client = c /\ sync'[s].conn = c
        BY <1>0, <1>1, <1>4, <1>5
      <4>. QED
        BY <3>1, <4>1, <4>2
    <3>2. CASE t # s /\ link[sync[t].conn] = "leaving"
      <4>1. Running(t) /\ sync'[t] = sync[t]
        BY <1>3, <1>4, <2>5, <3>2
      <4>2. map[sync[t].account] = sync[t].worker /\ objs[sync[t].worker].client = sync[t].conn
        BY <2>1, <3>2, <4>1 DEF CalmTurn
      <4>3. sync[t].account \notin quick
        BY <1>0, <2>3, <3>2, <4>1, <4>2
      <4>4. link'[sync[t].conn] = "leaving"
        BY <1>4, <2>3, <3>2, <4>1
      <4>. QED
        BY <1>1, <1>5, <2>3, <3>2, <4>1, <4>2, <4>3, <4>4
    <3>3. CASE t # s /\ link[sync[t].conn] # "leaving"
      <4>1. Running(t) /\ sync'[t] = sync[t]
        BY <1>3, <1>4, <2>5, <3>3
      <4>2. link[sync[t].conn] = "closed" /\ link'[sync[t].conn] = "closed"
        BY <1>2, <1>4, <2>3, <3>3, <4>1
      <4>3. /\ workers[sync[t].account] \in {sync[t].worker, None}
            /\ \A d \in Conn : holder[d] # sync[t].worker
        BY <2>1, <3>3, <4>1, <4>2 DEF OwnEntry
      <4>. QED
        BY <1>0, <1>5, <2>3, <3>3, <4>1, <4>2, <4>3
    <3>. QED
      BY <3>1, <3>2, <3>3
  <2>6. ASSUME NEW t \in Sync, NEW u \in Sync, Running(t)', Running(u)', sync'[t].conn = sync'[u].conn
        PROVE  sync'[t].account = sync'[u].account /\ sync'[t].worker = sync'[u].worker
    <3>1. CASE t # s /\ u # s
      BY <1>3, <1>4, <2>1, <2>6, <3>1 DEF OwnEntry
    <3>2. CASE t = s /\ u # s
      BY <1>3, <1>4, <2>4, <2>6, <3>2
    <3>3. CASE t # s /\ u = s
      BY <1>3, <1>4, <2>4, <2>6, <3>3
    <3>. QED
      BY <3>1, <3>2, <3>3
  <2>. QED
    BY <2>2, <2>5, <2>6 DEF OwnEntry
<1>11. LiveWorkersAreMapped'
  <2>. SUFFICES ASSUME "refusal" \notin trouble, NEW x \in Worker, ~worker'[x].closing,
                       worker'[x].reconnect \/ \E d \in Conn : holder'[d] = x
                                                 /\ link'[d] \in {"dial", "select", "idle"}
                PROVE  x \in Range(workers')
    BY <1>0 DEF LiveWorkersAreMapped, Range
  <2>1. ~worker[x].closing /\ worker'[x] = worker[x]
    BY <1>1
  <2>2. worker[x].reconnect \/ \E d \in Conn : holder[d] = x /\ link[d] \in {"dial", "select", "idle"}
    BY <1>0, <1>4, <2>1
  <2>3. PICK b \in Account : workers[b] = x
    BY <1>0, <2>1, <2>2 DEF LiveWorkersAreMapped, Range
  <2>4. map[b] = x /\ b \notin quick
    BY <1>1, <1>5, <2>1, <2>3 DEF CalmTurn
  <2>5. workers'[b] = x
    BY <1>5, <2>4
  <2>. QED
    BY <1>0, <2>5 DEF Range
<1>12. ASSUME "refusal" \notin trouble, NEW b \in Desired'
       PROVE  \/ workers'[b] # None /\ ~worker'[workers'[b]].closing
              \/ b \in missed'
              \/ \E t \in Sync : Running(t)' /\ b \in sync'[t].want
  <2>1. b \in Account /\ NeedTurn(s, want, map)
    BY <1>12 DEF Desired
  <2>2. CASE b = a \/ b \in quick
    BY <1>12, <2>1, <2>2 DEF Stops
  <2>3. CASE b # a /\ b \notin quick /\ map[b] # None /\ ~worker[map[b]].closing
    <3>1. workers'[b] = map[b] /\ map[b] \in Worker /\ workers[b] = map[b]
      BY <1>0, <1>5, <2>1, <2>3
    <3>2. map[b] # map[a] /\ \A q \in quick : map[b] # map[q]
      BY <1>0, <1>5, <1>12, <2>1, <2>3, <3>1 DEF CalmInv, OneSocket
    <3>3. worker'[map[b]] = objs[map[b]]
      BY <3>1, <3>2 DEF Stops
    <3>4. objs[map[b]] = worker[map[b]]
      BY <2>3, <3>1 DEF Turn
    <3>. QED
      BY <2>3, <3>1, <3>3, <3>4
  <2>4. CASE b # a /\ b \notin quick /\ b \in missed
    BY <2>1, <2>4 DEF Stops
  <2>5. CASE b \in want
    BY <1>0, <1>3, <1>4, <2>5
  <2>6. CASE \E t \in Sync \ {s} : Running(t) /\ b \in sync[t].want
    BY <1>3, <1>4, <2>6
  <2>. QED
    BY <1>12, <2>1, <2>2, <2>3, <2>4, <2>5, <2>6 DEF NeedTurn
<1>13. ASSUME "expiry" \notin trouble, NEW b \in Account, workers'[b] # None
       PROVE  \/ b \in Desired'
              \/ b \in missed'
              \/ \E t \in Sync : Running(t)' /\ b \notin sync'[t].want
  <2>1. map[b] # None /\ b \notin quick /\ SurplusTurn(s, want, map)
    BY <1>5, <1>13
  <2>2. CASE b \notin want
    BY <1>0, <1>3, <1>4, <2>2
  <2>3. CASE b \in missed /\ b \in want
    BY <1>0, <2>1, <2>3 DEF Stops
  <2>4. CASE \E t \in Sync \ {s} : Running(t) /\ b \notin sync[t].want
    BY <1>3, <1>4, <2>4
  <2>. QED
    BY <2>1, <2>2, <2>3, <2>4 DEF SurplusTurn
<1>14. CalmInv' /\ NeedInv' /\ SurplusInv'
  BY <1>0, <1>10, <1>12, <1>13 DEF CalmInv, NeedInv, SurplusInv
<1>. QED
  BY <1>6, <1>7, <1>9, <1>11, <1>14 DEF Rest

\* s ends: it stops the workers of over, and starts those of new.
Starts(s, want, map, objs, over, new, w, c) ==
  /\ over = {b \in Account : map[b] # None /\ b \notin want}
  /\ new = {b \in want : map[b] = None}
  /\ \A b \in over : map[b] \in Worker /\ objs[map[b]].client = None
  /\ \A b \in new : w[b] \in Worker /\ UnusedWorker(w[b]) /\ c[b] \in Conn /\ UnusedConn(c[b])
  /\ \A b, d \in new : w[b] = w[d] \/ c[b] = c[d] => b = d
  /\ \A b \in Account : workers'[b] =
       IF b \in over THEN None ELSE IF b \in new THEN w[b] ELSE map[b]
  /\ \A x \in Worker : worker'[x] =
       IF \E b \in new : x = w[b] THEN Fresh
       ELSE IF \E b \in over : x = map[b] THEN Stopped(objs[x]) ELSE objs[x]
  /\ \A b \in new : link'[c[b]] = "dial" /\ holder'[c[b]] = w[b]
  /\ \A d \in Conn : (\A b \in new : c[b] # d) => link'[d] = link[d] /\ holder'[d] = holder[d]
  /\ sync'[s] = NotSyncing /\ \A t \in Sync \ {s} : sync'[t] = sync[t]
  /\ \A b \in Account : b \in missed' <=>
       CASE b \in new -> b \notin Desired'
         [] b \in over -> b \in Desired'
         [] b \notin new \cup over ->
              b \in missed \/ (b \in want /\ map[b] # None /\ objs[map[b]].closing)
  /\ UNCHANGED trouble

\* StartMissing, in those terms, and its types.
LEMMA Starting ==
  ASSUME NEW s, NEW want, NEW map, NEW objs, Turn(s, want, map, objs), StartMissing(s, want, map, objs)
  PROVE  TypeOK' /\ \E over, new, w, c : Starts(s, want, map, objs, over, new, w, c)
<1>. USE NoneAssumption
<1>. DEFINE over == {b \in Account : map[b] # None /\ b \notin want}
            new == {b \in want : map[b] = None}
            freeW == {x \in Worker : UnusedWorker(x)}
            freeC == {x \in Conn : UnusedConn(x)}
<1>1. PICK w \in OneOf(Fit(new, freeW)), c \in OneOf(Fit(new, freeC)) :
        /\ workers' = [b \in Account |-> CASE b \in over -> None
                                           [] b \in new -> w[b]
                                           [] OTHER -> map[b]]
        /\ worker' = [x \in Worker |->
             CASE x \in Range(w) -> Fresh
               [] \E b \in over : x = map[b] -> Stopped(objs[x])
               [] OTHER -> objs[x]]
        /\ link' = [x \in Conn |-> IF x \in Range(c) THEN "dial" ELSE link[x]]
        /\ holder' = [x \in Conn |->
             IF x \in Range(c) THEN w[CHOOSE b \in new : c[b] = x] ELSE holder[x]]
  BY Zenon DEF StartMissing
<1>2. /\ \A b \in over : objs[map[b]].client = None
      /\ sync' = [sync EXCEPT ![s] = NotSyncing]
      /\ missed' = (missed \ (new \cup over)) \cup (over \cap Desired') \cup (new \ Desired') \cup
                      {b \in want : map[b] # None /\ objs[map[b]].closing}
      /\ UNCHANGED trouble
  BY DEF StartMissing
<1>3. w \in [new -> freeW] /\ IsInjective(w) /\ c \in [new -> freeC] /\ IsInjective(c)
  BY DEF OneOf, Fit
<1>4. /\ \A b \in new : w[b] \in Worker /\ UnusedWorker(w[b]) /\ c[b] \in Conn /\ UnusedConn(c[b])
      /\ \A b, d \in new : w[b] = w[d] \/ c[b] = c[d] => b = d
      /\ \A x : x \in Range(w) <=> \E b \in new : x = w[b]
      /\ \A x : x \in Range(c) <=> \E b \in new : x = c[b]
  BY <1>3 DEF IsInjective, Range
<1>5. over \subseteq Account /\ new \subseteq Account /\ over \cap new = {}
      /\ (\A b \in over : map[b] \in Worker) /\ \A b \in Account \ over : map[b] \in Worker \cup {None}
  BY DEF Turn
<1>6. \A b \in Account : workers'[b] =
        IF b \in over THEN None ELSE IF b \in new THEN w[b] ELSE map[b]
  BY <1>1
<1>7. \A x \in Worker : worker'[x] =
        IF \E b \in new : x = w[b] THEN Fresh
        ELSE IF \E b \in over : x = map[b] THEN Stopped(objs[x]) ELSE objs[x]
  <2>1. \A b \in over, d \in new : map[b] # w[d]
    <3>. SUFFICES ASSUME NEW b \in over, NEW d \in new, map[b] = w[d] PROVE FALSE
      OBVIOUS
    <3>1. workers[b] = w[d] /\ b \in DOMAIN workers
      BY <1>5 DEF Turn, TypeOK
    <3>. QED
      BY <1>4, <3>1 DEF UnusedWorker, Range
  <2>. QED
    BY <1>1, <1>4, <2>1
<1>8. \A b \in new : link'[c[b]] = "dial" /\ holder'[c[b]] = w[b]
  <2>. SUFFICES ASSUME NEW b \in new PROVE link'[c[b]] = "dial" /\ holder'[c[b]] = w[b]
    OBVIOUS
  <2>1. c[b] \in Conn /\ c[b] \in Range(c)
    BY <1>4
  <2>2. (CHOOSE d \in new : c[d] = c[b]) = b
    BY <1>4
  <2>. QED
    BY <1>1, <2>1, <2>2
<1>9. \A d \in Conn : (\A b \in new : c[b] # d) => link'[d] = link[d] /\ holder'[d] = holder[d]
  BY <1>1, <1>4
<1>10. sync'[s] = NotSyncing /\ \A t \in Sync \ {s} : sync'[t] = sync[t]
  BY <1>2 DEF Turn, TypeOK
<1>11. \A b \in Account : b \in missed' <=>
         CASE b \in new -> b \notin Desired'
           [] b \in over -> b \in Desired'
           [] b \notin new \cup over ->
                b \in missed \/ (b \in want /\ map[b] # None /\ objs[map[b]].closing)
  BY <1>2, <1>5
<1>12. Starts(s, want, map, objs, over, new, w, c)
  BY <1>2, <1>4, <1>5, <1>6, <1>7, <1>8, <1>9, <1>10, <1>11 DEF Starts
<1>13. TypeOK'
  <2>1. workers' \in [Account -> Worker \cup {None}]
    BY <1>1, <1>4, <1>5, <1>6
  <2>2. worker' \in [Worker -> WorkerObject]
    <3>1. \A x \in Worker : objs[x] \in WorkerObject /\ Stopped(objs[x]) \in WorkerObject
      BY StoppedObject DEF Turn
    <3>2. Fresh \in WorkerObject
      BY DEF Fresh, WorkerObject
    <3>3. \A x \in Worker : worker'[x] \in WorkerObject
      BY <1>7, <3>1, <3>2
    <3>. QED
      BY <1>1, <3>3
  <2>3. link' \in [Conn -> {"dial", "select", "idle", "stray", "leaving", "closed"}]
    BY <1>1 DEF Turn, TypeOK
  <2>4. holder' \in [Conn -> Worker \cup {None}]
    <3>1. \A d \in Conn : holder'[d] \in Worker \cup {None}
      BY <1>4, <1>8, <1>9 DEF Turn, TypeOK
    <3>. QED
      BY <1>1, <3>1
  <2>5. sync' \in [Sync -> SyncCall]
    BY <1>2 DEF Turn, TypeOK, SyncCall, NotSyncing
  <2>6. missed' \subseteq Account
    BY <1>2, <1>5 DEF Turn, TypeOK
  <2>. QED
    BY <1>2, <2>1, <2>2, <2>3, <2>4, <2>5, <2>6 DEF Turn, TypeOK, DemandOK, SyncCall, WorkerObject
<1>. QED
  BY <1>12, <1>13

\* What starting does to the workers, the sockets and the calls.
LEMMA StartEffects ==
  ASSUME NEW s, NEW want, NEW map, NEW objs, NEW over, NEW new, NEW w, NEW c,
         Turn(s, want, map, objs), Starts(s, want, map, objs, over, new, w, c)
  PROVE  /\ \A b \in new :
              /\ \A a \in Account : workers[a] # w[b]
              /\ ~worker[w[b]].reconnect
              /\ \A d \in Conn : holder[d] # w[b]
              /\ \A t \in Sync : sync[t].worker # w[b] /\ sync[t].conn # c[b]
              /\ link[c[b]] = "closed"
              /\ worker'[w[b]] = Fresh
         /\ \A x \in Worker : (\A b \in new : x # w[b]) =>
              /\ worker'[x].client = objs[x].client
              /\ worker'[x].client \in {worker[x].client, None}
              /\ worker[x].closing => worker'[x].closing
              /\ worker'[x].reconnect => worker[x].reconnect
              /\ worker'[x].closing => ~worker'[x].reconnect
              /\ ~worker'[x].closing =>
                   worker'[x] = worker[x] /\ \A b \in over : x # map[b]
         /\ ~Running(s)' /\ \A t \in Sync \ {s} : Running(t)' <=> Running(t)
<1>1. ASSUME NEW b \in new
      PROVE  /\ \A a \in Account : workers[a] # w[b]
             /\ ~worker[w[b]].reconnect
             /\ \A d \in Conn : holder[d] # w[b]
             /\ \A t \in Sync : sync[t].worker # w[b] /\ sync[t].conn # c[b]
             /\ link[c[b]] = "closed"
             /\ worker'[w[b]] = Fresh
  <2>1. UnusedWorker(w[b]) /\ UnusedConn(c[b]) /\ w[b] \in Worker
    BY <1>1 DEF Starts
  <2>2. \A a \in Account : workers[a] # w[b]
    BY <2>1 DEF UnusedWorker, Range, Turn, TypeOK
  <2>3. \A d \in Conn : holder[d] # w[b]
    BY <2>1, NoneAssumption DEF UnusedWorker, Turn, SocketInv
  <2>4. worker'[w[b]] = Fresh
    BY <1>1, <2>1 DEF Starts
  <2>. QED
    BY <2>1, <2>2, <2>3, <2>4 DEF UnusedWorker, UnusedConn
<1>2. ASSUME NEW x \in Worker, \A b \in new : x # w[b]
      PROVE  /\ worker'[x].client = objs[x].client
             /\ worker'[x].client \in {worker[x].client, None}
             /\ worker[x].closing => worker'[x].closing
             /\ worker'[x].reconnect => worker[x].reconnect
             /\ worker'[x].closing => ~worker'[x].reconnect
             /\ ~worker'[x].closing =>
                   worker'[x] = worker[x] /\ \A b \in over : x # map[b]
  <2>1. worker[x] \in WorkerObject /\ objs[x] \in WorkerObject
    BY DEF Turn, TypeOK, WorkerObject
  <2>2. /\ objs[x].closing = worker[x].closing /\ objs[x].reconnect = worker[x].reconnect
        /\ objs[x].client \in {worker[x].client, None}
        /\ ~worker[x].closing => objs[x] = worker[x]
    BY <2>1 DEF Turn, WorkerObject
  <2>3. worker[x].closing => ~worker[x].reconnect
    BY DEF Turn, TimersFollowLife
  <2>4. /\ Stopped(objs[x]).closing /\ ~Stopped(objs[x]).reconnect
        /\ Stopped(objs[x]).client = objs[x].client
    BY <2>1, StoppedObject
  <2>5. CASE \E b \in over : x = map[b]
    <3>1. worker'[x] = Stopped(objs[x])
      BY <1>2, <2>5 DEF Starts
    <3>. QED
      BY <2>2, <2>4, <3>1
  <2>6. CASE ~\E b \in over : x = map[b]
    <3>1. worker'[x] = objs[x]
      BY <1>2, <2>6 DEF Starts
    <3>. QED
      BY <2>2, <2>3, <2>6, <3>1
  <2>. QED
    BY <2>5, <2>6
<1>3. ~Running(s)' /\ \A t \in Sync \ {s} : Running(t)' <=> Running(t)
  BY DEF Starts, Running, NotSyncing
<1>. QED
  BY <1>1, <1>2, <1>3

\* A turn that ends the call.
LEMMA StartKeeps ==
  ASSUME NEW s, NEW want, NEW map, NEW objs, NEW over, NEW new, NEW w, NEW c,
         Turn(s, want, map, objs), Starts(s, want, map, objs, over, new, w, c), TypeOK',
         CalmInv, LiveWorkersAreMapped,
         "refusal" \notin trouble => CalmTurn(s, want, map, objs) /\ NeedTurn(s, want, map),
         "expiry" \notin trouble => SurplusTurn(s, want, map)
  PROVE  Rest'
<1>. USE NoneAssumption
<1>0. /\ s \in Sync /\ over \subseteq Account /\ new \subseteq Account /\ trouble' = trouble
      /\ over = {b \in Account : map[b] # None /\ b \notin want} /\ new = {b \in want : map[b] = None}
      /\ workers \in [Account -> Worker \cup {None}] /\ workers' \in [Account -> Worker \cup {None}]
      /\ map \in [Account -> Worker \cup {None}] /\ \A b \in Account : map[b] \in {workers[b], None}
      /\ holder \in [Conn -> Worker \cup {None}] /\ want \subseteq Account
  BY DEF Turn, Starts, TypeOK
<1>1. /\ \A b \in new : w[b] \in Worker /\ c[b] \in Conn
      /\ \A b, d \in new : w[b] = w[d] \/ c[b] = c[d] => b = d
      /\ \A b \in new : link'[c[b]] = "dial" /\ holder'[c[b]] = w[b]
      /\ \A d \in Conn : (\A b \in new : c[b] # d) => link'[d] = link[d] /\ holder'[d] = holder[d]
      /\ \A t \in Sync \ {s} : sync'[t] = sync[t]
      /\ \A b \in over : map[b] \in Worker /\ objs[map[b]].client = None
  BY DEF Starts
<1>2. \A b \in Account : workers'[b] =
        IF b \in over THEN None ELSE IF b \in new THEN w[b] ELSE map[b]
  BY DEF Starts
<1>3. \A b \in new :
        /\ \A a \in Account : workers[a] # w[b]
        /\ ~worker[w[b]].reconnect
        /\ \A d \in Conn : holder[d] # w[b]
        /\ \A t \in Sync : sync[t].worker # w[b] /\ sync[t].conn # c[b]
        /\ link[c[b]] = "closed"
        /\ worker'[w[b]] = Fresh
  BY StartEffects
<1>4. \A x \in Worker : (\A b \in new : x # w[b]) =>
        /\ worker'[x].client = objs[x].client
        /\ worker'[x].client \in {worker[x].client, None}
        /\ worker[x].closing => worker'[x].closing
        /\ worker'[x].reconnect => worker[x].reconnect
        /\ worker'[x].closing => ~worker'[x].reconnect
        /\ ~worker'[x].closing =>
             worker'[x] = worker[x] /\ \A b \in over : x # map[b]
  BY StartEffects
<1>5. ~Running(s)' /\ \A t \in Sync \ {s} : Running(t)' <=> Running(t)
  BY StartEffects
<1>6. \A d \in Conn : link[d] # "closed" => link'[d] = link[d] /\ holder'[d] = holder[d]
  BY <1>1, <1>3
<1>7. \A b \in new : ~worker'[w[b]].closing /\ worker'[w[b]].client = None /\ ~worker'[w[b]].reconnect
  BY <1>3 DEF Fresh
<1>8. SocketInv'
  <2>1. \A d \in Conn : link'[d] = "closed" <=> holder'[d] = None
    BY <1>1 DEF Turn, SocketInv
  <2>2. ASSUME NEW d \in Conn, link'[d] = "leaving" PROVE worker'[holder'[d]].closing
    <3>1. \A b \in new : c[b] # d
      BY <1>1, <2>2
    <3>2. link[d] = "leaving" /\ holder'[d] = holder[d] /\ holder[d] \in Worker /\ worker[holder[d]].closing
      BY <1>0, <1>1, <2>2, <3>1 DEF Turn, SocketInv
    <3>. QED
      BY <1>3, <1>4, <3>2
  <2>3. ASSUME NEW x \in Worker, worker'[x].client # None
        PROVE  holder'[worker'[x].client] = x /\ link'[worker'[x].client] \in {"idle", "leaving"}
    <3>1. \A b \in new : x # w[b]
      BY <1>7, <2>3
    <3>2. worker'[x].client = worker[x].client /\ worker[x].client \in Conn
      BY <1>4, <2>3, <3>1 DEF Turn, TypeOK
    <3>. QED
      BY <1>6, <2>3, <3>2 DEF Turn, SocketInv
  <2>. QED
    BY <2>1, <2>2, <2>3 DEF SocketInv
<1>9. ASSUME NEW t \in Sync, Running(t)'
      PROVE  /\ t # s /\ Running(t) /\ sync'[t] = sync[t]
             /\ sync[t].account \in Account \ sync[t].want
             /\ sync[t].worker \in Worker /\ worker'[sync[t].worker].closing
             /\ \A b \in new : sync[t].worker # w[b]
             /\ sync[t].conn \in Conn /\ link[sync[t].conn] \in {"leaving", "closed"}
             /\ link'[sync[t].conn] = link[sync[t].conn]
  <2>1. t # s /\ Running(t) /\ sync'[t] = sync[t]
    BY <1>1, <1>5, <1>9
  <2>2. /\ sync[t].account \in Account \ sync[t].want
        /\ sync[t].worker \in Worker /\ worker[sync[t].worker].closing
        /\ sync[t].conn \in Conn /\ link[sync[t].conn] \in {"leaving", "closed"}
    BY <2>1 DEF Turn, SyncInv
  <2>3. \A b \in new : sync[t].worker # w[b] /\ sync[t].conn # c[b]
    BY <1>3
  <2>. QED
    BY <1>1, <1>4, <2>1, <2>2, <2>3
<1>10. SyncInv'
  <2>1. \A t \in Sync : Resumable(t)' => Resumable(t) /\ sync'[t].conn = sync[t].conn
    <3>. SUFFICES ASSUME NEW t \in Sync, Resumable(t)' PROVE Resumable(t) /\ sync'[t].conn = sync[t].conn
      OBVIOUS
    <3>1. Running(t)' /\ link'[sync'[t].conn] = "closed"
      BY DEF Resumable
    <3>. QED
      BY <1>9, <3>1 DEF Resumable
  <2>2. \A t \in Sync : Running(t)' =>
          /\ sync'[t].account \in Account \ sync'[t].want
          /\ sync'[t].worker \in Worker /\ worker'[sync'[t].worker].closing
          /\ sync'[t].conn \in Conn /\ link'[sync'[t].conn] \in {"leaving", "closed"}
    BY <1>9
  <2>. QED
    BY <2>1, <2>2 DEF Turn, SyncInv
<1>11. TimersFollowLife'
  <2>. SUFFICES ASSUME NEW x \in Worker
                PROVE  /\ Live(x)' => worker'[x].client # None \/ worker'[x].reconnect \/ Connecting(x)'
                       /\ Live(x)' /\ worker'[x].client # None =>
                            worker'[x].refresh \/ worker'[x].reconnect \/ Connecting(x)'
                       /\ worker'[x].closing => ~worker'[x].reconnect
    BY DEF TimersFollowLife
  <2>1. CASE \E b \in new : x = w[b]
    <3>1. Connecting(x)'
      BY <1>1, <2>1 DEF Connecting
    <3>. QED
      BY <1>7, <2>1, <3>1
  <2>2. CASE \A b \in new : x # w[b]
    <3>1. Live(x)' => Live(x) /\ worker'[x] = worker[x]
      <4>. SUFFICES ASSUME NEW a \in Account, workers'[a] = x, ~worker'[x].closing
                    PROVE  Live(x) /\ worker'[x] = worker[x]
        BY DEF Live
      <4>1. workers[a] = x
        BY <1>0, <1>2, <2>2
      <4>. QED
        BY <1>4, <2>2, <4>1 DEF Live
    <3>2. Connecting(x) => Connecting(x)'
      BY <1>6 DEF Connecting
    <3>. QED
      BY <1>4, <2>2, <3>1, <3>2 DEF Turn, TimersFollowLife
  <2>. QED
    BY <2>1, <2>2
<1>12. ASSUME "refusal" \notin trouble PROVE OneSocket' /\ OwnEntry'
  <2>1. OneSocket /\ OwnEntry /\ CalmTurn(s, want, map, objs)
    BY <1>12 DEF CalmInv
  <2>2. OneSocket'
    <3>1. \A d \in Conn : link'[d] # "stray"
      BY <1>1, <2>1 DEF OneSocket
    <3>2. \A d, e \in Conn : holder'[d] # None /\ holder'[d] = holder'[e] => d = e
      BY <1>1, <1>3, <2>1 DEF OneSocket
    <3>3. \A x \in Worker : worker'[x].reconnect => \A d \in Conn : holder'[d] # x
      <4>. SUFFICES ASSUME NEW x \in Worker, worker'[x].reconnect, NEW d \in Conn, holder'[d] = x
                    PROVE  FALSE
        OBVIOUS
      <4>1. \A b \in new : x # w[b]
        BY <1>7
      <4>2. worker[x].reconnect /\ holder[d] = x
        BY <1>1, <1>4, <4>1
      <4>. QED
        BY <2>1, <4>2 DEF OneSocket
    <3>4. \A a, b \in Account : workers'[a] # None /\ workers'[a] = workers'[b] => a = b
      BY <1>0, <1>1, <1>2, <1>3, <2>1 DEF OneSocket
    <3>. QED
      BY <3>1, <3>2, <3>3, <3>4 DEF OneSocket
  <2>3. ASSUME NEW t \in Sync, Running(t)'
        PROVE  CASE link'[sync'[t].conn] = "leaving" ->
                      /\ workers'[sync'[t].account] = sync'[t].worker
                      /\ worker'[sync'[t].worker].client = sync'[t].conn
                 [] link'[sync'[t].conn] = "closed" ->
                      /\ workers'[sync'[t].account] \in {sync'[t].worker, None}
                      /\ \A d \in Conn : holder'[d] # sync'[t].worker
    <3>0. /\ t # s /\ Running(t) /\ sync'[t] = sync[t]
          /\ sync[t].account \in Account
          /\ sync[t].worker \in Worker
          /\ \A b \in new : sync[t].worker # w[b]
          /\ sync[t].conn \in Conn /\ link[sync[t].conn] \in {"leaving", "closed"}
          /\ link'[sync[t].conn] = link[sync[t].conn]
      BY <1>9, <2>3
    <3>1. CASE link[sync[t].conn] = "leaving"
      <4>1. map[sync[t].account] = sync[t].worker /\ objs[sync[t].worker].client = sync[t].conn
        BY <2>1, <3>0, <3>1 DEF CalmTurn
      <4>2. sync[t].account \notin over /\ sync[t].account \notin new
        BY <1>0, <1>1, <3>0, <4>1
      <4>. QED
        BY <1>2, <1>4, <3>0, <3>1, <4>1, <4>2
    <3>2. CASE link[sync[t].conn] = "closed"
      <4>1. sync[t].account \notin new
        BY <1>0, <2>1, <3>0, <3>2 DEF CalmTurn
      <4>2. /\ workers[sync[t].account] \in {sync[t].worker, None}
            /\ \A d \in Conn : holder[d] # sync[t].worker
        BY <2>1, <3>0, <3>2 DEF OwnEntry
      <4>3. workers'[sync[t].account] \in {sync[t].worker, None}
        BY <1>0, <1>2, <3>0, <4>1, <4>2
      <4>4. \A d \in Conn : holder'[d] # sync[t].worker
        BY <1>1, <3>0, <4>2
      <4>. QED
        BY <3>0, <3>2, <4>3, <4>4
    <3>. QED
      BY <3>0, <3>1, <3>2
  <2>4. \A t, u \in Sync : Running(t)' /\ Running(u)' /\ sync'[t].conn = sync'[u].conn
          => sync'[t].account = sync'[u].account /\ sync'[t].worker = sync'[u].worker
    BY <1>9, <2>1 DEF OwnEntry
  <2>. QED
    BY <2>2, <2>3, <2>4 DEF OwnEntry
<1>13. LiveWorkersAreMapped'
  <2>. SUFFICES ASSUME "refusal" \notin trouble, NEW x \in Worker, ~worker'[x].closing,
                       worker'[x].reconnect \/ \E d \in Conn : holder'[d] = x
                                                 /\ link'[d] \in {"dial", "select", "idle"}
                PROVE  \E b \in Account : workers'[b] = x
    BY <1>0 DEF LiveWorkersAreMapped, Range
  <2>1. CASE \E b \in new : x = w[b]
    BY <1>0, <1>2, <2>1
  <2>2. CASE \A b \in new : x # w[b]
    <3>1. ~worker[x].closing /\ worker'[x] = worker[x]
      BY <1>4, <2>2
    <3>2. worker[x].reconnect \/ \E d \in Conn : holder[d] = x /\ link[d] \in {"dial", "select", "idle"}
      BY <1>1, <2>2, <3>1
    <3>3. PICK b \in Account : workers[b] = x
      BY <1>0, <3>1, <3>2 DEF LiveWorkersAreMapped, Range
    <3>4. map[b] = x /\ b \notin over
      BY <1>0, <1>4, <2>2, <3>1, <3>3 DEF CalmTurn
    <3>5. workers'[b] = x
      BY <1>0, <1>2, <3>4
    <3>. QED
      BY <3>5
  <2>. QED
    BY <2>1, <2>2
<1>14. \A b \in Account : b \in missed' <=>
        CASE b \in new -> b \notin Desired'
          [] b \in over -> b \in Desired'
          [] b \notin new \cup over ->
               b \in missed \/ (b \in want /\ map[b] # None /\ objs[map[b]].closing)
  BY DEF Starts
<1>15. ASSUME "refusal" \notin trouble, NEW b \in Desired'
       PROVE  \/ workers'[b] # None /\ ~worker'[workers'[b]].closing
              \/ b \in missed'
              \/ \E t \in Sync : Running(t)' /\ b \in sync'[t].want
  <2>1. b \in Account /\ NeedTurn(s, want, map)
    BY <1>15 DEF Desired
  <2>2. CASE b \in over
    BY <1>0, <1>14, <1>15, <2>1, <2>2
  <2>3. CASE b \in new
    BY <1>0, <1>1, <1>2, <1>7, <2>1, <2>3
  <2>4. CASE b \notin over /\ b \notin new /\ map[b] # None /\ ~worker[map[b]].closing
    <3>1. workers'[b] = map[b] /\ map[b] \in Worker /\ workers[b] = map[b]
      BY <1>0, <1>2, <2>1, <2>4
    <3>2. /\ \A q \in over : map[b] # map[q]
          /\ \A q \in new : map[b] # w[q]
      BY <1>0, <1>3, <1>15, <2>1, <2>4, <3>1 DEF CalmInv, OneSocket
    <3>3. worker'[map[b]] = objs[map[b]]
      BY <3>1, <3>2 DEF Starts
    <3>4. objs[map[b]] = worker[map[b]]
      BY <2>4, <3>1 DEF Turn
    <3>. QED
      BY <2>4, <3>1, <3>3, <3>4
  <2>5. CASE b \notin over /\ b \notin new /\ b \in missed
    BY <1>14, <2>1, <2>5
  <2>6. CASE b \notin over /\ b \notin new /\ b \in want
    <3>1. map[b] \in Worker
      BY <1>0, <2>1, <2>6
    <3>2. CASE objs[map[b]].closing
      BY <1>0, <1>14, <2>1, <2>6, <3>2
    <3>3. CASE ~objs[map[b]].closing
      <4>1. ~worker[map[b]].closing
        <5>1. worker[map[b]] \in WorkerObject
          BY <3>1 DEF Turn, TypeOK, WorkerObject
        <5>. QED
          BY <3>1, <3>3, <5>1 DEF Turn, WorkerObject
      <4>. QED
        BY <1>0, <2>4, <2>6, <3>1, <4>1
    <3>. QED
      BY <3>2, <3>3
  <2>7. CASE \E t \in Sync \ {s} : Running(t) /\ b \in sync[t].want
    BY <1>1, <1>5, <2>7
  <2>. QED
    BY <1>0, <1>15, <2>1, <2>2, <2>3, <2>4, <2>5, <2>6, <2>7 DEF NeedTurn
<1>16. ASSUME "expiry" \notin trouble, NEW b \in Account, workers'[b] # None
       PROVE  \/ b \in Desired'
              \/ b \in missed'
              \/ \E t \in Sync : Running(t)' /\ b \notin sync'[t].want
  <2>1. CASE b \in new
    BY <1>0, <1>14, <2>1
  <2>2. CASE b \notin new
    <3>1. b \notin over /\ map[b] # None /\ b \in want
      BY <1>0, <1>2, <1>16, <2>2
    <3>2. SurplusTurn(s, want, map)
      BY <1>16
    <3>3. CASE b \in missed
      BY <1>14, <2>2, <3>1, <3>3
    <3>4. CASE \E t \in Sync \ {s} : Running(t) /\ b \notin sync[t].want
      BY <1>1, <1>5, <3>4
    <3>. QED
      BY <3>1, <3>2, <3>3, <3>4 DEF SurplusTurn
  <2>. QED
    BY <2>1, <2>2
<1>17. CalmInv' /\ NeedInv' /\ SurplusInv'
  BY <1>0, <1>12, <1>15, <1>16 DEF CalmInv, NeedInv, SurplusInv
<1>. QED
  BY <1>8, <1>10, <1>11, <1>13, <1>17 DEF Rest

\* A sync() that begins takes its first turn on the map as it is.
LEMMA BeginKeeps ==
  ASSUME IdleInv, Settled, DemandOK', CountInv', BeginSync(Desired')
  PROVE  IdleInv'
<1>1. PICK s \in Sync : ~Running(s) /\ RunSync(s, Desired', workers, worker)
  BY DEF BeginSync, OneOf
<1>2. Turn(s, Desired', workers, worker)
  <2>1. Desired' \subseteq Account
    BY DEF Desired
  <2>2. workers \in [Account -> Worker \cup {None}] /\ worker \in [Worker -> WorkerObject]
    BY DEF IdleInv, LifeInv, TypeOK, WorkerObject
  <2>. QED
    BY <1>1, <2>1, <2>2 DEF Turn, IdleInv, LifeInv
<1>3. ASSUME "refusal" \notin trouble PROVE CalmTurn(s, Desired', workers, worker)
  <2>1. \A t \in Sync : Running(t) => link[sync[t].conn] = "leaving"
    BY DEF Settled, Resumable, IdleInv, LifeInv, SyncInv
  <2>. QED
    BY <1>3, <2>1 DEF CalmTurn, IdleInv, CalmInv, OwnEntry
<1>4. NeedTurn(s, Desired', workers) /\ SurplusTurn(s, Desired', workers)
  BY DEF NeedTurn, SurplusTurn
<1>5. CASE StopNext(s, Desired', workers, worker)
  <2>1. TypeOK' /\ \E a, quick : Stops(s, Desired', workers, worker, a, quick)
    BY <1>2, <1>5, Stopping
  <2>2. Rest'
    BY <1>2, <1>3, <1>4, <2>1, StopKeeps DEF IdleInv
  <2>. QED
    BY <2>1, <2>2 DEF IdleInv, LifeInv, Rest
<1>6. CASE StartMissing(s, Desired', workers, worker)
  <2>1. TypeOK' /\ \E over, new, w, c : Starts(s, Desired', workers, worker, over, new, w, c)
    BY <1>2, <1>6, Starting
  <2>2. Rest'
    BY <1>2, <1>3, <1>4, <2>1, StartKeeps DEF IdleInv
  <2>. QED
    BY <2>1, <2>2 DEF IdleInv, LifeInv, Rest
<1>. QED
  BY <1>1, <1>5, <1>6 DEF RunSync

\* A sync() whose logout is over goes on without the entry, as does one that
\* finds the entry is not there any more.
LEMMA EndKeeps ==
  ASSUME IdleInv, NEW s \in Sync, StopEnds(s)
  PROVE  IdleInv'
<1>. USE NoneAssumption
<1>. DEFINE a0 == sync[s].account
            w0 == sync[s].worker
            want == sync[s].want
            map == [workers EXCEPT ![a0] = None]
            objs == [worker EXCEPT ![w0].client = None]
<1>0. /\ TypeOK /\ CountInv /\ SocketInv /\ SyncInv /\ TimersFollowLife /\ CalmInv
      /\ LiveWorkersAreMapped /\ NeedInv /\ SurplusInv
  BY DEF IdleInv, LifeInv
<1>1. /\ Running(s) /\ Resumable(s) /\ link[sync[s].conn] = "closed" /\ UNCHANGED demand
      /\ RunSync(s, want, map, objs)
  BY DEF StopEnds, Resumable
<1>2. /\ a0 \in Account \ want /\ w0 \in Worker /\ worker[w0].closing /\ want \in SUBSET Account
      /\ workers \in [Account -> Worker \cup {None}] /\ worker \in [Worker -> WorkerObject]
  BY <1>0, <1>1 DEF SyncInv, TypeOK, WorkerObject
<1>3. /\ Desired' = Desired /\ DemandOK' /\ CountInv'
  BY <1>0, <1>1 DEF demand, Desired, DemandOK, CountInv, StreamsOf, TypeOK
<1>4. /\ map \in [Account -> Worker \cup {None}]
      /\ \A b \in Account : map[b] = IF b = a0 THEN None ELSE workers[b]
  BY <1>2
<1>5. /\ objs = [worker EXCEPT ![w0] = [worker[w0] EXCEPT !.client = None]]
      /\ [worker[w0] EXCEPT !.client = None] \in WorkerObject
  BY <1>2 DEF WorkerObject
<1>6. /\ objs \in [Worker -> WorkerObject]
      /\ \A x \in Worker : objs[x] = IF x = w0 THEN [worker[w0] EXCEPT !.client = None] ELSE worker[x]
  BY <1>2, <1>5
<1>7. Turn(s, want, map, objs)
  <2>1. \A x \in Worker :
          \/ objs[x] = worker[x]
          \/ worker[x].closing /\ objs[x] = [worker[x] EXCEPT !.client = None]
    BY <1>2, <1>6
  <2>. HIDE DEF map, objs
  <2>. QED
    BY <1>0, <1>1, <1>2, <1>3, <1>4, <1>6, <2>1 DEF Turn
<1>8. ASSUME "refusal" \notin trouble PROVE CalmTurn(s, want, map, objs) /\ NeedTurn(s, want, map)
  <2>1. OneSocket /\ OwnEntry
    BY <1>0, <1>8 DEF CalmInv
  <2>2. workers[a0] \in {w0, None} /\ \A d \in Conn : holder[d] # w0
    BY <1>1, <2>1 DEF OwnEntry
  <2>3. \A b \in Account : map[b] # workers[b] => worker[workers[b]].closing
    BY <1>2, <1>4, <2>2
  <2>4. ASSUME NEW t \in Sync \ {s}, Running(t)
        PROVE  IF link[sync[t].conn] = "leaving"
               THEN map[sync[t].account] = sync[t].worker /\ objs[sync[t].worker].client = sync[t].conn
               ELSE sync[t].account \notin want
    <3>1. /\ sync[t].account \in Account /\ sync[t].worker \in Worker /\ sync[t].conn \in Conn
          /\ link[sync[t].conn] \in {"leaving", "closed"}
      BY <1>0, <2>4 DEF SyncInv
    <3>2. CASE link[sync[t].conn] = "leaving"
      <4>1. workers[sync[t].account] = sync[t].worker /\ worker[sync[t].worker].client = sync[t].conn
        BY <2>1, <2>4, <3>2 DEF OwnEntry
      <4>2. holder[sync[t].conn] = sync[t].worker
        BY <1>0, <3>1, <4>1 DEF SocketInv
      <4>3. sync[t].worker # w0 /\ sync[t].account # a0
        BY <2>2, <3>1, <4>1, <4>2
      <4>. QED
        BY <1>4, <1>6, <3>1, <3>2, <4>1, <4>3
    <3>3. CASE link[sync[t].conn] = "closed"
      <4>1. Resumable(t)
        BY <2>4, <3>3 DEF Resumable
      <4>2. sync[t].conn = sync[s].conn
        BY <1>0, <1>1, <4>1 DEF SyncInv
      <4>3. sync[t].account = a0
        BY <1>1, <2>1, <2>4, <4>2 DEF OwnEntry
      <4>. QED
        BY <1>2, <3>3, <4>3
    <3>. QED
      BY <3>1, <3>2, <3>3
  <2>5. NeedTurn(s, want, map)
    <3>. SUFFICES ASSUME NEW b \in Desired
                  PROVE  \/ map[b] # None /\ ~worker[map[b]].closing
                         \/ b \in missed
                         \/ b \in want
                         \/ \E t \in Sync \ {s} : Running(t) /\ b \in sync[t].want
      BY <1>3 DEF NeedTurn
    <3>1. b \in Account
      BY DEF Desired
    <3>2. \/ workers[b] # None /\ ~worker[workers[b]].closing
          \/ b \in missed
          \/ \E t \in Sync : Running(t) /\ b \in sync[t].want
      BY <1>0, <1>8 DEF NeedInv
    <3>3. CASE workers[b] # None /\ ~worker[workers[b]].closing
      BY <2>3, <3>1, <3>3
    <3>. QED
      BY <3>2, <3>3
  <2>. QED
    BY <2>3, <2>4, <2>5 DEF CalmTurn
<1>9. ASSUME "expiry" \notin trouble PROVE SurplusTurn(s, want, map)
  <2>1. \A b \in Account : map[b] # None => workers[b] # None
    BY <1>4
  <2>2. \A b \in Account : workers[b] # None =>
          \/ b \in Desired
          \/ b \in missed
          \/ \E t \in Sync : Running(t) /\ b \notin sync[t].want
    BY <1>0, <1>9 DEF SurplusInv
  <2>3. \A b \in Account : map[b] # None =>
          \/ b \in Desired'
          \/ b \in missed
          \/ b \notin want
          \/ \E t \in Sync \ {s} : Running(t) /\ b \notin sync[t].want
    BY <1>3, <2>1, <2>2
  <2>. QED
    BY <2>3 DEF SurplusTurn
<1>. HIDE DEF map, objs, want
<1>10. CASE StopNext(s, want, map, objs)
  <2>1. TypeOK' /\ \E a, quick : Stops(s, want, map, objs, a, quick)
    BY <1>7, <1>10, Stopping
  <2>2. Rest'
    BY <1>0, <1>7, <1>8, <1>9, <2>1, StopKeeps
  <2>. QED
    BY <1>3, <2>1, <2>2 DEF IdleInv, LifeInv, Rest
<1>11. CASE StartMissing(s, want, map, objs)
  <2>1. TypeOK' /\ \E over, new, w, c : Starts(s, want, map, objs, over, new, w, c)
    BY <1>7, <1>11, Starting
  <2>2. Rest'
    BY <1>0, <1>7, <1>8, <1>9, <2>1, StartKeeps
  <2>. QED
    BY <1>3, <2>1, <2>2 DEF IdleInv, LifeInv, Rest
<1>. QED
  BY <1>1, <1>10, <1>11 DEF RunSync
-------------------------------------------------------------------------------
(* connect() and its handlers *)

\* One socket c and its worker w change: c was w's, or is new to w's timer.  If
\* w was not stopped, something of it goes on.
Handled(c, w) ==
  /\ UNCHANGED <<demand, workers, sync, missed, trouble>>
  /\ \A d \in Conn \ {c} : link'[d] = link[d] /\ holder'[d] = holder[d]
  /\ \A x \in Worker \ {w} : worker'[x] = worker[x]
  /\ worker'[w].closing = worker[w].closing
  /\ worker'[w].closing => ~worker'[w].reconnect
  /\ \/ holder[c] = w
     \/ UnusedConn(c) /\ worker[w].reconnect /\ ~worker'[w].reconnect
  /\ holder'[c] \in {w, None} /\ (link'[c] = "closed" <=> holder'[c] = None)
  /\ link'[c] # "leaving" /\ (link[c] = "leaving" => link'[c] = "closed")
  /\ link'[c] = "stray" => "refusal" \in trouble
  /\ \/ worker'[w].client \in {worker[w].client, None} \ {c}
     \/ worker'[w].client = c /\ link'[c] = "idle"
  /\ worker'[w].reconnect => worker[w].reconnect \/ link'[c] \in {"stray", "closed"}
  /\ \/ worker[w].closing
     \/ worker'[w].reconnect
     \/ link'[c] \in {"dial", "select"} /\ holder'[c] = w
     \/ worker'[w].client = c /\ worker'[w].refresh

\* Such a step keeps the invariant.
LEMMA HandledKeeps ==
  ASSUME IdleInv, TypeOK', Settled, NEW c \in Conn, NEW w \in Worker, Handled(c, w)
  PROVE  IdleInv'
<1>. USE NoneAssumption
<1>0. /\ TypeOK /\ CountInv /\ SocketInv /\ SyncInv /\ TimersFollowLife /\ CalmInv
      /\ LiveWorkersAreMapped /\ NeedInv /\ SurplusInv
  BY DEF IdleInv, LifeInv
<1>1. /\ UNCHANGED <<workers, sync, missed, trouble, subs, stream, streams, grace>>
      /\ \A d \in Conn \ {c} : link'[d] = link[d] /\ holder'[d] = holder[d]
      /\ \A x \in Worker \ {w} : worker'[x] = worker[x]
      /\ \A x \in Worker : worker'[x].closing = worker[x].closing
  BY DEF Handled, demand
<1>2. /\ worker'[w].closing => ~worker'[w].reconnect
      /\ holder'[c] \in {w, None} /\ (link'[c] = "closed" <=> holder'[c] = None)
      /\ link'[c] # "leaving" /\ (link[c] = "leaving" => link'[c] = "closed")
      /\ \/ worker'[w].client \in {worker[w].client, None} \ {c}
         \/ worker'[w].client = c /\ link'[c] = "idle"
  BY DEF Handled
<1>3. \/ holder[c] = w /\ link[c] # "closed"
      \/ /\ holder[c] = None /\ link[c] = "closed" /\ (\A t \in Sync : sync[t].conn # c)
         /\ worker[w].reconnect /\ ~worker'[w].reconnect
  BY <1>0 DEF Handled, UnusedConn, SocketInv
<1>4. CountInv' /\ Desired' = Desired
  BY <1>0, <1>1 DEF CountInv, StreamsOf, Desired
<1>5. SocketInv'
  <2>1. \A d \in Conn : link'[d] = "closed" <=> holder'[d] = None
    BY <1>0, <1>1, <1>2 DEF SocketInv
  <2>2. ASSUME NEW d \in Conn, link'[d] = "leaving" PROVE worker'[holder'[d]].closing
    <3>1. link[d] = "leaving" /\ holder'[d] = holder[d] /\ holder[d] \in Worker
      BY <1>0, <1>1, <1>2, <2>2 DEF SocketInv, TypeOK
    <3>. QED
      BY <1>0, <1>1, <3>1 DEF SocketInv
  <2>3. ASSUME NEW x \in Worker, worker'[x].client # None
        PROVE  holder'[worker'[x].client] = x /\ link'[worker'[x].client] \in {"idle", "leaving"}
    <3>1. CASE x # w
      <4>1. worker[x].client \in Conn /\ holder[worker[x].client] = x
            /\ link[worker[x].client] \in {"idle", "leaving"} /\ worker'[x].client = worker[x].client
        BY <1>0, <1>1, <2>3, <3>1 DEF SocketInv, TypeOK
      <4>. QED
        BY <1>1, <1>3, <3>1, <4>1
    <3>2. CASE x = w /\ worker'[w].client = c /\ link'[c] = "idle"
      BY <1>2, <3>2
    <3>3. CASE x = w /\ worker'[w].client = worker[w].client /\ worker[w].client # c
      <4>1. worker[w].client \in Conn \ {c} /\ holder[worker[w].client] = w
            /\ link[worker[w].client] \in {"idle", "leaving"}
        BY <1>0, <2>3, <3>3 DEF SocketInv, TypeOK
      <4>. QED
        BY <1>1, <3>3, <4>1
    <3>. QED
      BY <1>2, <2>3, <3>1, <3>2, <3>3
  <2>. QED
    BY <2>1, <2>2, <2>3 DEF SocketInv
<1>6. ASSUME NEW t \in Sync, Running(t)
      PROVE  /\ sync[t].account \in Account \ sync[t].want
             /\ sync[t].worker \in Worker /\ worker[sync[t].worker].closing
             /\ sync[t].conn \in Conn /\ link[sync[t].conn] = "leaving"
             /\ link'[sync[t].conn] = IF sync[t].conn = c THEN "closed" ELSE "leaving"
  <2>1. /\ sync[t].account \in Account \ sync[t].want
        /\ sync[t].worker \in Worker /\ worker[sync[t].worker].closing
        /\ sync[t].conn \in Conn /\ link[sync[t].conn] = "leaving"
    BY <1>0, <1>6 DEF SyncInv, Settled, Resumable
  <2>. QED
    BY <1>1, <1>2, <2>1
<1>7. \A t \in Sync : Running(t)' <=> Running(t)
  BY <1>1 DEF Running
<1>8. SyncInv'
  <2>1. \A t \in Sync : Resumable(t)' => sync'[t].conn = c
    BY <1>1, <1>6, <1>7 DEF Resumable
  <2>2. \A t \in Sync : Running(t)' =>
          /\ sync'[t].account \in Account \ sync'[t].want
          /\ sync'[t].worker \in Worker /\ worker'[sync'[t].worker].closing
          /\ sync'[t].conn \in Conn /\ link'[sync'[t].conn] \in {"leaving", "closed"}
    BY <1>1, <1>6, <1>7
  <2>. QED
    BY <2>1, <2>2 DEF SyncInv
<1>9. TimersFollowLife'
  <2>. SUFFICES ASSUME NEW x \in Worker
                PROVE  /\ Live(x)' => worker'[x].client # None \/ worker'[x].reconnect \/ Connecting(x)'
                       /\ Live(x)' /\ worker'[x].client # None =>
                            worker'[x].refresh \/ worker'[x].reconnect \/ Connecting(x)'
                       /\ worker'[x].closing => ~worker'[x].reconnect
    BY DEF TimersFollowLife
  <2>1. Live(x)' <=> Live(x)
    BY <1>1 DEF Live
  <2>2. CASE x # w
    <3>1. Connecting(x) => Connecting(x)'
      BY <1>0, <1>1, <1>3, <2>2 DEF Connecting
    <3>. QED
      BY <1>0, <1>1, <2>1, <2>2, <3>1 DEF TimersFollowLife
  <2>3. CASE x = w
    <3>1. link'[c] \in {"dial", "select"} /\ holder'[c] = w => Connecting(w)'
      BY DEF Connecting
    <3>2. Live(x)' => ~worker[w].closing
      BY <2>1, <2>3 DEF Live
    <3>. QED
      BY <1>2, <2>3, <3>1, <3>2 DEF Handled
  <2>. QED
    BY <2>2, <2>3
<1>10. ASSUME "refusal" \notin trouble PROVE OneSocket' /\ OwnEntry'
  <2>1. OneSocket /\ OwnEntry
    BY <1>0, <1>10 DEF CalmInv
  <2>2. \A d \in Conn \ {c} : holder[d] # w
    BY <1>3, <2>1 DEF OneSocket
  <2>3. OneSocket'
    <3>1. \A d \in Conn : link'[d] # "stray"
      BY <1>1, <1>10, <2>1 DEF OneSocket, Handled
    <3>2. \A d, e \in Conn : holder'[d] # None /\ holder'[d] = holder'[e] => d = e
      BY <1>1, <1>2, <2>1, <2>2 DEF OneSocket
    <3>3. \A x \in Worker : worker'[x].reconnect => \A d \in Conn : holder'[d] # x
      <4>. SUFFICES ASSUME NEW x \in Worker, worker'[x].reconnect, NEW d \in Conn, holder'[d] = x
                    PROVE  FALSE
        OBVIOUS
      <4>1. CASE x = w
        <5>1. d = c
          BY <1>1, <2>2, <4>1
        <5>2. link'[c] \notin {"stray", "closed"}
          BY <1>2, <3>1, <4>1, <5>1
        <5>3. worker[w].reconnect /\ holder[c] = w
          BY <1>3, <4>1, <5>2 DEF Handled
        <5>. QED
          BY <2>1, <5>3 DEF OneSocket
      <4>2. CASE x # w
        BY <1>1, <1>2, <2>1, <4>2 DEF OneSocket
      <4>. QED
        BY <4>1, <4>2
    <3>4. \A a, b \in Account : workers'[a] # None /\ workers'[a] = workers'[b] => a = b
      BY <1>1, <2>1 DEF OneSocket
    <3>. QED
      BY <3>1, <3>2, <3>3, <3>4 DEF OneSocket
  <2>4. ASSUME NEW t \in Sync, Running(t)'
        PROVE  CASE link'[sync'[t].conn] = "leaving" ->
                      /\ workers'[sync'[t].account] = sync'[t].worker
                      /\ worker'[sync'[t].worker].client = sync'[t].conn
                 [] link'[sync'[t].conn] = "closed" ->
                      /\ workers'[sync'[t].account] \in {sync'[t].worker, None}
                      /\ \A d \in Conn : holder'[d] # sync'[t].worker
    <3>1. /\ Running(t) /\ sync[t].worker \in Worker /\ worker[sync[t].worker].closing
          /\ sync[t].conn \in Conn /\ link[sync[t].conn] = "leaving"
          /\ link'[sync[t].conn] = IF sync[t].conn = c THEN "closed" ELSE "leaving"
      BY <1>6, <1>7, <2>4
    <3>2. workers[sync[t].account] = sync[t].worker /\ worker[sync[t].worker].client = sync[t].conn
      BY <2>1, <3>1 DEF OwnEntry
    <3>3. holder[sync[t].conn] = sync[t].worker
      BY <1>0, <3>1, <3>2 DEF SocketInv
    <3>4. CASE sync[t].conn = c
      <4>1. sync[t].worker = w /\ holder'[c] = None
        BY <1>2, <1>3, <3>1, <3>3, <3>4
      <4>2. \A d \in Conn : holder'[d] # w
        BY <1>1, <2>2, <4>1
      <4>. QED
        BY <1>1, <3>1, <3>2, <3>4, <4>1, <4>2
    <3>5. CASE sync[t].conn # c
      <4>1. sync[t].worker # w
        BY <2>2, <3>1, <3>3, <3>5
      <4>. QED
        BY <1>1, <3>1, <3>2, <3>5, <4>1
    <3>. QED
      BY <3>4, <3>5
  <2>5. \A t, u \in Sync : Running(t)' /\ Running(u)' /\ sync'[t].conn = sync'[u].conn
          => sync'[t].account = sync'[u].account /\ sync'[t].worker = sync'[u].worker
    BY <1>1, <1>7, <2>1 DEF OwnEntry
  <2>. QED
    BY <2>3, <2>4, <2>5 DEF OwnEntry
<1>11. LiveWorkersAreMapped'
  <2>. SUFFICES ASSUME "refusal" \notin trouble, NEW x \in Worker, ~worker'[x].closing,
                       worker'[x].reconnect \/ \E d \in Conn : holder'[d] = x
                                                 /\ link'[d] \in {"dial", "select", "idle"}
                PROVE  x \in Range(workers)
    BY <1>1 DEF LiveWorkersAreMapped
  <2>1. CASE x # w
    <3>1. worker[x].reconnect \/ \E d \in Conn : holder[d] = x /\ link[d] \in {"dial", "select", "idle"}
      BY <1>1, <1>2, <2>1
    <3>. QED
      BY <1>0, <1>1, <2>1, <3>1 DEF LiveWorkersAreMapped
  <2>2. CASE x = w
    <3>1. ~worker[w].closing /\ "stray" # link[c]
      BY <1>0, <1>1, <2>2 DEF CalmInv, OneSocket
    <3>2. holder[c] = w => link[c] # "leaving"
      BY <1>0, <3>1 DEF SocketInv
    <3>3. worker[w].reconnect \/ (holder[c] = w /\ link[c] \in {"dial", "select", "idle"})
      BY <1>0, <1>3, <3>1, <3>2 DEF TypeOK
    <3>. QED
      BY <1>0, <2>2, <3>1, <3>3 DEF LiveWorkersAreMapped
  <2>. QED
    BY <2>1, <2>2
<1>12. NeedInv' /\ SurplusInv'
  <2>1. workers \in [Account -> Worker \cup {None}]
    BY <1>0 DEF TypeOK
  <2>2. \A b \in Account : workers[b] # None => worker'[workers[b]].closing = worker[workers[b]].closing
    BY <1>1, <2>1
  <2>3. Desired \subseteq Account
    BY DEF Desired
  <2>4. NeedInv'
    BY <1>0, <1>1, <1>4, <1>7, <2>2, <2>3 DEF NeedInv
  <2>5. SurplusInv'
    BY <1>0, <1>1, <1>4, <1>7 DEF SurplusInv
  <2>. QED
    BY <2>4, <2>5
<1>13. CalmInv'
  BY <1>1, <1>10 DEF CalmInv
<1>. QED
  BY <1>4, <1>5, <1>8, <1>9, <1>11, <1>12, <1>13 DEF IdleInv, LifeInv

\* A reconnect leaves the rest of a worker alone, and spares the stopped.
LEMMA ReconnectingObject ==
  ASSUME NEW k \in WorkerObject
  PROVE  /\ Reconnecting(k) \in WorkerObject
         /\ Reconnecting(k).closing = k.closing /\ Reconnecting(k).client = k.client
         /\ Reconnecting(k).refresh = k.refresh
         /\ k.closing \/ Reconnecting(k).reconnect
         /\ k.closing => Reconnecting(k).reconnect = k.reconnect
BY DEF Reconnecting, WorkerObject

\* Each handler of a socket is such a step.
LEMMA HandlersAreHandled ==
  ASSUME IdleInv, NEW c \in Conn,
         DialOk(c) \/ DialFails(c) \/ SelectOk(c) \/ SelectFails(c) \/ Close(c)
  PROVE  Settled /\ TypeOK' /\ holder[c] \in Worker /\ Handled(c, holder[c])
<1>. DEFINE w == holder[c]
            k == worker[w]
<1>0. TypeOK /\ SocketInv /\ TimersFollowLife
  BY DEF IdleInv, LifeInv
<1>1. /\ Settled /\ UNCHANGED <<demand, workers, sync, missed, trouble>>
      /\ UNCHANGED <<subs, grace, stream, streams>>
      /\ link[c] # "closed"
  BY DEF DialOk, DialFails, SelectOk, SelectFails, Close, demand
<1>2. /\ link \in [Conn -> {"dial", "select", "idle", "stray", "leaving", "closed"}]
      /\ holder \in [Conn -> Worker \cup {None}] /\ worker \in [Worker -> WorkerObject]
  BY <1>0 DEF TypeOK, WorkerObject
<1>3. /\ w \in Worker /\ k \in WorkerObject /\ (k.closing => ~k.reconnect)
      /\ c # None /\ w # None
  BY <1>0, <1>1, <1>2, NoneAssumption DEF SocketInv, TimersFollowLife
<1>4. k.client = c => link[c] \in {"idle", "leaving"}
  BY <1>0, <1>3 DEF SocketInv
<1>5. /\ k.closing \in BOOLEAN /\ k.reconnect \in BOOLEAN /\ k.refresh \in BOOLEAN
      /\ k.client \in Conn \cup {None}
  BY <1>3 DEF WorkerObject
<1>. HIDE DEF w, k
\* What is left to show of each.
<1>6. ASSUME NEW l \in {"select", "idle", "stray", "closed"}, NEW h \in {w, None}, NEW o \in WorkerObject,
             link' = [link EXCEPT ![c] = l], holder' = [holder EXCEPT ![c] = h],
             worker' = [worker EXCEPT ![w] = o],
             o.closing = k.closing, o.closing => ~o.reconnect,
             l = "closed" <=> h = None, link[c] = "leaving" => l = "closed",
             l = "stray" => "refusal" \in trouble,
             \/ o.client \in {k.client, None} \ {c}
             \/ o.client = c /\ l = "idle",
             o.reconnect => k.reconnect \/ l \in {"stray", "closed"},
             \/ k.closing
             \/ o.reconnect
             \/ l = "select"
             \/ o.client = c /\ o.refresh
      PROVE  TypeOK' /\ Handled(c, w)
  <2>1. /\ link'[c] = l /\ holder'[c] = h /\ worker'[w] = o /\ worker[w] = k
        /\ \A d \in Conn \ {c} : link'[d] = link[d] /\ holder'[d] = holder[d]
        /\ \A x \in Worker \ {w} : worker'[x] = worker[x]
    BY <1>2, <1>3, <1>6 DEF k
  <2>2. /\ link' \in [Conn -> {"dial", "select", "idle", "stray", "leaving", "closed"}]
        /\ holder' \in [Conn -> Worker \cup {None}] /\ worker' \in [Worker -> WorkerObject]
    BY <1>2, <1>3, <1>6
  <2>3. TypeOK'
    BY <1>0, <1>1, <2>2 DEF TypeOK, WorkerObject
  <2>4. holder[c] = w /\ l # "leaving"
    BY DEF w
  <2>5. h = w \/ h = None
    OBVIOUS
  <2>. QED
    BY <1>1, <1>3, <1>6, <2>1, <2>3, <2>4, <2>5 DEF Handled
<1>7. CASE DialOk(c)
  <2>1. link' = [link EXCEPT ![c] = "select"] /\ holder' = holder /\ worker' = worker /\ link[c] = "dial"
    BY <1>7 DEF DialOk
  <2>2. holder' = [holder EXCEPT ![c] = w] /\ worker' = [worker EXCEPT ![w] = k]
    BY <1>2, <2>1 DEF w, k
  <2>. QED
    BY <1>1, <1>3, <1>4, <1>5, <1>6, <2>1, <2>2 DEF w
<1>8. CASE DialFails(c)
  <2>1. /\ link' = [link EXCEPT ![c] = "closed"] /\ holder' = [holder EXCEPT ![c] = None]
        /\ worker' = [worker EXCEPT ![w] = Reconnecting(k)] /\ link[c] = "dial"
    BY <1>8 DEF DialFails, w, k
  <2>. QED
    BY <1>1, <1>3, <1>4, <1>5, <1>6, <2>1, ReconnectingObject DEF w
<1>9. CASE SelectOk(c)
  <2>. DEFINE o == [k EXCEPT !.client = c, !.refresh = TRUE]
  <2>1. /\ link' = [link EXCEPT ![c] = "idle"] /\ holder' = holder
        /\ worker' = [worker EXCEPT ![w] = o] /\ link[c] = "select"
    BY <1>9 DEF SelectOk, w, k
  <2>2. holder' = [holder EXCEPT ![c] = w]
    BY <1>2, <2>1 DEF w
  <2>3. o \in WorkerObject /\ o.closing = k.closing /\ o.client = c /\ o.refresh /\ o.reconnect = k.reconnect
    BY <1>3 DEF WorkerObject
  <2>. HIDE DEF o
  <2>. QED
    BY <1>1, <1>3, <1>4, <1>5, <1>6, <2>1, <2>2, <2>3 DEF w
<1>10. CASE SelectFails(c)
  <2>1. /\ link' = [link EXCEPT ![c] = "stray"] /\ holder' = holder
        /\ worker' = [worker EXCEPT ![w] = Reconnecting(k)] /\ link[c] = "select" /\ "refusal" \in trouble
    BY <1>10 DEF SelectFails, w, k
  <2>2. holder' = [holder EXCEPT ![c] = w]
    BY <1>2, <2>1 DEF w
  <2>. QED
    BY <1>1, <1>3, <1>4, <1>5, <1>6, <2>1, <2>2, ReconnectingObject DEF w
<1>11. CASE Close(c)
  <2>. DEFINE o == [k EXCEPT !.refresh = FALSE, !.client = IF @ = c THEN None ELSE @]
  <2>1. /\ link' = [link EXCEPT ![c] = "closed"] /\ holder' = [holder EXCEPT ![c] = None]
        /\ worker' = [worker EXCEPT ![w] = Reconnecting(o)]
    BY <1>11 DEF Close, w, k
  <2>2. /\ o \in WorkerObject /\ o.closing = k.closing /\ o.reconnect = k.reconnect
        /\ o.client = IF k.client = c THEN None ELSE k.client
    BY <1>3 DEF WorkerObject
  <2>. HIDE DEF o
  <2>3. /\ Reconnecting(o) \in WorkerObject /\ Reconnecting(o).closing = k.closing
        /\ Reconnecting(o).client \in {k.client, None} \ {c}
        /\ k.closing \/ Reconnecting(o).reconnect
        /\ k.closing => ~Reconnecting(o).reconnect
    BY <1>3, <2>2, ReconnectingObject
  <2>. QED
    BY <1>1, <1>3, <1>6, <2>1, <2>3 DEF w
<1>. QED
  BY <1>1, <1>3, <1>7, <1>8, <1>9, <1>10, <1>11 DEF w

\* And so is the reconnect timer, on a socket nobody uses.
LEMMA ReconnectIsHandled ==
  ASSUME IdleInv, NEW w \in Worker, Reconnect(w)
  PROVE  Settled /\ TypeOK' /\ \E c \in Conn : Handled(c, w)
<1>. DEFINE o == [worker[w] EXCEPT !.reconnect = FALSE]
<1>0. TypeOK /\ SocketInv /\ TimersFollowLife
  BY DEF IdleInv, LifeInv
<1>1. PICK c \in OneOf({x \in Conn : UnusedConn(x)}) :
        link' = [link EXCEPT ![c] = "dial"] /\ holder' = [holder EXCEPT ![c] = w]
  BY DEF Reconnect
<1>2. c \in Conn /\ UnusedConn(c)
  BY <1>1 DEF OneOf
<1>3. /\ Settled /\ UNCHANGED <<demand, workers, sync, missed, trouble>>
      /\ UNCHANGED <<subs, grace, stream, streams>>
      /\ worker[w].reconnect /\ worker' = [worker EXCEPT ![w] = o]
  BY DEF Reconnect, demand
<1>4. /\ link \in [Conn -> {"dial", "select", "idle", "stray", "leaving", "closed"}]
      /\ holder \in [Conn -> Worker \cup {None}] /\ worker \in [Worker -> WorkerObject]
  BY <1>0 DEF TypeOK, WorkerObject
<1>5. /\ o \in WorkerObject /\ o.closing = worker[w].closing /\ o.client = worker[w].client
      /\ ~o.reconnect
  BY <1>4 DEF WorkerObject
<1>6. link[c] = "closed" /\ worker[w].client \in {worker[w].client, None} \ {c}
  BY <1>0, <1>2, NoneAssumption DEF UnusedConn, SocketInv
<1>. HIDE DEF o
<1>7. /\ link'[c] = "dial" /\ holder'[c] = w /\ worker'[w] = o
      /\ \A d \in Conn \ {c} : link'[d] = link[d] /\ holder'[d] = holder[d]
      /\ \A x \in Worker \ {w} : worker'[x] = worker[x]
  BY <1>1, <1>2, <1>3, <1>4
<1>8. /\ link' \in [Conn -> {"dial", "select", "idle", "stray", "leaving", "closed"}]
      /\ holder' \in [Conn -> Worker \cup {None}] /\ worker' \in [Worker -> WorkerObject]
  BY <1>1, <1>2, <1>3, <1>4, <1>5
<1>9. TypeOK'
  BY <1>0, <1>3, <1>8 DEF TypeOK, WorkerObject
<1>10. Handled(c, w)
  BY <1>2, <1>3, <1>5, <1>6, <1>7, NoneAssumption DEF Handled
<1>. QED
  BY <1>2, <1>3, <1>9, <1>10

\* The end of a NOOP rotation: the worker has no client, or was stopped.
LEMMA RefreshKeeps ==
  ASSUME IdleInv, NEW w \in Worker, Refresh(w)
  PROVE  IdleInv'
<1>0. /\ TypeOK /\ CountInv /\ SocketInv /\ SyncInv /\ TimersFollowLife /\ CalmInv
      /\ LiveWorkersAreMapped /\ NeedInv /\ SurplusInv
  BY DEF IdleInv, LifeInv
<1>1. /\ UNCHANGED <<workers, link, holder, sync, missed, trouble, subs, stream, streams, grace>>
      /\ worker' = [worker EXCEPT ![w].refresh = FALSE]
      /\ worker[w].client = None \/ worker[w].closing
  BY DEF Refresh, demand
<1>2. worker \in [Worker -> WorkerObject] /\ workers \in [Account -> Worker \cup {None}]
  BY <1>0 DEF TypeOK, WorkerObject
<1>3. \A x \in Worker : /\ worker'[x].closing = worker[x].closing
                        /\ worker'[x].client = worker[x].client
                        /\ worker'[x].reconnect = worker[x].reconnect
                        /\ x # w => worker'[x].refresh = worker[x].refresh
  BY <1>1, <1>2 DEF WorkerObject
<1>4. worker' \in [Worker -> WorkerObject]
  BY <1>1, <1>2 DEF WorkerObject
<1>5. TypeOK' /\ CountInv'
  BY <1>0, <1>1, <1>4 DEF TypeOK, CountInv, StreamsOf, WorkerObject
<1>6. SocketInv'
  <2>1. \A c \in Conn : link[c] = "leaving" => holder[c] \in Worker
    BY <1>0 DEF SocketInv, TypeOK
  <2>. QED
    BY <1>0, <1>1, <1>3, <2>1 DEF SocketInv
<1>7. /\ \A t \in Sync : Running(t)' <=> Running(t)
      /\ \A t \in Sync : Resumable(t)' <=> Resumable(t)
      /\ \A x \in Worker : (Live(x)' <=> Live(x)) /\ (Connecting(x)' <=> Connecting(x))
      /\ Desired' = Desired
  BY <1>1, <1>3 DEF Running, Resumable, Live, Connecting, Desired
<1>8. SyncInv'
  BY <1>0, <1>1, <1>3, <1>7 DEF SyncInv
<1>9. TimersFollowLife'
  <2>1. Live(w) => worker[w].client = None
    BY <1>1 DEF Live
  <2>. QED
    BY <1>0, <1>3, <1>7, <2>1 DEF TimersFollowLife
<1>10. CalmInv'
  <2>1. ASSUME "refusal" \notin trouble PROVE OneSocket' /\ OwnEntry'
    <3>1. OneSocket /\ OwnEntry
      BY <1>0, <2>1 DEF CalmInv
    <3>2. OneSocket'
      BY <1>1, <1>3, <3>1 DEF OneSocket
    <3>3. \A t \in Sync : Running(t) => sync[t].worker \in Worker
      BY <1>0 DEF SyncInv
    <3>4. \A t \in Sync : Running(t) => worker'[sync[t].worker].client = worker[sync[t].worker].client
      BY <1>3, <3>3
    <3>5. \A t, u \in Sync : Running(t)' /\ Running(u)' /\ sync'[t].conn = sync'[u].conn
            => sync'[t].account = sync'[u].account /\ sync'[t].worker = sync'[u].worker
      BY <1>1, <1>7, <3>1 DEF OwnEntry
    <3>6. ASSUME NEW t \in Sync, Running(t)'
          PROVE  CASE link'[sync'[t].conn] = "leaving" ->
                        /\ workers'[sync'[t].account] = sync'[t].worker
                        /\ worker'[sync'[t].worker].client = sync'[t].conn
                   [] link'[sync'[t].conn] = "closed" ->
                        /\ workers'[sync'[t].account] \in {sync'[t].worker, None}
                        /\ \A c \in Conn : holder'[c] # sync'[t].worker
      <4>1. Running(t) /\ link[sync[t].conn] \in {"leaving", "closed"}
        BY <1>0, <1>7, <3>6 DEF SyncInv
      <4>. QED
        BY <1>1, <3>1, <3>4, <4>1 DEF OwnEntry
    <3>7. OwnEntry'
      BY <3>5, <3>6 DEF OwnEntry
    <3>. QED
      BY <3>2, <3>7
  <2>. QED
    BY <1>1, <2>1 DEF CalmInv
<1>11. LiveWorkersAreMapped'
  BY <1>0, <1>1, <1>3 DEF LiveWorkersAreMapped
<1>12. NeedInv' /\ SurplusInv'
  <2>1. Desired \subseteq Account
    BY DEF Desired
  <2>2. \A a \in Account : workers[a] # None => worker'[workers[a]].closing = worker[workers[a]].closing
    BY <1>2, <1>3
  <2>3. NeedInv'
    BY <1>0, <1>1, <1>7, <2>1, <2>2 DEF NeedInv
  <2>4. SurplusInv'
    BY <1>0, <1>1, <1>7 DEF SurplusInv
  <2>. QED
    BY <2>3, <2>4
<1>. QED
  BY <1>5, <1>6, <1>8, <1>9, <1>10, <1>11, <1>12 DEF IdleInv, LifeInv

\* What touches no worker and takes nobody's demand away, unless by an expiry.
LEMMA UntouchedKeeps ==
  ASSUME IdleInv, DemandOK', CountInv',
         UNCHANGED <<workers, worker, link, holder, sync, missed, trouble>>,
         Desired' \subseteq Desired, "expiry" \notin trouble => Desired' = Desired
  PROVE  IdleInv'
<1>0. /\ TypeOK /\ CountInv /\ SocketInv /\ SyncInv /\ TimersFollowLife /\ CalmInv
      /\ LiveWorkersAreMapped /\ NeedInv /\ SurplusInv
  BY DEF IdleInv, LifeInv
<1>1. TypeOK'
  BY <1>0 DEF TypeOK, DemandOK
<1>2. SocketInv' /\ SyncInv' /\ TimersFollowLife' /\ LiveWorkersAreMapped'
  BY <1>0 DEF SocketInv, SyncInv, TimersFollowLife, LiveWorkersAreMapped, Running, Resumable,
              Live, Connecting
<1>3. CalmInv'
  BY <1>0 DEF CalmInv, OneSocket, OwnEntry, Running
<1>4. NeedInv'
  BY <1>0 DEF NeedInv, Running
<1>5. SurplusInv'
  BY <1>0 DEF SurplusInv, Running
<1>. QED
  BY <1>1, <1>2, <1>3, <1>4, <1>5 DEF IdleInv, LifeInv
-------------------------------------------------------------------------------
(* The theorems *)

\* Nothing is wanted and nothing runs at first.
LEMMA IdleInit == Init => IdleInv
<1>. SUFFICES ASSUME Init PROVE IdleInv
  OBVIOUS
<1>. USE NoneAssumption
<1>1. \A a \in Account : StreamsOf(a) = {} /\ streams[a] = 0
  BY DEF Init, StreamsOf
<1>2. CountInv
  BY <1>1, FS_EmptySet DEF CountInv
<1>3. Cardinality(Stream) \in Nat
  BY StreamAssumption, FS_CardinalityType
<1>4. TypeOK
  BY <1>3 DEF Init, TypeOK, Fresh, NotSyncing
<1>5. /\ \A t \in Sync : ~Running(t)
      /\ \A x \in Worker : ~Live(x)
      /\ \A w \in Worker : ~worker[w].reconnect /\ worker[w].client = None /\ ~worker[w].closing
      /\ \A c \in Conn : link[c] = "closed" /\ holder[c] = None
      /\ \A a \in Account : workers[a] = None
      /\ Desired = {}
  BY DEF Init, Running, Live, Fresh, Desired
<1>6. SocketInv /\ SyncInv /\ TimersFollowLife
  BY <1>5 DEF SocketInv, SyncInv, TimersFollowLife, Resumable
<1>7. CalmInv
  BY <1>5 DEF CalmInv, OneSocket, OwnEntry
<1>8. LiveWorkersAreMapped
  BY <1>5 DEF LiveWorkersAreMapped
<1>9. NeedInv /\ SurplusInv
  BY <1>5 DEF NeedInv, SurplusInv
<1>. QED
  BY <1>2, <1>4, <1>6, <1>7, <1>8, <1>9 DEF IdleInv, LifeInv

\* Every step keeps the invariant.
LEMMA IdleStep == IdleInv /\ [Next]_vars => IdleInv'
<1>. SUFFICES ASSUME IdleInv, [Next]_vars PROVE IdleInv'
  OBVIOUS
<1>1. DemandOK /\ CountInv
  BY DEF IdleInv, LifeInv, TypeOK, DemandOK
<1>2. ASSUME NEW s \in Sync, StopEnds(s) PROVE IdleInv'
  BY <1>2, EndKeeps
<1>3. CASE SubscriberChange \/ (\E s \in Stream : StreamOpens(s)) \/ (\E a \in Account : GraceEnds(a))
  <2>1. Settled /\ DemandOK' /\ CountInv' /\ BeginSync(Desired')
    BY <1>1, <1>3, Beginning
  <2>. QED
    BY <2>1, BeginKeeps
<1>4. ASSUME NEW a \in Account, SubExpires(a) PROVE IdleInv'
  <2>1. /\ "expiry" \in trouble /\ subs' = subs \ {a} /\ UNCHANGED <<stream, streams, grace>>
        /\ UNCHANGED <<workers, worker, link, holder, sync, missed, trouble>>
    BY <1>4 DEF SubExpires
  <2>2. DemandOK' /\ CountInv' /\ Desired' \subseteq Desired
    BY <1>1, <2>1 DEF DemandOK, CountInv, StreamsOf, Desired
  <2>. QED
    BY <2>1, <2>2, UntouchedKeeps
<1>5. ASSUME NEW s \in Stream, StreamCloses(s) PROVE IdleInv'
  <2>1. DemandOK' /\ CountInv' /\ Desired' = Desired
    BY <1>1, <1>5, DemandKept
  <2>2. UNCHANGED <<workers, worker, link, holder, sync, missed, trouble>>
    BY <1>5 DEF StreamCloses
  <2>. QED
    BY <2>1, <2>2, UntouchedKeeps
<1>6. ASSUME NEW c \in Conn, DialOk(c) \/ DialFails(c) \/ SelectOk(c) \/ SelectFails(c) \/ Close(c)
      PROVE  IdleInv'
  BY <1>6, HandlersAreHandled, HandledKeeps
<1>7. ASSUME NEW w \in Worker, Reconnect(w) PROVE IdleInv'
  BY <1>7, ReconnectIsHandled, HandledKeeps
<1>8. ASSUME NEW w \in Worker, Refresh(w) PROVE IdleInv'
  BY <1>8, RefreshKeeps
<1>9. CASE UNCHANGED vars
  <2>1. /\ UNCHANGED <<workers, worker, link, holder, sync, missed, trouble>>
        /\ UNCHANGED <<subs, stream, streams, grace>>
    BY <1>9 DEF vars, demand
  <2>2. DemandOK' /\ CountInv' /\ Desired' = Desired
    BY <1>1, <2>1 DEF DemandOK, CountInv, StreamsOf, Desired
  <2>. QED
    BY <2>1, <2>2, UntouchedKeeps
<1>. QED
  BY <1>2, <1>3, <1>4, <1>5, <1>6, <1>7, <1>8, <1>9 DEF Next

\* The inductive invariant, of every behaviour.
LEMMA AlwaysIdle == Spec => []IdleInv
BY IdleInit, IdleStep, PTL DEF Spec

\* idle.ts 29-39, 144: with any number of workers and sockets, a worker that
\* was not stopped has a client or something that will get it one, an idle
\* connection has its rotation, and a stopped worker's reconnect is off.
THEOREM TimersAlwaysFollow == Spec => []TimersFollowLife
<1>1. IdleInv => TimersFollowLife
  BY DEF IdleInv, LifeInv
<1>. QED
  BY <1>1, AlwaysIdle, PTL

\* idle.ts 52-99: whatever sync() calls overlap, a worker that can still dial
\* or idle is the one its account's entry names, unless INBOX was refused.
THEOREM WorkersAreNotLost == Spec => []WorkersOK
<1>1. IdleInv => WorkersOK
  BY DEF IdleInv, LifeInv, WorkersOK
<1>. QED
  BY <1>1, AlwaysIdle, PTL

\* idle.ts 61-62: when every sync() is over, the accounts with a worker are those
\* with a subscription, a stream or a grace period, but for those a sync() missed.
THEOREM DemandIsMet == Spec => []WorkersMatchNeed
<1>1. IdleInv => WorkersMatchNeed
  BY DEF IdleInv, NeedInv, SurplusInv, WorkersMatchNeed, NeedHasWorker, NoWorkerWithoutNeed, Quiet
<1>. QED
  BY <1>1, AlwaysIdle, PTL
===============================================================================
