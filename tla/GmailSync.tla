----------------------------- MODULE GmailSync -----------------------------
(***************************************************************************)
(* One Gmail account: the history cursor, the cache and its revision, the  *)
(* incremental engine every method runs first (profile), and the JMAP      *)
(* methods over it.  GmailPush adds Pub/Sub and the devices.               *)
(*                                                                         *)
(* Gmail numbers its changes; what it says of a message is told by the     *)
(* number it was asked at, so a copy is represented by that number.  A     *)
(* question and its answer are two steps and the answer is as old as the   *)
(* question.  Between two questions a call runs to completion.             *)
(***************************************************************************)
EXTENDS Naturals, FiniteSets, FiniteSetsExt, SequencesExt

CONSTANTS
    Msg,         \* messages, by the id the bridge gives them (originalId)
    Inbox,       \* those Gmail files in INBOX; the others are drafts and sent mail
    Unlabelled,  \* those whose history records carry no labelIds
    Request,     \* JMAP clients, each with one call at a time
    Push,        \* the push sync of the account
    Thread,      \* the one thread of the account
    MaxHistory,  \* bound on what happens to the mailbox
    Budget,      \* bound on calls, hints and failures, together
    None

ASSUME GmailAssumption ==
    /\ Inbox \subseteq Msg /\ Unlabelled \subseteq Msg
    /\ Thread \notin Msg /\ Push \notin Request
    /\ {MaxHistory, Budget} \subseteq Nat
    /\ None \notin Nat \cup Request \cup {Push}
    /\ None \notin [before : BOOLEAN, after : BOOLEAN]

VARIABLES
    records,     \* Gmail's history
    oldest,      \* history up to here is no longer listed
    cursor,      \* gmail_cursor: the history the store has caught up with
    revision,    \* gmail_revision
    cache,       \* gmail_cache, message and thread rows: when each was asked for
    profile,     \* gmail_cache, the profile row: its historyId
    page,        \* gmail_cache, a listing: the state in its key and when it was asked for
    flight,      \* syncFlight: who runs it
    undelivered, \* arrivals no push has told of
    lastDelivered, \* those the push in progress tells of
    warm,        \* the detached prefetch of what a sync found
    call,        \* the calls in progress: a record of locals each
    client,      \* what each client believes
    spent,       \* calls, hints and failures so far
    excused,     \* history: arrivals older than the first cursor, or lost by a failure or a reset
    swallowed,   \* history: arrivals Email/changes carried the cursor over
    wrote        \* history: the last change of each message by a write that is over

gmail == <<records, oldest>>
rows == <<cache, profile, page>>
store == <<cursor, revision, rows>>
memory == <<flight, undelivered, lastDelivered, warm>>
history == <<excused, swallowed, wrote>>
syncVars == <<gmail, store, memory, call, client, spent, history>>

Proc == Request \cup {Push}
Gone == MaxHistory + 1                \* history.list answered 404

Spend == spent < Budget /\ spent' = spent + 1

-----------------------------------------------------------------------------
(* Gmail.                                                                  *)

now == Len(records)
Touches(m, from, to) == {i \in (from + 1)..to : records[i].msg = m}
LastTouch(m, to) == Max({0} \cup Touches(m, 0, to))
Exists(m, at) == LastTouch(m, at) # 0 /\ records[LastTouch(m, at)].kind # "deleted"
Touched(from, to) == {records[i].msg : i \in (from + 1)..to}
AddedIn(m, from, to) == \E i \in Touches(m, from, to) : records[i].kind = "added"

Happens(m, kind) ==
    /\ now < MaxHistory
    /\ records' = Append(records, [kind |-> kind, msg |-> m])
    /\ UNCHANGED oldest

-----------------------------------------------------------------------------
(* history.ts                                                              *)

\* A message added and removed inside the window is no delivery.
addedMessages(from, to) ==
    {m \in Msg : AddedIn(m, from, to)
                 /\ \A i \in Touches(m, from, to) : records[i].kind # "deleted"}

\* labelIds are those of the record, or asked for now; `missed` are reads that fail.
deliveries(from, to, missed) ==
    {m \in addedMessages(from, to) \cap Inbox :
        m \in Unlabelled => Exists(m, now) /\ m \notin missed}

\* Whether an id existed at the start and at the end.
Event(s, kind) ==
    LET known == IF s = None THEN [before |-> kind # "create", after |-> TRUE] ELSE s
    IN  IF kind # "update" \/ known.after
        THEN [known EXCEPT !.after = kind # "destroy"] ELSE known

\* A mutant: additions are read before deletions.
AddedFirst(s, kind) ==
    CASE kind = "sent"    -> Event(Event(s, "create"), "destroy")
      [] kind = "deleted" -> Event(s, "destroy")
      [] kind = "added"   -> Event(s, "create")
      [] OTHER            -> Event(s, "update")

\* Sending a draft deletes it and adds the mail sent, both under the draft's id.
RecordEvents(s, kind) ==
    CASE kind = "sent"    -> Event(Event(s, "destroy"), "create")
      [] kind = "deleted" -> Event(s, "destroy")
      [] kind = "added"   -> Event(s, "create")
      [] OTHER            -> Event(s, "update")

Fate(m, from, to) ==
    FoldLeft(LAMBDA s, r : IF r.msg = m THEN RecordEvents(s, r.kind) ELSE s,
             None, SubSeq(records, from + 1, to))

emailDelta(from, to) ==
    LET are(b, a) == {m \in Msg : LET s == Fate(m, from, to)
                                  IN  s # None /\ s.before = b /\ s.after = a}
    IN  [created |-> are(FALSE, TRUE), updated |-> are(TRUE, TRUE), destroyed |-> are(TRUE, FALSE)]

-----------------------------------------------------------------------------
(* GmailStore: the cursor and the cache.                                   *)

NoRows == [k \in Msg \cup {Thread} |-> None]

invalidate ==
    /\ revision' = revision + 1
    /\ cache' = NoRows /\ profile' = None /\ page' = None

Evict(ms) ==
    /\ cache' = [k \in DOMAIN cache |-> IF k \in ms \cup {Thread} THEN None ELSE cache[k]]
    /\ page' = None /\ UNCHANGED profile

checkpoint(h, ms, reset) ==
    IF cursor # None /\ cursor >= h THEN UNCHANGED store
    ELSE /\ cursor' = h
         /\ IF reset THEN invalidate
            ELSE IF ms # {} THEN revision' = revision + 1 /\ Evict(ms)
            ELSE UNCHANGED <<revision, rows>>

\* A mutant of Unmoved: whatever was read is stored.
AlwaysStored(rev) == TRUE

\* The result of a fetch is stored if the revision is the one it began under.
Unmoved(rev) == revision = rev

-----------------------------------------------------------------------------
(* The calls.                                                              *)

Idle == [op |-> "none", at |-> "idle", phase |-> 0, msg |-> None, prof |-> 0,
         base |-> 0, rev |-> 0, got |-> 0, upto |-> 0, owner |-> None]
\* The new locals of a call, the others as they were.
Over(old, new) ==
    [x \in DOMAIN old \cup DOMAIN new |-> IF x \in DOMAIN new THEN new[x] ELSE old[x]]
Become(p, locals) == call' = [call EXCEPT ![p] = Over(@, locals)]
Ends(p) == call' = [call EXCEPT ![p] = Idle]
At(p, stage) == call[p].at = stage

Running == {p \in Proc : call[p].at \in {"decide", "ready"}}
Turn(p) == Running = {} \/ p \in Running
Continues(p, op, phase) ==
    At(p, "ready") /\ call[p].op = op /\ call[p].phase = phase /\ Turn(p)
Answered(p, stage) == At(p, stage) /\ Turn(p)

\* What profile() returns into: the state every method opens or closes with.
StateOf(p) == [h |-> call[p].prof, r |-> revision]

-----------------------------------------------------------------------------
(* profile(): read the profile, wait for the sync in flight, run a sync.   *)

\* With the profile in hand a call goes on, or waits for the sync in flight.
joined == IF flight = None THEN "decide" ELSE "join"

\* An entry that has lived its 30 s is found so by the call that reads it.
ProfileAsk(p, locals) ==
    /\ profile' = None
    /\ Become(p, Over(locals, [at |-> "profile", prof |-> now, rev |-> revision']))

Enter(p, locals) ==
    \/ ProfileAsk(p, locals)
    \/ /\ profile # None /\ UNCHANGED profile
       /\ Become(p, Over(locals, [at |-> joined, prof |-> profile, owner |-> flight]))

ProfileArrives(p) ==
    /\ Answered(p, "profile")
    /\ profile' = IF Unmoved(call[p].rev) THEN call[p].prof ELSE profile
    /\ Become(p, [at |-> joined, owner |-> flight, rev |-> 0])
    /\ UNCHANGED <<gmail, cursor, revision, cache, page, memory, client, spent, history>>

FirstCursor(p) ==
    /\ At(p, "decide") /\ Turn(p) /\ cursor = None
    /\ checkpoint(call[p].prof, {}, FALSE)
    /\ excused' = excused \cup deliveries(0, call[p].prof, {})
    /\ Become(p, [at |-> "ready"])
    /\ UNCHANGED <<gmail, memory, client, spent, swallowed, wrote>>

UpToDate(p) ==
    /\ At(p, "decide") /\ Turn(p) /\ cursor = call[p].prof
    /\ Become(p, [at |-> "ready"])
    /\ UNCHANGED <<gmail, store, memory, client, spent, history>>

\* A profile older than the cursor is read again.
StaleProfile(p) ==
    /\ At(p, "decide") /\ Turn(p) /\ cursor # None /\ call[p].prof < cursor
    /\ Become(p, [at |-> "recheck", base |-> cursor, prof |-> now])
    /\ UNCHANGED <<gmail, store, memory, client, spent, history>>

RecheckArrives(p) ==
    /\ Answered(p, "recheck")
    /\ profile' = call[p].prof
    /\ IF call[p].prof > call[p].base
       THEN Become(p, [at |-> joined, base |-> 0, owner |-> flight])
       ELSE Become(p, [at |-> "ready", prof |-> call[p].base, base |-> 0])
    /\ UNCHANGED <<gmail, cursor, revision, cache, page, memory, client, spent, history>>

\* readHistory(start), every page of it.
HistoryAsk(start) == IF start < oldest THEN Gone ELSE now

SyncStarts(p) ==
    /\ At(p, "decide") /\ Turn(p) /\ cursor # None /\ call[p].prof > cursor
    /\ flight' = p
    /\ Become(p, [at |-> "history", base |-> cursor, rev |-> revision, upto |-> HistoryAsk(cursor)])
    /\ UNCHANGED <<gmail, store, undelivered, lastDelivered, warm, client, spent, history>>

\* The sync of p is over: those that waited for it go on beside p, or fail with it.
Release(p, mine, theirs) ==
    /\ flight' = None
    /\ call' = [q \in Proc |->
                  IF q = p THEN mine
                  ELSE IF At(q, "join") /\ call[q].owner = p THEN Over(call[q], theirs)
                  ELSE call[q]]

\* The sync of p fails: a push that has drained what it was to tell of fails with it.
LostBy(p) ==
    IF call[Push].phase = 2 /\ (Push = p \/ (At(Push, "join") /\ call[Push].owner = p))
    THEN lastDelivered ELSE {}

\* A mutant: what was not yet told of is replaced.
KeepLatest(delivered) == undelivered' = delivered

\* Told of later, whether or not the checkpoint below is taken.
Collect(delivered) == undelivered' = undelivered \cup delivered

\* What the sync found is fetched in one batch, beside the call.
prefetch(ms) ==
    warm' = IF warm = None /\ Cardinality(ms) > 1
            THEN [ids |-> ms, at |-> now, rev |-> revision'] ELSE warm

SyncLands(p) ==
    LET base == call[p].base
        upto == call[p].upto
    IN  /\ Answered(p, "history") /\ upto # Gone
        /\ \E missed \in SUBSET (Unlabelled \cap addedMessages(base, upto) \cap Inbox) :
              /\ IF missed = {} THEN UNCHANGED spent ELSE Spend
              /\ excused' = excused \cup missed
              /\ Collect(deliveries(base, upto, missed))
        /\ IF Unmoved(call[p].rev)
           THEN checkpoint(upto, Touched(base, upto), FALSE) /\ prefetch(Touched(base, upto))
           ELSE UNCHANGED <<store, warm>>
        /\ Release(p, [call[p] EXCEPT !.at = "ready", !.prof = cursor', !.base = 0, !.rev = 0,
                                      !.upto = 0, !.owner = None],
                   [at |-> "decide", owner |-> None])
        /\ UNCHANGED <<gmail, lastDelivered, client, swallowed, wrote>>

\* cannotCalculateChanges: the account's cache is dropped wholesale.
SyncResets(p) ==
    /\ Answered(p, "history") /\ call[p].upto = Gone
    /\ IF Unmoved(call[p].rev)
       THEN /\ checkpoint(call[p].prof, {}, TRUE)
            /\ excused' = excused \cup {m \in Msg : AddedIn(m, call[p].base, call[p].prof)}
       ELSE UNCHANGED <<store, excused>>
    /\ Release(p, [call[p] EXCEPT !.at = "ready", !.prof = cursor', !.base = 0, !.rev = 0,
                                  !.upto = 0, !.owner = None],
               [at |-> "decide", owner |-> None])
    /\ UNCHANGED <<gmail, undelivered, lastDelivered, warm, client, spent, swallowed, wrote>>

WarmArrives ==
    /\ Running = {} /\ warm # None
    /\ IF Unmoved(warm.rev)
       THEN cache' = [k \in DOMAIN cache |->
                        IF k \in warm.ids /\ Exists(k, warm.at) THEN warm.at ELSE cache[k]]
       ELSE UNCHANGED cache
    /\ warm' = None
    /\ UNCHANGED <<gmail, cursor, revision, profile, page, flight, undelivered, lastDelivered, call,
                   client, spent, history>>

-----------------------------------------------------------------------------
(* Email/get, of one message; it states the account's state after the data. *)

TakeCopy(r) == client' = [client EXCEPT ![r].held[call[r].msg] = call[r].got,
                                        ![r].want = @ \ {call[r].msg}]

GetCached(r) ==
    /\ Continues(r, "get", 1) /\ cache[call[r].msg] # None
    /\ UNCHANGED <<gmail, cursor, revision, cache, page, memory, client, spent, history>>
    /\ Enter(r, [phase |-> 2, prof |-> 0, got |-> cache[call[r].msg]])

\* Not cached, expired, or evicted to make room.
GetAsk(r) ==
    /\ Continues(r, "get", 1)
    /\ cache' = [cache EXCEPT ![call[r].msg] = None]
    /\ Become(r, [at |-> "message", prof |-> 0, got |-> now, rev |-> revision])
    /\ UNCHANGED <<gmail, cursor, revision, profile, page, memory, client, spent, history>>

MessageArrives(r) ==
    /\ Answered(r, "message")
    /\ cache' = IF Unmoved(call[r].rev) /\ Exists(call[r].msg, call[r].got)
                THEN [cache EXCEPT ![call[r].msg] = call[r].got] ELSE cache
    /\ UNCHANGED <<gmail, cursor, revision, page, memory, client, spent, history>>
    /\ Enter(r, [phase |-> 2, rev |-> 0])

GetAnswers(r) ==
    /\ Continues(r, "get", 2)
    /\ TakeCopy(r) /\ Ends(r)
    /\ UNCHANGED <<gmail, store, memory, spent, history>>

-----------------------------------------------------------------------------
(* Thread/get: the messages of a thread are kept as copies of their own.   *)

InThread(at) == [k \in DOMAIN cache |-> IF k = Thread \/ Exists(k, at) THEN at ELSE cache[k]]

ThreadCached(r) ==
    /\ Continues(r, "thread", 1) /\ cache[Thread] # None
    /\ cache' = InThread(cache[Thread])
    /\ Ends(r)
    /\ UNCHANGED <<gmail, cursor, revision, profile, page, memory, client, spent, history>>

ThreadAsk(r) ==
    /\ Continues(r, "thread", 1)
    /\ cache' = [cache EXCEPT ![Thread] = None]
    /\ Become(r, [at |-> "thread", prof |-> 0, got |-> now, rev |-> revision])
    /\ UNCHANGED <<gmail, cursor, revision, profile, page, memory, client, spent, history>>

ThreadArrives(r) ==
    /\ Answered(r, "thread")
    /\ cache' = IF Unmoved(call[r].rev) THEN InThread(call[r].got) ELSE cache
    /\ Ends(r)
    /\ UNCHANGED <<gmail, cursor, revision, profile, page, memory, client, spent, history>>

-----------------------------------------------------------------------------
(* Email/query, by a client that starts again: it asks for the state, then *)
(* for the list.  A listing is kept under the state it was asked in.       *)

TakeList(r, s, at) ==
    client' = [client EXCEPT ![r] = [lost |-> FALSE, state |-> s, since |-> s.h,
                                     held |-> [m \in Msg |-> at],
                                     want |-> {m \in Msg : Exists(m, at)}]]

QueryCached(r) ==
    /\ Continues(r, "reload", 1)
    /\ page # None /\ page.state = StateOf(r)
    /\ TakeList(r, page.state, page.at) /\ Ends(r)
    /\ UNCHANGED <<gmail, store, memory, spent, history>>

QueryAsk(r) ==
    /\ Continues(r, "reload", 1)
    /\ page' = None
    /\ Become(r, [at |-> "list", got |-> now, rev |-> revision])
    /\ UNCHANGED <<gmail, cursor, revision, cache, profile, memory, client, spent, history>>

ListArrives(r) ==
    LET s == [h |-> call[r].prof, r |-> call[r].rev]
    IN  /\ Answered(r, "list")
        /\ page' = IF Unmoved(call[r].rev) THEN [state |-> s, at |-> call[r].got] ELSE page
        /\ TakeList(r, s, call[r].got) /\ Ends(r)
        /\ UNCHANGED <<gmail, cursor, revision, cache, profile, memory, spent, history>>

-----------------------------------------------------------------------------
(* Email/changes.                                                          *)

CannotCalculate(r) == client' = [client EXCEPT ![r].lost = TRUE]

NoChanges(r) ==
    /\ Continues(r, "changes", 1) /\ client[r].state = StateOf(r)
    /\ Ends(r)
    /\ UNCHANGED <<gmail, store, memory, client, spent, history>>

\* The revision moved and the history did not: a local write Gmail has not listed yet.
OnlyRevisionMoved(r) ==
    /\ Continues(r, "changes", 1)
    /\ client[r].state # StateOf(r) /\ client[r].state.h = call[r].prof
    /\ CannotCalculate(r) /\ Ends(r)
    /\ UNCHANGED <<gmail, store, memory, spent, history>>

ChangesAsk(r) ==
    /\ Continues(r, "changes", 1) /\ client[r].state.h # call[r].prof
    /\ Become(r, [at |-> "delta", prof |-> 0, base |-> client[r].state.h,
                  upto |-> HistoryAsk(client[r].state.h)])
    /\ UNCHANGED <<gmail, store, memory, client, spent, history>>

\* The history is gone, or holds more than the client will take.
TooManyChanges(r) ==
    /\ Answered(r, "delta")
    /\ call[r].upto # Gone => Cardinality(Touched(call[r].base, call[r].upto)) > 1
    /\ CannotCalculate(r) /\ Ends(r)
    /\ UNCHANGED <<gmail, store, memory, spent, history>>

TakeChanges(r, delta, upto) ==
    client' = [client EXCEPT
        ![r].state = [h |-> upto, r |-> revision'],
        ![r].want = (@ \cup delta.created \cup delta.updated) \ delta.destroyed,
        ![r].held = [m \in Msg |-> IF m \in delta.destroyed THEN upto ELSE @[m]]]

\* The cursor is moved to what was read here, past arrivals no sync has seen.
ChangesArrive(r) ==
    LET base == call[r].base
        upto == call[r].upto
    IN  /\ Answered(r, "delta") /\ upto # Gone
        /\ checkpoint(upto, Touched(base, upto), FALSE)
        /\ TakeChanges(r, emailDelta(base, upto), upto)
        /\ swallowed' = IF cursor' = cursor THEN swallowed
                        ELSE swallowed \cup deliveries(cursor, upto, {})
        /\ Ends(r)
        /\ UNCHANGED <<gmail, memory, spent, excused, wrote>>

-----------------------------------------------------------------------------
(* Email/set, one update: the cache is dropped before the write is sent and *)
(* again when it is over, however it ended.                                *)

DropAfterWrite == invalidate

WriteLook(r) ==
    /\ Continues(r, "write", 1)
    /\ Become(r, [at |-> "look", prof |-> 0, got |-> now])
    /\ UNCHANGED <<gmail, store, memory, client, spent, history>>

\* notFound, or a patch that changes nothing.
NothingToWrite(r) ==
    /\ Answered(r, "look")
    /\ UNCHANGED <<gmail, cursor, revision, cache, page, memory, client, spent, history>>
    /\ Enter(r, [phase |-> 2, got |-> 0])

WriteSent(r) ==
    /\ Answered(r, "look") /\ Exists(call[r].msg, call[r].got)
    /\ invalidate
    /\ Become(r, [at |-> "write", got |-> 0])
    /\ UNCHANGED <<gmail, cursor, memory, client, spent, history>>

WriteTakesEffect(r) ==
    /\ At(r, "write") /\ Running = {} /\ Exists(call[r].msg, now)
    /\ Happens(call[r].msg, "labeled")
    /\ Become(r, [at |-> "written", got |-> now + 1])
    /\ UNCHANGED <<store, memory, client, spent, history>>

\* Done, refused, or its answer lost: the bridge goes on in the same way.
WriteOver(r) ==
    /\ Answered(r, "written") \/ Answered(r, "write")
    /\ DropAfterWrite
    /\ ProfileAsk(r, [phase |-> 2, got |-> 0])
    /\ wrote' = IF At(r, "written") THEN [wrote EXCEPT ![call[r].msg] = call[r].got] ELSE wrote
    /\ UNCHANGED <<gmail, cursor, memory, client, spent, excused, swallowed>>

WriteAnswers(r) ==
    /\ Continues(r, "write", 2)
    /\ Ends(r)
    /\ UNCHANGED <<gmail, store, memory, client, spent, history>>

-----------------------------------------------------------------------------
(* The clients, Gmail and what goes wrong.                                 *)

Calls(r) ==
    IF client[r].lost THEN {<<"reload", None>>}
    ELSE {<<"changes", None>>, <<"thread", None>>} \cup ({"get"} \X client[r].want)
         \cup (IF \E q \in Request : call[q].op = "write" THEN {} ELSE {"write"} \X Msg)

Start(r) ==
    /\ At(r, "idle") /\ Running = {} /\ Spend
    /\ UNCHANGED <<gmail, cursor, revision, cache, page, memory, client, history>>
    /\ \E c \in Calls(r) : Enter(r, [op |-> c[1], msg |-> c[2], phase |-> 1])

GmailChanges(m) ==
    /\ Running = {}
    /\ \/ ~Exists(m, now) /\ LastTouch(m, now) = 0 /\ Happens(m, "added")
       \/ Exists(m, now) /\ \E kind \in {"deleted", "labeled"} : Happens(m, kind)
       \/ Exists(m, now) /\ m \notin Inbox /\ Happens(m, "sent")
    /\ UNCHANGED <<store, memory, call, client, spent, history>>

HistoryExpires ==
    /\ Running = {} /\ oldest < now /\ Spend
    /\ oldest' = now
    /\ UNCHANGED <<records, store, memory, call, client, history>>

\* A read fails; a sync in flight takes with it the calls that wait for it.
Fails(r) ==
    /\ Running = {} /\ Spend
    /\ \/ /\ call[r].at \in {"profile", "recheck", "message", "thread", "list", "delta", "look"}
          /\ Ends(r) /\ UNCHANGED <<flight, excused>>
       \/ At(r, "history") /\ Release(r, Idle, Idle) /\ excused' = excused \cup LostBy(r)
    /\ UNCHANGED <<gmail, store, undelivered, lastDelivered, warm, client, swallowed, wrote>>

\* An account just connected, or one that was read while it was empty.
SyncInit ==
    /\ cursor \in {None, 0}
    /\ records = <<>> /\ oldest = 0
    /\ revision = 0
    /\ cache = NoRows /\ profile = None /\ page = None
    /\ flight = None /\ undelivered = {} /\ lastDelivered = {} /\ warm = None
    /\ call = [p \in Proc |-> Idle]
    /\ client = [r \in Request |-> [lost |-> cursor = None, state |-> [h |-> 0, r |-> 0], since |-> 0,
                                    held |-> [m \in Msg |-> 0], want |-> {}]]
    /\ spent = 0 /\ excused = {} /\ swallowed = {} /\ wrote = [m \in Msg |-> 0]

Profile(p) ==
    \/ ProfileArrives(p) \/ FirstCursor(p) \/ UpToDate(p)
    \/ StaleProfile(p) \/ RecheckArrives(p) \/ SyncStarts(p) \/ SyncLands(p) \/ SyncResets(p)

Method(r) ==
    \/ Start(r) \/ Fails(r)
    \/ GetCached(r) \/ GetAsk(r) \/ MessageArrives(r) \/ GetAnswers(r)
    \/ ThreadCached(r) \/ ThreadAsk(r) \/ ThreadArrives(r)
    \/ QueryCached(r) \/ QueryAsk(r) \/ ListArrives(r)
    \/ NoChanges(r) \/ OnlyRevisionMoved(r) \/ ChangesAsk(r) \/ TooManyChanges(r) \/ ChangesArrive(r)
    \/ WriteLook(r) \/ NothingToWrite(r) \/ WriteSent(r) \/ WriteTakesEffect(r) \/ WriteOver(r)
    \/ WriteAnswers(r)

SyncStep ==
    \/ \E p \in Proc : Profile(p)
    \/ \E r \in Request : Method(r)
    \/ \E m \in Msg : GmailChanges(m)
    \/ HistoryExpires \/ WarmArrives

-----------------------------------------------------------------------------
(* Properties.                                                             *)

\* A copy still in the cache is one Gmail has said nothing about: every change up to
\* the cursor that touches a message, or a message of the thread, came before the copy
\* was asked for (the promise of MESSAGE_TTL, mail.ts:89-96).
CacheIsCurrent ==
    /\ \A m \in Msg : cache[m] # None => LastTouch(m, cursor) <= cache[m]
    /\ cache[Thread] # None => \A m \in Msg : LastTouch(m, cursor) <= cache[Thread]
    /\ page # None => page.state.h <= page.at

\* A copy in the cache shows every change this bridge has made and is done with, although
\* the message may have been read while the write was on its way.
OwnWritesAreSeen ==
    /\ \A m \in Msg : cache[m] # None => wrote[m] <= cache[m]
    /\ cache[Thread] # None => \A m \in Msg : wrote[m] <= cache[Thread]

\* What a client that follows Email/changes believes of a message was so at its state or
\* later, unless it knows that it has to read that message again: over cached pages and
\* copies, syncs that run beside its calls, local writes and a history that expires.
\* A message that came and went since the client began is never mentioned, so it may be
\* missed, or still be shown by a client whose first list was newer than its state.
ClientIsCurrent ==
    \A r \in Request : LET c == client[r] IN ~c.lost =>
        \A m \in Msg \ c.want :
            LastTouch(m, c.state.h) <= c.held[m] \/ ~(Exists(m, c.state.h) \/ Exists(m, c.since))
=============================================================================
