----------------------------- MODULE GmailPush -----------------------------
(***************************************************************************)
(* Pub/Sub hints, the push sync they lead to, and the device it wakes, over *)
(* the engine of GmailSync.  One account, one Web Push subscription; open   *)
(* EventSource tabs are told of states only, which are left out here.       *)
(***************************************************************************)
EXTENDS GmailSync

CONSTANT MaxFailures   \* failed POSTs in a row that retire a subscription

ASSUME PushAssumption == MaxFailures \in Nat \ {0}

VARIABLES
    published, \* publishedState: the cursor and revision last told of
    pending,   \* a coalescing timer runs
    waiting,   \* a sync asked for while one ran waits for its end
    device,    \* the subscription: "none", "unverified" or "verified"
    failures,  \* its POSTs that failed in a row
    owed,      \* history: a hint was acknowledged since the last push sync began
    told       \* history: arrivals announced, or with no device to announce them to

pushVars == <<published, pending, waiting, device, failures, owed, told>>
vars == <<syncVars, pushVars>>

NoState == [h |-> None, r |-> 0]

-----------------------------------------------------------------------------
(* Hints and timers.                                                       *)

\* receive, whatever the hints say, or a recovery timer while a tab is open.
Receive ==
    /\ Running = {} /\ now > 0 /\ ~pending /\ Spend
    /\ owed' = TRUE /\ pending' = TRUE
    /\ UNCHANGED <<gmail, store, memory, call, client, history, published, waiting, device, failures,
                   told>>

SyncBegins ==
    /\ Become(Push, [op |-> "push", at |-> "fresh", phase |-> 1, prof |-> now])
    /\ owed' = FALSE
    /\ UNCHANGED waiting

\* A mutant: the sync that runs is taken to be enough.
SyncRuns == UNCHANGED <<waiting, owed, call>>

\* A change may have landed after the running read started.
SyncAgainLater ==
    /\ waiting' = TRUE
    /\ UNCHANGED <<owed, call>>

sync == IF At(Push, "idle") THEN SyncBegins ELSE SyncAgainLater

\* The coalescing timer.
TimerFires ==
    /\ Running = {} /\ pending /\ ~(waiting /\ At(Push, "idle"))
    /\ pending' = FALSE
    /\ sync
    /\ UNCHANGED <<gmail, store, memory, client, spent, history, published, device,
                   failures, told>>

WaiterSchedules ==
    /\ waiting /\ At(Push, "idle") /\ Running = {}
    /\ waiting' = FALSE /\ pending' = TRUE
    /\ UNCHANGED <<syncVars, published, device, failures, owed, told>>

-----------------------------------------------------------------------------
(* pushSync and publish.                                                   *)

FreshArrives ==
    /\ Answered(Push, "fresh")
    /\ profile' = call[Push].prof
    /\ Become(Push, [at |-> joined, owner |-> flight])
    /\ UNCHANGED <<gmail, cursor, revision, cache, page, memory, client, spent, history,
                   pushVars>>

\* What is to be told is drained before anything is told.
Compare ==
    LET state == [h |-> cursor, r |-> revision]
    IN  /\ Continues(Push, "push", 1)
        /\ published' = state
        /\ lastDelivered' = undelivered /\ undelivered' = {}
        /\ UNCHANGED <<gmail, cursor, revision, cache, page, flight, warm, client, spent, history,
                       pending, waiting, device, failures, owed, told>>
        /\ IF state # published \/ undelivered # {}
           THEN Enter(Push, [phase |-> 2]) ELSE Ends(Push) /\ UNCHANGED profile

\* mailboxState reads the labels.
StatesAsk ==
    /\ Continues(Push, "push", 2)
    /\ Become(Push, [at |-> "labels", prof |-> 0])
    /\ UNCHANGED <<gmail, store, memory, client, spent, history, pushVars>>

StatesArrive ==
    /\ Answered(Push, "labels")
    /\ IF device = "verified"
       THEN Become(Push, [at |-> "post"]) /\ UNCHANGED told
       ELSE Ends(Push) /\ told' = told \cup lastDelivered
    /\ UNCHANGED <<gmail, store, memory, client, spent, history, published, pending, waiting,
                   device, failures, owed>>

PostOk ==
    /\ Answered(Push, "post")
    /\ told' = told \cup lastDelivered
    /\ failures' = 0
    /\ Ends(Push)
    /\ UNCHANGED <<gmail, store, memory, client, spent, history, published, pending, waiting,
                   device, owed>>

\* 404 and 410 retire the endpoint at once, other failures after a streak.
PostFails ==
    /\ Answered(Push, "post") /\ Spend
    /\ excused' = excused \cup lastDelivered
    /\ \/ device' = "none" /\ failures' = 0
       \/ failures + 1 < MaxFailures /\ failures' = failures + 1 /\ UNCHANGED device
    /\ Ends(Push)
    /\ UNCHANGED <<gmail, store, memory, client, swallowed, wrote, published, pending, waiting,
                   owed, told>>

\* A read of the push fails: the failure is counted and logged.
PushFails ==
    /\ Running = {} /\ Spend
    /\ excused' = excused \cup (IF call[Push].phase = 2 THEN lastDelivered ELSE {})
    /\ \/ call[Push].at \in {"fresh", "profile", "recheck", "labels"} /\ Ends(Push) /\ UNCHANGED flight
       \/ At(Push, "history") /\ Release(Push, Idle, Idle)
    /\ UNCHANGED <<gmail, store, undelivered, lastDelivered, warm, client, swallowed, wrote, pushVars>>

-----------------------------------------------------------------------------
(* The subscription, and the process.                                      *)

Subscribe ==
    /\ Running = {} /\ device = "none"
    /\ device' = "unverified" /\ failures' = 0
    /\ UNCHANGED <<syncVars, published, pending, waiting, owed, told>>

Verify ==
    /\ Running = {} /\ device = "unverified"
    /\ device' = "verified"
    /\ UNCHANGED <<syncVars, published, pending, waiting, failures, owed, told>>

\* Everything in memory is gone; the hint on disk is not read again.
Crash ==
    /\ Running = {} /\ Spend
    /\ call' = [p \in Proc |-> Idle]
    /\ excused' = excused \cup undelivered \cup (IF call[Push].phase = 2 THEN lastDelivered ELSE {})
    /\ flight' = None /\ undelivered' = {} /\ lastDelivered' = {} /\ warm' = None
    /\ published' = NoState /\ pending' = FALSE /\ waiting' = FALSE /\ owed' = FALSE
    /\ UNCHANGED <<gmail, store, client, swallowed, wrote, device, failures, told>>

Init ==
    /\ SyncInit
    /\ published = NoState /\ pending = FALSE /\ waiting = FALSE
    /\ device = "verified" /\ failures = 0
    /\ owed = FALSE /\ told = {}

Next ==
    \/ SyncStep /\ UNCHANGED pushVars
    \/ Receive \/ TimerFires \/ WaiterSchedules
    \/ FreshArrives \/ Compare \/ StatesAsk \/ StatesArrive \/ PostOk \/ PostFails \/ PushFails
    \/ Subscribe \/ Verify \/ Crash

Spec == Init /\ [][Next]_vars

-----------------------------------------------------------------------------
(* Properties.                                                             *)

Index == 0..MaxHistory
TypeOK ==
    /\ records \in Seq([kind : {"added", "deleted", "labeled", "sent"}, msg : Msg])
    /\ oldest \in Index /\ cursor \in Index \cup {None} /\ revision \in Nat
    /\ cache \in [Msg \cup {Thread} -> Index \cup {None}] /\ profile \in Index \cup {None}
    /\ flight \in Proc \cup {None}
    /\ undelivered \subseteq Inbox /\ lastDelivered \subseteq Inbox
    /\ \A p \in Proc : call[p].at = "join" => call[p].owner \in Proc \ {p}
    /\ device \in {"none", "unverified", "verified"} /\ failures \in 0..(MaxFailures - 1)
    /\ told \subseteq Inbox

\* What is cached is what the account is, whatever was under way (mail.ts 264-288).
CacheOK == TypeOK /\ CacheIsCurrent /\ OwnWritesAreSeen

\* Arrivals the cursor has passed that are still there.
Arrived == {m \in Inbox : cursor # None /\ AddedIn(m, 0, cursor) /\ Exists(m, now)}
OnTheWay == undelivered \cup (IF call[Push].phase = 2 THEN lastDelivered ELSE {})

\* An arrival the cursor has passed has been told of, is being told of or is kept for the
\* next push, whichever call moved the cursor (mail.ts:114-119); failures, crashes and
\* resets are the exceptions, and so is an arrival Email/changes carried the cursor over.
ArrivalsAreTold == Arrived \subseteq told \cup OnTheWay \cup excused \cup swallowed

\* A hint acknowledged after the last push sync began is followed by another: a timer is
\* set, or a sync waits to set it (push.ts:155-160).
HintsAreFollowed == owed => pending \/ waiting
=============================================================================
