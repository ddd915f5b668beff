----------------------------- MODULE ScheduledSend -----------------------------
(***************************************************************************)
(* Sending through Gmail: gmail/compose.ts with its durable ledger and its   *)
(* delayed-send queue in gmail/store.ts, the worker of gmail/backend.ts, a   *)
(* JMAP client of the same account, Google, and a process that may die at   *)
(* any moment.  All is one account.                                         *)
(*                                                                          *)
(* A step runs from one await to the next, except that what a write depends  *)
(* on and the write itself are two steps where a crash between two durable  *)
(* writes matters (Settle).  The writes of an account run one after the     *)
(* other, first come first served (GmailMail.exclusive).                    *)
(*                                                                          *)
(* Time is abstracted to what the worker compares: a queued submission is   *)
(* early, due, or late beyond the tolerance.  The reads before a send       *)
(* (identities, draft, recipients) are one await whose answers are free.    *)
(***************************************************************************)
EXTENDS Integers

CONSTANTS
  Draft,       \* drafts, by the JMAP id the client knows
  Row,         \* queue entries
  Immediate,   \* stands for the fingerprint of any send without a hold
  None,
  MaxCrashes   \* bound: times the process dies

ASSUME ImmediateAssumption == Immediate \notin Row /\ None \notin Row \cup Draft \cup {Immediate}
ASSUME BoundAssumption == MaxCrashes \in Nat

VARIABLES
  draft,      \* draft[d] at Google: original, edited (other bytes), replaced
              \* (another message id), gone
  ledger,     \* gmail_submission: who recorded the intent, and whether a result
  row,        \* gmail_schedule: status, draft, and the version raw_hash pins
  age,        \* age[r]: early, due, late
  worker,     \* the worker: where it is, what it saw at its tick, what is left
  client,     \* the client's EmailSubmission/set under way
  inflight,   \* send requests Google may still carry out
  asked,      \* history: asked[d][v], send requests dispatched and not provably
              \* refused, by draft and by who made them
  sentBy,     \* history: whose request sent the draft
  up, crashes

external == <<draft, inflight, sentBy>>
vars == <<ledger, row, age, worker, client, asked, up, crashes, external>>

Via == Row \cup {Immediate}
NoEntry == [by |-> None, result |-> FALSE]
NoRow == [status |-> "none", draft |-> None, pin |-> "original"]
Off == [at |-> "off", now |-> [r \in Row |-> "early"], todo |-> {}, row |-> None,
        verdict |-> "none"]
NoCall == [at |-> "out", draft |-> None, hold |-> FALSE]

Init ==
  /\ draft = [d \in Draft |-> "original"]
  /\ ledger = [d \in Draft |-> NoEntry]
  /\ row = [r \in Row |-> NoRow]
  /\ age = [r \in Row |-> "early"]
  /\ worker = Off
  /\ client = NoCall
  /\ inflight = {} /\ sentBy = [d \in Draft |-> None]
  /\ asked = [d \in Draft |-> [v \in Via |-> 0]]
  /\ up = TRUE /\ crashes = 0

Waiting(r) == row[r].status = "pending"
Unchanged(d) == draft[d] \in {"original", "edited"}

\* Nobody runs under the account's write lock.
LockFree == client.at = "out" /\ worker.at \in {"off", "called"}

-------------------------------------------------------------------------------
(* The ledger *)

\* beginSubmission(), which a recorded intent stops, and the request that
\* leaves right after.
Begin(d, v) ==
  /\ ledger[d] = NoEntry
  /\ ledger' = [ledger EXCEPT ![d] = [by |-> v, result |-> FALSE]]
  /\ asked' = [asked EXCEPT ![d][v] = @ + 1]
  /\ inflight' = inflight \cup {[draft |-> d, via |-> v]}

\* finishSubmission().
Finish(d) ==
  /\ ledger' = [ledger EXCEPT ![d].result = TRUE]

\* GmailNotSent: refused with a 4xx, or never dispatched.  abandonSubmission().
NotSent(d, v) ==
  /\ [draft |-> d, via |-> v] \in inflight
  /\ inflight' = inflight \ {[draft |-> d, via |-> v]}
  /\ asked' = [asked EXCEPT ![d][v] = 0]
  /\ ledger' = [ledger EXCEPT ![d] = NoEntry]

-------------------------------------------------------------------------------
(* EmailSubmission/set *)

\* submitOne(), up to prepare(): a draft with a ledger entry is answered from it
\* or refused, and nothing changes.
Submit(d, hold) ==
  /\ up /\ LockFree
  /\ ledger[d] = NoEntry
  /\ client' = [at |-> "preparing", draft |-> d, hold |-> hold]
  /\ UNCHANGED <<ledger, row, age, worker, asked, up, crashes, external>>

\* prepare() throws: the draft has changed, or a read failed or displeased.
PrepareFails ==
  /\ client.at = "preparing"
  /\ client' = NoCall
  /\ UNCHANGED <<ledger, row, age, worker, asked, up, crashes, external>>

\* Mutant of Schedule: the draft is not compared with the one approved.
ScheduleUnchecked(r) ==
  /\ client.at = "preparing" /\ client.hold
  /\ row[r] = NoRow
  /\ row' = [row EXCEPT ![r] =
       [status |-> "pending", draft |-> client.draft, pin |-> draft[client.draft]]]
  /\ client' = NoCall
  /\ UNCHANGED <<ledger, age, worker, asked, up, crashes, external>>

\* A held submission: scheduleCreate().
Schedule(r) ==
  /\ client.at = "preparing" /\ client.hold
  /\ Unchanged(client.draft)
  /\ row[r] = NoRow
  /\ row' = [row EXCEPT ![r] =
       [status |-> "pending", draft |-> client.draft, pin |-> draft[client.draft]]]
  /\ client' = NoCall
  /\ UNCHANGED <<ledger, age, worker, asked, up, crashes, external>>

\* Any other: the intent is recorded and the send leaves.
SendNow ==
  /\ client.at = "preparing" /\ ~client.hold
  /\ Unchanged(client.draft)
  /\ Begin(client.draft, Immediate)
  /\ client' = [client EXCEPT !.at = "sending"]
  /\ UNCHANGED <<row, age, worker, up, crashes, draft, sentBy>>

\* Google confirms.
SendNowOk ==
  /\ client.at = "sending"
  /\ sentBy[client.draft] = Immediate
  /\ Finish(client.draft)
  /\ client' = NoCall
  /\ UNCHANGED <<row, age, worker, asked, up, crashes, external>>

SendNowNotSent ==
  /\ client.at = "sending"
  /\ NotSent(client.draft, Immediate)
  /\ client' = NoCall
  /\ UNCHANGED <<row, age, worker, up, crashes, draft, sentBy>>

\* Mutant of SendNowUnknown: the intent is released, as if nothing had gone out.
SendNowUnsure ==
  /\ client.at = "sending"
  /\ ledger' = [ledger EXCEPT ![client.draft] = NoEntry]
  /\ client' = NoCall
  /\ UNCHANGED <<row, age, worker, asked, up, crashes, external>>

\* No answer, or a 5xx: the intent stays, without a result.
SendNowUnknown ==
  /\ client.at = "sending"
  /\ client' = NoCall
  /\ UNCHANGED <<ledger, row, age, worker, asked, up, crashes, external>>

\* Mutant of Cancel: an entry need not be pending.
CancelAnything(r) ==
  /\ up /\ LockFree
  /\ row[r] # NoRow
  /\ row' = [row EXCEPT ![r].status = "canceled"]
  /\ UNCHANGED <<ledger, age, worker, client, asked, up, crashes, external>>

\* undoStatus "canceled": scheduleCancel(), for a pending entry only.
Cancel(r) ==
  /\ up /\ LockFree
  /\ Waiting(r)
  /\ row' = [row EXCEPT ![r].status = "canceled"]
  /\ UNCHANGED <<ledger, age, worker, client, asked, up, crashes, external>>

-------------------------------------------------------------------------------
(* The worker *)

\* The timer finds due entries.  "now" is read here, before the lock.
Tick ==
  /\ up /\ worker.at = "off"
  /\ \E r \in Row : Waiting(r) /\ age[r] # "early"
  /\ worker' = [Off EXCEPT !.at = "called", !.now = age]
  /\ UNCHANGED <<ledger, row, age, client, asked, up, crashes, external>>

\* runDue() has the lock and reads the entries that were due then.
RunDue ==
  /\ worker.at = "called" /\ LockFree
  /\ worker' = [worker EXCEPT !.at = "next",
                  !.todo = {r \in Row : Waiting(r) /\ worker.now[r] # "early"}]
  /\ UNCHANGED <<ledger, row, age, client, asked, up, crashes, external>>

RunEnds ==
  /\ worker.at = "next" /\ worker.todo = {}
  /\ worker' = Off
  /\ UNCHANGED <<ledger, row, age, client, asked, up, crashes, external>>

\* The next entry is leased; one that was late at the tick is suspended.
Lease(r) ==
  /\ worker.at = "next" /\ r \in worker.todo
  /\ IF Waiting(r)
     THEN /\ row' = [row EXCEPT ![r].status = "sending"]
          /\ worker' = [worker EXCEPT !.todo = @ \ {r}, !.row = r,
                          !.at = IF worker.now[r] = "late" THEN "settle" ELSE "enabled",
                          !.verdict = "suspended"]
     ELSE /\ worker' = [worker EXCEPT !.todo = @ \ {r}]
          /\ UNCHANGED row
  /\ UNCHANGED <<ledger, age, client, asked, up, crashes, external>>

Decide(verdict) == worker' = [worker EXCEPT !.at = "settle", !.verdict = verdict]

\* enabled() answers: composition is disabled, or reading that failed, or the
\* ledger has the word.
Enabled ==
  LET entry == ledger[row[worker.row].draft]
  IN /\ worker.at = "enabled"
     /\ \/ Decide("suspended")
        \/ Decide("pending")
        \/ entry.result /\ Decide("canceled")
        \/ entry # NoEntry /\ ~entry.result /\ Decide("uncertain")
        \/ entry = NoEntry /\ worker' = [worker EXCEPT !.at = "reading"]
     /\ UNCHANGED <<ledger, row, age, client, asked, up, crashes, external>>

\* The reads fail for now, or one tells that the entry must not be sent:
\* identity gone, draft deleted, replaced or edited, recipients not in order.
ReadsForbid ==
  /\ worker.at = "reading"
  /\ Decide("pending") \/ Decide("suspended")
  /\ UNCHANGED <<ledger, row, age, client, asked, up, crashes, external>>

\* checkedDraft() and the hash: the draft is the message that was approved.
Matches(d, pin) == Unchanged(d) /\ draft[d] = pin

ReadsAllow ==
  LET r == worker.row
  IN /\ worker.at = "reading"
     /\ Matches(row[r].draft, row[r].pin)
     /\ Begin(row[r].draft, r)
     /\ worker' = [worker EXCEPT !.at = "sending"]
     /\ UNCHANGED <<row, age, client, up, crashes, draft, sentBy>>

\* Google confirms: finishSubmission(), and then scheduleFinish().
SendOk ==
  /\ worker.at = "sending"
  /\ sentBy[row[worker.row].draft] = worker.row
  /\ Finish(row[worker.row].draft)
  /\ Decide("sent")
  /\ UNCHANGED <<row, age, client, asked, up, crashes, external>>

\* abandonSubmission(), and then another try or a suspension.
SendNotSent ==
  /\ worker.at = "sending"
  /\ NotSent(row[worker.row].draft, worker.row)
  /\ Decide("pending") \/ Decide("suspended")
  /\ UNCHANGED <<row, age, client, up, crashes, draft, sentBy>>

SendUnknown ==
  /\ worker.at = "sending"
  /\ Decide("uncertain")
  /\ UNCHANGED <<ledger, row, age, client, asked, up, crashes, external>>

\* scheduleFinish(), or scheduleRelease().
Settle ==
  /\ worker.at = "settle"
  /\ row' = [row EXCEPT ![worker.row].status = worker.verdict]
  /\ worker' = [worker EXCEPT !.at = "next", !.row = None, !.verdict = "none"]
  /\ UNCHANGED <<ledger, age, client, asked, up, crashes, external>>

-------------------------------------------------------------------------------
(* Google, time, and the process *)

\* Google carries out a request it received, at any time after it left, on the
\* draft as it is by then.
GoogleSends(a) ==
  /\ a \in inflight
  /\ draft[a.draft] # "gone"
  /\ draft' = [draft EXCEPT ![a.draft] = "gone"]
  /\ sentBy' = [sentBy EXCEPT ![a.draft] = a.via]
  /\ inflight' = inflight \ {a}
  /\ UNCHANGED <<ledger, row, age, worker, client, asked, up, crashes>>

\* The user edits, replaces, sends or deletes the draft elsewhere, or discards
\* it through the proxy (destroy()), which an uncertain send does not forbid.
DraftChanges(d) ==
  /\ \/ draft[d] = "original" /\ draft' = [draft EXCEPT ![d] = "edited"]
     \/ Unchanged(d) /\ \E to \in {"replaced", "gone"} : draft' = [draft EXCEPT ![d] = to]
  /\ UNCHANGED <<ledger, row, age, worker, client, asked, up, crashes, inflight, sentBy>>

TimePasses(r) ==
  /\ row[r] # NoRow
  /\ \/ age[r] = "early" /\ age' = [age EXCEPT ![r] = "due"]
     \/ age[r] = "due" /\ age' = [age EXCEPT ![r] = "late"]
  /\ UNCHANGED <<ledger, row, worker, client, asked, up, crashes, external>>

Crash ==
  /\ up /\ crashes < MaxCrashes
  /\ up' = FALSE /\ crashes' = crashes + 1
  /\ worker' = Off /\ client' = NoCall
  /\ UNCHANGED <<ledger, row, age, asked, external>>

\* Mutant of Recovered: the ledger is not asked who recorded the intent.
RecoveredPending(k, r) ==
  IF k.status # "sending" THEN k ELSE
    [k EXCEPT !.status = IF ledger[k.draft].result THEN "sent" ELSE "pending"]

\* Mutant of Recovered: what the dead process held stays as it was.
RecoveredNot(k, r) == k

\* scheduleRecover(), for one entry.
Recovered(k, r) ==
  IF k.status # "sending" THEN k ELSE
    [k EXCEPT !.status = IF ledger[k.draft].by # r THEN "pending"
                         ELSE IF ledger[k.draft].result THEN "sent" ELSE "uncertain"]

Restart ==
  /\ ~up /\ up' = TRUE
  /\ row' = [r \in Row |-> Recovered(row[r], r)]
  /\ UNCHANGED <<ledger, age, worker, client, asked, crashes, external>>

Next ==
  \/ \E d \in Draft : DraftChanges(d) \/ \E hold \in BOOLEAN : Submit(d, hold)
  \/ PrepareFails \/ SendNow \/ SendNowOk \/ SendNowNotSent \/ SendNowUnknown
  \/ \E r \in Row : Schedule(r) \/ Cancel(r) \/ Lease(r) \/ TimePasses(r)
  \/ Tick \/ RunDue \/ RunEnds \/ Enabled \/ ReadsForbid \/ ReadsAllow
  \/ SendOk \/ SendNotSent \/ SendUnknown \/ Settle
  \/ \E a \in inflight : GoogleSends(a)
  \/ Crash \/ Restart

Spec == Init /\ [][Next]_vars

\* Time passes, the timer fires, every request is answered or times out, the
\* lock is handed on first come first served, and a dead process is restarted.
Fairness ==
  /\ \A r \in Row : WF_vars(TimePasses(r)) /\ WF_vars(Lease(r))
  /\ WF_vars(Tick) /\ SF_vars(RunDue) /\ WF_vars(RunEnds)
  /\ WF_vars(Enabled) /\ WF_vars(ReadsForbid \/ ReadsAllow)
  /\ WF_vars(SendOk \/ SendNotSent \/ SendUnknown) /\ WF_vars(Settle)
  /\ WF_vars(PrepareFails \/ SendNow \/ \E r \in Row : Schedule(r))
  /\ WF_vars(SendNowOk \/ SendNowNotSent \/ SendNowUnknown)
  /\ WF_vars(Restart)

FairSpec == Spec /\ Fairness

-------------------------------------------------------------------------------
(* Properties *)

Final == {"sent", "canceled", "suspended", "uncertain"}
Status == {"none", "pending", "sending"} \cup Final
Age == {"early", "due", "late"}
Request == [draft : Draft, via : Via]
Intent == [by : Via \cup {None}, result : BOOLEAN]
QueueEntry == [status : Status, draft : Draft \cup {None}, pin : {"original", "edited"}]
WorkerState ==
  [at : {"off", "called", "next", "enabled", "reading", "sending", "settle"},
   now : [Row -> Age], todo : SUBSET Row, row : Row \cup {None},
   verdict : {"none", "pending"} \cup Final]
ClientState ==
  [at : {"out", "preparing", "sending"}, draft : Draft \cup {None}, hold : BOOLEAN]

\* Type invariant of ledger, queue, worker and client.
TypeOK ==
  /\ draft \in [Draft -> {"original", "edited", "replaced", "gone"}]
  /\ ledger \in [Draft -> Intent]
  /\ row \in [Row -> QueueEntry]
  /\ age \in [Row -> Age]
  /\ worker \in WorkerState
  /\ client \in ClientState
  /\ inflight \subseteq Request
  /\ asked \in [Draft -> [Via -> Nat]]
  /\ sentBy \in [Draft -> Via \cup {None}]
  /\ up \in BOOLEAN /\ crashes \in 0 .. MaxCrashes

\* README 567-571: a draft is handed to Google for sending once, unless Google
\* provably did not take it, whatever mix of immediate and queued submissions,
\* retries, lost answers and crashes the draft has seen.
NeverReplayed ==
  \A d \in Draft : \A v \in Via :
    asked[d][v] # 0 => asked[d][v] = 1 /\ \A w \in Via \ {v} : asked[d][w] = 0

\* README 603-610: the status of a queue entry is true.  What says sent was
\* sent by this entry; what is pending, canceled or suspended was never handed
\* to Google by it; uncertain means that some request of the draft was.
StatusIsTrue ==
  \A r \in Row :
    LET d == row[r].draft
        mine == asked[d][r] # 0
    IN CASE row[r].status = "sent" -> sentBy[d] = r
         [] row[r].status \in {"pending", "canceled", "suspended"} -> ~mine
         [] row[r].status = "uncertain" -> \E v \in Via : asked[d][v] # 0
         [] OTHER -> TRUE

\* README 598-600: a final entry stays as it is; scheduleFinish() asks for no
\* status, so this hangs on the lease, the lock and the recovery.
FinalIsFinal == [][\A r \in Row : row[r].status \in Final => row'[r] = row[r]]_vars

\* README 592-610: every queued submission comes to an end, through transient
\* errors (the late tolerance ends them), crashes and a busy account.
QueueDrains ==
  \A r \in Row : row[r].status = "pending" ~> row[r].status \in Final

===============================================================================
