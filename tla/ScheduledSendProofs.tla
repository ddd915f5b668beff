-------------------------- MODULE ScheduledSendProofs --------------------------
(***************************************************************************)
(* For any drafts, queue entries and number of crashes: a draft is handed   *)
(* to Google at most once, every queue entry tells the truth about itself,  *)
(* and a final entry stays final.                                           *)
(***************************************************************************)
EXTENDS ScheduledSend, TLAPS

\* Somebody holds the account's lock: the client, or the worker in its run.
InRun == worker.at \notin {"off", "called"}
HasRow == worker.at \in {"enabled", "reading", "sending", "settle"}

\* The lock is exclusive, a dead process runs nothing, and the worker holds the
\* lease of the entry it works on.
LockInv ==
  /\ client.at # "out" => ~InRun /\ client.draft \in Draft
  /\ ~up => client.at = "out" /\ worker.at = "off"
  /\ HasRow => worker.row \in Row /\ row[worker.row].status = "sending"
  /\ \A r \in Row : row[r].status # "none" => row[r].draft \in Draft

\* The one request of a draft is the one whose intent the ledger holds, and who
\* awaits its answer is who recorded it.
LedgerInv ==
  /\ \A d \in Draft : \A v \in Via : asked[d][v] = IF ledger[d].by = v THEN 1 ELSE 0
  /\ client.at = "sending" => ledger[client.draft].by = Immediate
  /\ worker.at = "sending" => ledger[row[worker.row].draft].by = worker.row

SafeInv == TypeOK /\ LockInv /\ LedgerInv

\* What Google sent is gone, and a recorded result is a send by its requester.
ResultInv ==
  \A d \in Draft :
    /\ sentBy[d] # None => draft[d] = "gone"
    /\ ledger[d].result => ledger[d].by # None /\ sentBy[d] = ledger[d].by

\* Only a leased, sent or uncertain entry has asked, and for its own draft.
AskedInv ==
  \A r \in Row, d \in Draft :
    asked[d][r] # 0 => row[r].draft = d /\ row[r].status \in {"sending", "sent", "uncertain"}

\* What the worker has decided, and what the statuses say, is so.
Justified(r, status) ==
  LET d == row[r].draft
  IN /\ status = "sent" => sentBy[d] = r
     /\ status \in {"pending", "canceled", "suspended"} => asked[d][r] = 0
     /\ status = "uncertain" =>
          /\ ledger[d].by # None
          /\ ~(client.at = "sending" /\ client.draft = d)
          /\ ~(worker.at = "sending" /\ row[worker.row].draft = d)

StatusInv ==
  /\ \A r \in Row : Justified(r, row[r].status)
  /\ worker.at \in {"enabled", "reading"} => Justified(worker.row, "pending")
  /\ worker.at = "settle" =>
       worker.verdict # "none" /\ Justified(worker.row, worker.verdict)

TruthInv == SafeInv /\ ResultInv /\ AskedInv /\ StatusInv

\* Initially nothing is asked, leased or locked.
LEMMA InitSafe == Init => SafeInv
<1>. SUFFICES ASSUME Init PROVE SafeInv
  OBVIOUS
<1>. USE ImmediateAssumption, BoundAssumption
     DEF Init, NoEntry, NoRow, Off, NoCall, Via, Final, Status, Age, Request, Intent, QueueEntry,
         WorkerState, ClientState
<1>1. TypeOK
  BY DEF TypeOK
<1>2. LockInv
  BY DEF LockInv, InRun, HasRow
<1>3. LedgerInv
  BY DEF LedgerInv
<1>. QED
  BY <1>1, <1>2, <1>3 DEF SafeInv

\* A status written to a queue entry, a result to the ledger, a count of
\* requests: the typed updates of nested state.
LEMMA StatusUpdate ==
  ASSUME TypeOK, NEW r \in Row, NEW s \in Status
  PROVE  [row EXCEPT ![r].status = s] \in [Row -> QueueEntry]
<1>1. [row[r] EXCEPT !.status = s] \in QueueEntry
  BY DEF TypeOK, QueueEntry
<1>. QED
  BY <1>1 DEF TypeOK

LEMMA ResultUpdate ==
  ASSUME TypeOK, NEW d \in Draft
  PROVE  [ledger EXCEPT ![d].result = TRUE] \in [Draft -> Intent]
<1>1. [ledger[d] EXCEPT !.result = TRUE] \in Intent
  BY DEF TypeOK, Intent
<1>. QED
  BY <1>1 DEF TypeOK

LEMMA AskedUpdate ==
  ASSUME TypeOK, NEW d \in Draft, NEW v \in Via
  PROVE  [asked EXCEPT ![d][v] = @ + 1] \in [Draft -> [Via -> Nat]]
<1>1. [asked[d] EXCEPT ![v] = @ + 1] \in [Via -> Nat]
  BY DEF TypeOK
<1>. QED
  BY <1>1 DEF TypeOK

LEMMA VerdictUpdate ==
  ASSUME TypeOK, NEW v \in {"pending"} \cup Final, Decide(v)
  PROVE  worker' \in WorkerState
BY DEF TypeOK, WorkerState, Decide

\* Every step keeps the types.
LEMMA StepType == TypeOK /\ LockInv /\ [Next]_vars => TypeOK'
<1>. SUFFICES ASSUME TypeOK, LockInv, [Next]_vars PROVE TypeOK'
  OBVIOUS
<1>. USE ImmediateAssumption, BoundAssumption
<1>1. ASSUME NEW d \in Draft, DraftChanges(d) PROVE TypeOK'
  <2>1. draft' \in [Draft -> {"original", "edited", "replaced", "gone"}]
    BY <1>1 DEF TypeOK, DraftChanges, Unchanged
  <2>. QED
    BY <1>1, <2>1 DEF TypeOK, DraftChanges, Unchanged, external
<1>2. ASSUME NEW d \in Draft, NEW hold \in BOOLEAN, Submit(d, hold) PROVE TypeOK'
  <2>1. client' \in ClientState
    BY <1>2 DEF TypeOK, Submit, ClientState, NoCall
  <2>. QED
    BY <1>2, <2>1 DEF TypeOK, Submit, external
<1>3. ASSUME PrepareFails PROVE TypeOK'
  <2>1. client' \in ClientState
    BY <1>3 DEF TypeOK, PrepareFails, ClientState, NoCall
  <2>. QED
    BY <1>3, <2>1 DEF TypeOK, PrepareFails, external
<1>4. ASSUME NEW r \in Row, Schedule(r) PROVE TypeOK'
  <2>1. row' \in [Row -> QueueEntry]
    BY <1>4 DEF TypeOK, Schedule, Unchanged, QueueEntry, Status, LockInv
  <2>2. client' \in ClientState
    BY <1>4 DEF Schedule, ClientState, NoCall
  <2>. QED
    BY <1>4, <2>1, <2>2 DEF TypeOK, Schedule, Unchanged, external
<1>5. ASSUME SendNow PROVE TypeOK'
  <2>1. ledger' \in [Draft -> Intent]
    BY <1>5 DEF TypeOK, SendNow, Begin, Intent, Via
  <2>2. asked' \in [Draft -> [Via -> Nat]]
    BY <1>5, AskedUpdate DEF SendNow, Begin, Via, LockInv
  <2>3. inflight' \subseteq Request
    BY <1>5 DEF TypeOK, SendNow, Begin, Request, Via, LockInv
  <2>4. client' \in ClientState
    BY <1>5 DEF TypeOK, SendNow, ClientState
  <2>. QED
    BY <1>5, <2>1, <2>2, <2>3, <2>4 DEF TypeOK, SendNow, external
<1>6. ASSUME SendNowOk PROVE TypeOK'
  <2>1. ledger' \in [Draft -> Intent]
    BY <1>6, ResultUpdate DEF SendNowOk, Finish, LockInv
  <2>2. client' \in ClientState
    BY <1>6 DEF SendNowOk, ClientState, NoCall
  <2>. QED
    BY <1>6, <2>1, <2>2 DEF TypeOK, SendNowOk, Finish, external
<1>7. ASSUME SendNowNotSent PROVE TypeOK'
  <2>1. ledger' \in [Draft -> Intent]
    BY <1>7 DEF TypeOK, SendNowNotSent, NotSent, Intent, NoEntry
  <2>2. asked' \in [Draft -> [Via -> Nat]]
    BY <1>7 DEF TypeOK, SendNowNotSent, NotSent
  <2>3. inflight' \subseteq Request
    BY <1>7 DEF TypeOK, SendNowNotSent, NotSent
  <2>4. client' \in ClientState
    BY <1>7 DEF SendNowNotSent, ClientState, NoCall
  <2>. QED
    BY <1>7, <2>1, <2>2, <2>3, <2>4 DEF TypeOK, SendNowNotSent, NotSent, external
<1>8. ASSUME SendNowUnknown PROVE TypeOK'
  <2>1. client' \in ClientState
    BY <1>8 DEF TypeOK, SendNowUnknown, ClientState, NoCall
  <2>. QED
    BY <1>8, <2>1 DEF TypeOK, SendNowUnknown, external
<1>9. ASSUME NEW r \in Row, Cancel(r) PROVE TypeOK'
  <2>1. row' \in [Row -> QueueEntry]
    <3>1. "canceled" \in Status
      BY DEF Status, Final
    <3>. QED
      BY <1>9, <3>1, StatusUpdate DEF Cancel
  <2>. QED
    BY <1>9, <2>1 DEF TypeOK, Cancel, external
<1>10. ASSUME Tick PROVE TypeOK'
  <2>1. worker' \in WorkerState
    BY <1>10 DEF TypeOK, Tick, WorkerState, Off
  <2>. QED
    BY <1>10, <2>1 DEF TypeOK, Tick, external
<1>11. ASSUME RunDue PROVE TypeOK'
  <2>1. worker' \in WorkerState
    BY <1>11 DEF TypeOK, RunDue, WorkerState
  <2>. QED
    BY <1>11, <2>1 DEF TypeOK, RunDue, external
<1>12. ASSUME RunEnds PROVE TypeOK'
  <2>1. worker' \in WorkerState
    BY <1>12 DEF RunEnds, WorkerState, Age, Off, Waiting
  <2>. QED
    BY <1>12, <2>1 DEF TypeOK, RunEnds, external
<1>13. ASSUME NEW r \in Row, Lease(r) PROVE TypeOK'
  <2>1. row' \in [Row -> QueueEntry]
    <3>1. "sending" \in Status
      BY DEF Status
    <3>2. row' = [row EXCEPT ![r].status = "sending"] \/ row' = row
      BY <1>13 DEF Lease
    <3>. QED
      BY <3>1, <3>2, StatusUpdate DEF TypeOK
  <2>2. worker' \in WorkerState
    <3>1. worker.todo \ {r} \in SUBSET Row
      BY DEF TypeOK, WorkerState
    <3>2. CASE Waiting(r)
      <4>1. \A at \in {"settle", "enabled"} :
              [worker EXCEPT !.todo = worker.todo \ {r}, !.row = r, !.at = at,
                             !.verdict = "suspended"] \in WorkerState
        BY <3>1 DEF TypeOK, WorkerState, Final
      <4>. QED
        BY <1>13, <3>2, <4>1 DEF Lease
    <3>3. CASE ~Waiting(r)
      BY <1>13, <3>1, <3>3 DEF TypeOK, Lease, WorkerState
    <3>. QED
      BY <3>2, <3>3
  <2>. QED
    BY <1>13, <2>1, <2>2 DEF TypeOK, Lease, external
<1>14. ASSUME Enabled PROVE TypeOK'
  <2>1. worker' \in WorkerState
    <3>1. [worker EXCEPT !.at = "reading"] \in WorkerState
      BY DEF TypeOK, WorkerState
    <3>. QED
      BY <1>14, <3>1, VerdictUpdate DEF Enabled, Final
  <2>. QED
    BY <1>14, <2>1 DEF TypeOK, Enabled, Decide, external
<1>15. ASSUME ReadsForbid PROVE TypeOK'
  <2>1. worker' \in WorkerState
    BY <1>15, VerdictUpdate DEF ReadsForbid, Final
  <2>. QED
    BY <1>15, <2>1 DEF TypeOK, ReadsForbid, Decide, external
<1>16. ASSUME ReadsAllow PROVE TypeOK'
  <2>1. ledger' \in [Draft -> Intent]
    BY <1>16 DEF TypeOK, ReadsAllow, Begin, Intent, Via, LockInv, HasRow
  <2>2. asked' \in [Draft -> [Via -> Nat]]
    <3>1. worker.row \in Via /\ row[worker.row].draft \in Draft
      BY <1>16 DEF ReadsAllow, LockInv, HasRow, Via
    <3>. QED
      BY <1>16, <3>1, AskedUpdate DEF ReadsAllow, Begin
  <2>3. inflight' \subseteq Request
    BY <1>16 DEF TypeOK, ReadsAllow, Begin, Request, Via, LockInv, HasRow
  <2>4. worker' \in WorkerState
    BY <1>16 DEF TypeOK, ReadsAllow, WorkerState
  <2>. QED
    BY <1>16, <2>1, <2>2, <2>3, <2>4 DEF TypeOK, ReadsAllow, Begin, external
<1>17. ASSUME SendOk PROVE TypeOK'
  <2>1. ledger' \in [Draft -> Intent]
    BY <1>17 DEF TypeOK, SendOk, Finish, Intent, NoEntry, LockInv, HasRow
  <2>2. worker' \in WorkerState
    BY <1>17 DEF TypeOK, SendOk, Decide, WorkerState, Final
  <2>. QED
    BY <1>17, <2>1, <2>2 DEF TypeOK, SendOk, external
<1>18. ASSUME SendNotSent PROVE TypeOK'
  <2>1. ledger' \in [Draft -> Intent]
    BY <1>18 DEF TypeOK, SendNotSent, NotSent, Intent, NoEntry
  <2>2. asked' \in [Draft -> [Via -> Nat]]
    BY <1>18 DEF TypeOK, SendNotSent, NotSent
  <2>3. inflight' \subseteq Request
    BY <1>18 DEF TypeOK, SendNotSent, NotSent
  <2>4. worker' \in WorkerState
    BY <1>18, VerdictUpdate DEF SendNotSent, Final
  <2>. QED
    BY <1>18, <2>1, <2>2, <2>3, <2>4 DEF TypeOK, SendNotSent, external
<1>19. ASSUME SendUnknown PROVE TypeOK'
  <2>1. worker' \in WorkerState
    BY <1>19 DEF TypeOK, SendUnknown, Decide, WorkerState, Final, Off, Waiting
  <2>. QED
    BY <1>19, <2>1 DEF TypeOK, SendUnknown, Decide, external
<1>20. ASSUME Settle PROVE TypeOK'
  <2>1. row' \in [Row -> QueueEntry]
    <3>1. worker.row \in Row /\ worker.verdict \in Status
      BY <1>20 DEF TypeOK, Settle, WorkerState, Status, LockInv, HasRow
    <3>. QED
      BY <1>20, <3>1, StatusUpdate DEF Settle
  <2>2. worker' \in WorkerState
    BY <1>20 DEF TypeOK, Settle, WorkerState
  <2>. QED
    BY <1>20, <2>1, <2>2 DEF TypeOK, Settle, external
<1>21. ASSUME NEW a \in inflight, GoogleSends(a) PROVE TypeOK'
  <2>1. draft' \in [Draft -> {"original", "edited", "replaced", "gone"}]
    BY <1>21 DEF TypeOK, GoogleSends
  <2>2. sentBy' \in [Draft -> Via \cup {None}]
    BY <1>21 DEF TypeOK, GoogleSends, Via, Request
  <2>3. inflight' \subseteq Request
    BY <1>21 DEF TypeOK, GoogleSends, Request, Via
  <2>. QED
    BY <1>21, <2>1, <2>2, <2>3 DEF TypeOK, GoogleSends, external
<1>22. ASSUME NEW r \in Row, TimePasses(r) PROVE TypeOK'
  <2>1. age' \in [Row -> Age]
    BY <1>22 DEF TypeOK, TimePasses, Age
  <2>. QED
    BY <1>22, <2>1 DEF TypeOK, TimePasses, external
<1>23. ASSUME Crash PROVE TypeOK'
  <2>1. up' \in BOOLEAN
    BY <1>23 DEF TypeOK, Crash
  <2>2. crashes' \in 0 .. MaxCrashes
    BY <1>23 DEF TypeOK, Crash
  <2>3. worker' \in WorkerState
    BY <1>23 DEF Crash, WorkerState, Age, Off, Waiting
  <2>4. client' \in ClientState
    BY <1>23 DEF TypeOK, Crash, ClientState, NoCall
  <2>. QED
    BY <1>23, <2>1, <2>2, <2>3, <2>4 DEF TypeOK, Crash, external
<1>24. ASSUME Restart PROVE TypeOK'
  <2>1. up' \in BOOLEAN
    BY <1>24 DEF TypeOK, Restart, Recovered
  <2>2. row' \in [Row -> QueueEntry]
    <3>1. ASSUME NEW r \in Row PROVE Recovered(row[r], r) \in QueueEntry
      <4>1. \A st \in Status : [row[r] EXCEPT !.status = st] \in QueueEntry
        BY DEF TypeOK, QueueEntry
      <4>. QED
        BY <4>1 DEF TypeOK, Recovered, Status, Final
    <3>. QED
      BY <1>24, <3>1 DEF Restart
  <2>. QED
    BY <1>24, <2>1, <2>2 DEF TypeOK, Restart, Recovered, external
<1>25. CASE UNCHANGED vars
  BY <1>25 DEF TypeOK, vars, external
<1>. QED
  BY <1>1, <1>2, <1>3, <1>4, <1>5, <1>6, <1>7, <1>8, <1>9, <1>10, <1>11, <1>12, <1>13, <1>14, <1>15, <1>16, <1>17, <1>18, <1>19, <1>20, <1>21, <1>22, <1>23, <1>24, <1>25 DEF Next

\* A verdict leaves the worker with its entry.
LEMMA DecideKeepsRow ==
  ASSUME TypeOK, NEW v, Decide(v)
  PROVE  worker'.at = "settle" /\ worker'.row = worker.row /\ worker'.verdict = v
BY DEF TypeOK, WorkerState, Decide

\* Every step keeps the lock and the lease.
LEMMA StepLock == TypeOK /\ LockInv /\ [Next]_vars => LockInv'
<1>. SUFFICES ASSUME TypeOK, LockInv, [Next]_vars PROVE LockInv'
  OBVIOUS
<1>. USE ImmediateAssumption
<1>1. ASSUME NEW d \in Draft, DraftChanges(d) PROVE LockInv'
  BY <1>1 DEF DraftChanges, LockInv, InRun, HasRow, external
<1>2. ASSUME NEW d \in Draft, NEW hold \in BOOLEAN, Submit(d, hold) PROVE LockInv'
  BY <1>2 DEF Submit, LockFree, LockInv, InRun, HasRow
<1>3. ASSUME PrepareFails PROVE LockInv'
  BY <1>3 DEF PrepareFails, NoCall, LockInv, HasRow
<1>4. ASSUME NEW r \in Row, Schedule(r) PROVE LockInv'
  BY <1>4 DEF Schedule, NoRow, NoCall, LockInv, HasRow
<1>5. ASSUME SendNow PROVE LockInv'
  BY <1>5 DEF SendNow, LockInv, InRun, HasRow, external
<1>6. ASSUME SendNowOk PROVE LockInv'
  BY <1>6 DEF SendNowOk, NoCall, LockInv, HasRow
<1>7. ASSUME SendNowNotSent PROVE LockInv'
  BY <1>7 DEF SendNowNotSent, NoCall, LockInv, HasRow, external
<1>8. ASSUME SendNowUnknown PROVE LockInv'
  BY <1>8 DEF SendNowUnknown, NoCall, LockInv, HasRow
<1>9. ASSUME NEW r \in Row, Cancel(r) PROVE LockInv'
  BY <1>9 DEF Cancel, LockFree, Waiting, LockInv, HasRow
<1>10. ASSUME Tick PROVE LockInv'
  BY <1>10 DEF Tick, LockInv, InRun, HasRow
<1>11. ASSUME RunDue PROVE LockInv'
  BY <1>11 DEF RunDue, LockFree, LockInv, HasRow
<1>12. ASSUME RunEnds PROVE LockInv'
  BY <1>12 DEF RunEnds, Off, LockInv, InRun, HasRow
<1>13. ASSUME NEW r \in Row, Lease(r) PROVE LockInv'
  <2>1. CASE Waiting(r)
    <3>1. row' = [row EXCEPT ![r].status = "sending"]
      BY <1>13, <2>1 DEF Lease
    <3>2. worker'.row = r /\ worker.at = "next" /\ client' = client /\ up' = up
      BY <1>13, <2>1 DEF Lease, TypeOK, WorkerState
    <3>3. \A k \in Row : row'[k].status # "none" => row'[k].draft \in Draft
      BY <2>1, <3>1 DEF LockInv, TypeOK, QueueEntry, Waiting
    <3>4. row'[r].status = "sending"
      BY <3>1 DEF TypeOK, QueueEntry
    <3>. QED
      BY <3>2, <3>3, <3>4 DEF LockInv, InRun, HasRow
  <2>2. CASE ~Waiting(r)
    <3>1. row' = row /\ worker'.at = worker.at /\ worker'.row = worker.row
      BY <1>13, <2>2 DEF Lease, TypeOK, WorkerState
    <3>. QED
      BY <1>13, <3>1 DEF Lease, LockInv, InRun, HasRow
  <2>. QED
    BY <2>1, <2>2
<1>14. ASSUME Enabled PROVE LockInv'
  <2>1. worker'.at \in {"settle", "reading"} /\ worker'.row = worker.row
    <3>1. CASE worker' = [worker EXCEPT !.at = "reading"]
      BY <3>1 DEF TypeOK, WorkerState
    <3>2. CASE \E v \in Final \cup {"pending"} : Decide(v)
      BY <3>2, DecideKeepsRow
    <3>. QED
      BY <1>14, <3>1, <3>2 DEF Enabled, Final
  <2>. QED
    BY <1>14, <2>1 DEF Enabled, LockInv, InRun, HasRow
<1>15. ASSUME ReadsForbid PROVE LockInv'
  <2>1. worker'.at = "settle" /\ worker'.row = worker.row
    BY <1>15, DecideKeepsRow DEF ReadsForbid
  <2>. QED
    BY <1>15, <2>1 DEF ReadsForbid, LockInv, InRun, HasRow
<1>16. ASSUME ReadsAllow PROVE LockInv'
  BY <1>16 DEF ReadsAllow, LockInv, InRun, HasRow, external
<1>17. ASSUME SendOk PROVE LockInv'
  BY <1>17 DEF SendOk, Decide, LockInv, InRun, HasRow
<1>18. ASSUME SendNotSent PROVE LockInv'
  <2>1. worker'.at = "settle" /\ worker'.row = worker.row
    BY <1>18, DecideKeepsRow DEF SendNotSent
  <2>. QED
    BY <1>18, <2>1 DEF SendNotSent, LockInv, InRun, HasRow
<1>19. ASSUME SendUnknown PROVE LockInv'
  BY <1>19 DEF SendUnknown, Decide, LockInv, InRun, HasRow
<1>20. ASSUME Settle PROVE LockInv'
  BY <1>20 DEF Settle, LockInv, InRun, HasRow
<1>21. ASSUME NEW a \in inflight, GoogleSends(a) PROVE LockInv'
  BY <1>21 DEF GoogleSends, LockInv, InRun, HasRow, external
<1>22. ASSUME NEW r \in Row, TimePasses(r) PROVE LockInv'
  BY <1>22 DEF TimePasses, LockInv, InRun, HasRow
<1>23. ASSUME Crash PROVE LockInv'
  BY <1>23 DEF Crash, Off, NoCall, LockInv, HasRow
<1>24. ASSUME Restart PROVE LockInv'
  BY <1>24 DEF Restart, Recovered, LockInv, HasRow
<1>25. CASE UNCHANGED vars
  BY <1>25 DEF vars, LockInv, InRun, HasRow
<1>. QED
  BY <1>1, <1>2, <1>3, <1>4, <1>5, <1>6, <1>7, <1>8, <1>9, <1>10, <1>11, <1>12, <1>13, <1>14, <1>15, <1>16, <1>17, <1>18, <1>19, <1>20, <1>21, <1>22, <1>23, <1>24, <1>25 DEF Next

\* Every step keeps the ledger and the count of requests together.
LEMMA StepLedger == TypeOK /\ LockInv /\ LedgerInv /\ [Next]_vars => LedgerInv'
<1>. SUFFICES ASSUME TypeOK, LockInv, LedgerInv, [Next]_vars PROVE LedgerInv'
  OBVIOUS
<1>. USE ImmediateAssumption
<1>1. ASSUME NEW d \in Draft, DraftChanges(d) PROVE LedgerInv'
  BY <1>1 DEF DraftChanges, LedgerInv, external
<1>2. ASSUME NEW d \in Draft, NEW hold \in BOOLEAN, Submit(d, hold) PROVE LedgerInv'
  BY <1>2 DEF Submit, LedgerInv
<1>3. ASSUME PrepareFails PROVE LedgerInv'
  BY <1>3 DEF PrepareFails, NoCall, LedgerInv
<1>4. ASSUME NEW r \in Row, Schedule(r) PROVE LedgerInv'
  BY <1>4 DEF Schedule, NoCall, LedgerInv, LockInv, InRun
<1>5. ASSUME SendNow PROVE LedgerInv'
  <2>. DEFINE d == client.draft
  <2>1. d \in Draft /\ Immediate \in Via /\ ~InRun
    BY <1>5 DEF SendNow, LockInv, Via
  <2>2. /\ ledger[d] = NoEntry
        /\ ledger' = [ledger EXCEPT ![d] = [by |-> Immediate, result |-> FALSE]]
        /\ asked' = [asked EXCEPT ![d][Immediate] = @ + 1]
    BY <1>5 DEF SendNow, Begin
  <2>3. \A v \in Via : asked[d][v] = 0
    BY <2>1, <2>2, ImmediateAssumption DEF LedgerInv, NoEntry, Via
  <2>4. \A e \in Draft : \A v \in Via : asked'[e][v] = IF ledger'[e].by = v THEN 1 ELSE 0
    BY <2>1, <2>2, <2>3 DEF TypeOK, LedgerInv
  <2>5. ledger'[d].by = Immediate
    BY <2>1, <2>2 DEF TypeOK
  <2>. QED
    BY <1>5, <2>1, <2>4, <2>5 DEF SendNow, LedgerInv, InRun
<1>6. ASSUME SendNowOk PROVE LedgerInv'
  BY <1>6 DEF SendNowOk, Finish, NoCall, LedgerInv
<1>7. ASSUME SendNowNotSent PROVE LedgerInv'
  BY <1>7 DEF SendNowNotSent, NotSent, NoEntry, NoCall, LedgerInv, LockInv, InRun, TypeOK, Via, external
<1>8. ASSUME SendNowUnknown PROVE LedgerInv'
  BY <1>8 DEF SendNowUnknown, NoCall, LedgerInv
<1>9. ASSUME NEW r \in Row, Cancel(r) PROVE LedgerInv'
  BY <1>9 DEF Cancel, LedgerInv
<1>10. ASSUME Tick PROVE LedgerInv'
  BY <1>10 DEF Tick, LedgerInv
<1>11. ASSUME RunDue PROVE LedgerInv'
  BY <1>11 DEF RunDue, LedgerInv
<1>12. ASSUME RunEnds PROVE LedgerInv'
  BY <1>12 DEF RunEnds, Off, LedgerInv
<1>13. ASSUME NEW r \in Row, Lease(r) PROVE LedgerInv'
  <2>1. worker'.at # "sending"
    <3>1. CASE Waiting(r)
      <4>1. \A at \in {"settle", "enabled"} :
              [worker EXCEPT !.todo = worker.todo \ {r}, !.row = r, !.at = at,
                             !.verdict = "suspended"].at = at
        BY DEF TypeOK, WorkerState
      <4>. QED
        BY <1>13, <3>1, <4>1 DEF Lease
    <3>2. CASE ~Waiting(r)
      BY <1>13, <3>2 DEF Lease, TypeOK, WorkerState
    <3>. QED
      BY <3>1, <3>2
  <2>. QED
    BY <1>13, <2>1 DEF Lease, LedgerInv, external
<1>14. ASSUME Enabled PROVE LedgerInv'
  <2>1. worker'.at # "sending"
    <3>1. CASE worker' = [worker EXCEPT !.at = "reading"]
      BY <3>1 DEF TypeOK, WorkerState
    <3>2. CASE \E v \in Final \cup {"pending"} : Decide(v)
      BY <3>2, DecideKeepsRow
    <3>. QED
      BY <1>14, <3>1, <3>2 DEF Enabled, Final
  <2>. QED
    BY <1>14, <2>1 DEF Enabled, LedgerInv, external
<1>15. ASSUME ReadsForbid PROVE LedgerInv'
  <2>1. worker'.at # "sending"
    BY <1>15, DecideKeepsRow DEF ReadsForbid
  <2>. QED
    BY <1>15, <2>1 DEF ReadsForbid, LedgerInv, external
<1>16. ASSUME ReadsAllow PROVE LedgerInv'
  <2>. DEFINE d == row[worker.row].draft
  <2>1. d \in Draft /\ worker.row \in Via /\ client.at = "out"
    BY <1>16 DEF ReadsAllow, LockInv, HasRow, InRun, Via
  <2>2. /\ ledger[d] = NoEntry
        /\ ledger' = [ledger EXCEPT ![d] = [by |-> worker.row, result |-> FALSE]]
        /\ asked' = [asked EXCEPT ![d][worker.row] = @ + 1]
    BY <1>16 DEF ReadsAllow, Begin
  <2>3. \A v \in Via : asked[d][v] = 0
    BY <2>1, <2>2, ImmediateAssumption DEF LedgerInv, NoEntry, Via
  <2>4. \A e \in Draft : \A v \in Via : asked'[e][v] = IF ledger'[e].by = v THEN 1 ELSE 0
    BY <2>1, <2>2, <2>3 DEF TypeOK, LedgerInv
  <2>5. ledger'[d].by = worker.row
    BY <2>1, <2>2 DEF TypeOK
  <2>. QED
    BY <1>16, <2>1, <2>4, <2>5 DEF ReadsAllow, LedgerInv
<1>17. ASSUME SendOk PROVE LedgerInv'
  BY <1>17 DEF SendOk, Finish, Decide, LedgerInv, external
<1>18. ASSUME SendNotSent PROVE LedgerInv'
  <2>. DEFINE d == row[worker.row].draft
  <2>1. worker'.at = "settle" /\ client.at = "out" /\ worker.row \in Via /\ d \in Draft
    BY <1>18, DecideKeepsRow DEF SendNotSent, LockInv, HasRow, InRun, Via
  <2>2. ledger[d].by = worker.row
    BY <1>18 DEF SendNotSent, LedgerInv
  <2>3. /\ ledger' = [ledger EXCEPT ![d] = NoEntry]
        /\ asked' = [asked EXCEPT ![d][worker.row] = 0]
        /\ client' = client
    BY <1>18 DEF SendNotSent, NotSent
  <2>4. \A e \in Draft : \A v \in Via : asked'[e][v] = IF ledger'[e].by = v THEN 1 ELSE 0
    BY <2>1, <2>2, <2>3 DEF TypeOK, LedgerInv, NoEntry, Via
  <2>. QED
    BY <2>1, <2>3, <2>4 DEF LedgerInv
<1>19. ASSUME SendUnknown PROVE LedgerInv'
  BY <1>19 DEF SendUnknown, Decide, LedgerInv
<1>20. ASSUME Settle PROVE LedgerInv'
  BY <1>20 DEF Settle, LedgerInv
<1>21. ASSUME NEW a \in inflight, GoogleSends(a) PROVE LedgerInv'
  BY <1>21 DEF GoogleSends, LedgerInv, external
<1>22. ASSUME NEW r \in Row, TimePasses(r) PROVE LedgerInv'
  BY <1>22 DEF TimePasses, LedgerInv
<1>23. ASSUME Crash PROVE LedgerInv'
  BY <1>23 DEF Crash, Off, NoCall, LedgerInv
<1>24. ASSUME Restart PROVE LedgerInv'
  BY <1>24 DEF Restart, LedgerInv, LockInv, Via, external
<1>25. CASE UNCHANGED vars
  BY <1>25 DEF vars, LedgerInv
<1>. QED
  BY <1>1, <1>2, <1>3, <1>4, <1>5, <1>6, <1>7, <1>8, <1>9, <1>10, <1>11, <1>12, <1>13, <1>14, <1>15, <1>16, <1>17, <1>18, <1>19, <1>20, <1>21, <1>22, <1>23, <1>24, <1>25 DEF Next

\* Every step keeps results true.
LEMMA StepResult == SafeInv /\ ResultInv /\ [Next]_vars => ResultInv'
<1>. SUFFICES ASSUME SafeInv, ResultInv, [Next]_vars PROVE ResultInv'
  OBVIOUS
<1>. USE ImmediateAssumption
<1>1. ASSUME NEW d \in Draft, DraftChanges(d) PROVE ResultInv'
  <2>1. \A e \in Draft : draft[e] = "gone" => draft'[e] = "gone"
    BY <1>1 DEF DraftChanges, Unchanged, SafeInv, TypeOK
  <2>. QED
    BY <1>1, <2>1 DEF DraftChanges, ResultInv
<1>2. ASSUME NEW d \in Draft, NEW hold \in BOOLEAN, Submit(d, hold) PROVE ResultInv'
  BY <1>2 DEF Submit, ResultInv, external
<1>3. ASSUME PrepareFails PROVE ResultInv'
  BY <1>3 DEF PrepareFails, ResultInv, external
<1>4. ASSUME NEW r \in Row, Schedule(r) PROVE ResultInv'
  BY <1>4 DEF Schedule, ResultInv, external
<1>5. ASSUME SendNow PROVE ResultInv'
  BY <1>5 DEF SendNow, Begin, ResultInv, external
<1>6. ASSUME SendNowOk PROVE ResultInv'
  BY <1>6 DEF SendNowOk, Finish, SafeInv, ResultInv, LedgerInv, external
<1>7. ASSUME SendNowNotSent PROVE ResultInv'
  BY <1>7 DEF SendNowNotSent, NotSent, NoEntry, ResultInv, external
<1>8. ASSUME SendNowUnknown PROVE ResultInv'
  BY <1>8 DEF SendNowUnknown, ResultInv, external
<1>9. ASSUME NEW r \in Row, Cancel(r) PROVE ResultInv'
  BY <1>9 DEF Cancel, ResultInv, external
<1>10. ASSUME Tick PROVE ResultInv'
  BY <1>10 DEF Tick, ResultInv, external
<1>11. ASSUME RunDue PROVE ResultInv'
  BY <1>11 DEF RunDue, ResultInv, external
<1>12. ASSUME RunEnds PROVE ResultInv'
  BY <1>12 DEF RunEnds, ResultInv, external
<1>13. ASSUME NEW r \in Row, Lease(r) PROVE ResultInv'
  BY <1>13 DEF Lease, ResultInv, external
<1>14. ASSUME Enabled PROVE ResultInv'
  BY <1>14 DEF Enabled, ResultInv, external
<1>15. ASSUME ReadsForbid PROVE ResultInv'
  BY <1>15 DEF ReadsForbid, ResultInv, external
<1>16. ASSUME ReadsAllow PROVE ResultInv'
  BY <1>16 DEF ReadsAllow, Begin, ResultInv, external
<1>17. ASSUME SendOk PROVE ResultInv'
  BY <1>17 DEF SendOk, Finish, SafeInv, ResultInv, LedgerInv, LockInv, HasRow, external
<1>18. ASSUME SendNotSent PROVE ResultInv'
  BY <1>18 DEF SendNotSent, NotSent, NoEntry, ResultInv, external
<1>19. ASSUME SendUnknown PROVE ResultInv'
  BY <1>19 DEF SendUnknown, ResultInv, external
<1>20. ASSUME Settle PROVE ResultInv'
  BY <1>20 DEF Settle, ResultInv, external
<1>21. ASSUME NEW a \in inflight, GoogleSends(a) PROVE ResultInv'
  BY <1>21 DEF GoogleSends, SafeInv, ResultInv, TypeOK, external
<1>22. ASSUME NEW r \in Row, TimePasses(r) PROVE ResultInv'
  BY <1>22 DEF TimePasses, ResultInv, external
<1>23. ASSUME Crash PROVE ResultInv'
  BY <1>23 DEF Crash, ResultInv, external
<1>24. ASSUME Restart PROVE ResultInv'
  BY <1>24 DEF Restart, ResultInv, external
<1>25. CASE UNCHANGED vars
  BY <1>25 DEF vars, ResultInv, external
<1>. QED
  BY <1>1, <1>2, <1>3, <1>4, <1>5, <1>6, <1>7, <1>8, <1>9, <1>10, <1>11, <1>12, <1>13, <1>14, <1>15, <1>16, <1>17, <1>18, <1>19, <1>20, <1>21, <1>22, <1>23, <1>24, <1>25 DEF Next

\* Every step keeps requests with leased, sent and uncertain entries.
LEMMA StepAsked == SafeInv /\ AskedInv /\ StatusInv /\ [Next]_vars => AskedInv'
<1>. SUFFICES ASSUME SafeInv, AskedInv, StatusInv, [Next]_vars PROVE AskedInv'
  OBVIOUS
<1>. USE ImmediateAssumption
<1>1. ASSUME NEW d \in Draft, DraftChanges(d) PROVE AskedInv'
  BY <1>1 DEF DraftChanges, AskedInv, external
<1>2. ASSUME NEW d \in Draft, NEW hold \in BOOLEAN, Submit(d, hold) PROVE AskedInv'
  BY <1>2 DEF Submit, AskedInv
<1>3. ASSUME PrepareFails PROVE AskedInv'
  BY <1>3 DEF PrepareFails, AskedInv
<1>4. ASSUME NEW r \in Row, Schedule(r) PROVE AskedInv'
  BY <1>4 DEF Schedule, NoRow, AskedInv
<1>5. ASSUME SendNow PROVE AskedInv'
  BY <1>5 DEF SendNow, Begin, AskedInv, external
<1>6. ASSUME SendNowOk PROVE AskedInv'
  BY <1>6 DEF SendNowOk, AskedInv
<1>7. ASSUME SendNowNotSent PROVE AskedInv'
  BY <1>7 DEF SendNowNotSent, NotSent, AskedInv, external
<1>8. ASSUME SendNowUnknown PROVE AskedInv'
  BY <1>8 DEF SendNowUnknown, AskedInv
<1>9. ASSUME NEW r \in Row, Cancel(r) PROVE AskedInv'
  BY <1>9 DEF Cancel, Waiting, AskedInv
<1>10. ASSUME Tick PROVE AskedInv'
  BY <1>10 DEF Tick, AskedInv
<1>11. ASSUME RunDue PROVE AskedInv'
  BY <1>11 DEF RunDue, AskedInv
<1>12. ASSUME RunEnds PROVE AskedInv'
  BY <1>12 DEF RunEnds, AskedInv
<1>13. ASSUME NEW r \in Row, Lease(r) PROVE AskedInv'
  BY <1>13 DEF Lease, Waiting, SafeInv, AskedInv, LedgerInv, TypeOK, Via, external
<1>14. ASSUME Enabled PROVE AskedInv'
  BY <1>14 DEF Enabled, AskedInv
<1>15. ASSUME ReadsForbid PROVE AskedInv'
  BY <1>15 DEF ReadsForbid, AskedInv
<1>16. ASSUME ReadsAllow PROVE AskedInv'
  BY <1>16 DEF ReadsAllow, Begin, SafeInv, AskedInv, LockInv, HasRow, external
<1>17. ASSUME SendOk PROVE AskedInv'
  BY <1>17 DEF SendOk, AskedInv
<1>18. ASSUME SendNotSent PROVE AskedInv'
  BY <1>18 DEF SendNotSent, NotSent, AskedInv, external
<1>19. ASSUME SendUnknown PROVE AskedInv'
  BY <1>19 DEF SendUnknown, AskedInv
<1>20. ASSUME Settle PROVE AskedInv'
  <2>. DEFINE w == worker.row
  <2>1. w \in Row /\ row' = [row EXCEPT ![w].status = worker.verdict] /\ asked' = asked
    BY <1>20 DEF Settle, SafeInv, LockInv, HasRow
  <2>2. worker.verdict \in {"pending"} \cup Final /\ Justified(w, worker.verdict)
    BY <1>20 DEF Settle, StatusInv, SafeInv, TypeOK, WorkerState
  <2>3. asked[row[w].draft][w] # 0 => worker.verdict \in {"sent", "uncertain"}
    BY <2>2 DEF Justified, Final
  <2>4. row'[w].status = worker.verdict /\ row'[w].draft = row[w].draft
    BY <2>1 DEF SafeInv, TypeOK, QueueEntry
  <2>5. \A r \in Row \ {w} : row'[r] = row[r]
    BY <2>1 DEF SafeInv, TypeOK
  <2>. QED
    BY <2>1, <2>3, <2>4, <2>5 DEF AskedInv
<1>21. ASSUME NEW a \in inflight, GoogleSends(a) PROVE AskedInv'
  BY <1>21 DEF GoogleSends, AskedInv, external
<1>22. ASSUME NEW r \in Row, TimePasses(r) PROVE AskedInv'
  BY <1>22 DEF TimePasses, AskedInv
<1>23. ASSUME Crash PROVE AskedInv'
  BY <1>23 DEF Crash, AskedInv
<1>24. ASSUME Restart PROVE AskedInv'
  BY <1>24 DEF Restart, Recovered, SafeInv, AskedInv, LedgerInv, Via
<1>25. CASE UNCHANGED vars
  BY <1>25 DEF vars, AskedInv
<1>. QED
  BY <1>1, <1>2, <1>3, <1>4, <1>5, <1>6, <1>7, <1>8, <1>9, <1>10, <1>11, <1>12, <1>13, <1>14, <1>15, <1>16, <1>17, <1>18, <1>19, <1>20, <1>21, <1>22, <1>23, <1>24, <1>25 DEF Next

\* Every step keeps the statuses and the worker's verdict true.
LEMMA StepStatus == TruthInv /\ [Next]_vars => StatusInv'
<1>. SUFFICES ASSUME TruthInv, [Next]_vars PROVE StatusInv'
  OBVIOUS
<1>. USE ImmediateAssumption
<1>1. ASSUME NEW d \in Draft, DraftChanges(d) PROVE StatusInv'
  BY <1>1 DEF DraftChanges, TruthInv, StatusInv, Justified, external
<1>2. ASSUME NEW d \in Draft, NEW hold \in BOOLEAN, Submit(d, hold) PROVE StatusInv'
  BY <1>2 DEF Submit, TruthInv, StatusInv, Justified, external
<1>3. ASSUME PrepareFails PROVE StatusInv'
  BY <1>3 DEF PrepareFails, NoCall, TruthInv, StatusInv, Justified, external
<1>4. ASSUME NEW r \in Row, Schedule(r) PROVE StatusInv'
  BY <1>4 DEF Schedule, NoRow, NoCall, TruthInv, SafeInv, AskedInv, StatusInv, Justified, LockInv, InRun, external
<1>5. ASSUME SendNow PROVE StatusInv'
  <2>. DEFINE e == client.draft
  <2>1. e \in Draft /\ Immediate \in Via /\ ~InRun /\ ledger[e].by = None
    BY <1>5 DEF SendNow, Begin, NoEntry, TruthInv, SafeInv, LockInv, Via
  <2>2. \A d \in Draft, r \in Row : asked'[d][r] = asked[d][r]
    BY <1>5, <2>1 DEF SendNow, Begin
  <2>3. \A d \in Draft \ {e} : ledger'[d] = ledger[d]
    BY <1>5, <2>1 DEF SendNow, Begin
  <2>4. client'.draft = e
    BY <1>5 DEF SendNow
  <2>5. ASSUME NEW r \in Row PROVE Justified(r, row[r].status)'
    <3>1. row'[r] = row[r] /\ sentBy' = sentBy /\ worker' = worker
      BY <1>5 DEF SendNow
    <3>2. CASE row[r].status = "none"
      BY <3>1, <3>2 DEF Justified
    <3>3. CASE row[r].status # "none"
      <4>1. row[r].draft \in Draft /\ Justified(r, row[r].status)
        BY <3>3 DEF TruthInv, SafeInv, LockInv, StatusInv
      <4>2. row[r].status = "uncertain" => row[r].draft # e
        BY <2>1, <4>1 DEF Justified
      <4>. QED
        BY <2>1, <2>2, <2>3, <2>4, <3>1, <4>1, <4>2 DEF Justified, InRun
    <3>. QED
      BY <3>2, <3>3
  <2>. QED
    BY <1>5, <2>1, <2>5 DEF SendNow, StatusInv, InRun
<1>6. ASSUME SendNowOk PROVE StatusInv'
  BY <1>6 DEF SendNowOk, Finish, NoCall, TruthInv, StatusInv, Justified, external
<1>7. ASSUME SendNowNotSent PROVE StatusInv'
  BY <1>7 DEF SendNowNotSent, NotSent, NoCall, TruthInv, StatusInv, Justified, external
<1>8. ASSUME SendNowUnknown PROVE StatusInv'
  BY <1>8 DEF SendNowUnknown, NoCall, TruthInv, StatusInv, Justified, external
<1>9. ASSUME NEW r \in Row, Cancel(r) PROVE StatusInv'
  BY <1>9 DEF Cancel, Waiting, TruthInv, StatusInv, Justified, external
<1>10. ASSUME Tick PROVE StatusInv'
  BY <1>10 DEF Tick, TruthInv, StatusInv, Justified, external
<1>11. ASSUME RunDue PROVE StatusInv'
  BY <1>11 DEF RunDue, TruthInv, StatusInv, Justified, external
<1>12. ASSUME RunEnds PROVE StatusInv'
  BY <1>12 DEF RunEnds, Off, TruthInv, StatusInv, Justified, external
<1>13. ASSUME NEW r \in Row, Lease(r) PROVE StatusInv'
  <2>1. CASE Waiting(r)
    <3>1. row' = [row EXCEPT ![r].status = "sending"] /\ ~HasRow
      BY <1>13, <2>1 DEF Lease, HasRow
    <3>2. worker'.row = r /\ worker'.at \in {"settle", "enabled"} /\ worker'.verdict = "suspended"
      <4>1. \A at \in {"settle", "enabled"} :
              LET w == [worker EXCEPT !.todo = worker.todo \ {r}, !.row = r, !.at = at,
                                      !.verdict = "suspended"]
              IN w.row = r /\ w.at = at /\ w.verdict = "suspended"
        BY DEF TruthInv, SafeInv, TypeOK, WorkerState
      <4>. QED
        BY <1>13, <2>1, <4>1 DEF Lease
    <3>3. asked[row[r].draft][r] = 0
      BY <2>1 DEF TruthInv, StatusInv, Justified, Waiting
    <3>4. row'[r].status = "sending" /\ row'[r].draft = row[r].draft
      BY <3>1 DEF TruthInv, SafeInv, TypeOK, QueueEntry
    <3>5. \A k \in Row \ {r} : row'[k] = row[k]
      BY <3>1 DEF TruthInv, SafeInv, TypeOK
    <3>6. UNCHANGED <<ledger, client, asked, sentBy>>
      BY <1>13 DEF Lease, external
    <3>7. ASSUME NEW k \in Row PROVE Justified(k, row[k].status)'
      <4>1. Justified(k, row[k].status)
        BY DEF TruthInv, StatusInv
      <4>. QED
        BY <3>2, <3>4, <3>5, <3>6, <4>1 DEF Justified
    <3>. QED
      BY <3>2, <3>3, <3>4, <3>6, <3>7 DEF StatusInv, Justified
  <2>2. CASE ~Waiting(r)
    <3>1. worker'.at = worker.at /\ worker'.row = worker.row
      BY <1>13, <2>2 DEF Lease, TruthInv, SafeInv, TypeOK, WorkerState
    <3>2. UNCHANGED <<row, ledger, client, asked, sentBy>> /\ worker.at = "next"
      BY <1>13, <2>2 DEF Lease, external
    <3>. QED
      BY <3>1, <3>2 DEF TruthInv, StatusInv, Justified
  <2>. QED
    BY <2>1, <2>2
<1>14. ASSUME Enabled PROVE StatusInv'
  <2>. DEFINE w == worker.row
              entry == ledger[row[w].draft]
  <2>1. /\ w \in Row /\ client.at = "out" /\ worker.at = "enabled"
        /\ row[w].draft \in Draft /\ Justified(w, "pending")
    BY <1>14 DEF Enabled, TruthInv, SafeInv, StatusInv, LockInv, HasRow, InRun
  <2>2. UNCHANGED <<row, ledger, client, asked, sentBy>>
    BY <1>14 DEF Enabled, external
  <2>3. CASE worker' = [worker EXCEPT !.at = "reading"]
    <3>1. worker'.at = "reading" /\ worker'.row = w
      BY <2>3 DEF TruthInv, SafeInv, TypeOK, WorkerState
    <3>. QED
      BY <2>1, <2>2, <3>1 DEF TruthInv, StatusInv, Justified
  <2>4. ASSUME NEW v \in {"pending", "suspended", "canceled", "uncertain"}, Decide(v),
               v = "uncertain" => entry # NoEntry /\ ~entry.result
        PROVE  StatusInv'
    <3>1. worker'.at = "settle" /\ worker'.row = w /\ worker'.verdict = v
      BY <2>4, DecideKeepsRow DEF TruthInv, SafeInv
    <3>2. v = "uncertain" => entry.by # None
      BY <2>1, <2>4 DEF TruthInv, SafeInv, TypeOK, Intent, NoEntry
    <3>. QED
      BY <2>1, <2>2, <3>1, <3>2 DEF TruthInv, StatusInv, Justified
  <2>. QED
    BY <1>14, <2>3, <2>4 DEF Enabled
<1>15. ASSUME ReadsForbid PROVE StatusInv'
  <2>1. Justified(worker.row, "pending") /\ UNCHANGED <<row, ledger, client, asked, sentBy>>
    BY <1>15 DEF ReadsForbid, TruthInv, StatusInv, external
  <2>2. /\ worker'.at = "settle" /\ worker'.row = worker.row
        /\ worker'.verdict \in {"pending", "suspended"}
    BY <1>15, DecideKeepsRow DEF ReadsForbid, TruthInv, SafeInv
  <2>. QED
    BY <2>1, <2>2 DEF TruthInv, StatusInv, Justified
<1>16. ASSUME ReadsAllow PROVE StatusInv'
  <2>. DEFINE w == worker.row
              e == row[w].draft
  <2>1. /\ w \in Row /\ row[w].status = "sending" /\ e \in Draft
        /\ client.at = "out" /\ ledger[e].by = None
    BY <1>16 DEF ReadsAllow, Begin, NoEntry, TruthInv, SafeInv, LockInv, HasRow, InRun
  <2>2. \A d \in Draft, r \in Row : r # w => asked'[d][r] = asked[d][r]
    BY <1>16, <2>1 DEF ReadsAllow, Begin
  <2>3. \A d \in Draft \ {e} : ledger'[d] = ledger[d]
    BY <1>16, <2>1 DEF ReadsAllow, Begin
  <2>4. worker'.row = w /\ worker'.at = "sending"
    BY <1>16 DEF ReadsAllow
  <2>5. row' = row /\ sentBy' = sentBy /\ client' = client
    BY <1>16 DEF ReadsAllow
  <2>6. ASSUME NEW r \in Row PROVE Justified(r, row[r].status)'
    <3>1. CASE row[r].status \in {"none", "sending"}
      BY <2>5, <3>1 DEF Justified
    <3>2. CASE row[r].status \notin {"none", "sending"}
      <4>1. r # w /\ row[r].draft \in Draft /\ Justified(r, row[r].status)
        BY <2>1, <3>2 DEF TruthInv, SafeInv, LockInv, StatusInv
      <4>2. row[r].status = "uncertain" => row[r].draft # e
        BY <2>1, <4>1 DEF Justified
      <4>. QED
        BY <2>1, <2>2, <2>3, <2>4, <2>5, <4>1, <4>2 DEF Justified
    <3>. QED
      BY <3>1, <3>2
  <2>. QED
    BY <2>4, <2>6 DEF StatusInv
<1>17. ASSUME SendOk PROVE StatusInv'
  BY <1>17 DEF SendOk, Finish, Decide, TruthInv, ResultInv, AskedInv, StatusInv, Justified, LockInv, InRun, HasRow, TypeOK, Via, external
<1>18. ASSUME SendNotSent PROVE StatusInv'
  <2>. DEFINE w == worker.row
              e == row[w].draft
  <2>1. /\ w \in Row /\ row[w].status = "sending" /\ e \in Draft
        /\ client.at = "out" /\ worker.at = "sending"
    BY <1>18 DEF SendNotSent, TruthInv, SafeInv, LockInv, HasRow, InRun
  <2>2. /\ worker'.at = "settle" /\ worker'.row = w
        /\ worker'.verdict \in {"pending", "suspended"}
    BY <1>18, DecideKeepsRow DEF SendNotSent, TruthInv, SafeInv
  <2>3. row' = row /\ sentBy' = sentBy /\ client' = client
    BY <1>18 DEF SendNotSent
  <2>4. /\ \A d \in Draft, r \in Row : asked[d][r] = 0 => asked'[d][r] = 0
        /\ asked'[e][w] = 0
    BY <1>18, <2>1 DEF SendNotSent, NotSent, TruthInv, SafeInv, TypeOK, Via
  <2>5. \A d \in Draft \ {e} : ledger'[d] = ledger[d]
    BY <1>18 DEF SendNotSent, NotSent
  <2>6. ASSUME NEW r \in Row PROVE Justified(r, row[r].status)'
    <3>1. CASE row[r].status \in {"none", "sending"}
      BY <2>3, <3>1 DEF Justified
    <3>2. CASE row[r].status \notin {"none", "sending"}
      <4>1. row[r].draft \in Draft /\ Justified(r, row[r].status)
        BY <3>2 DEF TruthInv, SafeInv, LockInv, StatusInv
      <4>2. row[r].status = "uncertain" => row[r].draft # e
        BY <2>1, <4>1 DEF Justified
      <4>. QED
        BY <2>1, <2>2, <2>3, <2>4, <2>5, <4>1, <4>2 DEF Justified
    <3>. QED
      BY <3>1, <3>2
  <2>7. worker'.verdict # "none" /\ Justified(w, worker.verdict)'
    BY <2>2, <2>3, <2>4 DEF Justified
  <2>. QED
    BY <2>2, <2>6, <2>7 DEF StatusInv
<1>19. ASSUME SendUnknown PROVE StatusInv'
  BY <1>19 DEF SendUnknown, Decide, TruthInv, SafeInv, StatusInv, Justified, LedgerInv, LockInv, HasRow, external
<1>20. ASSUME Settle PROVE StatusInv'
  BY <1>20 DEF Settle, TruthInv, StatusInv, Justified, external
<1>21. ASSUME NEW a \in inflight, GoogleSends(a) PROVE StatusInv'
  BY <1>21 DEF GoogleSends, TruthInv, SafeInv, ResultInv, StatusInv, Justified, LockInv, HasRow, external
<1>22. ASSUME NEW r \in Row, TimePasses(r) PROVE StatusInv'
  BY <1>22 DEF TimePasses, TruthInv, StatusInv, Justified, external
<1>23. ASSUME Crash PROVE StatusInv'
  BY <1>23 DEF Crash, Off, NoCall, TruthInv, StatusInv, Justified, external
<1>24. ASSUME Restart PROVE StatusInv'
  <2>1. client.at = "out" /\ worker.at = "off"
    BY <1>24 DEF Restart, TruthInv, SafeInv, LockInv
  <2>2. UNCHANGED <<ledger, worker, client, asked, sentBy>>
    BY <1>24 DEF Restart, external
  <2>3. ASSUME NEW r \in Row PROVE Justified(r, row[r].status)'
    <3>1. row'[r] = Recovered(row[r], r)
      BY <1>24 DEF Restart
    <3>2. CASE row[r].status # "sending"
      <4>1. row'[r] = row[r] /\ Justified(r, row[r].status)
        BY <3>1, <3>2 DEF Recovered, TruthInv, StatusInv
      <4>. QED
        BY <2>1, <2>2, <4>1 DEF Justified
    <3>3. CASE row[r].status = "sending"
      <4>. DEFINE d == row[r].draft
      <4>1. d \in Draft
        BY <3>3 DEF TruthInv, SafeInv, LockInv
      <4>2. row'[r].draft = d
        BY <3>1, <3>3 DEF Recovered
      <4>3. CASE ledger[d].by # r
        <5>1. row'[r].status = "pending"
          BY <3>1, <3>3, <4>3 DEF Recovered
        <5>2. asked[d][r] = 0
          BY <4>1, <4>3 DEF TruthInv, SafeInv, LedgerInv, Via
        <5>. QED
          BY <2>2, <4>2, <5>1, <5>2 DEF Justified
      <4>4. CASE ledger[d].by = r /\ ledger[d].result
        <5>1. row'[r].status = "sent"
          BY <3>1, <3>3, <4>4 DEF Recovered
        <5>2. sentBy[d] = r
          BY <4>1, <4>4 DEF TruthInv, ResultInv
        <5>. QED
          BY <2>2, <4>2, <5>1, <5>2 DEF Justified
      <4>5. CASE ledger[d].by = r /\ ~ledger[d].result
        <5>1. row'[r].status = "uncertain"
          BY <3>1, <3>3, <4>5 DEF Recovered
        <5>2. ledger[d].by # None
          BY <4>5, ImmediateAssumption
        <5>. QED
          BY <2>1, <2>2, <4>2, <5>1, <5>2 DEF Justified
      <4>. QED
        BY <4>3, <4>4, <4>5
    <3>. QED
      BY <3>2, <3>3
  <2>. QED
    BY <2>1, <2>2, <2>3 DEF StatusInv
<1>25. CASE UNCHANGED vars
  BY <1>25 DEF vars, TruthInv, StatusInv, Justified, external
<1>. QED
  BY <1>1, <1>2, <1>3, <1>4, <1>5, <1>6, <1>7, <1>8, <1>9, <1>10, <1>11, <1>12, <1>13, <1>14, <1>15, <1>16, <1>17, <1>18, <1>19, <1>20, <1>21, <1>22, <1>23, <1>24, <1>25 DEF Next

-------------------------------------------------------------------------------
\* Types, lock and ledger hold in every reachable state.
THEOREM Safety == Spec => []SafeInv
<1>1. SafeInv /\ [Next]_vars => SafeInv'
  BY StepType, StepLock, StepLedger DEF SafeInv
<1>. QED
  BY InitSafe, <1>1, PTL DEF Spec

\* The types of the variables: the draft's version, the ledger, the queue and
\* whoever works on them.
THEOREM TypeCorrect == Spec => []TypeOK
<1>1. SafeInv => TypeOK
  BY DEF SafeInv
<1>. QED
  BY Safety, <1>1, PTL

\* A draft is handed to Google for sending once (compose.ts:545-558, README
\* 567-571), for any number of entries, retries and crashes.
THEOREM SentOnce == Spec => []NeverReplayed
<1>1. SafeInv => NeverReplayed
  BY ImmediateAssumption DEF SafeInv, LedgerInv, NeverReplayed
<1>. QED
  BY Safety, <1>1, PTL

\* The results, requests, statuses and verdicts of a fresh process are true.
LEMMA InitTrue == Init => TruthInv
<1>. SUFFICES ASSUME Init PROVE TruthInv
  OBVIOUS
<1>1. ResultInv
  BY DEF Init, ResultInv, NoEntry
<1>2. AskedInv
  BY DEF Init, AskedInv, Via
<1>3. StatusInv
  BY DEF Init, StatusInv, Justified, NoRow, Off
<1>. QED
  BY InitSafe, <1>1, <1>2, <1>3 DEF TruthInv

\* The status of a queue entry is true (compose.ts:618-695, store.ts:710-728,
\* README 603-610): nothing reads "not sent" that was handed to Google, nothing
\* reads "sent" that another request sent, whatever dies or answers late.
THEOREM StatusesAreTrue == Spec => []StatusIsTrue
<1>1. TruthInv /\ [Next]_vars => TruthInv'
  BY StepType, StepLock, StepLedger, StepResult, StepAsked, StepStatus
  DEF TruthInv, SafeInv
<1>2. TruthInv => StatusIsTrue
  <2>. SUFFICES ASSUME TruthInv, NEW r \in Row
                PROVE  LET d == row[r].draft
                           mine == asked[d][r] # 0
                       IN CASE row[r].status = "sent" -> sentBy[d] = r
                            [] row[r].status \in {"pending", "canceled", "suspended"} -> ~mine
                            [] row[r].status = "uncertain" -> \E v \in Via : asked[d][v] # 0
                            [] OTHER -> TRUE
    BY DEF StatusIsTrue
  <2>1. Justified(r, row[r].status)
    BY DEF TruthInv, StatusInv
  <2>2. ASSUME row[r].status = "uncertain"
        PROVE  \E v \in Via : asked[row[r].draft][v] # 0
    <3>1. row[r].draft \in Draft /\ ledger[row[r].draft].by # None
      BY <2>1, <2>2 DEF Justified, TruthInv, SafeInv, LockInv
    <3>2. ledger[row[r].draft].by \in Via
      BY <3>1 DEF TruthInv, SafeInv, TypeOK, Intent
    <3>. QED
      BY <3>1, <3>2 DEF TruthInv, SafeInv, LedgerInv
  <2>. QED
    BY <2>1, <2>2 DEF Justified
<1>. QED
  BY InitTrue, <1>1, <1>2, PTL DEF Spec

\* A final entry stays as it is, though scheduleFinish() looks at no status
\* (store.ts:699-709).
THEOREM FinalStays == Spec => FinalIsFinal
<1>1. SafeInv /\ [Next]_vars => [\A r \in Row : row[r].status \in Final => row'[r] = row[r]]_vars
  <2>. SUFFICES ASSUME SafeInv, Next, NEW r \in Row, row[r].status \in Final
                PROVE  row'[r] = row[r]
    OBVIOUS
  <2>. USE DEF SafeInv, TypeOK, Final
  <2>1. ASSUME NEW k \in Row, Schedule(k) PROVE row'[r] = row[r]
    BY <2>1 DEF Schedule, NoRow
  <2>2. ASSUME NEW k \in Row, Cancel(k) PROVE row'[r] = row[r]
    BY <2>2 DEF Cancel, Waiting
  <2>3. ASSUME NEW k \in Row, Lease(k) PROVE row'[r] = row[r]
    BY <2>3 DEF Lease, Waiting
  <2>4. ASSUME Settle PROVE row'[r] = row[r]
    BY <2>4 DEF Settle, LockInv, HasRow
  <2>5. ASSUME Restart PROVE row'[r] = row[r]
    BY <2>5 DEF Restart, Recovered
  <2>6. CASE UNCHANGED row
    BY <2>6
  <2>. QED
    BY <2>1, <2>2, <2>3, <2>4, <2>5, <2>6
    DEF Next, DraftChanges, Submit, PrepareFails, SendNow, SendNowOk, SendNowNotSent,
        SendNowUnknown, Tick, RunDue, RunEnds, Enabled, ReadsForbid, ReadsAllow, SendOk,
        SendNotSent, SendUnknown, GoogleSends, TimePasses, Crash
<1>. QED
  BY Safety, <1>1, PTL DEF Spec, FinalIsFinal
================================================================================
