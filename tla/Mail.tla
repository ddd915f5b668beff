-------------------------------- MODULE Mail --------------------------------
(***************************************************************************)
(* The mail of one account: JMAP calls that run at the same time, each on  *)
(* its own connection, over one IMAP server that other clients use too,    *)
(* and over the rows and caches they share.                                *)
(***************************************************************************)
EXTENDS Threads

vars == <<serverVars, estate, mstate, hushed, req, boxVars, emailVars, threadVars>>

Init ==
    /\ StoreInit /\ BoxInit
    /\ search = [b \in BoxId |-> None]
    /\ cached = [b \in BoxId |-> [u \in 1..MaxUid |-> None]]
    /\ sent = {} /\ misled = {}
    /\ scan = [b \in BoxId |-> None] /\ index = None /\ building = None

Call(r) ==
    \/ (mailboxGet(r) \/ \E arg \in BoxArgs : mailboxSet(r, arg))
        /\ UNCHANGED <<emailVars, threadVars>>
    \/ \E arg \in QueryArgs : emailQuery(r, arg) /\ UNCHANGED threadVars
    \/ \E arg \in GetArgs : emailGet(r, arg) /\ UNCHANGED threadVars
    \/ \E arg \in SetArgs : emailSet(r, arg) /\ UNCHANGED threadVars
    \/ \E arg \in CopyArgs : emailCopy(r, arg) /\ UNCHANGED threadVars
    \/ \E arg \in SubmitArgs : emailSubmissionSet(r, arg) /\ UNCHANGED threadVars
    \/ threadGet(r)

BoxStep(r) ==
    \/ ListSend(r) \/ ListReply(r) \/ StatusSend(r) \/ StatusReply(r)
    \/ applyMailboxCreate(r) \/ MailboxCreated(r)
    \/ applyMailboxUpdate(r) \/ applyMailboxDestroy(r) \/ MailboxRecord(r)

ReadStep(r) ==
    \/ QueryTargets(r) \/ QueryDone(r)
    \/ \E b \in BoxId : QueryOpen(r, b)
    \/ req[r].pc = "scan" /\ \E o \in req[r].out : QuerySearch(r, o) \/ QueryFound(r, o)
    \/ FetchSend(r) \/ FetchReply(r)

ChangeStep(r) ==
    \/ applyEmailCreate(r) \/ EmailDestroys(r)
    \/ StoreFlags(r) \/ MoveLetters(r) \/ KillLetters(r) \/ EmailRecord(r)
    \/ CopyLetter(r) \/ CopyFlags(r)
    \/ fetchRfc822(r) \/ submit(r) \/ SentRecord(r)

ThreadStep(r) ==
    \/ buildThreadIndex(r) \/ AwaitBuild(r) \/ BuildFails(r) \/ PlanScan(r)
    \/ ScanOpen(r) \/ ScanNew(r) \/ ScanNewReply(r) \/ ScanReconcile(r)
    \/ ScanSearched(r) \/ ScanGaps(r) \/ ScanGapsReply(r) \/ BuildEnds(r)

Step(r) ==
    \/ BoxStep(r) /\ UNCHANGED <<emailVars, threadVars>>
    \/ (ReadStep(r) \/ ChangeStep(r)) /\ UNCHANGED threadVars
    \/ ThreadStep(r)

Expire ==
    \/ ListExpires /\ UNCHANGED <<emailVars, threadVars>>
    \/ \E b \in BoxId : SearchExpires(b) /\ UNCHANGED threadVars
    \/ IndexExpires

Next ==
    \/ \E r \in Request : Call(r) \/ Step(r)
    \/ (OtherNext \/ Announce) /\ UNCHANGED <<boxVars, emailVars, threadVars>>
    \/ Expire

Spec == Init /\ [][Next]_vars

-----------------------------------------------------------------------------

TypeOK ==
    /\ ident \in [Path -> 0..idents] /\ mail \subseteq Letter
    /\ uidNext \in [Path -> 1..MaxUid + 1]
    /\ faults + others \in 0..MaxTrouble
    /\ row \in [BoxId -> Path \cup {None}] /\ nextBox \in 1..MaxBox + 1
    /\ list = None \/ DOMAIN list.counts \subseteq BoxId
    /\ holders \subseteq Request /\ (list = None => holders = {})
    /\ doomed \cup sent \subseteq Msg /\ misled \subseteq BoxId \X (1..MaxUid)
    /\ building \in Request \cup {None}

\* A search kept under the counter as it stands differs from what the folder
\* would answer only by letters that changed since the counter last moved
\* (searchCache, email.ts 95-118, 524-560): no bump is lost by reading the
\* counter and the folder at different times.
SearchCacheSound ==
    \A b \in BoxId :
        LET s == search[b]
            now == UidsOf(Unseen(Lets(b)))
        IN  s # None /\ Reaches(b) /\ SearchHit(b) /\ s.heard =>
                \A u \in (s.uids \ now) \cup (now \ s.uids) : <<row[b], u>> \in hushed

\* A thread index kept under the counter as it stands has every letter of the
\* folders it could open, but for those that changed since the counter last
\* moved and those whose rows a refused command took (threads.ts 160-300).
\* It does not hold once the answer to a LIST came after that to a later one.
IndexSound ==
    index # None /\ index.state = estate /\ ~ muddled =>
        \A b \in known \ index.skipped : \A x \in Lets(b) :
            \/ <<b, x.uid>> \in index.rows \cup misled
            \/ <<x.at, x.uid>> \in hushed

\* A folder that is as it was last scanned has the row of every letter in it,
\* but for those whose rows a refused command took (threads.ts 71-158).
NoLiveMessageMissing ==
    \A b \in known : Reaches(b) /\ scan[b] = StatusOf(row[b]) =>
        \A x \in Lets(b) : x.uid \in Threaded(b) \/ <<b, x.uid>> \in misled

\* No message there was at first is gone unless somebody asked for its end or
\* SMTP took it: through batches that are retried id by id, copies that drop
\* their original, and drafts that are filed or destroyed once sent.
NothingLost ==
    \A x \in Start : x.msg \in doomed \cup sent \/ \E y \in mail : y.msg = x.msg

\* As long as no LIST was applied late, a folder keeps
\* its mailbox id through renames and lists (mailbox.ts 69-180, 627-700).
OneIdPerFolder ==
    ~ muddled => \A g, h \in given : g[1] = h[1] => g[2] = h[2]

\* Who waits for an index waits for a call that is at its build, however the
\* folders, the LIST or the connection fail (threads.ts 160-190).
NoBuildLeftBehind ==
    building # None => req[building].pc \notin {"idle", "thread", "await", "done"}

\* The rows and the build in memory stay what other calls take them for.
RowsOK == TypeOK /\ OneIdPerFolder /\ NoBuildLeftBehind

\* Nothing is kept under a counter or a status that hides a letter.
CachesSound == SearchCacheSound /\ IndexSound /\ NoLiveMessageMissing
=============================================================================
