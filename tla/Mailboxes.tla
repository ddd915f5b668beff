----------------------------- MODULE Mailboxes -----------------------------
(***************************************************************************)
(* Mailbox/get and Mailbox/set: the rows that give every folder its id,    *)
(* the cached list with the counter it was made under, and the targeted    *)
(* refresh of counts that ends every Email mutation.  LIST is one command  *)
(* whose answer is applied later; several may be on their way at once.     *)
(***************************************************************************)
EXTENDS MailStore

CONSTANTS
    MaxBox,   \* bound on the mailbox ids handed out
    BoxArgs   \* what a Mailbox/set may ask for

VARIABLES
    row,      \* mailbox id -> the path it stands for, or None
    total,    \* mailbox id -> the message count in its row
    nextBox,  \* AUTOINCREMENT: the next id
    list,     \* listCache: the counts by id and the counter, or None
    live,     \* liveStatus: what the last LIST said of each path
    holders,  \* the requests whose captured cache entry is still the cached one
    given,    \* history: which folder got which id
    muddled   \* history: a LIST was applied after the folders had changed, or
              \* after the answer to a later one, or a RENAME was done and not followed

boxVars == <<row, total, nextBox, list, live, holders, given, muddled>>

BoxId == 1..MaxBox
known == {b \in BoxId : row[b] # None}
Reaches(b) == row[b] # None /\ ident[row[b]] # 0

\* One LIST with STATUS: the paths, their UIDVALIDITY, UIDNEXT and counts.
Snapshot == [p \in folders |-> [ident |-> ident[p], uidNext |-> uidNext[p],
                                count |-> Cardinality(In(p))]]

invalidateListCache == list' = None /\ holders' = {}

CachedListIsCurrent == list # None /\ list.state = mstate

-----------------------------------------------------------------------------
(* listMailboxes: LIST is sent, and its answer applied.  `next` is where   *)
(* the caller goes on, `catch` where it lands when LIST throws.            *)

ListSend(r) ==
    /\ req[r].pc = "list"
    /\ \E a \in Outcomes(r) :
        /\ CountFault(a)
        /\ IF a = "ok" THEN Become(r, [pc |-> "listed", listing |-> Snapshot, late |-> FALSE,
                                       before |-> {q \in Request : req[q].pc = "listed"}])
           ELSE Become(r, [pc |-> req[r].catch, dead |-> Dies(a)])
    /\ UNCHANGED <<ident, mail, uidNext, idents, others, doomed, estate, mstate, hushed, boxVars>>

NewPaths(got) == DOMAIN got \ {row[b] : b \in known}

RowsAfter(got) ==
    LET fresh == SetToSeq(NewPaths(got)) IN
    [b \in BoxId |-> IF row[b] \in DOMAIN got THEN row[b]
                     ELSE IF b - nextBox + 1 \in DOMAIN fresh THEN fresh[b - nextBox + 1]
                     ELSE None]

ApplyList(got, late) ==
    /\ nextBox + Cardinality(NewPaths(got)) - 1 <= MaxBox
    /\ row' = RowsAfter(got)
    /\ nextBox' = nextBox + Cardinality(NewPaths(got))
    /\ total' = [b \in BoxId |-> IF row'[b] \in DOMAIN got THEN got[row'[b]].count ELSE 0]
    /\ list' = [state |-> mstate,
                counts |-> [b \in {c \in BoxId : row'[c] # None} |-> total'[b]]]
    /\ live' = got
    /\ holders' = {}
    /\ muddled' = (muddled \/ late \/ [p \in DOMAIN got |-> got[p].ident]
                                        # [p \in folders |-> ident[p]])
    /\ given' = given \cup {<<got[row'[b]].ident, b>> :
                                b \in {c \in BoxId : row'[c] \in DOMAIN got}}

ListReply(r) ==
    /\ req[r].pc = "listed"
    /\ ApplyList(req[r].listing, req[r].late)
    /\ req' = [q \in Request |->
                IF q = r THEN IF req[r].next = "done" THEN Done
                              ELSE [pc |-> req[r].next, before |-> {}] @@ req[r]
                ELSE IF q \in req[r].before /\ req[q].pc = "listed" THEN [late |-> TRUE] @@ req[q]
                ELSE req[q]]
    /\ UNCHANGED <<serverVars, estate, mstate, hushed>>

-----------------------------------------------------------------------------
(* refreshMailboxCounts: one STATUS for each folder a mutation touched,    *)
(* then the cached list is stamped with the counter as it is by then.      *)

\* The entry is captured, if there is one, before the first STATUS.
RefreshFrom(r, touched) ==
    IF touched = {}
    THEN invalidateListCache /\ Become(r, [pc |-> "done"])
    ELSE /\ holders' = IF list # None THEN holders \cup {r} ELSE holders
         /\ UNCHANGED list
         /\ Become(r, [pc |-> "status", touched |-> touched])

StatusSend(r) ==
    /\ req[r].pc = "status"
    /\ LET b == CHOOSE c \in req[r].touched : \A d \in req[r].touched : c <= d IN
       \E a \in Outcomes(r) :
        IF row[b] = None
        THEN \* no such row any more: the next one
             /\ a = "ok"
             /\ Become(r, [pc |-> "counted", at |-> None])
             /\ UNCHANGED <<faults, list, holders>>
        ELSE /\ CountFault(a)
             /\ IF a = "ok" /\ Reaches(b)
                THEN /\ Become(r, [pc |-> "counted", at |-> b,
                                   count |-> Cardinality(In(row[b]))])
                     /\ UNCHANGED <<list, holders>>
                ELSE Become(r, [pc |-> "done"]) /\ invalidateListCache
    /\ UNCHANGED <<ident, mail, uidNext, idents, others, doomed, estate, mstate, hushed,
                   row, total, nextBox, live, given, muddled>>

StatusReply(r) ==
    /\ req[r].pc = "counted"
    /\ LET first == CHOOSE c \in req[r].touched : \A d \in req[r].touched : c <= d
           left == req[r].touched \ {first}
           b == req[r].at
           n == req[r].count
           entry == IF b # None /\ b \in DOMAIN list.counts
                    THEN [list EXCEPT !.counts[b] = n] ELSE list
       IN  /\ total' = IF b = None \/ row[b] = None THEN total ELSE [total EXCEPT ![b] = n]
           /\ list' = IF r \notin holders THEN list
                      ELSE IF left = {} THEN [entry EXCEPT !.state = mstate] ELSE entry
           /\ Become(r, [pc |-> IF left = {} THEN "done" ELSE "status", touched |-> left])
    /\ UNCHANGED <<serverVars, estate, mstate, hushed, row, nextBox, live, holders, given, muddled>>

-----------------------------------------------------------------------------
(* Mailbox/get, Mailbox/query and Mailbox/queryChanges read the list.      *)

mailboxGet(r) ==
    /\ req[r].pc = "idle"
    /\ IF CachedListIsCurrent
       THEN Become(r, [op |-> "boxget", pc |-> "done"])
       ELSE Become(r, [op |-> "boxget", pc |-> "list", next |-> "done", catch |-> "done"])
    /\ UNCHANGED <<serverVars, estate, mstate, hushed, boxVars>>

-----------------------------------------------------------------------------
(* Mailbox/set: the list is read anew, then one folder is made, renamed or *)
(* destroyed, and what succeeded is recorded.                              *)

mailboxSet(r, arg) ==
    /\ req[r].pc = "idle"
    /\ invalidateListCache
    /\ Become(r, [op |-> "boxset", pc |-> "list", next |-> arg.act, catch |-> "done", arg |-> arg])
    /\ UNCHANGED <<serverVars, estate, mstate, hushed, row, total, nextBox, live, given, muddled>>

\* The list is dropped and read once more, so that the new row has an id.
Relist(r, next, a) ==
    /\ invalidateListCache
    /\ Become(r, [pc |-> "list", next |-> next, catch |-> "done", dead |-> Dies(a)])

Refused(r, a) == Become(r, [pc |-> "done", dead |-> Dies(a)]) /\ UNCHANGED <<list, holders>>

applyMailboxCreate(r) ==
    LET p == req[r].arg.to IN
    /\ req[r].pc = "create"
    /\ IF \E b \in known : row[b] = p
       THEN Become(r, [pc |-> "done"]) /\ UNCHANGED <<ident, idents, uidNext, faults, list, holders>>
       ELSE \E a \in Outcomes(r) :
            /\ CountFault(a)
            /\ IF Obeyed(a) /\ p \notin folders
               THEN /\ ident' = [ident EXCEPT ![p] = idents + 1] /\ idents' = idents + 1
                    /\ uidNext' = [uidNext EXCEPT ![p] = 1]
               ELSE UNCHANGED <<ident, idents, uidNext>>
            /\ IF a = "ok" /\ p \notin folders THEN Relist(r, "created", a) ELSE Refused(r, a)
    /\ UNCHANGED <<mail, others, doomed, estate, mstate, hushed,
                   row, total, nextBox, live, given, muddled>>

MailboxCreated(r) ==
    /\ req[r].pc = "created"
    /\ Become(r, [pc |-> IF \E b \in known : row[b] = req[r].arg.to THEN "boxrecord" ELSE "done"])
    /\ UNCHANGED <<serverVars, estate, mstate, hushed, boxVars>>

\* Mutant of Repath: the row keeps the old path.
RepathNothing(b, p) == UNCHANGED row

\* updateMailboxPath: the row follows the folder; a row of that path is in the way.
Repath(b, p) == row' = [row EXCEPT ![b] = p]

Renamed(p, q) ==
    /\ ident' = [ident EXCEPT ![p] = 0, ![q] = ident[p]]
    /\ mail' = {IF x.at = p THEN [x EXCEPT !.at = q] ELSE x : x \in mail}
    /\ uidNext' = [uidNext EXCEPT ![q] = uidNext[p]]
    /\ hushed' = hushed \cup {<<q, c[2]>> : c \in {d \in hushed : d[1] = p}}

applyMailboxUpdate(r) ==
    LET b == req[r].arg.box
        q == req[r].arg.to
    IN
    /\ req[r].pc = "rename"
    /\ IF row[b] = None \/ row[b] = q
       THEN /\ Become(r, [pc |-> IF row[b] = None THEN "done" ELSE "boxrecord"])
            /\ UNCHANGED <<ident, mail, uidNext, hushed, faults, list, holders, row, muddled>>
       ELSE \E a \in Outcomes(r) :
            LET can == row[b] \in folders /\ q \notin folders
                follows == a = "ok" /\ can /\ \A c \in known : row[c] # q
            IN
            /\ CountFault(a)
            /\ IF Obeyed(a) /\ can THEN Renamed(row[b], q)
               ELSE UNCHANGED <<ident, mail, uidNext, hushed>>
            /\ muddled' = (muddled \/ (Obeyed(a) /\ can /\ ~ follows))
            /\ IF follows THEN Repath(b, q) /\ Relist(r, "boxrecord", a)
               ELSE Refused(r, a) /\ UNCHANGED row
    /\ UNCHANGED <<idents, others, doomed, estate, mstate, total, nextBox, live, given>>

\* The emptiness check reads the count of the row, as old as the last LIST.
applyMailboxDestroy(r) ==
    LET b == req[r].arg.box
        p == row[b]
    IN
    /\ req[r].pc = "destroy"
    /\ IF p = None \/ (~ req[r].arg.removeEmails /\ total[b] > 0)
       THEN Become(r, [pc |-> "done"]) /\ UNCHANGED <<ident, mail, doomed, hushed, faults>>
       ELSE \E a \in Outcomes(r) :
            LET can == p \in folders /\ p # Inbox IN
            /\ CountFault(a)
            /\ IF Obeyed(a) /\ can
               THEN /\ ident' = [ident EXCEPT ![p] = 0]
                    /\ mail' = mail \ In(p) /\ Hush(In(p))
                    /\ doomed' = doomed \cup {x.msg : x \in In(p)}
               ELSE UNCHANGED <<ident, mail, doomed, hushed>>
            /\ Become(r, [pc |-> IF a = "ok" /\ can THEN "boxrecord" ELSE "done",
                          dead |-> Dies(a)])
    /\ UNCHANGED <<uidNext, idents, others, estate, mstate, boxVars>>

MailboxRecord(r) ==
    /\ req[r].pc = "boxrecord"
    /\ mstate' = mstate + 1
    /\ Become(r, [pc |-> "done"])
    /\ UNCHANGED <<serverVars, estate, hushed, boxVars>>

-----------------------------------------------------------------------------

\* LIST_CACHE_HARD_TTL_MS has passed.
ListExpires ==
    /\ list # None
    /\ invalidateListCache
    /\ UNCHANGED <<serverVars, estate, mstate, hushed, req, row, total, nextBox, live, given, muddled>>

\* The folders there are have been listed once, by the client's first call.
BoxInit ==
    LET there == SetToSeq(StartFolders)
        at(b) == IF b \in DOMAIN there THEN there[b] ELSE None
    IN
    /\ row = [b \in BoxId |-> at(b)]
    /\ total = [b \in BoxId |-> IF at(b) = None THEN 0 ELSE Cardinality({x \in Start : x.at = at(b)})]
    /\ nextBox = Len(there) + 1
    /\ list = [state |-> 0, counts |-> [b \in DOMAIN there |-> total[b]]]
    /\ live = Snapshot
    /\ holders = {}
    /\ given = {<<b, b>> : b \in DOMAIN there}
    /\ muddled = FALSE
=============================================================================
