------------------------------- MODULE Emails -------------------------------
(***************************************************************************)
(* Email/query and Email/get: the search cache, kept under the `email`     *)
(* counter, and the rows of email_cache, kept under the UIDVALIDITY.       *)
(* Between two awaits the code runs alone; between an IMAP command and its *)
(* answer anything else may happen.                                        *)
(***************************************************************************)
EXTENDS Mailboxes

CONSTANTS
    QueryArgs,   \* [box, meta]: one folder, or None for the whole account
    GetArgs      \* [box, uids]

VARIABLES
    search,   \* searchCache for the filter `unseen`: id -> an entry, or None
    cached,   \* email_cache: id -> UID -> a row, or None
    sent,     \* history: messages the SMTP server has taken
    misled    \* history: letters whose row went because a command answered false

emailVars == <<search, cached, sent, misled>>

Min2(S) == CHOOSE u \in S : \A v \in S : u <= v
Lets(b) == IF Reaches(b) THEN In(row[b]) ELSE {}
Unseen(letters) == {x \in letters : ~ x.seen}

-----------------------------------------------------------------------------
(* email_cache rows.  A thread scan stores kind 2 (it knows the thread), a *)
(* get kind 3 (the whole projection, `of` a message), and a query's dates  *)
(* or structures kind 1.  An upsert takes the new UIDVALIDITY and never    *)
(* loses a column.                                                         *)

Shown(letters) == {[uid |-> x.uid, msg |-> x.msg] : x \in letters}
UidsIn(shown) == {s.uid : s \in shown}

Upsert(old, id, kind, m) ==
    [ident |-> id,
     kind |-> IF old # None /\ old.kind > kind THEN old.kind ELSE kind,
     of |-> IF kind = 3 THEN m ELSE IF old = None THEN None ELSE old.of]

UpsertAll(b, id, shown, kind) ==
    [cached EXCEPT ![b] = [u \in 1..MaxUid |->
        IF u \notin UidsIn(shown) THEN @[u]
        ELSE Upsert(@[u], id, kind, (CHOOSE s \in shown : s.uid = u).msg)]]

DeleteUids(c, b, uids) ==
    [c EXCEPT ![b] = [u \in 1..MaxUid |-> IF u \in uids THEN None ELSE @[u]]]

RowUids(b) == {u \in 1..MaxUid : row[b] # None /\ cached[b][u] # None}

\* The rows the thread index is read from: those that know their thread.
Threaded(b) == {u \in RowUids(b) : cached[b][u].kind >= 2}

-----------------------------------------------------------------------------
(* Email/query: one folder, or every folder the list says is not empty.    *)

\* The entry is good for the folder as it was SELECTed and the counter as it is.
SearchHit(b) ==
    /\ search[b] # None
    /\ search[b].ident = ident[row[b]]
    /\ search[b].state = estate

emailQuery(r, arg) ==
    /\ req[r].pc = "idle"
    /\ LET common == [op |-> "query", arg |-> arg, todo |-> {}, out |-> {}] IN
       IF arg.box # None
       THEN Become(r, [pc |-> "scan", todo |-> {arg.box}] @@ common)
       ELSE Become(r, [pc |-> IF CachedListIsCurrent THEN "targets" ELSE "list",
                       next |-> "targets", catch |-> "done"] @@ common)
    /\ UNCHANGED <<serverVars, estate, mstate, hushed, boxVars, emailVars>>

QueryTargets(r) ==
    /\ req[r].pc = "targets"
    /\ Become(r, [pc |-> "scan", todo |-> {b \in known : total[b] > 0}])
    /\ UNCHANGED <<serverVars, estate, mstate, hushed, boxVars, emailVars>>

\* SELECT: the counter is read before the SEARCH goes out.
QueryOpen(r, b) ==
    /\ req[r].pc = "scan" /\ b \in req[r].todo
    /\ LET rest == req[r].todo \ {b} IN
       IF req[r].dead \/ ~ Reaches(b) \/ SearchHit(b)
       THEN Become(r, [todo |-> rest])
       ELSE Become(r, [todo |-> rest,
                       out |-> req[r].out \cup
                          {[box |-> b, ident |-> ident[row[b]], state |-> estate, got |-> None]}])
    /\ UNCHANGED <<serverVars, estate, mstate, hushed, boxVars, emailVars>>

\* SEARCH UNSEEN; an answer of false counts as no match.
QuerySearch(r, o) ==
    /\ req[r].pc = "scan" /\ o \in req[r].out /\ o.got = None
    /\ \E a \in Outcomes(r) :
        /\ CountFault(a)
        /\ LET heard == a = "ok" /\ Opened(o.ident)
               found == IF heard THEN UidsOf(Unseen(Held(o.ident))) ELSE {}
               back == [o EXCEPT !.got = [uids |-> found, heard |-> heard]]
           IN  Become(r, [out |-> (req[r].out \ {o}) \cup {back}, dead |-> Dies(a)])
    /\ UNCHANGED <<ident, mail, uidNext, idents, others, doomed, estate, mstate, hushed,
                   boxVars, emailVars>>

\* Mutant of Stamp: read once the answer is there.
StampNow(o) == estate

\* The counter the entry is stored under: read before the SEARCH went out.
Stamp(o) == o.state

\* The result is kept; a query over the account also keeps the dates it fetched.
QueryFound(r, o) ==
    /\ req[r].pc = "scan" /\ o \in req[r].out /\ o.got # None
    /\ search' = [search EXCEPT ![o.box] =
            [uids |-> o.got.uids, heard |-> o.got.heard, ident |-> o.ident, state |-> Stamp(o)]]
    /\ cached' = IF req[r].arg.meta
                 THEN UpsertAll(o.box, o.ident, Shown({x \in Held(o.ident) : x.uid \in o.got.uids}), 1)
                 ELSE cached
    /\ Become(r, [out |-> req[r].out \ {o}])
    /\ UNCHANGED <<serverVars, estate, mstate, hushed, boxVars, sent, misled>>

QueryDone(r) ==
    /\ req[r].pc = "scan" /\ req[r].todo = {} /\ req[r].out = {}
    /\ Become(r, [pc |-> IF req[r].arg.meta THEN "thread" ELSE "done"])
    /\ UNCHANGED <<serverVars, estate, mstate, hushed, boxVars, emailVars>>

\* SEARCH_CACHE_TTL_MS has passed, or 256 newer entries pushed it out.
SearchExpires(b) ==
    /\ search[b] # None
    /\ search' = [search EXCEPT ![b] = None]
    /\ UNCHANGED <<serverVars, estate, mstate, hushed, req, boxVars, cached, sent, misled>>

-----------------------------------------------------------------------------
(* Email/get: what is cached whole costs a FETCH of the flags, the rest a  *)
(* FETCH of everything.  The connection's view of the folder may end       *)
(* before its newest letters until a NOOP syncs it.                        *)

FetchFrom(r, b, uids, view, pc) ==
    Become(r, [op |-> "get", pc |-> pc, box |-> b, uids |-> uids, view |-> view,
               ident |-> ident[row[b]],
               hits |-> {u \in uids \cap RowUids(b) :
                           cached[b][u].kind = 3 /\ cached[b][u].ident = ident[row[b]]}])

emailGet(r, arg) ==
    /\ req[r].pc = "idle"
    /\ IF Reaches(arg.box)
       THEN \E view \in 1..uidNext[row[arg.box]] :
                FetchFrom(r, arg.box, arg.uids, view, "fetch")
       ELSE Become(r, [op |-> "get", pc |-> "done"])
    /\ UNCHANGED <<serverVars, estate, mstate, hushed, boxVars, emailVars>>

FetchSend(r) ==
    /\ req[r].pc \in {"fetch", "refetch"}
    /\ \E a \in Outcomes(r) :
        /\ CountFault(a)
        /\ IF a # "ok" \/ ~ Opened(req[r].ident) THEN Become(r, [pc |-> "done"])
           ELSE Become(r, [pc |-> IF req[r].pc = "fetch" THEN "fetched" ELSE "refetched",
                           got |-> Shown({x \in Held(req[r].ident) :
                                            x.uid \in req[r].uids /\ x.uid < req[r].view})])
    /\ UNCHANGED <<ident, mail, uidNext, idents, others, doomed, estate, mstate, hushed,
                   boxVars, emailVars>>

\* A cached message without flags counts as expunged: its row goes.
FetchReply(r) ==
    LET b == req[r].box
        got == req[r].got
        gone == req[r].hits \ UidsIn(got)
        missing == req[r].uids \ UidsIn(got)
    IN
    /\ req[r].pc \in {"fetched", "refetched"}
    /\ cached' = DeleteUids(UpsertAll(b, req[r].ident, {s \in got : s.uid \notin req[r].hits}, 3), b, gone)
    /\ misled' = misled \cup {<<b, u>> : u \in gone \cap UidsOf(Held(req[r].ident))}
    /\ IF req[r].pc = "fetched" /\ missing # {}
       THEN Become(r, [pc |-> "refetch", uids |-> missing, view |-> MaxUid + 1,
                       hits |-> {}])
       ELSE Become(r, [pc |-> "done"])
    /\ UNCHANGED <<serverVars, estate, mstate, hushed, boxVars, search, sent>>
=============================================================================
