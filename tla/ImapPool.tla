------------------------------- MODULE ImapPool -------------------------------
(***************************************************************************)
(* The per-account IMAP connection pool of imap/pool.ts, with the callers   *)
(* that borrow from it and the sockets it holds.  A step runs from one      *)
(* await to the next: the awaits are the NOOP, the dial (openImap), the     *)
(* parking promise and the borrower's own use of the connection.            *)
(*                                                                          *)
(* The order of a role's list is abstracted: a scan meets the entries in any *)
(* order.  Parked callers are woken in the order they parked.               *)
(*                                                                          *)
(* A caller holds at most one connection per role, and asks for a bulk one  *)
(* either on its own (blob download) or while it holds an interactive one   *)
(* (thread scan, body fetch); never the other way round.                    *)
(***************************************************************************)
EXTENDS Integers, Sequences, FiniteSets

CONSTANTS
  Caller,        \* concurrent requests
  Role,          \* the pool keys of one account
  Interactive,   \* the role adopt() feeds and nesting starts from
  Cap,           \* MAX_PER_ROLE, a function on Role
  Conn,          \* sockets
  None,
  MaxRequests,   \* bound: acquires per caller and role
  MaxProbes,     \* bound: probes adopted; logins do not go on for ever
  MaxMail,       \* bound: moves of the account's email state
  ProbesMayDie,  \* whether a probe may be dead by the time it is adopted
  LockMayFail    \* whether SELECT may fail under a blob download

ASSUME RoleAssumption == Interactive \in Role /\ Cap \in [Role -> Nat \ {0}]
ASSUME NoneAssumption == None \notin Conn
ASSUME BoundsAssumption == MaxRequests \in Nat /\ MaxProbes \in Nat /\ MaxMail \in Nat 
ASSUME EnvironmentAssumption == ProbesMayDie \in BOOLEAN /\ LockMayFail \in BOOLEAN

VARIABLES
  entries,   \* entries[r]: the pooled connections
  opening,   \* opening[r]: dials in progress
  waiters,   \* waiters[r]: parked callers, first come first
  busy,      \* entry.busy
  label,     \* entry.emailState
  view,      \* the email state the session's mailbox view really reflects
  link,      \* the socket: open, leaving (LOGOUT sent), gone (dead with
             \* no event left to come), closed
  owner,     \* the key whose handlers are attached to the connection
  pc,        \* pc[p][r]: where caller p is in acquire(r)
  conn,      \* conn[p][r]: the connection p is probing or has been lent
  todo,      \* todo[p][r]: what is left of takeFree's snapshot
  seen,      \* seen[p][r]: the email state read before the await
  asked,     \* acquires so far
  probes,    \* probes adopted so far
  mail,      \* the account's email state
  leaked     \* connections whose borrower ended without giving them back

caller  == <<pc, conn, todo, seen, asked>>
sockets == <<label, view, link, owner>>
outside == <<probes, mail, leaked>>
vars    == <<entries, opening, waiters, busy, caller, sockets, outside>>

usable(c) == link[c] \in {"open", "leaving"}
At(p, r, where) == pc[p][r] = where
Occupied(r, ents) == Cardinality(ents[r]) + opening[r]

\* drop(): forget connections, if the pool still has them.
Drop(ents, r, C) == [ents EXCEPT ![r] = @ \ C]

\* wake(), called n times: the longest parked callers run again.
Woken(pcs, r, n) ==
  LET heads == {waiters[r][k] : k \in {j \in DOMAIN waiters[r] : j <= n}}
  IN [p \in Caller |-> IF p \in heads THEN [pcs[p] EXCEPT ![r] = "woken"] ELSE pcs[p]]
StillParked(r, n) == [waiters EXCEPT ![r] = SubSeq(@, n + 1, Len(@))]

Init ==
  /\ entries = [r \in Role |-> {}]
  /\ opening = [r \in Role |-> 0]
  /\ waiters = [r \in Role |-> <<>>]
  /\ busy = [c \in Conn |-> FALSE]
  /\ label = [c \in Conn |-> 0]
  /\ view = [c \in Conn |-> 0]
  /\ link = [c \in Conn |-> "closed"]
  /\ owner = [c \in Conn |-> Interactive]
  /\ pc = [p \in Caller |-> [r \in Role |-> "out"]]
  /\ conn = [p \in Caller |-> [r \in Role |-> None]]
  /\ todo = [p \in Caller |-> [r \in Role |-> {}]]
  /\ seen = [p \in Caller |-> [r \in Role |-> 0]]
  /\ asked = [p \in Caller |-> [r \in Role |-> 0]]
  /\ probes = 0
  /\ mail = 0
  /\ leaked = {}

-------------------------------------------------------------------------------
(* takeFree, from a set of entries to look at, up to the next await *)

\* Mutant of Free: busy entries are not skipped.
FreeOrBusy(list, bsy) == list

Free(list, bsy) == {c \in list : ~bsy[c]}
Candidates(list, bsy) == {c \in Free(list, bsy) : usable(c)}

\* The unusable entries the loop forgets as it meets them.
Corpses(list, bsy) == Free(list, bsy) \ Candidates(list, bsy)

\* The first candidate c is claimed; rest is what the loop has not met yet.  c
\* is lent at once when it was used within NOOP_FRESHNESS_MS and its label is
\* current, else after a NOOP.  A leaving connection is long idle.
Claim(p, r, list, ents, bsy) ==
  \E c \in Candidates(list, bsy), rest \in SUBSET list :
    /\ Candidates(list, bsy) \ {c} \subseteq rest
    /\ c \notin rest
    /\ entries' = Drop(ents, r, Corpses(list, bsy) \ rest)
    /\ busy' = [bsy EXCEPT ![c] = TRUE]
    /\ conn' = [conn EXCEPT ![p][r] = c]
    /\ seen' = [seen EXCEPT ![p][r] = mail]
    /\ \/ /\ label[c] = mail /\ link[c] = "open"
          /\ pc' = [pc EXCEPT ![p][r] = "lent"]
          /\ todo' = [todo EXCEPT ![p][r] = {}]
       \/ /\ pc' = [pc EXCEPT ![p][r] = "noop"]
          /\ todo' = [todo EXCEPT ![p][r] = rest]
    /\ UNCHANGED <<opening, waiters>>

\* Nothing to claim and a slot left: the slot is taken before the dial.
Dial(p, r, list, ents, bsy) ==
  LET left == Drop(ents, r, Corpses(list, bsy))
  IN /\ Candidates(list, bsy) = {}
     /\ Occupied(r, left) < Cap[r]
     /\ entries' = left
     /\ busy' = bsy
     /\ opening' = [opening EXCEPT ![r] = @ + 1]
     /\ pc' = [pc EXCEPT ![p][r] = "dial"]
     /\ conn' = [conn EXCEPT ![p][r] = None]
     /\ seen' = [seen EXCEPT ![p][r] = mail]
     /\ todo' = [todo EXCEPT ![p][r] = {}]
     /\ UNCHANGED waiters

\* Nothing to claim and no slot: takeFree returns null and the caller parks.
Park(p, r, list, ents, bsy) ==
  LET left == Drop(ents, r, Corpses(list, bsy))
  IN /\ Candidates(list, bsy) = {}
     /\ Occupied(r, left) >= Cap[r]
     /\ entries' = left
     /\ busy' = bsy
     /\ waiters' = [waiters EXCEPT ![r] = Append(@, p)]
     /\ pc' = [pc EXCEPT ![p][r] = "parked"]
     /\ conn' = [conn EXCEPT ![p][r] = None]
     /\ todo' = [todo EXCEPT ![p][r] = {}]
     /\ UNCHANGED <<opening, seen>>

TakeFree(p, r, list, ents, bsy) ==
  \/ Claim(p, r, list, ents, bsy)
  \/ Dial(p, r, list, ents, bsy)
  \/ Park(p, r, list, ents, bsy)

-------------------------------------------------------------------------------
(* The caller's steps *)

\* acquire(): at top level, or bulk from inside an interactive lease.
Acquire(p, r) ==
  /\ At(p, r, "out")
  /\ \A s \in Role \ {r} : At(p, s, "out") \/ (s = Interactive /\ At(p, s, "lent"))
  /\ asked[p][r] < MaxRequests
  /\ asked' = [asked EXCEPT ![p][r] = @ + 1]
  /\ TakeFree(p, r, entries[r], entries, busy)
  /\ UNCHANGED <<sockets, outside>>

\* A woken caller runs the whole selection again.
Retry(p, r) ==
  /\ At(p, r, "woken")
  /\ TakeFree(p, r, entries[r], entries, busy)
  /\ UNCHANGED <<sockets, asked, outside>>

\* Mutant of NoopOk: the label is the state read after the NOOP.
NoopOkLabelAfter(p, r) ==
  LET c == conn[p][r]
  IN /\ At(p, r, "noop") /\ link[c] = "open"
     /\ pc' = [pc EXCEPT ![p][r] = "lent"]
     /\ todo' = [todo EXCEPT ![p][r] = {}]
     /\ label' = [label EXCEPT ![c] = mail]
     /\ \E v \in seen[p][r] .. mail : view' = [view EXCEPT ![c] = v]
     /\ UNCHANGED <<entries, opening, waiters, busy, link, owner, conn, seen, asked, outside>>

\* The NOOP is answered: the server synced the view somewhere between the
\* claim and now.  The label is the state read before the NOOP.
NoopOk(p, r) ==
  LET c == conn[p][r]
  IN /\ At(p, r, "noop")
     /\ link[c] = "open"
     /\ pc' = [pc EXCEPT ![p][r] = "lent"]
     /\ todo' = [todo EXCEPT ![p][r] = {}]
     /\ label' = [label EXCEPT ![c] = seen[p][r]]
     /\ \E v \in seen[p][r] .. mail : view' = [view EXCEPT ![c] = v]
     /\ UNCHANGED <<entries, opening, waiters, busy, link, owner, conn, seen, asked, outside>>

\* The NOOP fails: drop the connection and go on with the snapshot.
NoopFails(p, r) ==
  LET c == conn[p][r]
  IN /\ At(p, r, "noop")
     /\ TakeFree(p, r, todo[p][r], Drop(entries, r, {c}), [busy EXCEPT ![c] = FALSE])
     /\ UNCHANGED <<sockets, asked, outside>>

\* Closed sockets nothing refers to any more may stand for new ones.
Unused == {c \in Conn :
  /\ link[c] = "closed"
  /\ \A r \in Role : c \notin entries[r]
  /\ \A p \in Caller, r \in Role : conn[p][r] # c /\ c \notin todo[p][r]}

\* Which one does not matter.
NewConn == IF Unused = {} THEN {} ELSE {CHOOSE c \in Unused : TRUE}

DialOk(p, r) ==
  /\ At(p, r, "dial")
  /\ \E c \in NewConn :
       /\ entries' = [entries EXCEPT ![r] = @ \cup {c}]
       /\ busy' = [busy EXCEPT ![c] = TRUE]
       /\ label' = [label EXCEPT ![c] = seen[p][r]]
       /\ \E v \in seen[p][r] .. mail : view' = [view EXCEPT ![c] = v]
       /\ link' = [link EXCEPT ![c] = "open"]
       /\ owner' = [owner EXCEPT ![c] = r]
       /\ conn' = [conn EXCEPT ![p][r] = c]
       /\ leaked' = leaked \ {c}
  /\ opening' = [opening EXCEPT ![r] = @ - 1]
  /\ pc' = [pc EXCEPT ![p][r] = "lent"]
  /\ UNCHANGED <<waiters, todo, seen, asked, probes, mail>>

\* Mutant of DialFails: nobody is woken for the slot.
DialFailsSilent(p, r) ==
  /\ At(p, r, "dial")
  /\ opening' = [opening EXCEPT ![r] = @ - 1]
  /\ pc' = [pc EXCEPT ![p][r] = "out"]
  /\ UNCHANGED <<waiters, entries, busy, sockets, conn, todo, seen, asked, outside>>

\* The dial fails: acquire throws, and the slot may serve a parked caller.
DialFails(p, r) ==
  /\ At(p, r, "dial")
  /\ opening' = [opening EXCEPT ![r] = @ - 1]
  /\ pc' = Woken([pc EXCEPT ![p][r] = "out"], r, 1)
  /\ waiters' = StillParked(r, 1)
  /\ UNCHANGED <<entries, busy, sockets, conn, todo, seen, asked, outside>>

\* lease.release(), once; a dead connection leaves the pool.
Release(p, r) ==
  LET c == conn[p][r]
  IN /\ At(p, r, "lent")
     /\ r = Interactive => \A s \in Role \ {r} : At(p, s, "out")
     /\ busy' = [busy EXCEPT ![c] = FALSE]
     /\ entries' = IF usable(c) THEN entries ELSE Drop(entries, r, {c})
     /\ pc' = Woken([pc EXCEPT ![p][r] = "out"], r, 1)
     /\ waiters' = StillParked(r, 1)
     /\ conn' = [conn EXCEPT ![p][r] = None]
     /\ UNCHANGED <<opening, sockets, todo, seen, asked, outside>>

\* A download whose body stream breaks: release() and client.close() in one
\* callback, and close() runs the pool's handler.
ReleaseBroken(p, r) ==
  LET c == conn[p][r]
  IN /\ At(p, r, "lent") /\ r # Interactive /\ link[c] = "open"
     /\ busy' = [busy EXCEPT ![c] = FALSE]
     /\ link' = [link EXCEPT ![c] = "closed"]
     /\ entries' = Drop(entries, r, {c})
     /\ pc' = Woken([pc EXCEPT ![p][r] = "out"], r, 2)
     /\ waiters' = StillParked(r, 2)
     /\ conn' = [conn EXCEPT ![p][r] = None]
     /\ UNCHANGED <<opening, label, view, owner, todo, seen, asked, outside>>

\* server.ts 289: getMailboxLock is awaited before the try that gives the
\* lease back, so when it rejects the handler ends with the lease out.
DownloadLockFails(p, r) ==
  /\ LockMayFail
  /\ At(p, r, "lent") /\ r # Interactive /\ At(p, Interactive, "out")
  /\ pc' = [pc EXCEPT ![p][r] = "out"]
  /\ conn' = [conn EXCEPT ![p][r] = None]
  /\ leaked' = leaked \cup {conn[p][r]}
  /\ UNCHANGED <<entries, opening, waiters, busy, sockets, todo, seen, asked, probes, mail>>

-------------------------------------------------------------------------------
(* Probes, the reaper and the sockets *)

\* Mutant of Adopt: dials in progress are not counted.
AdoptBesideDials ==
  LET r == Interactive
  IN /\ probes < MaxProbes
     /\ probes' = probes + 1
     /\ Cardinality(entries[r]) < Cap[r]
     /\ \E c \in NewConn :
          /\ entries' = [entries EXCEPT ![r] = @ \cup {c}]
          /\ link' = [link EXCEPT ![c] = "open"]
          /\ owner' = [owner EXCEPT ![c] = r]
          /\ leaked' = leaked \ {c}
     /\ pc' = Woken(pc, r, 1)
     /\ waiters' = StillParked(r, 1)
     /\ UNCHANGED <<busy, label, view, opening, conn, todo, seen, asked, mail>>

\* adopt(): a login or Basic-auth probe joins the interactive pool, or is
\* logged out at the cap.  It may have died while the vault was being sealed,
\* before the pool listened to it.
Adopt ==
  LET r == Interactive
  IN /\ probes < MaxProbes
     /\ probes' = probes + 1
     /\ Occupied(r, entries) < Cap[r]
     /\ \E c \in NewConn, health \in {"open", "gone"} :
          /\ health = "gone" => ProbesMayDie
          /\ entries' = [entries EXCEPT ![r] = @ \cup {c}]
          /\ busy' = [busy EXCEPT ![c] = FALSE]
          /\ label' = [label EXCEPT ![c] = mail]
          /\ view' = [view EXCEPT ![c] = mail]
          /\ link' = [link EXCEPT ![c] = health]
          /\ owner' = [owner EXCEPT ![c] = r]
          /\ leaked' = leaked \ {c}
     /\ pc' = Woken(pc, r, 1)
     /\ waiters' = StillParked(r, 1)
     /\ UNCHANGED <<opening, conn, todo, seen, asked, mail>>

\* reapIdle(): every free connection idle for IDLE_MAX_MS leaves the pool,
\* then a LOGOUT is sent.  Which ones are that old is time's choice.
ReapIdle(r) ==
  \E old \in SUBSET {c \in entries[r] : ~busy[c]} :
    /\ old # {}
    /\ entries' = Drop(entries, r, old)
    /\ link' = [c \in Conn |-> IF c \in old /\ link[c] = "open" THEN "leaving" ELSE link[c]]
    /\ UNCHANGED <<opening, waiters, busy, label, view, owner, caller, outside>>

\* The "close" handler: drop and wake.
Close(c) ==
  LET r == owner[c]
  IN /\ link[c] \in {"open", "leaving"}
     /\ link' = [link EXCEPT ![c] = "closed"]
     /\ entries' = Drop(entries, r, {c})
     /\ pc' = Woken(pc, r, 1)
     /\ waiters' = StillParked(r, 1)
     /\ UNCHANGED <<opening, busy, label, view, owner, conn, todo, seen, asked, outside>>

\* The "error" handler: drop and wake; the socket closes later.
Error(c) ==
  LET r == owner[c]
  IN /\ link[c] = "open" /\ c \in entries[r]
     /\ entries' = Drop(entries, r, {c})
     /\ pc' = Woken(pc, r, 1)
     /\ waiters' = StillParked(r, 1)
     /\ UNCHANGED <<opening, busy, sockets, conn, todo, seen, asked, outside>>

\* The account's email state moves (IDLE worker, Email/set).
MailMoves ==
  /\ mail < MaxMail
  /\ mail' = mail + 1
  /\ UNCHANGED <<probes, leaked, entries, opening, waiters, busy, caller, sockets>>

Next ==
  \/ \E p \in Caller, r \in Role :
       \/ Acquire(p, r) \/ Retry(p, r)
       \/ NoopOk(p, r) \/ NoopFails(p, r)
       \/ DialOk(p, r) \/ DialFails(p, r)
       \/ Release(p, r) \/ ReleaseBroken(p, r) \/ DownloadLockFails(p, r)
  \/ \E r \in Role : ReapIdle(r)
  \/ \E c \in Conn : Close(c) \/ Error(c)
  \/ Adopt
  \/ MailMoves

Spec == Init /\ [][Next]_vars

\* A caller awaits one thing at a time.
Proceeds(p, r) ==
  \/ Retry(p, r)
  \/ NoopOk(p, r) \/ NoopFails(p, r)
  \/ DialOk(p, r) \/ DialFails(p, r)
  \/ Release(p, r)

\* What the code's scheduling makes fair: promises settle, borrowers give
\* back, woken callers run, the reaper's timer fires and a LOGOUT ends in a
\* close.  Nothing makes a request arrive, a socket die or a probe come.
Fairness ==
  /\ \A p \in Caller : WF_vars(\E r \in Role : Proceeds(p, r))
  /\ \A r \in Role : WF_vars(ReapIdle(r))
  /\ \A c \in Conn : WF_vars(link[c] = "leaving" /\ Close(c))

FairSpec == Spec /\ Fairness

-------------------------------------------------------------------------------
(* Properties *)

Stage == {"out", "noop", "dial", "parked", "woken", "lent"}

TypeOK ==
  /\ entries \in [Role -> SUBSET Conn]
  /\ opening \in [Role -> Nat]
  /\ waiters \in [Role -> Seq(Caller)]
  /\ busy \in [Conn -> BOOLEAN]
  /\ label \in [Conn -> 0 .. MaxMail] /\ view \in [Conn -> 0 .. MaxMail]
  /\ link \in [Conn -> {"open", "leaving", "gone", "closed"}]
  /\ owner \in [Conn -> Role]
  /\ pc \in [Caller -> [Role -> Stage]]
  /\ conn \in [Caller -> [Role -> Conn \cup {None}]]
  /\ todo \in [Caller -> [Role -> SUBSET Conn]]
  /\ seen \in [Caller -> [Role -> 0 .. MaxMail]]
  /\ asked \in [Caller -> [Role -> 0 .. MaxRequests]]
  /\ probes \in 0 .. MaxProbes /\ mail \in 0 .. MaxMail
  /\ leaked \subseteq Conn

\* pool.ts 52-55: connections and dials of a role never exceed MAX_PER_ROLE,
\* however acquires, failed dials, adoptions and dying sockets overlap.
CapHolds ==
  \A r \in Role :
    Cardinality(entries[r]) + Cardinality({p \in Caller : At(p, r, "dial")}) <= Cap[r]

\* The fields have their types, and no role opens more sockets than its cap.
PoolOK == TypeOK /\ CapHolds

\* A connection is never lent to two callers at once, nor probed by one while
\* another holds it.
LentOnce ==
  \A p, q \in Caller, r, s \in Role :
    conn[p][r] # None /\ conn[p][r] = conn[q][s] => p = q /\ r = s

\* A busy connection of the pool is in some caller's hands, but for the one of
\* a download that could not lock its folder.
NoLeakedLease ==
  \A r \in Role : \A c \in entries[r] :
    busy[c] => c \in leaked \/ \E p \in Caller : conn[p][r] = c

\* pool.spec.ts 1-4: a connection has one holder at most, and a busy one has one:
\* every exit path gives back what it took, and nothing of another's.
OneHolder == LentOnce /\ NoLeakedLease

\* pool.ts 19-23, 235-236: a connection lent has synced its view at least up to
\* the email state its borrower's acquire observed, whether it was dialed,
\* NOOPed, adopted or trusted on its label; and it is not on its way out, not
\* even when it comes from a snapshot taken before the reaper ran.
LentIsFit ==
  \A p \in Caller, r \in Role : At(p, r, "lent") =>
    /\ view[conn[p][r]] >= seen[p][r]
    /\ link[conn[p][r]] # "leaving"

\* Every acquire ends: with a connection, or with the dial's error.  Nobody is
\* left parked by a wake that went to someone else or came too early, and no
\* two requests nested from interactive to bulk wait for each other; unless a
\* lease was lost, or a probe adopted dead, which may take the last slot.
Lost == leaked # {} \/ \E c \in Conn : link[c] = "gone"

Waits(p) == \E r \in Role : pc[p][r] \in {"noop", "dial", "parked", "woken"}

\* Who waits for a connection stops waiting (see Lost for the exceptions).
AcquireEnds == \A p \in Caller : Waits(p) ~> ~Waits(p) \/ Lost
===============================================================================
