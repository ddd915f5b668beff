-------------------------------- MODULE Dav --------------------------------
(***************************************************************************)
(* Contacts and calendars of one account: AddressBook/set, Calendar/set,   *)
(* ContactCard and CalendarEvent get, query and set, over the CardDAV and  *)
(* CalDAV clients and their three caches.  The two halves of the source    *)
(* are one design with a few differences, so they are one module: `flavor` *)
(* says which half a behaviour is about, and whose events they are.        *)
(*                                                                         *)
(* A PROPFIND or REPORT is answered in one step and its answer is stored   *)
(* in another.  A write drops caches when it is issued, and takes effect,  *)
(* is refused, or takes effect and loses its answer, in a later step.      *)
(***************************************************************************)
EXTENDS Naturals, FiniteSets, SequencesExt

CONSTANTS
    Col,        \* collections: address books or calendars
    Default,    \* the one ensureDefaultBook and ensureDefaultCalendar make
    Href,       \* names of cards and events; random UUIDs, never used twice
    Guest,      \* what a second property of a resource holds: e-mails; attendees; the
                \* attendees who have accepted
    MaxClock,   \* bound on the writes the server takes
    Budget,     \* flavor -> bound on calls, failures and writes of other clients, together
    Request,    \* the JMAP calls of a run, each used once
    None

ASSUME DavAssumption ==
    /\ Default \in Col /\ None \notin Col /\ "all" \notin Col
    /\ MaxClock \in Nat \ {0} /\ Budget \in [{"card", "cal", "guest"} -> Nat]
    /\ IsFiniteSet(Request)

VARIABLES
    flavor,    \* "card"; "cal", events we organize; "guest", events we are invited to
    ctag,      \* collection -> the clock of its last change, 0 when there is none
    files,     \* the resources on the server
    clock,     \* writes the server has taken: ctags and etags come from it
    listCache, \* bookListCache, calendarListCache: an old ctag, or None
    dirCache,  \* resourceListCache: collection -> hrefs and etags, or None
    bodies,    \* vcardCache, icsCache: bodies by href and etag
    req,       \* the JMAP calls: a record of locals each
    faults,    \* writes and mails that have failed
    others,    \* writes of other clients
    versions,  \* history: every version of every resource, deletions among them
    told,      \* the iMIP mail the guests have had
    inPlace,   \* history: the guests a patch into the participants was about
    overlapped,\* history: two calls have been in flight at once
    unasked,   \* history: some collection was destroyed with what it held, unasked
    behind     \* history: some get answered a body older than the state beside it

server == <<ctag, files, clock, versions>>
caches == <<listCache, dirCache, bodies>>
history == <<told, inPlace, overlapped, unasked, behind>>
vars == <<flavor, server, caches, req, faults, others, history>>

\* `text` stands for the properties an edit patches, stamped with the clock.
Resource == [href : Href, col : Col, tag : 1..MaxClock, text : 0..MaxClock,
             guests : SUBSET Guest, seq : 0..MaxClock]

ASSUME NoneAssumption == None \notin Resource

cols == {c \in Col : ctag[c] # 0}
Listing == [c \in cols |-> ctag[c]]
In(c) == {f \in files : f.col = c}
Dir(c) == {<<f.href, f.tag>> : f \in In(c)}
Named(h) == {f \in files : f.href = h}
used == {v.href : v \in versions}
now == clock + 1

Idle == [op |-> [kind |-> "idle"], pc |-> "idle"]
Done == [op |-> [kind |-> "done"], pc |-> "done"]
\* The new locals of a call, the others as they were.
Over(old, new) ==
    [x \in DOMAIN old \cup DOMAIN new |-> IF x \in DOMAIN new THEN new[x] ELSE old[x]]
Become(r, locals) ==
    req' = [req EXCEPT ![r] = LET new == Over(@, locals) IN IF new.pc = "done" THEN Done ELSE new]
InFlight(r) == req[r].pc \notin {"idle", "done"}
Calm == Cardinality({r \in Request : req[r].pc # "idle"}) + faults + others < Budget[flavor]

CountFault(a) == faults' = IF a \in {"no", "lost"} THEN faults + 1 ELSE faults
Outcomes == {"ok"} \cup (IF Calm THEN {"no", "lost"} ELSE {})

\* A call that is not waiting for a server runs on before anything else does.
Running == {r \in Request : req[r].pc \in {"list", "dir", "fetch", "write"}}

-----------------------------------------------------------------------------
(* The server's side of a write.                                           *)

Lives(f) == ctag' = [ctag EXCEPT ![f.col] = now]
Record(vs) == versions' = versions \cup vs
Dead(f, how) == [f EXCEPT !.col = how, !.tag = now]

Put(f) ==
    /\ now <= MaxClock /\ clock' = now
    /\ files' = (files \ Named(f.href)) \cup {f}
    /\ Lives(f) /\ Record({f})

Delete(f) ==
    /\ now <= MaxClock /\ clock' = now
    /\ files' = files \ {f}
    /\ Lives(f) /\ Record({Dead(f, None)})

MakeCol(c) ==
    /\ now <= MaxClock /\ clock' = now
    /\ ctag' = [ctag EXCEPT ![c] = now]
    /\ UNCHANGED <<files, versions>>

DeleteCol(c) ==
    /\ now <= MaxClock /\ clock' = now
    /\ ctag' = [ctag EXCEPT ![c] = 0]
    /\ files' = files \ In(c) /\ Record({Dead(f, "all") : f \in In(c)})

-----------------------------------------------------------------------------
(* The caches.                                                             *)

\* raw of the CardDAV client: a write forgets the list of books, and that only.
ForgetList == listCache' = None /\ UNCHANGED dirCache

\* raw of the CalDAV client: a write forgets every listing of the account.
ForgetListings == listCache' = None /\ dirCache' = [c \in Col |-> None]

InvalidateOnWrite == IF flavor = "card" THEN ForgetList ELSE ForgetListings

\* freshEntry: an entry that has lived its 15 s is found so by the call that reads it.
ExpireDir(c) == dirCache' = [dirCache EXCEPT ![c] = None]

\* knownEtag, then the body kept under that etag.
CachedBodies(op) ==
    IF dirCache[op.col] = None THEN {}
    ELSE {f \in bodies : f.href = op.href /\ <<f.href, f.tag>> \in dirCache[op.col]}

-----------------------------------------------------------------------------
(* iMIP: what CalendarEvent/set owes the guests for a write that succeeded. *)

Message(method, h, to, seq) == [method |-> method, href |-> h, to |-> to, seq |-> seq]

Invite(after) ==
    IF after.guests = {} THEN <<>>
    ELSE <<Message("REQUEST", after.href, after.guests, after.seq)>>
Cancel(before, to) ==
    IF to = {} THEN <<>> ELSE <<Message("CANCEL", before.href, to, before.seq + 1)>>

planWithoutDropped(before, after) ==
    IF after # None THEN Invite(after)
    ELSE IF before = None THEN <<>> ELSE Cancel(before, before.guests)

planCancelsAll(before, after) ==
    (IF after = None THEN <<>> ELSE Invite(after))
    \o (IF before = None THEN <<>> ELSE Cancel(before, before.guests))

planScheduling(before, after) ==
    IF after # None
    THEN Invite(after)
         \o (IF before = None THEN <<>> ELSE Cancel(before, before.guests \ after.guests))
    ELSE IF before = None THEN <<>> ELSE Cancel(before, before.guests)

\* We are the attendee: our answer goes to the organizer when it is new.
reply(before, after) ==
    LET new == IF after = None THEN {}
               ELSE after.guests \ (IF before = None THEN {} ELSE before.guests)
    IN  IF new = {} THEN <<>> ELSE <<Message("REPLY", after.href, new, after.seq)>>

\* A proxy that schedules does so for calendars only.
schedule(before, after) ==
    CASE flavor = "cal" -> planScheduling(before, after)
      [] flavor = "guest" -> reply(before, after)
      [] OTHER -> <<>>

-----------------------------------------------------------------------------
(* The JMAP calls, one entry each.                                         *)

Placed == {<<v.href, v.col>> : v \in {w \in versions : w.col \in Col}}

Calls ==
    [kind : {"query", "mkcol"}, col : Col]
    \cup [kind : {"rmcol"}, col : Col, contents : BOOLEAN]
    \cup [kind : {"create"}, col : Col \cup {None}, guests : SUBSET Guest]
    \cup {[kind |-> k, href |-> p[1], col |-> p[2]] : k \in {"get", "edit", "remove"}, p \in Placed}
    \cup {[kind |-> "invite", href |-> p[1], col |-> p[2], guests |-> g, whole |-> w] :
             p \in Placed, g \in SUBSET Guest, w \in IF flavor = "card" THEN {TRUE} ELSE BOOLEAN}

Call(r, op) ==
    /\ req[r].pc = "idle" /\ Calm
    /\ Become(r, [op |-> op, pc |-> "list", phase |-> "first", got |-> None, books |-> None,
                  dir |-> None, found |-> None, base |-> None, plan |-> <<>>])
    /\ overlapped' = (overlapped \/ \E x \in Request : InFlight(x))
    /\ UNCHANGED <<flavor, server, caches, faults, others, told, inPlace, unasked, behind>>

Quit(r) == Become(r, [pc |-> "done"])

\* defaultBook, defaultCalendar: the collection of the default name, else the first.
DefaultOf(books) ==
    IF Default \in books THEN Default ELSE CHOOSE c \in books : TRUE

\* collectionSlug: the name, unless the list has it; else a name like no other, and what
\* becomes of a collection not in Col is not followed.
Slug(c, books) == IF c \in books THEN <<"done", c>> ELSE <<"write", c>>

\* ContactCard and CalendarEvent: where a call goes once it has the list of
\* collections, and the collection it is about.
CardEntry(op, here) ==
    IF op.col = None THEN IF here = {} THEN <<"make", Default>> ELSE <<"write", DefaultOf(here)>>
    ELSE IF op.col \notin here THEN <<"done", op.col>>
    ELSE <<CASE op.kind = "query" -> "dir"
             [] op.kind = "create" -> "write"
             [] op.kind = "remove" /\ flavor = "card" -> "write"
             [] OTHER -> "fetch", op.col>>

\* AddressBook and Calendar: the same for a create, and for a destroy told what to do
\* with the contents.
CollectionEntry(op, here) ==
    IF op.kind = "mkcol" THEN Slug(op.col, here)
    ELSE <<CASE op.col \notin here -> "done"
             [] op.contents -> "write"
             [] OTHER -> "dir", op.col>>

Entry(op, here) ==
    IF op.kind \in {"mkcol", "rmcol"} THEN CollectionEntry(op, here) ELSE CardEntry(op, here)

AfterList(r, books) ==
    \/ /\ req[r].phase = "last"
       /\ Become(r, [pc |-> "mail", got |-> None])
    \/ /\ req[r].phase = "make"
       /\ IF DOMAIN books = {} THEN Quit(r)
          ELSE Become(r, [pc |-> "write", phase |-> "first", got |-> None,
                          op |-> [req[r].op EXCEPT !.col = DefaultOf(DOMAIN books)]])
    \/ /\ req[r].phase = "first"
       /\ LET e == Entry(req[r].op, DOMAIN books)
          IN  Become(r, [pc |-> IF e[1] = "make" THEN "write" ELSE e[1],
                         phase |-> IF e[1] = "make" THEN "make" ELSE "first",
                         got |-> None,
                         books |-> IF req[r].op.kind = "get" THEN books ELSE None,
                         op |-> [req[r].op EXCEPT !.col = e[2]]])

\* listAddressBooks, listCalendars: out of the cache, or with a PROPFIND.
ListHit(r) ==
    /\ req[r].pc = "list" /\ listCache # None
    /\ AfterList(r, listCache)
    /\ UNCHANGED <<flavor, server, caches, faults, others, history>>

ListMiss(r) ==
    /\ req[r].pc = "list"
    /\ listCache' = None
    /\ Become(r, [pc |-> "listing", got |-> Listing])
    /\ UNCHANGED <<flavor, server, dirCache, bodies, faults, others, history>>

Listed(r) ==
    /\ req[r].pc = "listing"
    /\ listCache' = req[r].got
    /\ AfterList(r, req[r].got)
    /\ UNCHANGED <<flavor, server, dirCache, bodies, faults, others, history>>

AfterDir(r, dir) ==
    Become(r, [pc |-> IF req[r].op.kind = "query" \/ dir # {} THEN "done" ELSE "write",
               dir |-> None])

\* listResources; a collection that is gone answers 404, and the call fails.
DirHit(r) ==
    /\ req[r].pc = "dir" /\ dirCache[req[r].op.col] # None
    /\ AfterDir(r, dirCache[req[r].op.col])
    /\ UNCHANGED <<flavor, server, caches, faults, others, history>>

DirMiss(r) ==
    /\ req[r].pc = "dir"
    /\ LET c == req[r].op.col
       IN  /\ ExpireDir(c)
           /\ IF c \in cols THEN Become(r, [pc |-> "dirred", dir |-> Dir(c)]) ELSE Quit(r)
    /\ UNCHANGED <<flavor, server, listCache, bodies, faults, others, history>>

Dirred(r) ==
    /\ req[r].pc = "dirred"
    /\ dirCache' = [dirCache EXCEPT ![req[r].op.col] = req[r].dir]
    /\ AfterDir(r, req[r].dir)
    /\ UNCHANGED <<flavor, server, listCache, bodies, faults, others, history>>

\* What was the last version of h, as the state beside an answer would have it?
KnownAt(h, at) == {v \in versions : v.href = h /\ v.tag <= at}
Outdates(v, body) == IF body = None THEN v.col \in Col ELSE v.tag > body.tag
Outdated(op, books, body) ==
    LET known == KnownAt(op.href, books[op.col])
    IN  \E v \in known : (\A w \in known : w.tag <= v.tag) /\ Outdates(v, body)

\* An update is not made of nothing; a destroy is.
AfterFetch(r, body) ==
    LET op == req[r].op
    IN  /\ IF op.kind = "get" \/ (op.kind # "remove" /\ body = None) THEN Quit(r)
           ELSE Become(r, [pc |-> "write", base |-> body, found |-> None])
        /\ behind' = (behind \/ (op.kind = "get" /\ Outdated(op, req[r].books, body)))
        /\ UNCHANGED <<flavor, server, listCache, dirCache, faults, others, told, inPlace, overlapped, unasked>>

\* multiGet: the body we hold under the etag we believe in, or a REPORT.
FetchHit(r) ==
    /\ req[r].pc = "fetch"
    /\ \E f \in CachedBodies(req[r].op) : AfterFetch(r, f)
    /\ UNCHANGED bodies

FetchMiss(r) ==
    /\ req[r].pc = "fetch"
    /\ \/ CachedBodies(req[r].op) = {} /\ UNCHANGED dirCache
       \/ ExpireDir(req[r].op.col)
    /\ LET here == {f \in Named(req[r].op.href) : f.col = req[r].op.col}
       IN  IF req[r].op.col \in cols
           THEN Become(r, [pc |-> "fetching", found |-> here])
           ELSE Quit(r)
    /\ UNCHANGED <<flavor, server, listCache, bodies, faults, others, history>>

\* rememberVCard, rememberIcs: under the etag that came with the body.
remember(found, c) == bodies \cup found

Fetched(r) ==
    /\ req[r].pc = "fetching"
    /\ bodies' = remember(req[r].found, req[r].op.col)
    /\ IF req[r].found = {} THEN AfterFetch(r, None)
       ELSE \E f \in req[r].found : AfterFetch(r, f)

-----------------------------------------------------------------------------
(* Writing.                                                                *)

doing(r) == IF req[r].phase = "make" THEN "make" ELSE req[r].op.kind

\* raw: what is cached is dropped before the write is issued.
Issue(r) ==
    /\ req[r].pc = "write"
    /\ InvalidateOnWrite
    /\ Become(r, [pc |-> "sent"])
    /\ UNCHANGED <<flavor, server, bodies, faults, others, history>>

\* serializeVCard and serializeEvent: the patched property, and the rest as it was read.
Patched(op, base) ==
    [base EXCEPT !.tag = now, !.seq = @ + 1,
                 !.text = IF op.kind = "edit" THEN now ELSE @,
                 !.guests = IF op.kind = "invite" THEN op.guests ELSE @]

PutAnyway(op, base) ==
    IF op.kind = "create" THEN op.col \in cols ELSE Named(op.href) # {}

\* putResource: If-None-Match for a create, If-Match for an update.
MayPut(op, base) ==
    IF op.kind = "create" THEN op.col \in cols ELSE base \in files

\* The write reaches the server, which takes it or refuses.
Accept(r, new) ==
    LET op == req[r].op
    IN  \/ doing(r) \in {"create", "edit", "invite"} /\ MayPut(op, req[r].base) /\ Put(new)
        \/ /\ doing(r) = "remove" /\ Named(op.href) # {}
           /\ \E f \in Named(op.href) : Delete(f)
        \/ doing(r) \in {"make", "mkcol"} /\ op.col \notin cols /\ MakeCol(op.col)
        \/ doing(r) = "rmcol" /\ op.col \in cols /\ DeleteCol(op.col)

\* Not changed by the server, and no failure: what is to be destroyed is gone, or
\* the default collection is there already.
Moot(r) ==
    \/ doing(r) = "remove" /\ Named(req[r].op.href) = {}
    \/ doing(r) = "rmcol" /\ req[r].op.col \notin cols
    \/ doing(r) = "make" /\ req[r].op.col \in cols

Refused(r) ==
    \/ doing(r) \in {"create", "edit", "invite"} /\ ~ MayPut(req[r].op, req[r].base)
    \/ doing(r) = "mkcol" /\ req[r].op.col \in cols

\* The default book made, the list is read again for the create; otherwise for newState.
Succeed(r, plan) ==
    Become(r, [pc |-> "list", phase |-> IF doing(r) = "make" THEN "make" ELSE "last", plan |-> plan,
               base |-> None])

NewOf(r, h) ==
    LET op == req[r].op
    IN  IF op.kind = "create"
        THEN [href |-> h, col |-> op.col, tag |-> now, text |-> now, guests |-> op.guests, seq |-> 0]
        ELSE IF req[r].base = None THEN None ELSE Patched(op, req[r].base)

After(r, new) == IF doing(r) \in {"create", "edit", "invite"} THEN new ELSE None
\* The draft is a shallow copy: a patch into the participants changes those of the event
\* it was read as, and there is nothing left to tell the two apart by.
Before(r, new) ==
    IF doing(r) = "invite" /\ ~ req[r].op.whole
    THEN [req[r].base EXCEPT !.guests = new.guests] ELSE req[r].base

PatchedInPlace(r) ==
    IF doing(r) = "invite" /\ ~ req[r].op.whole THEN {req[r].op.href} \X Guest ELSE {}

PlanOf(r, new) ==
    IF doing(r) \in {"create", "edit", "invite", "remove"}
    THEN schedule(Before(r, new), After(r, new)) ELSE <<>>

Take(r) ==
    /\ req[r].pc = "sent"
    /\ \E a \in Outcomes \ {"no"} :
       \E h \in IF doing(r) = "create" THEN Href \ used ELSE {None} :
          /\ Accept(r, NewOf(r, h))
          /\ CountFault(a)
          /\ IF a = "lost" THEN Quit(r) ELSE Succeed(r, PlanOf(r, NewOf(r, h)))
    /\ unasked' = (unasked \/ /\ doing(r) = "rmcol" /\ ~ req[r].op.contents
                              /\ In(req[r].op.col) # {})
    /\ inPlace' = inPlace \cup PatchedInPlace(r)
    /\ UNCHANGED <<flavor, caches, others, told, overlapped, behind>>

Refuse(r) ==
    /\ req[r].pc = "sent"
    /\ \/ Moot(r) /\ Succeed(r, PlanOf(r, None)) /\ UNCHANGED faults
       \/ Refused(r) /\ Quit(r) /\ UNCHANGED faults
       \/ Calm /\ Quit(r) /\ CountFault("no")
    /\ UNCHANGED <<flavor, server, caches, others, history>>

\* sendScheduling: one mail after the other; one that fails is left at that.
Mail(r) ==
    /\ req[r].pc = "mail"
    /\ IF req[r].plan = <<>> THEN Quit(r) /\ UNCHANGED <<faults, told>>
       ELSE /\ Become(r, [plan |-> Tail(req[r].plan)])
            /\ \E a \in Outcomes \ {"lost"} :
                  /\ CountFault(a)
                  /\ told' = IF a = "ok" THEN told \cup {Head(req[r].plan)} ELSE told
    /\ UNCHANGED <<flavor, server, caches, others, inPlace, overlapped, unasked, behind>>

-----------------------------------------------------------------------------
(* Other clients of the server.                                            *)

OtherWrites ==
    /\ Calm /\ Running = {} /\ others' = others + 1
    /\ \/ \E f \in files : Put([f EXCEPT !.tag = now, !.text = now]) \/ Delete(f)
       \/ \E c \in cols, h \in Href \ used :
             Put([href |-> h, col |-> c, tag |-> now, text |-> now, guests |-> {}, seq |-> 0])
       \/ \E c \in Col \ cols : MakeCol(c)
       \/ \E c \in cols : DeleteCol(c)
    /\ UNCHANGED <<flavor, caches, req, faults, history>>

-----------------------------------------------------------------------------

\* A new account without collections, or the default one, with a resource in it or none.
Init ==
    /\ flavor \in {"card", "cal", "guest"}
    /\ clock \in {0, 1}
    /\ ctag = [c \in Col |-> IF c = Default THEN clock ELSE 0]
    /\ \E h \in Href, g \in SUBSET Guest :
          LET f == [href |-> h, col |-> Default, tag |-> 1, text |-> 1, guests |-> g, seq |-> 0]
          IN  files \in IF clock = 1 THEN {{}, {f}} ELSE {{}}
    /\ told = {Message(IF flavor = "guest" THEN "REPLY" ELSE "REQUEST", f.href, f.guests, 0) : f \in files}
    /\ inPlace = {}
    /\ versions = files
    /\ listCache = None /\ dirCache = [c \in Col |-> None] /\ bodies = {}
    /\ req = [r \in Request |-> Idle]
    /\ faults = 0 /\ others = 0
    /\ overlapped = FALSE /\ unasked = FALSE /\ behind = FALSE

Step(r) ==
    /\ Running \subseteq {r}
    /\ \/ \E op \in Calls : Call(r, op)
       \/ ListHit(r) \/ ListMiss(r) \/ Listed(r)
       \/ DirHit(r) \/ DirMiss(r) \/ Dirred(r)
       \/ FetchHit(r) \/ FetchMiss(r) \/ Fetched(r)
       \/ Issue(r) \/ Take(r) \/ Refuse(r) \/ Mail(r)

Next == (\E r \in Request : Step(r)) \/ OtherWrites

Spec == Init /\ [][Next]_vars

-----------------------------------------------------------------------------
(* Properties.                                                             *)

\* Type invariant; every name is of one resource, and no body is cached that never was.
TypeOK ==
    /\ flavor \in {"card", "cal", "guest"}
    /\ clock \in 0..MaxClock
    /\ ctag \in [Col -> 0..MaxClock]
    /\ files \subseteq Resource /\ bodies \subseteq versions
    /\ \A f \in files : f.col \in cols /\ Named(f.href) = {f}
    /\ faults + others <= Budget[flavor]

\* One account, one client, one call at a time, and nothing failing.
Alone == ~ overlapped /\ others = 0

\* Two updates of a card or an event never undo one another: a write changes one
\* property of what is on the server and leaves the others as they are there, however
\* old the listing and the body it was computed from (If-Match, contacts.ts:541).
NoLostEdit ==
    [][\A f \in files : \A new \in files' :
          new.href = f.href => new.text = f.text \/ new.guests = f.guests]_vars

\* One client, one call at a time, and writes that may fail: no cache hides an event this
\* proxy stored from Calendar/set, which refuses to destroy a calendar with events unless
\* told to (calendar.ts:336-342); and CalendarEvent/get never answers a body older than
\* the state it comes with, which the client would keep for good.
CalendarsOK == TypeOK /\ (flavor # "card" /\ Alone => ~ unasked /\ ~ behind)

Mails(h, g) == {m \in told : m.href = h /\ g \in m.to}
Expects(h, g) ==
    \E m \in Mails(h, g) : m.method = "REQUEST" /\ \A x \in Mails(h, g) : x.seq <= m.seq

Quiet == Alone /\ faults = 0 /\ \A r \in Request : ~ InFlight(r)

\* Of an event that did not go with its calendar, the newest mail a guest has had, by
\* sequence number, invites them if they are in the event on the server, and cancels if
\* they are not; but for those taken out by a patch into the participants.
GuestsAreTold ==
    \A h \in {x \in used : \A v \in versions : v.href = x => v.col # "all"}, g \in Guest :
        LET invited == \E f \in Named(h) : g \in f.guests
        IN  (invited => Expects(h, g)) /\ (Expects(h, g) => invited \/ <<h, g>> \in inPlace)

\* An answer that is in the event on the server has been mailed to the organizer, but for
\* one given by a patch into the participants.
AnswersAreSent ==
    \A f \in files : \A g \in f.guests :
        <<f.href, g>> \in inPlace \/ \E m \in Mails(f.href, g) : m.method = "REPLY"

\* imip.ts:8-15: when all calls are over, people have been told what the server holds.
PeopleAreTold ==
    Quiet => (flavor = "cal" => GuestsAreTold) /\ (flavor = "guest" => AnswersAreSent)

\* imip.ts:15, without the exception: attendee changes own status, REPLY to the organizer.
EveryAnswerIsSent ==
    flavor = "guest" /\ Quiet =>
        \A f \in files : \A g \in f.guests : \E m \in Mails(f.href, g) : m.method = "REPLY"

\* Whatever overlaps or fails, nobody is invited by a write that was not done, nor
\* cancelled while every version of the event has had them.
MailOnlyForWrites ==
    \A m \in told, g \in Guest : g \in m.to =>
        IF m.method \in {"REQUEST", "REPLY"}
        THEN \E v \in versions : v.href = m.href /\ v.seq = m.seq /\ g \in v.guests
        ELSE \E v \in versions : v.href = m.href /\ (v.col \notin Col \/ g \notin v.guests)
=============================================================================
