----------------------------- MODULE DavProofs -----------------------------
(***************************************************************************)
(* For any collections, resources, guests and number of calls: an update   *)
(* never undoes another, people are mailed about what was written only, a  *)
(* client alone on its account is never misled by a cache of calendars,    *)
(* and when nothing fails either its guests know what the server holds.    *)
(***************************************************************************)
EXTENDS Dav, FiniteSetTheorems, SequenceTheorems, TLAPS

-----------------------------------------------------------------------------
(* The inductive invariant.                                                *)

\* What a version can be: a resource, or one deleted, by itself or with its collection.
Version == [href : Href, col : Col \cup {None, "all"}, tag : 1..MaxClock, text : 0..MaxClock,
            guests : SUBSET Guest, seq : 0..MaxClock]

\* The server: a name is of one resource, which is the newest of its versions.
ServerOK ==
  /\ clock \in 0..MaxClock /\ ctag \in [Col -> 0..MaxClock]
  /\ files \subseteq Resource /\ files \subseteq versions
  /\ \A f \in files : f.col \in cols /\ Named(f.href) = {f} /\ f.seq < f.tag

VersionsOK ==
  /\ versions \subseteq Version
  /\ \A v \in versions : v.tag <= clock
  /\ \A f \in files, v \in versions : v.href = f.href => v = f \/ v.tag < f.tag

Replaced(v) == \E f \in files : f.href = v.href
Deleted(v) == \E d \in versions : d.href = v.href /\ d.col \notin Col /\ v.tag < d.tag

\* A resource that is gone has a version that says so; one never moves; and the tag of its
\* collection is not behind it.
HistoryOK ==
  /\ \A v \in versions : v.col \in Col => Replaced(v) \/ Deleted(v)
  /\ \A v, w \in versions :
       v.href = w.href /\ v.col \in Col =>
         /\ w.col \in Col => w.col = v.col
         /\ v.col \in cols => w.tag <= ctag[v.col]

StoreInv == ServerOK /\ VersionsOK /\ HistoryOK

\* What is kept of the server, and what is counted.
CacheInv ==
  /\ flavor \in {"card", "cal", "guest"}
  /\ listCache # None => DOMAIN listCache \subseteq Col
  /\ DOMAIN dirCache = Col
  /\ bodies \subseteq versions /\ bodies \subseteq Resource
  /\ faults \in Nat /\ others \in Nat /\ faults + others <= Budget[flavor]

\* A mail that says what some version of its event is.
Warranted(m, vs) ==
  \A g \in Guest : g \in m.to =>
    IF m.method \in {"REQUEST", "REPLY"}
    THEN \E v \in vs : v.href = m.href /\ v.seq = m.seq /\ g \in v.guests
    ELSE \E v \in vs : v.href = m.href /\ (v.col \notin Col \/ g \notin v.guests)

\* The mail that has gone out, and what a call has still to send.
Letter == [method : {"REQUEST", "CANCEL", "REPLY"}, href : Href, to : SUBSET Guest, seq : Nat]
PlanOK(plan, vs) == plan \in Seq(Letter) /\ \A i \in 1..Len(plan) : Warranted(plan[i], vs)

MailInv == \A m \in told : m \in Letter /\ Warranted(m, versions)

\* The calls under way, and what they hold; mail is planned by what ends a call.
Fields == {"op", "pc", "phase", "got", "books", "dir", "found", "base", "plan"}
Stage == {"list", "listing", "dir", "dirred", "fetch", "fetching", "write", "sent", "mail"}
AboutOne == {"get", "edit", "remove", "invite"}

OpType ==
  [kind : {"query", "mkcol"}, col : Col]
  \cup [kind : {"rmcol"}, col : Col, contents : BOOLEAN]
  \cup [kind : {"create"}, col : Col \cup {None}, guests : SUBSET Guest]
  \cup [kind : {"get", "edit", "remove"}, href : Href, col : Col]
  \cup [kind : {"invite"}, href : Href, col : Col, guests : SUBSET Guest, whole : BOOLEAN]

OpOK(op, vs) ==
  /\ op \in OpType
  /\ op.kind \in AboutOne => \E v \in vs : v.href = op.href /\ v.col = op.col

\* A body of the resource an operation is about.
BodyOf(op, f, vs) == op.kind \in AboutOne /\ f \in Resource /\ f \in vs /\ f.href = op.href

CallOK(x, vs) ==
  /\ DOMAIN x = Fields
  /\ x.pc \in Stage /\ x.phase \in {"first", "make", "last"}
  /\ OpOK(x.op, vs)
  /\ x.phase = "make" => x.op.kind = "create"
  /\ x.base = None \/ BodyOf(x.op, x.base, vs)
  /\ x.pc = "listing" => DOMAIN x.got \subseteq Col
  /\ x.pc \in {"dir", "dirred"} => x.op.kind \in {"query", "rmcol"}
  /\ x.pc \in {"fetch", "fetching"} => x.op.kind \in AboutOne
  /\ x.pc = "fetching" => \A f \in x.found : BodyOf(x.op, f, vs)
  /\ PlanOK(x.plan, vs)
  /\ IF x.phase = "last" THEN x.pc \in {"list", "listing", "mail"} ELSE x.plan = <<>>

CallsInv ==
  /\ DOMAIN req = Request
  /\ \A r \in Request : IF InFlight(r) THEN CallOK(req[r], versions) ELSE req[r] \in {Idle, Done}

\* What an update or a destroy was computed from is what the server has of that name.
Holds(op, base) == (base # None => base \in files) /\ \A f \in Named(op.href) : f = base

\* One client alone: what it keeps of the server is what is there.
Fresh(x) ==
  /\ x.pc = "listing" => x.got = Listing
  /\ x.pc = "dirred" => x.dir = Dir(x.op.col)
  /\ x.pc = "fetching" =>
       x.op.col \in cols /\ x.found = {f \in Named(x.op.href) : f.col = x.op.col}
  /\ x.op.kind = "get" /\ x.pc \in {"fetch", "fetching"} => x.books = Listing /\ x.op.col \in cols
  /\ x.op.kind = "rmcol" /\ ~ x.op.contents /\ x.pc \in {"write", "sent"} => In(x.op.col) = {}
  /\ x.op.kind \in AboutOne /\ x.pc \in {"write", "sent"} => Holds(x.op, x.base)
  /\ x.pc = "sent" => listCache = None /\ \A c \in Col : dirCache[c] = None

CachesFresh ==
  /\ listCache # None => listCache = Listing
  /\ \A c \in Col : dirCache[c] # None => dirCache[c] = Dir(c)

OneCall == \A r, s \in Request : InFlight(r) /\ InFlight(s) => r = s

SoloInv ==
  /\ ~ overlapped => OneCall
  /\ flavor # "card" /\ Alone =>
       /\ CachesFresh
       /\ \A r \in Request : InFlight(r) => Fresh(req[r])
       /\ ~ unasked /\ ~ behind

\* The mail of a client alone that meets no failure, sent or about to be.
Letters(r) ==
  IF InFlight(r) THEN {req[r].plan[i] : i \in 1..Len(req[r].plan)} ELSE {}
AllMail == told \cup UNION {Letters(r) : r \in Request}

\* Of mail, resources, versions and what was patched in place.  Mail is about names that
\* were used, and none is newer than the event it is about.
NoneIsNewer(mail, fs, vs) ==
  \A m \in mail :
    /\ m \in Letter /\ \E v \in vs : v.href = m.href
    /\ \A f \in fs : f.href = m.href => m.seq <= f.seq

\* Whom an event is with has an invitation to it as it is.
GuestsAreInvited(mail, fs) ==
  \A f \in fs : \A g \in f.guests :
    \E m \in mail : m.method = "REQUEST" /\ m.href = f.href /\ g \in m.to /\ m.seq = f.seq

Expecting(mail, h, g) ==
  \E m \in mail :
    /\ m.href = h /\ g \in m.to /\ m.method = "REQUEST"
    /\ \A x \in mail : x.href = h /\ g \in x.to => x.seq <= m.seq
Invited(h, g, fs) == \E f \in fs : f.href = h /\ g \in f.guests
Swept(h, vs) == \E v \in vs : v.href = h /\ v.col = "all"

OthersAreNot(mail, fs, vs, ip) ==
  \A h \in Href, g \in Guest :
    Expecting(mail, h, g) => Swept(h, vs) \/ Invited(h, g, fs) \/ <<h, g>> \in ip

AnswersAreMailed(mail, fs, ip) ==
  \A f \in fs : \A g \in f.guests :
    \/ <<f.href, g>> \in ip
    \/ \E m \in mail : m.method = "REPLY" /\ m.href = f.href /\ g \in m.to

Told(mail, fs, vs, ip) ==
  /\ flavor = "cal" =>
       NoneIsNewer(mail, fs, vs) /\ GuestsAreInvited(mail, fs) /\ OthersAreNot(mail, fs, vs, ip)
  /\ flavor = "guest" => AnswersAreMailed(mail, fs, ip)

TellInv == Alone /\ faults = 0 => Told(AllMail, files, versions, inPlace)

DavInv == StoreInv /\ CacheInv /\ CallsInv /\ MailInv /\ SoloInv /\ TellInv

-----------------------------------------------------------------------------
(* Calls and their locals.                                                 *)

\* A call moves: what it sets is set, the rest of it and the other calls stay.
Moves(r, new) ==
  /\ DOMAIN req' = Request
  /\ \A s \in Request : s # r => req'[s] = req[s]
  /\ \A n \in DOMAIN new : req'[r][n] = new[n]
  /\ \A n \in Fields \ DOMAIN new : req'[r][n] = req[r][n]
  /\ DOMAIN req'[r] = Fields

Leaves(r) ==
  /\ DOMAIN req' = Request
  /\ \A s \in Request : s # r => req'[s] = req[s]
  /\ req'[r] = Done

LEMMA Moving ==
  ASSUME NEW r \in Request, NEW new, DOMAIN req = Request,
         DOMAIN req[r] \cup DOMAIN new = Fields,
         "pc" \in DOMAIN new => new.pc # "done", req[r].pc # "done",
         Become(r, new)
  PROVE  Moves(r, new)
<1> DEFINE x == Over(req[r], new)
<1>1. /\ DOMAIN x = Fields
      /\ \A n \in DOMAIN new : x[n] = new[n]
      /\ \A n \in Fields \ DOMAIN new : x[n] = req[r][n]
  BY DEF Over
<1>2. x.pc # "done"
  BY <1>1 DEF Fields
<1>3. req' = [req EXCEPT ![r] = IF x.pc = "done" THEN Done ELSE x]
  BY DEF Become
<1> HIDE DEF x
<1>. QED
  BY <1>1, <1>2, <1>3 DEF Moves

LEMMA Leaving ==
  ASSUME NEW r \in Request, NEW new, DOMAIN req = Request, "pc" \in DOMAIN new, new.pc = "done",
         Become(r, new)
  PROVE  Leaves(r)
<1> DEFINE x == Over(req[r], new)
<1>1. x.pc = "done"
  BY DEF Over
<1>2. req' = [req EXCEPT ![r] = IF x.pc = "done" THEN Done ELSE x]
  BY DEF Become
<1> HIDE DEF x
<1>. QED
  BY <1>1, <1>2 DEF Leaves

LEMMA Quitting ==
  ASSUME NEW r \in Request, DOMAIN req = Request, Quit(r)
  PROVE  Leaves(r)
BY Leaving DEF Quit

\* What is warranted stays so: versions are never forgotten.
LEMMA WarrantStays ==
  ASSUME NEW vs, NEW ws, vs \subseteq ws, NEW m, Warranted(m, vs)
  PROVE  Warranted(m, ws)
BY DEF Warranted

LEMMA CallStays ==
  ASSUME NEW vs, NEW ws, vs \subseteq ws, NEW x, CallOK(x, vs)
  PROVE  CallOK(x, ws)
<1>1. OpOK(x.op, ws)
  BY DEF CallOK, OpOK
<1>2. \A f : BodyOf(x.op, f, vs) => BodyOf(x.op, f, ws)
  BY DEF BodyOf
<1>3. PlanOK(x.plan, ws)
  BY WarrantStays DEF CallOK, PlanOK
<1>. QED
  BY <1>1, <1>2, <1>3 DEF CallOK

\* One call moves: the others are as good as they were.
LEMMA CallsMove ==
  ASSUME CallsInv, NEW r \in Request, versions \subseteq versions', DOMAIN req' = Request,
         \A s \in Request : s # r => req'[s] = req[s],
         req'[r] = Done \/ CallOK(req'[r], versions')
  PROVE  CallsInv'
<1>1. ASSUME NEW s \in Request, s # r
      PROVE  IF InFlight(s)' THEN CallOK(req'[s], versions') ELSE req'[s] \in {Idle, Done}
  <2>1. req'[s] = req[s] /\ (InFlight(s)' <=> InFlight(s))
    BY <1>1 DEF InFlight
  <2>2. CASE InFlight(s)
    BY <2>1, <2>2, CallStays DEF CallsInv
  <2>3. CASE ~ InFlight(s)
    BY <2>1, <2>3 DEF CallsInv
  <2>. QED
    BY <2>2, <2>3
<1>2. IF InFlight(r)' THEN CallOK(req'[r], versions') ELSE req'[r] \in {Idle, Done}
  <2>1. CASE req'[r] = Done
    BY <2>1 DEF InFlight, Done
  <2>2. CASE CallOK(req'[r], versions')
    <3>1. req'[r].pc \notin {"idle", "done"}
      BY <2>2 DEF CallOK, Stage
    <3>. QED
      BY <2>2, <3>1 DEF InFlight
  <2>. QED
    BY <2>1, <2>2
<1>. QED
  BY <1>1, <1>2 DEF CallsInv

\* A client alone: a call that moves misleads it only by what it does itself.
LEMMA SoloMoves ==
  ASSUME SoloInv, NEW r \in Request, InFlight(r), DOMAIN req' = Request,
         \A s \in Request : s # r => req'[s] = req[s],
         UNCHANGED <<flavor, others, overlapped>>,
         flavor # "card" /\ Alone =>
           /\ CachesFresh' /\ ~ unasked' /\ ~ behind'
           /\ InFlight(r)' => Fresh(req[r])'
  PROVE  SoloInv'
<1>1. \A s \in Request : s # r /\ InFlight(s)' => InFlight(s)
  BY DEF InFlight
<1>2. OneCall => OneCall' /\ \A s \in Request : s # r => ~ InFlight(s)'
  BY <1>1 DEF OneCall
<1>3. Alone' <=> Alone
  BY DEF Alone
<1>4. ~ overlapped => OneCall
  BY DEF SoloInv
<1>5. ~ overlapped' => OneCall'
  BY <1>2, <1>4
<1>6. ASSUME flavor' # "card", Alone' PROVE \A s \in Request : InFlight(s)' => Fresh(req[s])'
  <2>1. flavor # "card" /\ Alone /\ OneCall
    BY <1>3, <1>4, <1>6 DEF Alone
  <2>2. \A s \in Request : s # r => ~ InFlight(s)'
    BY <1>2, <2>1
  <2>. QED
    BY <2>1, <2>2
<1>7. ASSUME flavor' # "card", Alone' PROVE CachesFresh' /\ ~ unasked' /\ ~ behind'
  BY <1>3, <1>7
<1>. QED
  BY <1>5, <1>6, <1>7 DEF SoloInv

\* The server untouched.
LEMMA StoreStays ==
  ASSUME StoreInv, UNCHANGED server
  PROVE  StoreInv'
BY DEF StoreInv, server, ServerOK, VersionsOK, HistoryOK, Replaced, Deleted, cols, Named

\* What the server, the caches and the counts owe, when a step leaves them alone.
LEMMA CachesStay ==
  ASSUME CacheInv, UNCHANGED <<flavor, caches, faults, others>>, versions \subseteq versions'
  PROVE  CacheInv'
BY DEF CacheInv, caches

LEMMA MailStays ==
  ASSUME MailInv, UNCHANGED told, versions \subseteq versions'
  PROVE  MailInv'
BY WarrantStays DEF MailInv

\* Nothing new on the server, and no cache touched: what is fresh stays so.
LEMMA FreshStays ==
  ASSUME CachesFresh, UNCHANGED <<server, caches>>
  PROVE  CachesFresh'
BY DEF CachesFresh, server, caches, Listing, cols, Dir, In

\* Mail comes of a write only: what else a call does leaves it as it was, sent or owed.
LEMMA LettersStay ==
  ASSUME NEW r \in Request, InFlight(r),
         \/ req'[r] = Done /\ req[r].plan = <<>>
         \/ InFlight(r)' /\ req'[r].plan = req[r].plan
  PROVE  Letters(r)' = Letters(r)
<1>1. CASE req'[r] = Done /\ req[r].plan = <<>>
  <2>1. ~ InFlight(r)'
    BY <1>1 DEF InFlight, Done
  <2>. QED
    BY <1>1, <2>1 DEF Letters
<1>2. CASE InFlight(r)' /\ req'[r].plan = req[r].plan
  BY <1>2 DEF Letters
<1>. QED
  BY <1>1, <1>2

LEMMA TellSame ==
  ASSUME TellInv, UNCHANGED <<flavor, files, versions, inPlace>>,
         Alone' /\ faults' = 0 /\ flavor # "card" => Alone /\ faults = 0 /\ AllMail' = AllMail
  PROVE  TellInv'
<1>1. CASE flavor = "card"
  BY <1>1 DEF TellInv, Told
<1>2. CASE flavor # "card"
  BY <1>2 DEF TellInv, Told
<1>. QED
  BY <1>1, <1>2

LEMMA TellStays ==
  ASSUME TellInv, UNCHANGED <<flavor, files, versions, told, inPlace>>,
         NEW r \in Request, \A s \in Request : s # r => req'[s] = req[s],
         Alone' /\ faults' = 0 /\ flavor # "card" => Alone /\ faults = 0 /\ Letters(r)' = Letters(r)
  PROVE  TellInv'
<1>1. \A s \in Request : s # r => Letters(s)' = Letters(s)
  BY DEF Letters, InFlight
<1>2. Letters(r)' = Letters(r) => AllMail' = AllMail
  BY <1>1 DEF AllMail
<1>. QED
  BY <1>2, TellSame

-----------------------------------------------------------------------------
(* A call is made, and finds its way.                                      *)

LEMMA CallsAreTyped ==
  ASSUME StoreInv, NEW op \in Calls
  PROVE  OpOK(op, versions)
<1> DEFINE OfCols == [kind : {"query", "mkcol"}, col : Col]
                     \cup [kind : {"rmcol"}, col : Col, contents : BOOLEAN]
                     \cup [kind : {"create"}, col : Col \cup {None}, guests : SUBSET Guest]
           OfOne == {[kind |-> k, href |-> p[1], col |-> p[2]] :
                       k \in {"get", "edit", "remove"}, p \in Placed}
           Whole == IF flavor = "card" THEN {TRUE} ELSE BOOLEAN
           Invites == {[kind |-> "invite", href |-> p[1], col |-> p[2], guests |-> g, whole |-> w] :
                         p \in Placed, g \in SUBSET Guest, w \in Whole}
<1>1. \A p \in Placed : \E v \in versions :
         p = <<v.href, v.col>> /\ v.href \in Href /\ v.col \in Col
  BY DEF Placed, StoreInv, VersionsOK, Version
<1>2. CASE op \in OfCols
  BY <1>2 DEF OpType, OpOK, AboutOne
<1>3. CASE op \in OfOne
  <2>1. PICK k \in {"get", "edit", "remove"}, p \in Placed :
          op = [kind |-> k, href |-> p[1], col |-> p[2]]
    BY <1>3
  <2>2. PICK v \in versions : p = <<v.href, v.col>> /\ v.href \in Href /\ v.col \in Col
    BY <1>1
  <2>3. op = [kind |-> k, href |-> v.href, col |-> v.col]
    BY <2>1, <2>2
  <2>. QED
    BY <2>2, <2>3 DEF OpOK, OpType
<1>0. Whole \subseteq BOOLEAN
  OBVIOUS
<1> HIDE DEF Whole
<1>4. CASE op \in Invites
  <2>1. PICK p \in Placed, g \in SUBSET Guest, w \in Whole :
          op = [kind |-> "invite", href |-> p[1], col |-> p[2], guests |-> g, whole |-> w]
    BY <1>4
  <2>2. PICK v \in versions : p = <<v.href, v.col>> /\ v.href \in Href /\ v.col \in Col
    BY <1>1
  <2>3. w \in BOOLEAN
    BY <1>0
  <2>4. op = [kind |-> "invite", href |-> v.href, col |-> v.col, guests |-> g, whole |-> w]
    BY <2>1, <2>2
  <2>. QED
    BY <2>2, <2>3, <2>4 DEF OpOK, OpType
<1>5. Calls = OfCols \cup OfOne \cup Invites
  BY DEF Calls, Whole
<1> HIDE DEF OfCols, OfOne, Invites
<1>. QED
  BY <1>2, <1>3, <1>4, <1>5

LEMMA CallKeeps ==
  ASSUME DavInv, NEW r \in Request, NEW op \in Calls, Call(r, op)
  PROVE  DavInv'
<1> DEFINE new == [op |-> op, pc |-> "list", phase |-> "first", got |-> None, books |-> None,
                   dir |-> None, found |-> None, base |-> None, plan |-> <<>>]
<1>1. /\ req[r].pc = "idle" /\ Become(r, new)
      /\ overlapped' = (overlapped \/ \E x \in Request : InFlight(x))
      /\ UNCHANGED <<flavor, server, caches, faults, others, told, inPlace, unasked, behind>>
  BY DEF Call
<1>2. DOMAIN req = Request /\ req[r] = Idle
  BY <1>1 DEF DavInv, CallsInv, InFlight, Done
<1>3. DOMAIN new = Fields /\ DOMAIN req[r] \subseteq Fields /\ new.pc # "done"
  BY <1>2 DEF Fields, Idle
<1>4. Moves(r, new)
  BY <1>1, <1>2, <1>3, Moving
<1>5. versions' = versions
  BY <1>1 DEF server
<1>6. CallOK(req'[r], versions')
  <2>1. OpOK(op, versions)
    BY CallsAreTyped DEF DavInv
  <2>2. PlanOK(<<>>, versions)
    BY DEF PlanOK
  <2>. QED
    BY <1>4, <1>5, <2>1, <2>2 DEF Moves, CallOK, Fields, Stage
<1>7. CallsInv'
  BY <1>4, <1>5, <1>6, CallsMove DEF DavInv, Moves
<1>8. SoloInv'
  <2>1. ASSUME ~ overlapped' PROVE OneCall'
    <3>1. \A s \in Request : s # r => ~ InFlight(s)'
      BY <1>1, <1>4, <2>1 DEF Moves, InFlight
    <3>. QED
      BY <3>1 DEF OneCall
  <2>2. ASSUME flavor' # "card", Alone'
        PROVE  CachesFresh' /\ ~ unasked' /\ ~ behind' /\ \A s \in Request : InFlight(s)' => Fresh(req[s])'
    <3>1. flavor # "card" /\ Alone
      BY <1>1, <2>2 DEF Alone
    <3>2. CachesFresh' /\ ~ unasked' /\ ~ behind'
      BY <1>1, <3>1, FreshStays DEF DavInv, SoloInv
    <3>3. req'[r].pc = "list"
      BY <1>4 DEF Moves
    <3>4. Fresh(req[r])'
      BY <3>3 DEF Fresh
    <3>5. \A s \in Request : s # r => ~ InFlight(s)'
      BY <1>1, <1>4, <2>2 DEF Moves, InFlight, Alone
    <3>. QED
      BY <3>2, <3>4, <3>5
  <2>. QED
    BY <2>1, <2>2 DEF SoloInv
<1>9. StoreInv' /\ CacheInv' /\ MailInv'
  BY <1>1, <1>5, StoreStays, CachesStay, MailStays DEF DavInv
<1>10. TellInv'
  <2>1. Letters(r) = {} /\ Letters(r)' = {}
    BY <1>2, <1>4 DEF Letters, InFlight, Idle, Moves
  <2>2. UNCHANGED <<files, versions>> /\ (Alone' => Alone)
    BY <1>1 DEF server, Alone
  <2>. QED
    BY <1>1, <1>4, <2>1, <2>2, TellStays DEF DavInv, Moves
<1>. QED
  BY <1>7, <1>8, <1>9, <1>10 DEF DavInv

-----------------------------------------------------------------------------
(* The list of collections.                                                *)

\* A call keeps what it is about; its collection alone may be settled.
LEMMA Settled ==
  ASSUME NEW op, NEW vs, OpOK(op, vs), NEW c \in Col, op.kind \in AboutOne => c = op.col
  PROVE  LET new == [op EXCEPT !.col = c]
         IN  /\ OpOK(new, vs) /\ new.kind = op.kind /\ new.col = c
             /\ op.kind \in AboutOne => new.href = op.href
             /\ op.kind = "rmcol" => new.contents = op.contents
<1>1. CASE op \in [kind : {"query", "mkcol"}, col : Col]
  BY <1>1 DEF OpOK, OpType, AboutOne
<1>2. CASE op \in [kind : {"rmcol"}, col : Col, contents : BOOLEAN]
  BY <1>2 DEF OpOK, OpType, AboutOne
<1>3. CASE op \in [kind : {"create"}, col : Col \cup {None}, guests : SUBSET Guest]
  BY <1>3 DEF OpOK, OpType, AboutOne
<1>4. CASE op \in [kind : {"get", "edit", "remove"}, href : Href, col : Col]
  BY <1>4 DEF OpOK, OpType, AboutOne
<1>5. CASE op \in [kind : {"invite"}, href : Href, col : Col, guests : SUBSET Guest, whole : BOOLEAN]
  BY <1>5 DEF OpOK, OpType, AboutOne
<1>. QED
  BY <1>1, <1>2, <1>3, <1>4, <1>5 DEF OpOK, OpType

\* Where an operation goes: to a collection that is in the list, or that it makes.
LEMMA EntryIsSound ==
  ASSUME NEW op, NEW vs, OpOK(op, vs), NEW here \in SUBSET Col
  PROVE  LET e == Entry(op, here)
         IN  /\ e[1] \in {"make", "done", "write", "dir", "fetch"}
             /\ e[1] = "write" /\ op.kind \in AboutOne => flavor = "card"
             /\ e[1] = "make" => op.kind = "create"
             /\ e[1] = "dir" => op.kind \in {"query", "rmcol"}
             /\ e[1] = "fetch" => op.kind \in AboutOne /\ e[2] \in here
             /\ e[1] = "write" /\ op.kind = "rmcol" => op.contents
             /\ e[2] \in Col
             /\ op.kind \in AboutOne => e[2] = op.col
<1>1. op.kind \in {"query", "mkcol", "rmcol", "create"} \cup AboutOne
  BY DEF OpOK, OpType, AboutOne
<1>2. op.kind # "create" => op.col \in Col
  BY DEF OpOK, OpType
<1>3. op.kind = "create" => op.col \in Col \cup {None}
  BY DEF OpOK, OpType
<1>4. op.kind = "rmcol" => op.contents \in BOOLEAN
  BY DEF OpOK, OpType
<1>5. here # {} => DefaultOf(here) \in Col
  <2>1. here # {} => (CHOOSE c \in here : TRUE) \in here
    OBVIOUS
  <2>. QED
    BY <2>1 DEF DefaultOf
<1>6. CASE op.kind = "mkcol"
  BY <1>2, <1>6 DEF Entry, CollectionEntry, Slug, AboutOne
<1>7. CASE op.kind = "rmcol"
  BY <1>2, <1>4, <1>7 DEF Entry, CollectionEntry, AboutOne
<1>8. CASE op.kind = "create"
  <2>1. Entry(op, here) = IF op.col = None THEN IF here = {} THEN <<"make", Default>> ELSE <<"write", DefaultOf(here)>>
                          ELSE IF op.col \notin here THEN <<"done", op.col>> ELSE <<"write", op.col>>
    BY <1>8 DEF Entry, CardEntry
  <2>. QED
    BY <1>3, <1>5, <1>8, <2>1, DavAssumption DEF AboutOne
<1>9. CASE op.kind \in {"query"} \cup AboutOne
  <2>1. op.col # None
    BY <1>2, <1>9, DavAssumption DEF AboutOne
  <2>. QED
    BY <1>2, <1>9, <2>1 DEF Entry, CardEntry, AboutOne
<1>. QED
  BY <1>1, <1>6, <1>7, <1>8, <1>9

\* What is true of a call that has had its list.
Routed(r, books) ==
  /\ DOMAIN req' = Request
  /\ \A s \in Request : s # r => req'[s] = req[s]
  /\ \/ req'[r] = Done /\ req[r].plan = <<>>
     \/ /\ CallOK(req'[r], versions) /\ req'[r].plan = req[r].plan
        /\ req'[r].pc = "write" /\ req'[r].op.kind \in AboutOne => flavor = "card"
        /\ req'[r].pc \in {"mail", "write", "dir", "fetch"}
        /\ req'[r].pc = "fetch" => req'[r].op.col \in DOMAIN books
        /\ req'[r].pc = "fetch" /\ req'[r].op.kind = "get" => req'[r].books = books
        /\ req'[r].pc = "write" /\ req'[r].op.kind = "rmcol" => req'[r].op.contents

LEMMA AfterListOK ==
  ASSUME DavInv, NEW r \in Request, req[r].pc \in {"list", "listing"},
         NEW books, DOMAIN books \in SUBSET Col, AfterList(r, books)
  PROVE  Routed(r, books)
<1> DEFINE x == req[r]
           here == DOMAIN books
<1>1. InFlight(r) /\ CallOK(x, versions) /\ DOMAIN req = Request /\ DOMAIN x = Fields
  BY DEF DavInv, CallsInv, InFlight, CallOK
<1>2. CASE x.phase = "last" /\ Become(r, [pc |-> "mail", got |-> None])
  <2>1. Moves(r, [pc |-> "mail", got |-> None])
    BY <1>1, <1>2, Moving DEF Fields
  <2>. QED
    BY <1>1, <1>2, <2>1 DEF Routed, Moves, CallOK, Fields, Stage
<1>3. CASE x.phase = "make" /\ here = {} /\ Quit(r)
  BY <1>1, <1>3, Quitting DEF Routed, Leaves, CallOK
<1>4. CASE /\ x.phase = "make" /\ here # {}
           /\ Become(r, [pc |-> "write", phase |-> "first", got |-> None,
                         op |-> [x.op EXCEPT !.col = DefaultOf(here)]])
  <2> DEFINE new == [x.op EXCEPT !.col = DefaultOf(here)]
  <2>1. Moves(r, [pc |-> "write", phase |-> "first", got |-> None, op |-> new])
    BY <1>1, <1>4, Moving DEF Fields
  <2>2. x.op.kind = "create" /\ OpOK(x.op, versions)
    BY <1>1, <1>4 DEF CallOK
  <2>3. DefaultOf(here) \in Col
    BY <1>4 DEF DefaultOf
  <2>4. OpOK(new, versions) /\ new.kind = "create"
    BY <2>2, <2>3, Settled DEF AboutOne
  <2>5. x.base = None
    BY <1>1, <2>2 DEF CallOK, BodyOf, AboutOne
  <2> HIDE DEF new
  <2>. QED
    BY <1>1, <1>4, <2>1, <2>4, <2>5 DEF Routed, Moves, CallOK, Fields, Stage, AboutOne
<1>5. CASE /\ x.phase = "first"
           /\ LET e == Entry(x.op, here)
              IN  Become(r, [pc |-> IF e[1] = "make" THEN "write" ELSE e[1],
                             phase |-> IF e[1] = "make" THEN "make" ELSE "first",
                             got |-> None,
                             books |-> IF x.op.kind = "get" THEN books ELSE None,
                             op |-> [x.op EXCEPT !.col = e[2]]])
  <2> DEFINE e == Entry(x.op, here)
             new == [x.op EXCEPT !.col = e[2]]
             locals == [pc |-> IF e[1] = "make" THEN "write" ELSE e[1],
                        phase |-> IF e[1] = "make" THEN "make" ELSE "first",
                        got |-> None,
                        books |-> IF x.op.kind = "get" THEN books ELSE None,
                        op |-> new]
  <2>1. Become(r, locals) /\ OpOK(x.op, versions)
    BY <1>1, <1>5 DEF CallOK
  <2>2. /\ e[1] \in {"make", "done", "write", "dir", "fetch"}
        /\ e[1] = "write" /\ x.op.kind \in AboutOne => flavor = "card"
        /\ e[1] = "make" => x.op.kind = "create"
        /\ e[1] = "dir" => x.op.kind \in {"query", "rmcol"}
        /\ e[1] = "fetch" => x.op.kind \in AboutOne /\ e[2] \in here
        /\ e[1] = "write" /\ x.op.kind = "rmcol" => x.op.contents
        /\ e[2] \in Col
        /\ x.op.kind \in AboutOne => e[2] = x.op.col
    BY <2>1, EntryIsSound
  <2>3. /\ OpOK(new, versions) /\ new.kind = x.op.kind /\ new.col = e[2]
        /\ x.op.kind \in AboutOne => new.href = x.op.href
        /\ x.op.kind = "rmcol" => new.contents = x.op.contents
    BY <2>1, <2>2, Settled
  <2>4. x.base = None \/ BodyOf(new, x.base, versions)
    BY <1>1, <2>3 DEF CallOK, BodyOf
  <2> HIDE DEF e, new
  <2>5. CASE e[1] = "done"
    <3>1. Leaves(r)
      BY <1>1, <2>1, <2>5, Leaving
    <3>. QED
      BY <1>1, <1>5, <3>1 DEF Leaves, Routed, CallOK
  <2>6. CASE e[1] # "done"
    <3>1. Moves(r, locals)
      BY <1>1, <2>1, <2>2, <2>6, Moving DEF Fields
    <3>2. /\ req'[r].op = new /\ req'[r].base = x.base /\ req'[r].plan = x.plan
          /\ req'[r].pc = (IF e[1] = "make" THEN "write" ELSE e[1])
          /\ req'[r].phase = (IF e[1] = "make" THEN "make" ELSE "first")
          /\ req'[r].books = (IF x.op.kind = "get" THEN books ELSE None)
          /\ DOMAIN req'[r] = Fields
      BY <3>1 DEF Moves, Fields
    <3>3. CallOK(req'[r], versions)
      BY <1>1, <1>5, <2>2, <2>3, <2>4, <2>6, <3>2 DEF CallOK, Stage
    <3>. QED
      BY <2>2, <2>3, <2>6, <3>1, <3>2, <3>3 DEF Routed, Moves, AboutOne
  <2>. QED
    BY <2>5, <2>6
<1>. QED
  BY <1>2, <1>3, <1>4, <1>5 DEF AfterList

LEMMA Routing ==
  ASSUME DavInv, NEW r \in Request, req[r].pc \in {"list", "listing"},
         NEW books, DOMAIN books \in SUBSET Col, AfterList(r, books), listCache' = books,
         UNCHANGED <<flavor, server, dirCache, bodies, faults, others, history>>,
         flavor # "card" /\ Alone => books = Listing
  PROVE  DavInv'
<1>1. Routed(r, books)
  BY AfterListOK
<1>2. versions' = versions /\ UNCHANGED <<told, overlapped, unasked, behind>>
  BY DEF server, history
<1>3. CallsInv'
  BY <1>1, <1>2, CallsMove DEF DavInv, Routed
<1>4. InFlight(r)
  BY DEF InFlight
<1>5. ASSUME flavor # "card", Alone
      PROVE  /\ CachesFresh' /\ ~ unasked' /\ ~ behind'
             /\ InFlight(r)' => Fresh(req[r])'
  <2>1. CachesFresh /\ ~ unasked /\ ~ behind /\ books = Listing
    BY <1>5 DEF DavInv, SoloInv
  <2>2. UNCHANGED <<Listing, cols, Dir(0)>> /\ \A c : Dir(c)' = Dir(c)
    BY DEF server, Listing, cols, Dir, In
  <2>3. CachesFresh'
    BY <2>1, <2>2 DEF CachesFresh
  <2>4. DOMAIN Listing = cols
    BY DEF Listing
  <2>5. InFlight(r)' => Fresh(req[r])'
    BY <1>1, <1>5, <2>1, <2>2, <2>4 DEF Routed, InFlight, Done, Fresh
  <2>. QED
    BY <1>2, <2>1, <2>3, <2>5
<1>6. SoloInv'
  BY <1>1, <1>2, <1>4, <1>5, SoloMoves DEF DavInv, Routed
<1>7. StoreInv' /\ MailInv'
  BY <1>2, StoreStays, MailStays DEF DavInv
<1>8. CacheInv'
  BY <1>2 DEF DavInv, CacheInv
<1>9. TellInv'
  <2>1. Letters(r)' = Letters(r)
    BY <1>1, <1>4, LettersStay DEF Routed, InFlight, CallOK, Stage
  <2>2. UNCHANGED <<files, versions, inPlace>> /\ (Alone' => Alone)
    BY DEF server, history, Alone
  <2>. QED
    BY <1>1, <1>2, <2>1, <2>2, TellStays DEF DavInv, Routed
<1>. QED
  BY <1>3, <1>6, <1>7, <1>8, <1>9 DEF DavInv

LEMMA ListHitKeeps ==
  ASSUME DavInv, NEW r \in Request, ListHit(r)
  PROVE  DavInv'
<1>1. /\ req[r].pc = "list" /\ listCache # None /\ AfterList(r, listCache)
      /\ UNCHANGED <<flavor, server, caches, faults, others, history>>
  BY DEF ListHit
<1>2. DOMAIN listCache \in SUBSET Col
  BY <1>1 DEF DavInv, CacheInv
<1>3. flavor # "card" /\ Alone => listCache = Listing
  BY <1>1 DEF DavInv, SoloInv, CachesFresh
<1>. QED
  BY <1>1, <1>2, <1>3, Routing DEF caches

LEMMA ListMissKeeps ==
  ASSUME DavInv, NEW r \in Request, ListMiss(r)
  PROVE  DavInv'
<1> DEFINE new == [pc |-> "listing", got |-> Listing]
<1>1. /\ req[r].pc = "list" /\ listCache' = None /\ Become(r, new)
      /\ UNCHANGED <<flavor, server, dirCache, bodies, faults, others, history>>
  BY DEF ListMiss
<1>2. versions' = versions /\ UNCHANGED <<told, overlapped, unasked, behind>>
  BY <1>1 DEF server, history
<1>3. InFlight(r) /\ CallOK(req[r], versions) /\ DOMAIN req = Request /\ DOMAIN req[r] = Fields
  BY <1>1 DEF DavInv, CallsInv, InFlight, CallOK
<1>4. Moves(r, new)
  BY <1>1, <1>3, Moving DEF Fields
<1>5. DOMAIN Listing \subseteq Col
  BY DEF Listing, cols
<1>6. CallOK(req'[r], versions')
  BY <1>2, <1>3, <1>4, <1>5 DEF Moves, CallOK, Fields, Stage
<1>7. CallsInv'
  BY <1>2, <1>4, <1>6, CallsMove DEF DavInv, Moves
<1>8. ASSUME flavor # "card", Alone
      PROVE  CachesFresh' /\ ~ unasked' /\ ~ behind' /\ Fresh(req[r])'
  <2>1. CachesFresh /\ ~ unasked /\ ~ behind
    BY <1>8 DEF DavInv, SoloInv
  <2>2. UNCHANGED Listing /\ \A c : Dir(c)' = Dir(c)
    BY <1>1 DEF server, Listing, cols, Dir, In
  <2>3. CachesFresh'
    BY <1>1, <2>1, <2>2 DEF CachesFresh
  <2>4. req'[r].pc = "listing" /\ req'[r].got = Listing
    BY <1>4 DEF Moves
  <2>. QED
    BY <1>2, <2>1, <2>2, <2>3, <2>4 DEF Fresh
<1>9. SoloInv'
  BY <1>1, <1>2, <1>3, <1>4, <1>8, SoloMoves DEF DavInv, Moves
<1>10. StoreInv' /\ MailInv' /\ CacheInv'
  BY <1>1, <1>2, StoreStays, MailStays DEF DavInv, CacheInv
<1>11. TellInv'
  <2>1. Letters(r)' = Letters(r)
    BY <1>3, <1>4, LettersStay DEF Moves, InFlight, Fields
  <2>2. UNCHANGED <<files, versions, inPlace>> /\ (Alone' => Alone)
    BY <1>1, <1>2 DEF server, history, Alone
  <2>. QED
    BY <1>1, <1>2, <1>4, <2>1, <2>2, TellStays DEF DavInv, Moves
<1>. QED
  BY <1>7, <1>9, <1>10, <1>11 DEF DavInv

LEMMA ListedKeeps ==
  ASSUME DavInv, NEW r \in Request, Listed(r)
  PROVE  DavInv'
<1>1. /\ req[r].pc = "listing" /\ listCache' = req[r].got /\ AfterList(r, req[r].got)
      /\ UNCHANGED <<flavor, server, dirCache, bodies, faults, others, history>>
  BY DEF Listed
<1>2. InFlight(r)
  BY <1>1 DEF InFlight
<1>3. DOMAIN req[r].got \in SUBSET Col
  BY <1>1, <1>2 DEF DavInv, CallsInv, CallOK
<1>4. flavor # "card" /\ Alone => req[r].got = Listing
  BY <1>1, <1>2 DEF DavInv, SoloInv, Fresh
<1>. QED
  BY <1>1, <1>3, <1>4, Routing

-----------------------------------------------------------------------------
(* The listing of one collection.                                          *)

\* What is true of a call that has had its listing.
LEMMA AfterDirOK ==
  ASSUME DavInv, NEW r \in Request, req[r].pc \in {"dir", "dirred"}, NEW dir, AfterDir(r, dir)
  PROVE  /\ DOMAIN req' = Request
         /\ \A s \in Request : s # r => req'[s] = req[s]
         /\ \/ req'[r] = Done /\ req[r].plan = <<>>
            \/ /\ CallOK(req'[r], versions) /\ req'[r].pc = "write" /\ req'[r].op = req[r].op
               /\ dir = {} /\ req'[r].plan = req[r].plan
<1> DEFINE new == [pc |-> IF req[r].op.kind = "query" \/ dir # {} THEN "done" ELSE "write",
                   dir |-> None]
<1>1. InFlight(r) /\ CallOK(req[r], versions) /\ DOMAIN req = Request /\ DOMAIN req[r] = Fields
  BY DEF DavInv, CallsInv, InFlight, CallOK
<1>2. Become(r, new)
  BY DEF AfterDir
<1>3. CASE req[r].op.kind = "query" \/ dir # {}
  <2>1. Leaves(r)
    BY <1>1, <1>2, <1>3, Leaving
  <2>. QED
    BY <1>1, <2>1 DEF Leaves, CallOK
<1>4. CASE ~ (req[r].op.kind = "query" \/ dir # {})
  <2>1. Moves(r, new)
    BY <1>1, <1>2, <1>4, Moving DEF Fields
  <2>. QED
    BY <1>1, <1>4, <2>1 DEF Moves, CallOK, Fields, Stage
<1>. QED
  BY <1>3, <1>4

LEMMA Foldering ==
  ASSUME DavInv, NEW r \in Request, req[r].pc \in {"dir", "dirred"},
         NEW dir, AfterDir(r, dir), DOMAIN dirCache' = Col,
         \A c \in Col : dirCache'[c] = IF c = req[r].op.col THEN dir ELSE dirCache[c],
         UNCHANGED <<flavor, server, listCache, bodies, faults, others, history>>,
         flavor # "card" /\ Alone => dir = Dir(req[r].op.col)
  PROVE  DavInv'
<1>1. /\ DOMAIN req' = Request
      /\ \A s \in Request : s # r => req'[s] = req[s]
      /\ \/ req'[r] = Done /\ req[r].plan = <<>>
         \/ /\ CallOK(req'[r], versions) /\ req'[r].pc = "write" /\ req'[r].op = req[r].op
            /\ dir = {} /\ req'[r].plan = req[r].plan
  BY AfterDirOK
<1>2. versions' = versions /\ UNCHANGED <<told, overlapped, unasked, behind>>
  BY DEF server, history
<1>3. CallsInv'
  BY <1>1, <1>2, CallsMove DEF DavInv
<1>4. InFlight(r) /\ req[r].op.kind \in {"query", "rmcol"}
  BY DEF InFlight, DavInv, CallsInv, CallOK
<1>5. DOMAIN dirCache = Col
  BY DEF DavInv, CacheInv
<1>6. ASSUME flavor # "card", Alone
      PROVE  /\ CachesFresh' /\ ~ unasked' /\ ~ behind'
             /\ InFlight(r)' => Fresh(req[r])'
  <2>1. CachesFresh /\ ~ unasked /\ ~ behind /\ dir = Dir(req[r].op.col)
    BY <1>6 DEF DavInv, SoloInv
  <2>2. UNCHANGED Listing /\ \A c : Dir(c)' = Dir(c) /\ In(c)' = In(c)
    BY DEF server, Listing, cols, Dir, In
  <2>3. CachesFresh'
    BY <1>5, <2>1, <2>2 DEF CachesFresh
  <2>4. dir = {} => In(req[r].op.col) = {}
    BY <2>1 DEF Dir
  <2>5. InFlight(r)' => Fresh(req[r])'
    BY <1>1, <1>4, <2>2, <2>4 DEF InFlight, Done, Fresh, AboutOne
  <2>. QED
    BY <1>2, <2>1, <2>3, <2>5
<1>7. SoloInv'
  BY <1>1, <1>2, <1>4, <1>6, SoloMoves DEF DavInv
<1>8. StoreInv' /\ MailInv' /\ CacheInv'
  BY <1>2, <1>5, StoreStays, MailStays DEF DavInv, CacheInv
<1>9. TellInv'
  <2>1. Letters(r)' = Letters(r)
    BY <1>1, <1>4, LettersStay DEF InFlight, CallOK, Stage
  <2>2. UNCHANGED <<files, versions, inPlace>> /\ (Alone' => Alone)
    BY DEF server, history, Alone
  <2>. QED
    BY <1>1, <1>2, <2>1, <2>2, TellStays DEF DavInv
<1>. QED
  BY <1>3, <1>7, <1>8, <1>9 DEF DavInv

LEMMA DirHitKeeps ==
  ASSUME DavInv, NEW r \in Request, DirHit(r)
  PROVE  DavInv'
<1> DEFINE c == req[r].op.col
<1>1. /\ req[r].pc = "dir" /\ dirCache[c] # None /\ AfterDir(r, dirCache[c])
      /\ UNCHANGED <<flavor, server, caches, faults, others, history>>
  BY DEF DirHit
<1>2. InFlight(r) /\ CallOK(req[r], versions)
  BY <1>1 DEF DavInv, CallsInv, InFlight
<1>3. c \in Col
  BY <1>1, <1>2 DEF CallOK, OpOK, OpType
<1>4. DOMAIN dirCache = Col
  BY DEF DavInv, CacheInv
<1>5. DOMAIN dirCache' = Col /\ \A k \in Col : dirCache'[k] = IF k = c THEN dirCache[c] ELSE dirCache[k]
  BY <1>1, <1>4 DEF caches
<1>6. flavor # "card" /\ Alone => dirCache[c] = Dir(c)
  BY <1>1, <1>3 DEF DavInv, SoloInv, CachesFresh
<1>. QED
  BY <1>1, <1>5, <1>6, Foldering DEF caches

LEMMA DirMissKeeps ==
  ASSUME DavInv, NEW r \in Request, DirMiss(r)
  PROVE  DavInv'
<1> DEFINE c == req[r].op.col
           new == [pc |-> "dirred", dir |-> Dir(c)]
<1>1. /\ req[r].pc = "dir" /\ dirCache' = [dirCache EXCEPT ![c] = None]
      /\ IF c \in cols THEN Become(r, new) ELSE Quit(r)
      /\ UNCHANGED <<flavor, server, listCache, bodies, faults, others, history>>
  BY DEF DirMiss, ExpireDir
<1>2. versions' = versions /\ UNCHANGED <<told, overlapped, unasked, behind>>
  BY <1>1 DEF server, history
<1>3. InFlight(r) /\ CallOK(req[r], versions) /\ DOMAIN req = Request /\ DOMAIN req[r] = Fields
  BY <1>1 DEF DavInv, CallsInv, InFlight, CallOK
<1>4. c \in cols => Moves(r, new)
  BY <1>1, <1>3, Moving DEF Fields
<1>5. c \notin cols => Leaves(r)
  BY <1>1, <1>3, Quitting
<1>6. /\ DOMAIN req' = Request
      /\ \A s \in Request : s # r => req'[s] = req[s]
  BY <1>4, <1>5 DEF Moves, Leaves
<1>7. ASSUME c \in cols
      PROVE  /\ CallOK(req'[r], versions')
             /\ req'[r].pc = "dirred" /\ req'[r].dir = Dir(c) /\ req'[r].op = req[r].op
  <2>1. CallOK(req'[r], versions')
    BY <1>1, <1>2, <1>3, <1>4, <1>7 DEF Moves, CallOK, Fields, Stage
  <2>2. req'[r].pc = "dirred" /\ req'[r].dir = Dir(c) /\ req'[r].op = req[r].op
    BY <1>4, <1>7 DEF Moves, Fields
  <2>. QED
    BY <2>1, <2>2
<1>8. \/ req'[r] = Done
      \/ /\ CallOK(req'[r], versions')
         /\ req'[r].pc = "dirred" /\ req'[r].dir = Dir(c) /\ req'[r].op = req[r].op
  BY <1>5, <1>7 DEF Leaves
<1>9. CallsInv'
  BY <1>2, <1>6, <1>8, CallsMove DEF DavInv
<1>10. ASSUME flavor # "card", Alone
       PROVE  /\ CachesFresh' /\ ~ unasked' /\ ~ behind'
              /\ InFlight(r)' => Fresh(req[r])'
  <2>1. CachesFresh /\ ~ unasked /\ ~ behind
    BY <1>10 DEF DavInv, SoloInv
  <2>2. UNCHANGED Listing /\ \A k : Dir(k)' = Dir(k)
    BY <1>1 DEF server, Listing, cols, Dir, In
  <2>3. DOMAIN dirCache = Col
    BY DEF DavInv, CacheInv
  <2>4. CachesFresh'
    BY <1>1, <2>1, <2>2, <2>3 DEF CachesFresh
  <2>5. InFlight(r)' => Fresh(req[r])'
    BY <1>8, <2>2 DEF InFlight, Done, Fresh
  <2>. QED
    BY <1>2, <2>1, <2>4, <2>5
<1>11. SoloInv'
  BY <1>1, <1>2, <1>3, <1>6, <1>10, SoloMoves DEF DavInv
<1>12. StoreInv' /\ MailInv' /\ CacheInv'
  BY <1>1, <1>2, StoreStays, MailStays DEF DavInv, CacheInv
<1>13. TellInv'
  <2>1. Letters(r)' = Letters(r)
    <3>1. CASE c \in cols
      BY <1>3, <1>4, <3>1, LettersStay DEF InFlight, Moves, Fields
    <3>2. CASE c \notin cols
      BY <1>1, <1>3, <1>5, <3>2, LettersStay DEF Leaves, CallOK
    <3>. QED
      BY <3>1, <3>2
  <2>2. UNCHANGED <<files, versions, inPlace>> /\ (Alone' => Alone)
    BY <1>1, <1>2 DEF server, history, Alone
  <2>. QED
    BY <1>1, <1>2, <1>6, <2>1, <2>2, TellStays DEF DavInv
<1>. QED
  BY <1>9, <1>11, <1>12, <1>13 DEF DavInv

LEMMA DirredKeeps ==
  ASSUME DavInv, NEW r \in Request, Dirred(r)
  PROVE  DavInv'
<1> DEFINE c == req[r].op.col
<1>1. /\ req[r].pc = "dirred" /\ AfterDir(r, req[r].dir)
      /\ dirCache' = [dirCache EXCEPT ![c] = req[r].dir]
      /\ UNCHANGED <<flavor, server, listCache, bodies, faults, others, history>>
  BY DEF Dirred
<1>2. InFlight(r)
  BY <1>1 DEF InFlight
<1>3. DOMAIN dirCache = Col
  BY DEF DavInv, CacheInv
<1>4. /\ DOMAIN dirCache' = Col
      /\ \A k \in Col : dirCache'[k] = IF k = c THEN req[r].dir ELSE dirCache[k]
  BY <1>1, <1>3
<1>5. flavor # "card" /\ Alone => req[r].dir = Dir(c)
  BY <1>1, <1>2 DEF DavInv, SoloInv, Fresh
<1>. QED
  BY <1>1, <1>4, <1>5, Foldering

-----------------------------------------------------------------------------
(* The body of one resource.                                               *)

LEMMA Reading ==
  ASSUME DavInv, NEW r \in Request, req[r].pc \in {"fetch", "fetching"}, NEW body,
         body = None \/ BodyOf(req[r].op, body, versions), AfterFetch(r, body),
         bodies' \subseteq versions, bodies' \subseteq Resource,
         flavor # "card" /\ Alone =>
           /\ req[r].op.kind = "get" => ~ Outdated(req[r].op, req[r].books, body)
           /\ Holds(req[r].op, body)
  PROVE  DavInv'
<1> DEFINE op == req[r].op
           new == [pc |-> "write", base |-> body, found |-> None]
<1>1. /\ IF op.kind = "get" \/ (op.kind # "remove" /\ body = None) THEN Quit(r) ELSE Become(r, new)
      /\ behind' = (behind \/ (op.kind = "get" /\ Outdated(op, req[r].books, body)))
      /\ UNCHANGED <<flavor, server, listCache, dirCache, faults, others, told, inPlace, overlapped, unasked>>
  BY DEF AfterFetch
<1>2. versions' = versions
  BY <1>1 DEF server
<1>3. InFlight(r) /\ CallOK(req[r], versions) /\ DOMAIN req = Request /\ DOMAIN req[r] = Fields
  BY DEF DavInv, CallsInv, InFlight, CallOK
<1>4. \/ Leaves(r)
      \/ Moves(r, new) /\ op.kind # "get"
  <2>1. CASE op.kind = "get" \/ (op.kind # "remove" /\ body = None)
    BY <1>1, <1>3, <2>1, Quitting
  <2>2. CASE ~ (op.kind = "get" \/ (op.kind # "remove" /\ body = None))
    BY <1>1, <1>3, <2>2, Moving DEF Fields
  <2>. QED
    BY <2>1, <2>2
<1>5. ASSUME Moves(r, new)
      PROVE  /\ CallOK(req'[r], versions') /\ req'[r].pc = "write" /\ req'[r].op = op
             /\ req'[r].base = body /\ req'[r].plan = req[r].plan
  <2>1. /\ req'[r].op = op /\ req'[r].phase = req[r].phase /\ req'[r].plan = req[r].plan
        /\ req'[r].pc = "write" /\ req'[r].base = body /\ DOMAIN req'[r] = Fields
    BY <1>5 DEF Moves, Fields
  <2>. QED
    BY <1>2, <1>3, <2>1 DEF CallOK, Stage
<1>6. /\ DOMAIN req' = Request
      /\ \A s \in Request : s # r => req'[s] = req[s]
      /\ req'[r] = Done \/ CallOK(req'[r], versions')
  BY <1>4, <1>5 DEF Moves, Leaves
<1>7. CallsInv'
  BY <1>2, <1>6, CallsMove DEF DavInv
<1>8. ASSUME flavor # "card", Alone
      PROVE  /\ CachesFresh' /\ ~ unasked' /\ ~ behind'
             /\ InFlight(r)' => Fresh(req[r])'
  <2>1. CachesFresh /\ ~ unasked /\ ~ behind
    BY <1>8 DEF DavInv, SoloInv
  <2>2. UNCHANGED Listing /\ \A k : Dir(k)' = Dir(k)
    BY <1>1 DEF server, Listing, cols, Dir, In
  <2>3. CachesFresh'
    BY <1>1, <2>1, <2>2 DEF CachesFresh
  <2>4. op.kind \in AboutOne
    BY <1>3 DEF CallOK
  <2>5. InFlight(r)' => Fresh(req[r])'
    <3>1. req'[r] = Done \/ (req'[r].pc = "write" /\ req'[r].op = op /\ req'[r].base = body)
      BY <1>4, <1>5 DEF Leaves
    <3>2. CASE req'[r] = Done
      BY <3>2 DEF InFlight, Done
    <3>3. CASE req'[r].pc = "write" /\ req'[r].op = op /\ req'[r].base = body
      <4>1. Holds(req[r].op, req[r].base)'
        BY <1>1, <1>8, <3>3 DEF Holds, Named, server
      <4>. QED
        BY <2>4, <3>3, <4>1 DEF Fresh, AboutOne
    <3>. QED
      BY <3>1, <3>2, <3>3
  <2>. QED
    BY <1>1, <1>8, <2>1, <2>3, <2>5
<1>9. SoloInv'
  BY <1>1, <1>3, <1>6, <1>8, SoloMoves DEF DavInv
<1>10. StoreInv' /\ MailInv' /\ CacheInv'
  BY <1>1, <1>2, StoreStays, MailStays DEF DavInv, CacheInv
<1>11. TellInv'
  <2>1. Letters(r)' = Letters(r)
    BY <1>3, <1>4, <1>5, LettersStay DEF Leaves, InFlight, CallOK, Stage
  <2>2. UNCHANGED <<files, versions>> /\ (Alone' => Alone)
    BY <1>1 DEF server, Alone
  <2>. QED
    BY <1>1, <1>6, <2>1, <2>2, TellStays DEF DavInv
<1>. QED
  BY <1>7, <1>9, <1>10, <1>11 DEF DavInv

\* A body with the tag of what is on the server is not outdated.
LEMMA CurrentBody ==
  ASSUME StoreInv, NEW op, NEW books, NEW body, NEW f \in files,
         f.href = op.href, body.tag = f.tag, body # None
  PROVE  ~ Outdated(op, books, body)
<1>1. SUFFICES ASSUME NEW v \in versions, v.href = op.href PROVE ~ (v.tag > body.tag)
  BY DEF Outdated, Outdates, KnownAt
<1>2. v.tag \in Int /\ f.tag \in Int
  BY DEF StoreInv, ServerOK, VersionsOK, Version, Resource
<1>. QED
  BY <1>1, <1>2 DEF StoreInv, VersionsOK

\* Nor is the answer that there is none, when there is none.
LEMMA CurrentNone ==
  ASSUME StoreInv, NEW op, OpOK(op, versions), op.kind \in AboutOne, op.col \in cols,
         {f \in Named(op.href) : f.col = op.col} = {}
  PROVE  ~ Outdated(op, Listing, None)
<1>1. PICK p \in versions : p.href = op.href /\ p.col = op.col
  BY DEF OpOK
<1>2. op.col \in Col /\ Listing[op.col] = ctag[op.col]
  BY DEF Listing, cols
<1>3. \A f \in files : f.href # op.href
  <2>1. SUFFICES ASSUME NEW f \in files, f.href = op.href PROVE FALSE
    OBVIOUS
  <2>2. f \in versions /\ f.col \in Col
    BY DEF StoreInv, ServerOK, Resource
  <2>3. f.col = op.col
    BY <1>1, <1>2, <2>1, <2>2 DEF StoreInv, HistoryOK
  <2>. QED
    BY <2>1, <2>3 DEF Named
<1>4. SUFFICES ASSUME NEW v \in KnownAt(op.href, ctag[op.col]), v.col \in Col,
                      \A w \in KnownAt(op.href, ctag[op.col]) : w.tag <= v.tag
               PROVE  FALSE
  BY <1>2 DEF Outdated, Outdates
<1>5. v \in versions /\ v.href = op.href
  BY <1>4 DEF KnownAt
<1>6. PICK d \in versions : d.href = v.href /\ v.tag < d.tag
  BY <1>3, <1>4, <1>5 DEF StoreInv, HistoryOK, Replaced, Deleted
<1>7. d.tag <= ctag[op.col]
  BY <1>1, <1>2, <1>5, <1>6 DEF StoreInv, HistoryOK
<1>8. d.tag <= v.tag
  BY <1>4, <1>5, <1>6, <1>7 DEF KnownAt
<1>9. d.tag \in Int /\ v.tag \in Int
  BY <1>5, <1>6 DEF StoreInv, VersionsOK, Version
<1>. QED
  BY <1>6, <1>8, <1>9

LEMMA FetchHitKeeps ==
  ASSUME DavInv, NEW r \in Request, FetchHit(r)
  PROVE  DavInv'
<1> DEFINE op == req[r].op
<1>1. PICK f \in CachedBodies(op) : AfterFetch(r, f)
  BY DEF FetchHit
<1>2. req[r].pc = "fetch" /\ bodies' = bodies
  BY DEF FetchHit
<1>3. InFlight(r) /\ CallOK(req[r], versions)
  BY <1>2 DEF DavInv, CallsInv, InFlight
<1>4. op.kind \in AboutOne /\ op.col \in Col
  BY <1>2, <1>3 DEF CallOK, OpOK, OpType, AboutOne
<1>5. /\ dirCache[op.col] # None /\ f \in bodies /\ f.href = op.href
      /\ <<f.href, f.tag>> \in dirCache[op.col]
  BY <1>1 DEF CachedBodies
<1>6. f \in versions /\ f \in Resource
  BY <1>5 DEF DavInv, CacheInv
<1>7. BodyOf(op, f, versions)
  BY <1>4, <1>5, <1>6 DEF BodyOf
<1>8. ASSUME flavor # "card", Alone PROVE ~ Outdated(op, req[r].books, f) /\ Holds(op, f)
  <2>1. dirCache[op.col] = Dir(op.col)
    BY <1>4, <1>5, <1>8 DEF DavInv, SoloInv, CachesFresh
  <2>2. PICK g \in In(op.col) : <<f.href, f.tag>> = <<g.href, g.tag>>
    BY <1>5, <2>1 DEF Dir
  <2>3. g \in files /\ g.href = op.href /\ f.tag = g.tag
    BY <1>5, <2>2 DEF In
  <2>4. ~ Outdated(op, req[r].books, f)
    BY <1>6, <2>3, CurrentBody, NoneAssumption DEF DavInv
  <2>5. f = g /\ Named(g.href) = {g}
    <3>1. g.tag \in Int
      BY <2>3 DEF DavInv, StoreInv, ServerOK, Resource
    <3>. QED
      BY <1>5, <1>6, <2>3, <3>1 DEF DavInv, StoreInv, ServerOK, VersionsOK
  <2>. QED
    BY <2>3, <2>4, <2>5 DEF Holds
<1>9. bodies' \subseteq versions /\ bodies' \subseteq Resource
  BY <1>2 DEF DavInv, CacheInv
<1>. QED
  BY <1>1, <1>2, <1>7, <1>8, <1>9, Reading

LEMMA FetchMissKeeps ==
  ASSUME DavInv, NEW r \in Request, FetchMiss(r)
  PROVE  DavInv'
<1> DEFINE op == req[r].op
           here == {f \in Named(op.href) : f.col = op.col}
           new == [pc |-> "fetching", found |-> here]
<1>1. /\ req[r].pc = "fetch"
      /\ dirCache' = dirCache \/ dirCache' = [dirCache EXCEPT ![op.col] = None]
      /\ IF op.col \in cols THEN Become(r, new) ELSE Quit(r)
      /\ UNCHANGED <<flavor, server, listCache, bodies, faults, others, history>>
  BY DEF FetchMiss, ExpireDir
<1>2. versions' = versions /\ UNCHANGED <<told, overlapped, unasked, behind>>
  BY <1>1 DEF server, history
<1>3. InFlight(r) /\ CallOK(req[r], versions) /\ DOMAIN req = Request /\ DOMAIN req[r] = Fields
  BY <1>1 DEF DavInv, CallsInv, InFlight, CallOK
<1>4. op.col \in cols => Moves(r, new)
  BY <1>1, <1>3, Moving DEF Fields
<1>5. op.col \notin cols => Leaves(r)
  BY <1>1, <1>3, Quitting
<1>6. /\ DOMAIN req' = Request
      /\ \A s \in Request : s # r => req'[s] = req[s]
  BY <1>4, <1>5 DEF Moves, Leaves
<1>7. ASSUME op.col \in cols
      PROVE  /\ CallOK(req'[r], versions')
             /\ req'[r].pc = "fetching" /\ req'[r].found = here /\ req'[r].op = op
             /\ req'[r].books = req[r].books /\ req'[r].plan = req[r].plan
  <2>1. /\ req'[r].op = op /\ req'[r].phase = req[r].phase /\ req'[r].plan = req[r].plan
        /\ req'[r].base = req[r].base /\ req'[r].books = req[r].books
        /\ req'[r].pc = "fetching" /\ req'[r].found = here /\ DOMAIN req'[r] = Fields
    BY <1>4, <1>7 DEF Moves, Fields
  <2>2. op.kind \in AboutOne
    BY <1>1, <1>3 DEF CallOK
  <2>3. \A f \in here : BodyOf(op, f, versions)
    BY <2>2 DEF BodyOf, Named, DavInv, StoreInv, ServerOK
  <2> HIDE DEF here
  <2>. QED
    BY <1>1, <1>2, <1>3, <2>1, <2>2, <2>3 DEF CallOK, Stage
<1>8. /\ req'[r] = Done \/ CallOK(req'[r], versions')
      /\ \/ req'[r] = Done
         \/ /\ op.col \in cols /\ req'[r].pc = "fetching" /\ req'[r].found = here
            /\ req'[r].op = op /\ req'[r].books = req[r].books
  BY <1>5, <1>7 DEF Leaves
<1>9. CallsInv'
  BY <1>2, <1>6, <1>8, CallsMove DEF DavInv
<1>10. ASSUME flavor # "card", Alone
       PROVE  /\ CachesFresh' /\ ~ unasked' /\ ~ behind'
              /\ InFlight(r)' => Fresh(req[r])'
  <2>1. CachesFresh /\ ~ unasked /\ ~ behind /\ Fresh(req[r])
    BY <1>3, <1>10 DEF DavInv, SoloInv
  <2>2. UNCHANGED <<Listing, cols, ctag, files>> /\ \A k : Dir(k)' = Dir(k)
    BY <1>1 DEF server, Listing, cols, Dir, In
  <2>3. DOMAIN dirCache = Col
    BY DEF DavInv, CacheInv
  <2>4. CachesFresh'
    BY <1>1, <2>1, <2>2, <2>3 DEF CachesFresh
  <2>5. op.kind = "get" => req[r].books = Listing
    BY <1>1, <2>1 DEF Fresh
  <2>7. InFlight(r)' => Fresh(req[r])'
    <3>1. CASE req'[r] = Done
      BY <3>1 DEF InFlight, Done
    <3>2. CASE req'[r] # Done
      <4>1. /\ req'[r].pc = "fetching" /\ req'[r].op = op /\ op.col \in cols'
            /\ req'[r].found = here
            /\ op.kind = "get" => req'[r].books = Listing'
        BY <1>8, <2>2, <2>5, <3>2
      <4>2. files' = files
        BY <2>2
      <4>3. req'[r].found = {f \in {x \in files' : x.href = req'[r].op.href} : f.col = req'[r].op.col}
        BY <4>1, <4>2 DEF Named
      <4>. QED
        BY <4>1, <4>3 DEF Fresh, Named
    <3>. QED
      BY <3>1, <3>2
  <2>. QED
    BY <1>2, <2>1, <2>4, <2>7
<1>11. SoloInv'
  BY <1>1, <1>2, <1>3, <1>6, <1>10, SoloMoves DEF DavInv
<1>12. StoreInv' /\ MailInv' /\ CacheInv'
  BY <1>1, <1>2, StoreStays, MailStays DEF DavInv, CacheInv
<1>13. TellInv'
  <2>1. Letters(r)' = Letters(r)
    <3>1. CASE op.col \in cols
      BY <1>3, <1>7, <3>1, LettersStay DEF InFlight
    <3>2. CASE op.col \notin cols
      BY <1>1, <1>3, <1>5, <3>2, LettersStay DEF Leaves, CallOK
    <3>. QED
      BY <3>1, <3>2
  <2>2. UNCHANGED <<files, versions, inPlace>> /\ (Alone' => Alone)
    BY <1>1, <1>2 DEF server, history, Alone
  <2>. QED
    BY <1>1, <1>2, <1>6, <2>1, <2>2, TellStays DEF DavInv
<1>. QED
  BY <1>9, <1>11, <1>12, <1>13 DEF DavInv

LEMMA FetchedKeeps ==
  ASSUME DavInv, NEW r \in Request, Fetched(r)
  PROVE  DavInv'
<1> DEFINE op == req[r].op
           found == req[r].found
<1>1. /\ req[r].pc = "fetching" /\ bodies' = bodies \cup found
      /\ IF found = {} THEN AfterFetch(r, None) ELSE \E f \in found : AfterFetch(r, f)
  BY DEF Fetched, remember
<1>2. InFlight(r) /\ CallOK(req[r], versions)
  BY <1>1 DEF DavInv, CallsInv, InFlight
<1>3. /\ op.kind \in AboutOne /\ OpOK(op, versions)
      /\ \A f \in found : BodyOf(op, f, versions)
  BY <1>1, <1>2 DEF CallOK
<1>4. bodies' \subseteq versions /\ bodies' \subseteq Resource
  BY <1>1, <1>3 DEF BodyOf, DavInv, CacheInv
<1>5. flavor # "card" /\ Alone =>
        /\ op.col \in cols /\ found = {f \in Named(op.href) : f.col = op.col}
        /\ op.kind = "get" => req[r].books = Listing
  BY <1>1, <1>2 DEF DavInv, SoloInv, Fresh
<1>6. flavor # "card" /\ Alone => found = Named(op.href)
  <2>1. SUFFICES ASSUME flavor # "card", Alone, NEW f \in Named(op.href) PROVE f.col = op.col
    BY <1>5
  <2>2. PICK v \in versions : v.href = op.href /\ v.col = op.col
    BY <1>3 DEF OpOK
  <2>3. f \in versions /\ f.href = op.href /\ f.col \in Col
    BY DEF Named, DavInv, StoreInv, ServerOK, Resource
  <2>4. op.col \in Col
    BY <1>5, <2>1 DEF cols
  <2>. QED
    BY <2>2, <2>3, <2>4 DEF DavInv, StoreInv, HistoryOK
<1>7. CASE found = {}
  <2>1. ASSUME flavor # "card", Alone, op.kind = "get" PROVE ~ Outdated(op, req[r].books, None)
    BY <1>3, <1>5, <1>7, <2>1, CurrentNone DEF DavInv
  <2>2. flavor # "card" /\ Alone => Holds(op, None)
    BY <1>7, <1>6 DEF Holds
  <2>. QED
    BY <1>1, <1>4, <1>7, <2>1, <2>2, Reading
<1>8. CASE found # {}
  <2>1. PICK f \in found : AfterFetch(r, f)
    BY <1>1, <1>8
  <2>2. BodyOf(op, f, versions) /\ f # None
    BY <1>3, NoneAssumption DEF BodyOf
  <2>3. ASSUME flavor # "card", Alone PROVE ~ Outdated(op, req[r].books, f)
    BY <1>5, <2>2, <2>3, CurrentBody DEF DavInv, Named
  <2>4. ASSUME flavor # "card", Alone PROVE Holds(op, f)
    <3>1. f \in files /\ f.href = op.href /\ f \in Named(op.href)
      BY <1>6, <2>4 DEF Named
    <3>2. Named(op.href) = {f}
      BY <3>1 DEF DavInv, StoreInv, ServerOK
    <3>. QED
      BY <3>1, <3>2 DEF Holds
  <2>. QED
    BY <1>1, <1>4, <2>1, <2>2, <2>3, <2>4, Reading
<1>. QED
  BY <1>7, <1>8

-----------------------------------------------------------------------------
(* The server takes a write.                                               *)

LEMMA PutKeepsStore ==
  ASSUME StoreInv, NEW f \in Resource, f.tag = now, f.seq < now, f.col \in cols,
         f.href \notin used \/ \E b \in files : b.href = f.href /\ b.col = f.col,
         Put(f)
  PROVE  StoreInv' /\ versions \subseteq versions' /\ f \in versions'
<1>1. /\ clock' = now /\ now <= MaxClock
      /\ files' = (files \ Named(f.href)) \cup {f}
      /\ ctag' = [ctag EXCEPT ![f.col] = now]
      /\ versions' = versions \cup {f}
  BY DEF Put, Lives, Record
<1>2. /\ clock \in Nat /\ now = clock + 1 /\ now \in 1..MaxClock /\ f.col \in Col
      /\ ctag \in [Col -> 0..MaxClock] /\ MaxClock \in Nat
  BY <1>1, DavAssumption DEF StoreInv, ServerOK, now, Resource
<1>3. cols' = cols
  BY <1>1, <1>2 DEF cols
<1>4. \A v \in versions : v.tag \in Int /\ v.tag < now
  BY <1>2 DEF StoreInv, VersionsOK, Version
<1>5. \A v \in versions : v.href = f.href /\ v.col \in Col => v.col = f.col
  <2>1. SUFFICES ASSUME NEW v \in versions, v.href = f.href, v.col \in Col PROVE v.col = f.col
    OBVIOUS
  <2>2. f.href \in used
    BY <2>1 DEF used
  <2>3. PICK b \in files : b.href = f.href /\ b.col = f.col
    BY <2>2
  <2>4. b \in versions
    BY DEF StoreInv, ServerOK
  <2>. QED
    BY <1>2, <2>1, <2>3, <2>4 DEF StoreInv, HistoryOK
<1>6. \A g \in files' : g = f \/ (g \in files /\ g.href # f.href)
  BY <1>1 DEF Named
<1>7. ServerOK'
  <2>1. clock' \in 0..MaxClock /\ ctag' \in [Col -> 0..MaxClock]
    BY <1>1, <1>2
  <2>2. files' \subseteq Resource /\ files' \subseteq versions'
    BY <1>1 DEF StoreInv, ServerOK
  <2>3. ASSUME NEW g \in files' PROVE g.col \in cols' /\ Named(g.href)' = {g} /\ g.seq < g.tag
    <3>1. CASE g = f
      <4>1. \A x \in files' : x.href = f.href <=> x = f
        BY <1>6
      <4>2. f \in files'
        BY <1>1
      <4>. QED
        BY <1>3, <3>1, <4>1, <4>2 DEF Named
    <3>2. CASE g \in files /\ g.href # f.href
      <4>1. g.col \in cols /\ Named(g.href) = {g} /\ g.seq < g.tag
        BY <3>2 DEF StoreInv, ServerOK
      <4>2. \A x \in files' : x.href = g.href <=> x = g
        BY <1>6, <3>2, <4>1 DEF Named
      <4>. QED
        BY <1>3, <4>1, <4>2 DEF Named
    <3>. QED
      BY <1>6, <3>1, <3>2
  <2>. QED
    BY <2>1, <2>2, <2>3 DEF ServerOK
<1>8. VersionsOK'
  <2>1. versions' \subseteq Version
    BY <1>1 DEF StoreInv, VersionsOK, Version, Resource
  <2>2. \A v \in versions' : v.tag <= clock'
    BY <1>1, <1>2, <1>4
  <2>3. ASSUME NEW g \in files', NEW v \in versions', v.href = g.href
        PROVE  v = g \/ v.tag < g.tag
    <3>1. CASE g = f
      BY <1>1, <1>4, <3>1
    <3>2. CASE g \in files /\ g.href # f.href
      BY <1>1, <2>3, <3>2 DEF StoreInv, VersionsOK
    <3>. QED
      BY <1>6, <3>1, <3>2
  <2>. QED
    BY <2>1, <2>2, <2>3 DEF VersionsOK
<1>9. HistoryOK'
  <2>1. ASSUME NEW v \in versions', v.col \in Col PROVE Replaced(v)' \/ Deleted(v)'
    <3>1. CASE v.href = f.href
      BY <1>1, <3>1 DEF Replaced
    <3>2. CASE v.href # f.href
      <4>1. v \in versions
        BY <1>1, <3>2
      <4>2. Replaced(v) \/ Deleted(v)
        BY <2>1, <4>1 DEF StoreInv, HistoryOK
      <4>3. Replaced(v) => Replaced(v)'
        BY <1>1, <3>2 DEF Replaced, Named
      <4>4. Deleted(v) => Deleted(v)'
        BY <1>1 DEF Deleted
      <4>. QED
        BY <4>2, <4>3, <4>4
    <3>. QED
      BY <3>1, <3>2
  <2>2. ASSUME NEW v \in versions', NEW w \in versions', v.href = w.href, v.col \in Col
        PROVE  (w.col \in Col => w.col = v.col) /\ (v.col \in cols' => w.tag <= ctag'[v.col])
    <3>1. CASE v.href = f.href
      <4>1. v.col = f.col /\ (w.col \in Col => w.col = f.col)
        BY <1>1, <1>5, <2>2, <3>1
      <4>2. w.tag <= now /\ ctag'[f.col] = now
        BY <1>1, <1>2, <1>4
      <4>. QED
        BY <4>1, <4>2
    <3>2. CASE v.href # f.href
      <4>1. v \in versions /\ w \in versions
        BY <1>1, <2>2, <3>2
      <4>2. (w.col \in Col => w.col = v.col) /\ (v.col \in cols => w.tag <= ctag[v.col])
        BY <2>2, <4>1 DEF StoreInv, HistoryOK
      <4>3. ctag'[v.col] = ctag[v.col] \/ ctag'[v.col] = now
        BY <1>1, <1>2, <2>2
      <4>. QED
        BY <1>2, <1>3, <1>4, <4>1, <4>2, <4>3
    <3>. QED
      BY <3>1, <3>2
  <2>. QED
    BY <2>1, <2>2 DEF HistoryOK
<1>. QED
  BY <1>1, <1>7, <1>8, <1>9 DEF StoreInv

\* The server forgets resources of one collection, and keeps a version that says so of each.
Loss(gone, how, c) ==
  /\ gone \subseteq files /\ how \in {None, "all"} /\ c \in Col
  /\ \A f \in gone : f.col = c
  /\ now <= MaxClock /\ clock' = now /\ files' = files \ gone
  /\ versions' = versions \cup {Dead(f, how) : f \in gone}
  /\ \/ ctag' = [ctag EXCEPT ![c] = now] /\ c \in cols
     \/ ctag' = [ctag EXCEPT ![c] = 0] /\ gone = In(c)

LEMMA LossKeepsStore ==
  ASSUME StoreInv, NEW gone, NEW how, NEW c, Loss(gone, how, c)
  PROVE  /\ StoreInv' /\ versions \subseteq versions'
         /\ \A f \in gone : \E v \in versions' : v.href = f.href /\ v.col \notin Col
<1>0. /\ gone \subseteq files /\ how \in {None, "all"} /\ c \in Col
      /\ \A f \in gone : f.col = c
      /\ now <= MaxClock /\ clock' = now /\ files' = files \ gone
      /\ versions' = versions \cup {Dead(f, how) : f \in gone}
      /\ \/ ctag' = [ctag EXCEPT ![c] = now] /\ c \in cols
         \/ ctag' = [ctag EXCEPT ![c] = 0] /\ gone = In(c)
  BY DEF Loss
<1>1. /\ clock \in Nat /\ now = clock + 1 /\ now \in 1..MaxClock /\ MaxClock \in Nat
      /\ ctag \in [Col -> 0..MaxClock]
  BY <1>0, DavAssumption DEF StoreInv, ServerOK, now
<1>2. \A v \in versions : v.tag \in Int /\ v.tag < now
  BY <1>0, <1>1 DEF StoreInv, VersionsOK, Version
<1>3. how \notin Col
  BY <1>0, DavAssumption
<1>4. \A f \in gone : /\ Dead(f, how) \in Version /\ Dead(f, how).href = f.href
                      /\ Dead(f, how).tag = now /\ Dead(f, how).col = how
  <2>1. ASSUME NEW f \in gone
        PROVE  /\ Dead(f, how) \in Version /\ Dead(f, how).href = f.href
               /\ Dead(f, how).tag = now /\ Dead(f, how).col = how
    <3>1. f \in Resource
      BY <1>0 DEF StoreInv, ServerOK
    <3>. QED
      BY <1>0, <1>1, <3>1 DEF Dead, Resource, Version
  <2>. QED
    BY <1>0, <2>1
<1>5. \A v \in versions' :
        \/ v \in versions
        \/ \E f \in gone : v \in Version /\ v.href = f.href /\ v.tag = now /\ v.col = how
  BY <1>0, <1>4
<1>6. \A f \in gone : \E v \in versions' : v.href = f.href /\ v.col \notin Col /\ v.tag = now
  BY <1>0, <1>3, <1>4
<1>7. \/ cols' = cols
      \/ cols' = cols \ {c} /\ gone = In(c)
  BY <1>0, <1>1 DEF cols
<1>8. ServerOK'
  <2>1. clock' \in 0..MaxClock /\ ctag' \in [Col -> 0..MaxClock]
    BY <1>0, <1>1
  <2>2. files' \subseteq Resource /\ files' \subseteq versions'
    BY <1>0 DEF StoreInv, ServerOK
  <2>3. ASSUME NEW g \in files' PROVE g.col \in cols' /\ Named(g.href)' = {g} /\ g.seq < g.tag
    <3>1. g \in files /\ g \notin gone
      BY <1>0
    <3>2. g.col \in cols /\ Named(g.href) = {g} /\ g.seq < g.tag
      BY <1>0, <3>1 DEF StoreInv, ServerOK
    <3>3. g.col \in cols'
      BY <1>0, <1>7, <3>1, <3>2 DEF In
    <3>4. Named(g.href)' = {g}
      BY <1>0, <3>1, <3>2 DEF Named
    <3>. QED
      BY <1>0, <3>2, <3>3, <3>4
  <2>. QED
    BY <1>0, <2>1, <2>2, <2>3 DEF ServerOK
<1>9. VersionsOK'
  <2>1. versions' \subseteq Version
    BY <1>0, <1>5 DEF StoreInv, VersionsOK
  <2>2. \A v \in versions' : v.tag <= clock'
    BY <1>0, <1>1, <1>2, <1>5
  <2>3. ASSUME NEW g \in files', NEW v \in versions', v.href = g.href
        PROVE  v = g \/ v.tag < g.tag
    <3>1. g \in files /\ g \notin gone /\ Named(g.href) = {g}
      BY <1>0 DEF StoreInv, ServerOK
    <3>2. \A f \in gone : f.href # g.href
      BY <1>0, <3>1 DEF Named
    <3>3. v \in versions
      BY <1>0, <1>5, <2>3, <3>2
    <3>. QED
      BY <1>0, <2>3, <3>1, <3>3 DEF StoreInv, VersionsOK
  <2>. QED
    BY <1>0, <2>1, <2>2, <2>3 DEF VersionsOK
<1>10. HistoryOK'
  <2>1. ASSUME NEW v \in versions', v.col \in Col PROVE Replaced(v)' \/ Deleted(v)'
    <3>1. v \in versions
      BY <1>0, <1>3, <1>5, <2>1
    <3>2. Replaced(v) \/ Deleted(v)
      BY <1>0, <2>1, <3>1 DEF StoreInv, HistoryOK
    <3>3. CASE Replaced(v)
      <4>1. PICK f \in files : f.href = v.href
        BY <1>0, <3>3 DEF Replaced
      <4>2. CASE f \in gone
        BY <1>0, <1>2, <1>6, <3>1, <4>1, <4>2 DEF Deleted
      <4>3. CASE f \notin gone
        BY <1>0, <4>1, <4>3 DEF Replaced
      <4>. QED
        BY <1>0, <4>2, <4>3
    <3>4. CASE Deleted(v)
      BY <1>0, <3>4 DEF Deleted
    <3>. QED
      BY <1>0, <3>2, <3>3, <3>4
  <2>2. ASSUME NEW v \in versions', NEW w \in versions', v.href = w.href, v.col \in Col
        PROVE  (w.col \in Col => w.col = v.col) /\ (v.col \in cols' => w.tag <= ctag'[v.col])
    <3>1. v \in versions
      BY <1>0, <1>3, <1>5, <2>2
    <3>2. v.col \in cols' => v.col \in cols
      BY <1>0, <1>7
    <3>3. v.col \in cols' => \/ ctag'[v.col] = ctag[v.col]
                             \/ ctag'[v.col] = now
      BY <1>0, <1>1, <2>2 DEF cols
    <3>4. CASE w \in versions
      <4>1. (w.col \in Col => w.col = v.col) /\ (v.col \in cols => w.tag <= ctag[v.col])
        BY <1>0, <2>2, <3>1, <3>4 DEF StoreInv, HistoryOK
      <4>. QED
        BY <1>0, <1>1, <1>2, <3>2, <3>3, <3>4, <4>1
    <3>5. CASE w \notin versions
      <4>1. PICK f \in gone : w.href = f.href /\ w.tag = now /\ w.col = how
        BY <1>0, <1>5, <3>5
      <4>2. f \in versions /\ f.col = c
        BY <1>0 DEF StoreInv, ServerOK
      <4>3. v.col = c
        BY <1>0, <2>2, <3>1, <4>1, <4>2 DEF StoreInv, HistoryOK
      <4>4. c \in cols' => ctag'[c] = now
        BY <1>0, <1>1 DEF cols
      <4>. QED
        BY <1>0, <1>1, <1>3, <4>1, <4>3, <4>4
    <3>. QED
      BY <1>0, <3>4, <3>5
  <2>. QED
    BY <1>0, <2>1, <2>2 DEF HistoryOK
<1>. QED
  BY <1>0, <1>6, <1>8, <1>9, <1>10 DEF StoreInv

LEMMA DeleteKeepsStore ==
  ASSUME StoreInv, NEW f \in files, Delete(f)
  PROVE  /\ StoreInv' /\ versions \subseteq versions'
         /\ \E v \in versions' : v.href = f.href /\ v.col \notin Col
<1>1. f.col \in cols /\ f.col \in Col
  BY DEF StoreInv, ServerOK, Resource
<1>2. Loss({f}, None, f.col)
  BY <1>1 DEF Loss, Delete, Lives, Record
<1>. QED
  BY <1>2, LossKeepsStore

LEMMA DeleteColKeepsStore ==
  ASSUME StoreInv, NEW c \in Col, DeleteCol(c)
  PROVE  StoreInv' /\ versions \subseteq versions'
<1>1. Loss(In(c), "all", c)
  BY DEF Loss, DeleteCol, Record, In
<1>. QED
  BY <1>1, LossKeepsStore

LEMMA MakeColKeepsStore ==
  ASSUME StoreInv, NEW c, c \notin cols, MakeCol(c)
  PROVE  StoreInv' /\ versions \subseteq versions'
<1>1. /\ clock' = now /\ now <= MaxClock /\ ctag' = [ctag EXCEPT ![c] = now]
      /\ UNCHANGED <<files, versions>>
  BY DEF MakeCol
<1>2. /\ clock \in Nat /\ now = clock + 1 /\ now \in 1..MaxClock /\ MaxClock \in Nat
      /\ ctag \in [Col -> 0..MaxClock]
  BY <1>1, DavAssumption DEF StoreInv, ServerOK, now
<1>3. \A v \in versions : v.tag \in Int /\ v.tag < now
  BY <1>2 DEF StoreInv, VersionsOK, Version
<1>4. \A k \in Col : ctag'[k] = IF k = c THEN now ELSE ctag[k]
  BY <1>1, <1>2
<1>5. cols \subseteq cols' /\ \A k \in cols' : k = c \/ k \in cols
  BY <1>2, <1>4 DEF cols
<1>6. ServerOK'
  <2>1. clock' \in 0..MaxClock /\ ctag' \in [Col -> 0..MaxClock]
    <3>1. ctag' = [k \in Col |-> IF k = c THEN now ELSE ctag[k]]
      BY <1>1, <1>2
    <3>2. now \in 0..MaxClock /\ \A k \in Col : ctag[k] \in 0..MaxClock
      BY <1>2
    <3>3. \A k \in Col : (IF k = c THEN now ELSE ctag[k]) \in 0..MaxClock
      BY <3>2
    <3>. QED
      BY <1>1, <3>1, <3>2, <3>3
  <2>2. ASSUME NEW g \in files' PROVE g.col \in cols' /\ Named(g.href)' = {g} /\ g.seq < g.tag
    BY <1>1, <1>5 DEF StoreInv, ServerOK, Named
  <2>. QED
    BY <1>1, <2>1, <2>2 DEF StoreInv, ServerOK
<1>7. VersionsOK'
  BY <1>1, <1>2, <1>3 DEF StoreInv, VersionsOK
<1>8. HistoryOK'
  <2>1. \A v \in versions' : v.col \in Col => Replaced(v)' \/ Deleted(v)'
    BY <1>1 DEF StoreInv, HistoryOK, Replaced, Deleted
  <2>. QED
    BY <1>1, <1>2, <1>3, <1>4, <1>5, <2>1 DEF StoreInv, HistoryOK
<1>. QED
  BY <1>1, <1>6, <1>7, <1>8 DEF StoreInv

-----------------------------------------------------------------------------
(* The mail a write owes.                                                  *)

LEMMA NoMail ==
  ASSUME NEW vs
  PROVE  PlanOK(<<>>, vs)
BY DEF PlanOK

LEMMA OneMail ==
  ASSUME NEW vs, NEW m \in Letter, Warranted(m, vs)
  PROVE  PlanOK(<<m>>, vs)
BY DEF PlanOK

LEMMA MoreMail ==
  ASSUME NEW vs, NEW p, NEW q, PlanOK(p, vs), PlanOK(q, vs)
  PROVE  PlanOK(p \o q, vs)
<1>1. p \in Seq(Letter) /\ q \in Seq(Letter) /\ Len(p) \in Nat /\ Len(q) \in Nat
  BY DEF PlanOK
<1>2. /\ p \o q \in Seq(Letter) /\ Len(p \o q) = Len(p) + Len(q)
      /\ \A i \in 1..(Len(p) + Len(q)) :
           (p \o q)[i] = IF i <= Len(p) THEN p[i] ELSE q[i - Len(p)]
  BY <1>1
<1>3. ASSUME NEW i \in 1..Len(p \o q) PROVE Warranted((p \o q)[i], vs)
  <2>1. CASE i <= Len(p)
    BY <1>1, <1>2, <2>1 DEF PlanOK
  <2>2. CASE ~ (i <= Len(p))
    <3>1. i - Len(p) \in 1..Len(q)
      BY <1>1, <1>2, <2>2
    <3>. QED
      BY <1>2, <2>2, <3>1 DEF PlanOK
  <2>. QED
    BY <2>1, <2>2
<1>. QED
  BY <1>2, <1>3 DEF PlanOK

LEMMA InviteIsWarranted ==
  ASSUME NEW vs, NEW f \in Resource, f \in vs
  PROVE  PlanOK(Invite(f), vs)
<1> DEFINE m == Message("REQUEST", f.href, f.guests, f.seq)
<1>1. m \in Letter /\ Warranted(m, vs)
  BY DavAssumption DEF Message, Letter, Resource, Warranted
<1>2. Invite(f) = IF f.guests = {} THEN <<>> ELSE <<m>>
  BY DEF Invite
<1> HIDE DEF m
<1>. QED
  BY <1>1, <1>2, NoMail, OneMail

LEMMA CancelIsWarranted ==
  ASSUME NEW vs, NEW f \in Resource, NEW to \in SUBSET Guest,
         \A g \in to : \E v \in vs : v.href = f.href /\ (v.col \notin Col \/ g \notin v.guests)
  PROVE  PlanOK(Cancel(f, to), vs)
<1> DEFINE m == Message("CANCEL", f.href, to, f.seq + 1)
<1>1. m \in Letter /\ Warranted(m, vs)
  BY DavAssumption DEF Message, Letter, Resource, Warranted
<1>2. Cancel(f, to) = IF to = {} THEN <<>> ELSE <<m>>
  BY DEF Cancel
<1> HIDE DEF m
<1>. QED
  BY <1>1, <1>2, NoMail, OneMail

LEMMA ReplyIsWarranted ==
  ASSUME NEW vs, NEW before, NEW f \in Resource, f \in vs
  PROVE  PlanOK(reply(before, f), vs)
<1> DEFINE new == f.guests \ (IF before = None THEN {} ELSE before.guests)
           m == Message("REPLY", f.href, new, f.seq)
<1>1. m \in Letter /\ Warranted(m, vs)
  BY DavAssumption DEF Message, Letter, Resource, Warranted
<1>2. reply(before, f) = IF new = {} THEN <<>> ELSE <<m>>
  BY NoneAssumption DEF reply
<1> HIDE DEF m, new
<1>. QED
  BY <1>1, <1>2, NoMail, OneMail

\* Of a write that stores a resource.
LEMMA StoredIsWarranted ==
  ASSUME NEW vs, NEW f \in Resource, f \in vs,
         NEW before, before = None \/ (before \in Resource /\ before.href = f.href)
  PROVE  PlanOK(schedule(before, f), vs)
<1>1. CASE flavor = "cal"
  <2> DEFINE dropped == IF before = None THEN <<>> ELSE Cancel(before, before.guests \ f.guests)
  <2>1. PlanOK(dropped, vs)
    <3>1. CASE before = None
      BY <3>1, NoMail
    <3>2. CASE before # None
      <4>1. before.guests \ f.guests \in SUBSET Guest
        BY <3>2 DEF Resource
      <4>. QED
        BY <3>2, <4>1, CancelIsWarranted
    <3>. QED
      BY <3>1, <3>2
  <2>2. schedule(before, f) = Invite(f) \o dropped
    BY <1>1, NoneAssumption DEF schedule, planScheduling
  <2> HIDE DEF dropped
  <2>. QED
    BY <2>1, <2>2, InviteIsWarranted, MoreMail
<1>2. CASE flavor = "guest"
  BY <1>2, ReplyIsWarranted DEF schedule
<1>3. CASE flavor \notin {"cal", "guest"}
  BY <1>3, NoMail DEF schedule
<1>. QED
  BY <1>1, <1>2, <1>3

\* Of one that takes a resource away, or finds it gone.
LEMMA RemovedIsWarranted ==
  ASSUME NEW vs, NEW before,
         before = None \/ (before \in Resource /\ \E v \in vs : v.href = before.href /\ v.col \notin Col)
  PROVE  PlanOK(schedule(before, None), vs)
<1>1. CASE before = None \/ flavor # "cal"
  <2>1. schedule(before, None) = <<>>
    BY <1>1 DEF schedule, planScheduling, reply
  <2>. QED
    BY <2>1, NoMail
<1>2. CASE before # None /\ flavor = "cal"
  <2>1. schedule(before, None) = Cancel(before, before.guests)
    BY <1>2 DEF schedule, planScheduling
  <2>2. before.guests \in SUBSET Guest
    BY <1>2 DEF Resource
  <2>. QED
    BY <1>2, <2>1, <2>2, CancelIsWarranted
<1>. QED
  BY <1>1, <1>2

-----------------------------------------------------------------------------
(* A call writes.                                                          *)

\* A failure is counted while there is room for it.
LEMMA FaultsAreBounded ==
  ASSUME CacheInv, NEW a \in Outcomes, CountFault(a), UNCHANGED <<flavor, others>>
  PROVE  faults' \in Nat /\ faults' + others' <= Budget[flavor']
<1>1. faults \in Nat /\ others \in Nat /\ Budget[flavor] \in Nat /\ faults + others <= Budget[flavor]
  BY DavAssumption DEF CacheInv
<1>2. CASE a \in {"no", "lost"}
  <2> DEFINE busy == {r \in Request : req[r].pc # "idle"}
  <2>1. Cardinality(busy) + faults + others < Budget[flavor]
    BY <1>2 DEF Outcomes, Calm
  <2>2. Cardinality(busy) \in Nat
    BY DavAssumption, FS_Subset, FS_CardinalityType
  <2> HIDE DEF busy
  <2>. QED
    BY <1>1, <1>2, <2>1, <2>2 DEF CountFault
<1>3. CASE a \notin {"no", "lost"}
  BY <1>1, <1>3 DEF CountFault
<1>. QED
  BY <1>2, <1>3

LEMMA IssueKeeps ==
  ASSUME DavInv, NEW r \in Request, Issue(r)
  PROVE  DavInv'
<1> DEFINE new == [pc |-> "sent"]
<1>1. /\ req[r].pc = "write" /\ InvalidateOnWrite /\ Become(r, new)
      /\ UNCHANGED <<flavor, server, bodies, faults, others, history>>
  BY DEF Issue
<1>2. versions' = versions /\ UNCHANGED <<told, overlapped, unasked, behind>>
  BY <1>1 DEF server, history
<1>3. InFlight(r) /\ CallOK(req[r], versions) /\ DOMAIN req = Request /\ DOMAIN req[r] = Fields
  BY <1>1 DEF DavInv, CallsInv, InFlight, CallOK
<1>4. Moves(r, new)
  BY <1>1, <1>3, Moving DEF Fields
<1>5. /\ listCache' = None /\ DOMAIN dirCache' = Col
      /\ flavor # "card" => \A c \in Col : dirCache'[c] = None
  <2>1. DOMAIN dirCache = Col
    BY DEF DavInv, CacheInv
  <2>. QED
    BY <1>1, <2>1 DEF InvalidateOnWrite, ForgetList, ForgetListings
<1>6. CallOK(req'[r], versions')
  BY <1>1, <1>2, <1>3, <1>4 DEF Moves, CallOK, Fields, Stage
<1>7. CallsInv'
  BY <1>2, <1>4, <1>6, CallsMove DEF DavInv, Moves
<1>8. ASSUME flavor # "card", Alone
      PROVE  CachesFresh' /\ ~ unasked' /\ ~ behind' /\ Fresh(req[r])'
  <2>1. Fresh(req[r]) /\ ~ unasked /\ ~ behind
    BY <1>3, <1>8 DEF DavInv, SoloInv
  <2>2. \A k : In(k)' = In(k)
    BY <1>1 DEF server, In
  <2>3. CachesFresh'
    BY <1>5, <1>8 DEF CachesFresh
  <2>4. req'[r].pc = "sent" /\ req'[r].op = req[r].op /\ req'[r].base = req[r].base
    BY <1>4 DEF Moves, Fields
  <2>5. Holds(req[r].op, req[r].base)' <=> Holds(req[r].op, req[r].base)
    BY <1>1, <2>4 DEF Holds, Named, server
  <2>6. Fresh(req[r])'
    BY <1>1, <1>5, <1>8, <2>1, <2>2, <2>4, <2>5 DEF Fresh
  <2>. QED
    BY <1>2, <2>1, <2>3, <2>6
<1>9. SoloInv'
  BY <1>1, <1>2, <1>3, <1>4, <1>8, SoloMoves DEF DavInv, Moves
<1>10. StoreInv' /\ MailInv'
  BY <1>1, <1>2, StoreStays, MailStays DEF DavInv
<1>11. CacheInv'
  BY <1>1, <1>2, <1>5 DEF DavInv, CacheInv
<1>12. TellInv'
  <2>1. Letters(r)' = Letters(r)
    BY <1>3, <1>4, LettersStay DEF Moves, InFlight, Fields
  <2>2. UNCHANGED <<files, versions, inPlace>> /\ (Alone' => Alone)
    BY <1>1, <1>2 DEF server, history, Alone
  <2>. QED
    BY <1>1, <1>2, <1>4, <2>1, <2>2, TellStays DEF DavInv, Moves
<1>. QED
  BY <1>7, <1>9, <1>10, <1>11, <1>12 DEF DavInv

\* A write that is over: the call reads the list again, with mail to send.
LEMMA SucceedOK ==
  ASSUME NEW r \in Request, req[r].pc = "sent", CallOK(req[r], versions), DOMAIN req = Request,
         versions \subseteq versions', NEW plan, PlanOK(plan, versions'),
         doing(r) = "make" => plan = <<>>, Succeed(r, plan)
  PROVE  /\ DOMAIN req' = Request
         /\ \A s \in Request : s # r => req'[s] = req[s]
         /\ CallOK(req'[r], versions') /\ req'[r].pc = "list" /\ req'[r].plan = plan
<1> DEFINE new == [pc |-> "list", phase |-> IF doing(r) = "make" THEN "make" ELSE "last",
                   plan |-> plan, base |-> None]
<1>1. Moves(r, new)
  <2>1. DOMAIN req[r] = Fields
    BY DEF CallOK
  <2>. QED
    BY <2>1, Moving DEF Succeed, Fields
<1>2. /\ req'[r].op = req[r].op /\ req'[r].plan = plan /\ req'[r].base = None
      /\ req'[r].pc = "list" /\ DOMAIN req'[r] = Fields
      /\ req'[r].phase = IF doing(r) = "make" THEN "make" ELSE "last"
  BY <1>1 DEF Moves, Fields
<1>3. doing(r) = "make" => req[r].op.kind = "create"
  BY DEF doing, CallOK, OpOK, OpType
<1>4. CallOK(req[r], versions')
  BY CallStays
<1>. QED
  BY <1>1, <1>2, <1>3, <1>4 DEF Moves, CallOK, Stage

\* A step that undoes nobody's update.
EditsKept ==
  \A f \in files, g \in files' : g.href = f.href => g.text = f.text \/ g.guests = f.guests

\* What a put made of what, as far as mail is concerned.
StoredBy(r, new) ==
  LET base == req[r].base
      before == Before(r, new)
  IN  /\ new \in Resource
      /\ PlanOf(r, new) = schedule(before, new)
      /\ files' = (files \ Named(new.href)) \cup {new} /\ versions' = versions \cup {new}
      /\ \/ base = None /\ before = None /\ new.href \notin used
         \/ /\ base \in files /\ base \in Resource /\ before \in Resource
            /\ base.href = new.href /\ before.href = new.href
            /\ new.seq = base.seq + 1 /\ before.seq = base.seq
            /\ \/ before.guests = base.guests
               \/ before.guests = new.guests /\ {new.href} \X Guest \subseteq PatchedInPlace(r)

\* What a put leaves on the server, and owes.
LEMMA PutIsSound ==
  ASSUME DavInv, NEW r \in Request, req[r].pc = "sent", CallOK(req[r], versions),
         doing(r) \in {"create", "edit", "invite"},
         NEW h, doing(r) = "create" => h \in Href \ used,
         MayPut(req[r].op, req[r].base), Put(NewOf(r, h))
  PROVE  /\ StoreInv' /\ versions \subseteq versions'
         /\ PlanOK(PlanOf(r, NewOf(r, h)), versions')
         /\ EditsKept /\ StoredBy(r, NewOf(r, h))
<1> DEFINE op == req[r].op
           base == req[r].base
           new == NewOf(r, h)
<1>1. doing(r) = op.kind
  BY DEF doing
<1>2. clock \in Nat /\ now = clock + 1 /\ now <= MaxClock /\ MaxClock \in Nat /\ clock' = now
      /\ files' = (files \ Named(new.href)) \cup {new} /\ versions' = versions \cup {new}
  BY DavAssumption DEF DavInv, StoreInv, ServerOK, now, Put, Record
<1>3. OpOK(op, versions)
  BY DEF CallOK
<1>4. CASE op.kind = "create"
  <2>1. new = [href |-> h, col |-> op.col, tag |-> now, text |-> now, guests |-> op.guests, seq |-> 0]
    BY <1>4 DEF NewOf
  <2>2. op.col \in cols /\ op.col \in Col /\ op.guests \in SUBSET Guest /\ h \in Href /\ h \notin used
    BY <1>1, <1>3, <1>4 DEF MayPut, cols, OpOK, OpType
  <2>3. new \in Resource /\ new.tag = now /\ new.seq < now /\ new.col \in cols /\ new.href \notin used
    BY <1>2, <2>1, <2>2 DEF Resource
  <2>4. base = None
    BY <1>4 DEF CallOK, BodyOf, AboutOne
  <2>5. Before(r, new) = None /\ PlanOf(r, new) = schedule(None, new)
    BY <1>1, <1>4, <2>4 DEF PlanOf, Before, After
  <2>6. \A f \in files : f.href # new.href
    BY <2>3 DEF DavInv, StoreInv, ServerOK, used
  <2>7. \A f \in files : Named(f.href) = {f}
    BY DEF DavInv, StoreInv, ServerOK
  <2> HIDE DEF new, op, base
  <2>8. StoreInv' /\ versions \subseteq versions' /\ new \in versions'
    BY <2>3, PutKeepsStore DEF DavInv, new
  <2>9. PlanOK(PlanOf(r, new), versions')
    BY <2>3, <2>5, <2>8, StoredIsWarranted
  <2>10. \A f \in files, g \in files' : g.href = f.href => g = f
    BY <1>2, <2>6, <2>7 DEF Named
  <2>11. StoredBy(r, new)
    BY <1>2, <2>3, <2>4, <2>5 DEF StoredBy, base
  <2>. QED
    BY <2>8, <2>9, <2>10, <2>11 DEF new, EditsKept
<1>5. CASE op.kind \in {"edit", "invite"}
  <2>1. base \in files /\ base \in Resource /\ base # None
    BY <1>5, NoneAssumption DEF MayPut, DavInv, StoreInv, ServerOK
  <2>2. base.col \in cols /\ base.seq < base.tag /\ base.tag <= clock /\ Named(base.href) = {base}
    BY <2>1 DEF DavInv, StoreInv, ServerOK, VersionsOK
  <2>3. new = Patched(op, base)
    BY <1>5, <2>1 DEF NewOf
  <2>4. op.kind = "invite" => op.guests \in SUBSET Guest
    BY <1>3 DEF OpOK, OpType
  <2>5. base.seq \in Nat /\ base.tag \in Nat
    BY <2>1, DavAssumption DEF Resource
  <2>6. /\ new.href = base.href /\ new.col = base.col /\ new.tag = now /\ new.seq = base.seq + 1
        /\ op.kind = "edit" => new.guests = base.guests
        /\ op.kind = "invite" => new.text = base.text
        /\ new \in Resource
    <3>1. new = [href |-> base.href, col |-> base.col, tag |-> now,
                 text |-> IF op.kind = "edit" THEN now ELSE base.text,
                 guests |-> IF op.kind = "invite" THEN op.guests ELSE base.guests,
                 seq |-> base.seq + 1]
      BY <2>1, <2>3 DEF Patched, Resource
    <3>2. now \in 1..MaxClock /\ now \in 0..MaxClock /\ base.seq + 1 \in 0..MaxClock
      BY <1>2, <2>2, <2>5
    <3>3. /\ base.href \in Href /\ base.col \in Col /\ base.text \in 0..MaxClock
          /\ base.guests \in SUBSET Guest
      BY <2>1 DEF Resource
    <3> HIDE DEF new, op, base
    <3>. QED
      BY <1>5, <2>4, <3>1, <3>2, <3>3 DEF Resource
  <2>7. new.seq < now /\ new.col \in cols
    BY <1>2, <2>2, <2>5, <2>6
  <2>8. /\ Before(r, new) \in Resource /\ Before(r, new).href = new.href
        /\ After(r, new) = new
    BY <1>1, <1>5, <2>1, <2>6 DEF Before, After, Resource
  <2>9. PlanOf(r, new) = schedule(Before(r, new), new)
    BY <1>1, <1>5, <2>8 DEF PlanOf
  <2>14. /\ Before(r, new).seq = base.seq
         /\ \/ Before(r, new).guests = base.guests
            \/ /\ Before(r, new).guests = new.guests
               /\ PatchedInPlace(r) = {op.href} \X Guest
    BY <1>1, <1>5, <2>1, <2>6 DEF Before, Resource, PatchedInPlace
  <2>15. base.href = op.href
    BY <2>1 DEF CallOK, BodyOf
  <2>10. \A f \in files : Named(f.href) = {f}
    BY DEF DavInv, StoreInv, ServerOK
  <2> HIDE DEF new, op, base
  <2>11. StoreInv' /\ versions \subseteq versions' /\ new \in versions'
    BY <2>1, <2>6, <2>7, PutKeepsStore DEF DavInv, new
  <2>12. PlanOK(PlanOf(r, new), versions')
    BY <2>6, <2>8, <2>9, <2>11, StoredIsWarranted
  <2>13. ASSUME NEW f \in files, NEW g \in files', g.href = f.href
         PROVE  g.text = f.text \/ g.guests = f.guests
    <3>1. CASE g = new
      <4>1. f = base
        BY <2>2, <2>6, <2>13, <3>1 DEF Named
      <4>. QED
        BY <1>5, <2>6, <3>1, <4>1
    <3>2. CASE g # new
      BY <1>2, <2>10, <2>13, <3>2 DEF Named
    <3>. QED
      BY <3>1, <3>2
  <2>16. StoredBy(r, new)
    BY <1>2, <2>1, <2>6, <2>8, <2>9, <2>14, <2>15 DEF StoredBy, base
  <2>. QED
    BY <2>11, <2>12, <2>13, <2>16 DEF new, EditsKept
<1>. QED
  BY <1>1, <1>4, <1>5

-----------------------------------------------------------------------------
(* The mail of a client alone.                                             *)

Elements(plan) == {plan[i] : i \in 1..Len(plan)}
Requests(f) == IF f.guests = {} THEN {} ELSE {Message("REQUEST", f.href, f.guests, f.seq)}
Cancels(f, to) == IF to = {} THEN {} ELSE {Message("CANCEL", f.href, to, f.seq + 1)}

LEMMA ElementsOfBoth ==
  ASSUME NEW p \in Seq(Letter), NEW q \in Seq(Letter)
  PROVE  Elements(p \o q) = Elements(p) \cup Elements(q)
<1>1. /\ Len(p) \in Nat /\ Len(q) \in Nat /\ Len(p \o q) = Len(p) + Len(q)
      /\ \A i \in 1..(Len(p) + Len(q)) :
           (p \o q)[i] = IF i <= Len(p) THEN p[i] ELSE q[i - Len(p)]
  OBVIOUS
<1>2. ASSUME NEW i \in 1..Len(p \o q) PROVE (p \o q)[i] \in Elements(p) \cup Elements(q)
  <2>1. CASE i <= Len(p)
    BY <1>1, <2>1 DEF Elements
  <2>2. CASE ~ (i <= Len(p))
    <3>1. i - Len(p) \in 1..Len(q)
      BY <1>1, <2>2
    <3>. QED
      BY <1>1, <2>2, <3>1 DEF Elements
  <2>. QED
    BY <2>1, <2>2
<1>3. ASSUME NEW i \in 1..Len(p) PROVE p[i] \in Elements(p \o q)
  <2>1. i \in 1..Len(p \o q) /\ (p \o q)[i] = p[i]
    BY <1>1
  <2>. QED
    BY <2>1 DEF Elements
<1>4. ASSUME NEW i \in 1..Len(q) PROVE q[i] \in Elements(p \o q)
  <2>1. i + Len(p) \in 1..Len(p \o q) /\ (p \o q)[i + Len(p)] = q[i]
    BY <1>1
  <2>. QED
    BY <2>1 DEF Elements
<1>. QED
  BY <1>2, <1>3, <1>4 DEF Elements

LEMMA ElementsOfOne ==
  ASSUME NEW m
  PROVE  Elements(<<m>>) = {m}
BY DEF Elements

LEMMA ElementsOfNone == Elements(<<>>) = {} /\ <<>> \in Seq(Letter)
BY DEF Elements

\* What an organizer owes for a resource stored, and for one taken away.
LEMMA OrganizerOwes ==
  ASSUME flavor = "cal", NEW f \in Resource, NEW before,
         before = None \/ before \in Resource
  PROVE  /\ Elements(schedule(before, f)) =
              Requests(f) \cup (IF before = None THEN {} ELSE Cancels(before, before.guests \ f.guests))
         /\ Elements(schedule(before, None)) =
              IF before = None THEN {} ELSE Cancels(before, before.guests)
<1> DEFINE dropped == IF before = None THEN <<>> ELSE Cancel(before, before.guests \ f.guests)
<1>1. Invite(f) \in Seq(Letter) /\ Elements(Invite(f)) = Requests(f)
  <2> DEFINE m == Message("REQUEST", f.href, f.guests, f.seq)
  <2>1. m \in Letter
    BY DavAssumption DEF Message, Letter, Resource
  <2>2. Invite(f) = (IF f.guests = {} THEN <<>> ELSE <<m>>) /\ Requests(f) = IF f.guests = {} THEN {} ELSE {m}
    BY DEF Invite, Requests
  <2> HIDE DEF m
  <2>3. CASE f.guests = {}
    BY <2>2, <2>3, ElementsOfNone
  <2>4. CASE f.guests # {}
    <3>1. <<m>> \in Seq(Letter)
      BY <2>1
    <3>. QED
      BY <2>2, <2>4, <3>1, ElementsOfOne
  <2>. QED
    BY <2>3, <2>4
<1>2. ASSUME before # None, NEW to \in SUBSET Guest
      PROVE  Cancel(before, to) \in Seq(Letter) /\ Elements(Cancel(before, to)) = Cancels(before, to)
  <2> DEFINE m == Message("CANCEL", before.href, to, before.seq + 1)
  <2>1. m \in Letter
    BY <1>2, DavAssumption DEF Message, Letter, Resource
  <2>2. /\ Cancel(before, to) = IF to = {} THEN <<>> ELSE <<m>>
        /\ Cancels(before, to) = IF to = {} THEN {} ELSE {m}
    BY DEF Cancel, Cancels
  <2> HIDE DEF m
  <2>3. CASE to = {}
    BY <2>2, <2>3, ElementsOfNone
  <2>4. CASE to # {}
    <3>1. <<m>> \in Seq(Letter)
      BY <2>1
    <3>. QED
      BY <2>2, <2>4, <3>1, ElementsOfOne
  <2>. QED
    BY <2>3, <2>4
<1>3. before # None => before.guests \in SUBSET Guest /\ before.guests \ f.guests \in SUBSET Guest
  BY DEF Resource
<1>4. /\ dropped \in Seq(Letter)
      /\ Elements(dropped) =
           IF before = None THEN {} ELSE Cancels(before, before.guests \ f.guests)
  <2>1. CASE before = None
    BY <2>1, ElementsOfNone
  <2>2. CASE before # None
    BY <1>2, <1>3, <2>2
  <2>. QED
    BY <2>1, <2>2
<1>5. schedule(before, f) = Invite(f) \o dropped
  BY NoneAssumption DEF schedule, planScheduling
<1>6. schedule(before, None) = IF before = None THEN <<>> ELSE Cancel(before, before.guests)
  BY DEF schedule, planScheduling
<1> HIDE DEF dropped
<1>7. Elements(schedule(before, f)) = Elements(Invite(f)) \cup Elements(dropped)
  BY <1>1, <1>4, <1>5, ElementsOfBoth
<1>8. Elements(schedule(before, None)) = IF before = None THEN {} ELSE Cancels(before, before.guests)
  <2>1. CASE before = None
    BY <1>6, <2>1, ElementsOfNone
  <2>2. CASE before # None
    BY <1>2, <1>3, <1>6, <2>2
  <2>. QED
    BY <2>1, <2>2
<1>. QED
  BY <1>1, <1>4, <1>7, <1>8

\* Whom the mail invites is not more by mail that invites nobody to that event.
LEMMA ExpectingFewer ==
  ASSUME NEW mail, NEW more, NEW h, NEW g, Expecting(mail \cup more, h, g),
         \A m \in more : m.href = h /\ g \in m.to => m.method # "REQUEST"
  PROVE  Expecting(mail, h, g)
BY DEF Expecting

\* An event stored: `base` is what it was, None if it is new; `more` is the mail for it.
StoredAs(new, base, more) ==
  /\ new \in Resource /\ more \subseteq Letter
  /\ files' = (files \ Named(new.href)) \cup {new}
  /\ versions' = versions \cup {new}
  /\ inPlace \subseteq inPlace'
  /\ IF base = None THEN new.href \notin used
     ELSE base \in files /\ base.href = new.href /\ new.seq = base.seq + 1

MailedAs(new, base, more) ==
  /\ Requests(new) \subseteq more
  /\ \A m \in more : /\ m.href = new.href /\ m.seq = new.seq
                     /\ m.method = "REQUEST" => m.to = new.guests
  /\ base # None => \A g \in base.guests \ new.guests :
       <<new.href, g>> \in inPlace' \/ \E m \in more : g \in m.to

LEMMA StoreTells ==
  ASSUME StoreInv, NEW new, NEW base, NEW mail, NEW more,
         StoredAs(new, base, more), MailedAs(new, base, more),
         NoneIsNewer(mail, files, versions), GuestsAreInvited(mail, files),
         OthersAreNot(mail, files, versions, inPlace)
  PROVE  /\ NoneIsNewer(mail \cup more, files', versions')
         /\ GuestsAreInvited(mail \cup more, files')
         /\ OthersAreNot(mail \cup more, files', versions', inPlace')
<1>1. /\ new \in Resource /\ new.seq \in Nat /\ new.guests \in SUBSET Guest
      /\ new \in files' /\ new \in versions'
  BY DavAssumption DEF StoredAs, Resource
<1>2. \A f \in files' : f = new \/ (f \in files /\ f.href # new.href)
  BY DEF StoredAs, Named
<1>3. \A f \in files : f.href = new.href \/ f \in files'
  BY DEF StoredAs, Named
<1>4. \A f \in files : f.seq \in Nat /\ Named(f.href) = {f} /\ f \in versions
  BY DavAssumption DEF StoreInv, ServerOK, Resource
<1>5. \A m \in mail : m \in Letter /\ m.seq \in Nat /\ \E v \in versions : v.href = m.href
  BY DEF NoneIsNewer, Letter
<1>6. ASSUME NEW m \in mail, m.href = new.href
      PROVE  base # None /\ base \in files /\ m.seq <= base.seq /\ new.seq = base.seq + 1
  <2>1. base # None /\ base \in files /\ base.href = m.href /\ new.seq = base.seq + 1
    BY <1>5, <1>6 DEF StoredAs, used
  <2>. QED
    BY <2>1 DEF NoneIsNewer
<1>7. NoneIsNewer(mail \cup more, files', versions')
  <2>1. ASSUME NEW m \in mail
        PROVE  /\ m \in Letter /\ \E v \in versions' : v.href = m.href
               /\ \A f \in files' : f.href = m.href => m.seq <= f.seq
    <3>1. ASSUME NEW f \in files', f.href = m.href PROVE m.seq <= f.seq
      <4>1. CASE f = new
        BY <1>1, <1>4, <1>5, <1>6, <3>1, <4>1
      <4>2. CASE f \in files
        BY <3>1, <4>2 DEF NoneIsNewer
      <4>. QED
        BY <1>2, <4>1, <4>2
    <3>. QED
      BY <1>5, <3>1 DEF StoredAs
  <2>2. ASSUME NEW m \in more
        PROVE  /\ m \in Letter /\ \E v \in versions' : v.href = m.href
               /\ \A f \in files' : f.href = m.href => m.seq <= f.seq
    <3>1. m.href = new.href /\ m.seq = new.seq /\ m \in Letter
      BY DEF MailedAs, StoredAs
    <3>2. \A f \in files' : f.href = m.href => f = new
      BY <1>2, <3>1
    <3>. QED
      BY <1>1, <3>1, <3>2
  <2>. QED
    BY <2>1, <2>2 DEF NoneIsNewer
<1>8. GuestsAreInvited(mail \cup more, files')
  <2>1. ASSUME NEW f \in files', NEW g \in f.guests
        PROVE  \E m \in mail \cup more :
                 m.method = "REQUEST" /\ m.href = f.href /\ g \in m.to /\ m.seq = f.seq
    <3>1. CASE f = new
      <4> DEFINE m == Message("REQUEST", new.href, new.guests, new.seq)
      <4>1. m \in more
        BY <2>1, <3>1 DEF MailedAs, Requests
      <4>2. m.method = "REQUEST" /\ m.href = new.href /\ m.to = new.guests /\ m.seq = new.seq
        BY DEF Message
      <4> HIDE DEF m
      <4>. QED
        BY <2>1, <3>1, <4>1, <4>2
    <3>2. CASE f \in files
      BY <2>1, <3>2 DEF GuestsAreInvited
    <3>. QED
      BY <1>2, <3>1, <3>2
  <2>. QED
    BY <2>1 DEF GuestsAreInvited
<1>9. ASSUME NEW h \in Href, NEW g \in Guest, Expecting(mail \cup more, h, g)
      PROVE  Swept(h, versions') \/ Invited(h, g, files') \/ <<h, g>> \in inPlace'
  <2>1. CASE h # new.href
    <3>1. Expecting(mail, h, g)
      BY <1>9, <2>1, ExpectingFewer DEF MailedAs
    <3>2. Swept(h, versions) \/ Invited(h, g, files) \/ <<h, g>> \in inPlace
      BY <3>1 DEF OthersAreNot
    <3>3. Swept(h, versions) => Swept(h, versions')
      BY DEF Swept, StoredAs
    <3>4. Invited(h, g, files) => Invited(h, g, files')
      BY <1>3, <2>1 DEF Invited
    <3>. QED
      BY <3>2, <3>3, <3>4 DEF StoredAs
  <2>2. CASE h = new.href /\ g \notin new.guests
    <3>1. PICK m \in mail \cup more :
            /\ m.href = h /\ g \in m.to /\ m.method = "REQUEST"
            /\ \A x \in mail \cup more : x.href = h /\ g \in x.to => x.seq <= m.seq
      BY <1>9 DEF Expecting
    <3>2. m \in mail
      BY <2>2, <3>1 DEF MailedAs
    <3>3. base # None /\ base \in files /\ m.seq <= base.seq /\ new.seq = base.seq + 1
          /\ base.href = h
      BY <1>6, <2>2, <3>1, <3>2 DEF StoredAs
    <3>4. ~ (new.seq <= m.seq)
      BY <1>4, <1>5, <3>2, <3>3
    <3>5. \A x \in more : g \notin x.to
      BY <2>2, <3>1, <3>4 DEF MailedAs
    <3>6. Expecting(mail, h, g)
      BY <1>9, <3>5, ExpectingFewer
    <3>7. Swept(h, versions) \/ Invited(h, g, files) \/ <<h, g>> \in inPlace
      BY <3>6 DEF OthersAreNot
    <3>8. g \in base.guests => <<h, g>> \in inPlace'
      BY <2>2, <3>3, <3>5 DEF MailedAs
    <3>9. Invited(h, g, files) => g \in base.guests
      BY <1>4, <3>3 DEF Invited, Named
    <3>10. Swept(h, versions) => Swept(h, versions')
      BY DEF Swept, StoredAs
    <3>. QED
      BY <3>7, <3>8, <3>9, <3>10 DEF StoredAs
  <2>3. CASE h = new.href /\ g \in new.guests
    BY <1>1, <2>3 DEF Invited
  <2>. QED
    BY <2>1, <2>2, <2>3
<1>. QED
  BY <1>7, <1>8, <1>9 DEF OthersAreNot

\* Events taken away: cancelled, or swept with their calendar.
Removed(gone, more) ==
  /\ more \subseteq Letter
  /\ files' = files \ gone /\ gone \subseteq files
  /\ versions \subseteq versions' /\ inPlace \subseteq inPlace'
  /\ \A m \in more : m.method = "CANCEL" /\ \E f \in gone : f.href = m.href
  /\ \A f \in gone :
       \/ Swept(f.href, versions')
       \/ \A g \in f.guests : \E m \in more : m.href = f.href /\ g \in m.to /\ m.seq = f.seq + 1

LEMMA RemovalTells ==
  ASSUME StoreInv, NEW gone, NEW mail, NEW more, Removed(gone, more),
         NoneIsNewer(mail, files, versions), GuestsAreInvited(mail, files),
         OthersAreNot(mail, files, versions, inPlace)
  PROVE  /\ NoneIsNewer(mail \cup more, files', versions')
         /\ GuestsAreInvited(mail \cup more, files')
         /\ OthersAreNot(mail \cup more, files', versions', inPlace')
<1>1. files' \subseteq files /\ \A f \in files : f \in gone \/ f \in files'
  BY DEF Removed
<1>2. \A f \in files : f.seq \in Nat /\ Named(f.href) = {f} /\ f \in versions
  BY DavAssumption DEF StoreInv, ServerOK, Resource
<1>3. NoneIsNewer(mail \cup more, files', versions')
  <2>1. ASSUME NEW m \in mail
        PROVE  /\ m \in Letter /\ \E v \in versions' : v.href = m.href
               /\ \A f \in files' : f.href = m.href => m.seq <= f.seq
    BY <1>1 DEF NoneIsNewer, Removed
  <2>2. ASSUME NEW m \in more
        PROVE  /\ m \in Letter /\ \E v \in versions' : v.href = m.href
               /\ \A f \in files' : f.href = m.href => m.seq <= f.seq
    <3>1. PICK f \in gone : f.href = m.href
      BY DEF Removed
    <3>2. f \in files /\ f \in versions' /\ m \in Letter
      BY <1>2 DEF Removed
    <3>3. \A x \in files' : x.href # m.href
      BY <1>1, <1>2, <3>1, <3>2 DEF Removed, Named
    <3>. QED
      BY <3>1, <3>2, <3>3
  <2>. QED
    BY <2>1, <2>2 DEF NoneIsNewer
<1>4. GuestsAreInvited(mail \cup more, files')
  BY <1>1 DEF GuestsAreInvited
<1>5. ASSUME NEW h \in Href, NEW g \in Guest, Expecting(mail \cup more, h, g)
      PROVE  Swept(h, versions') \/ Invited(h, g, files') \/ <<h, g>> \in inPlace'
  <2>1. Expecting(mail, h, g)
    BY <1>5, ExpectingFewer DEF Removed
  <2>2. Swept(h, versions) \/ Invited(h, g, files) \/ <<h, g>> \in inPlace
    BY <2>1 DEF OthersAreNot
  <2>3. Swept(h, versions) => Swept(h, versions')
    BY DEF Swept, Removed
  <2>4. ASSUME Invited(h, g, files) PROVE Swept(h, versions') \/ Invited(h, g, files')
    <3>1. PICK f \in files : f.href = h /\ g \in f.guests
      BY <2>4 DEF Invited
    <3>2. CASE f \in files'
      BY <3>1, <3>2 DEF Invited
    <3>3. CASE f \in gone
      <4>1. SUFFICES ASSUME ~ Swept(h, versions') PROVE FALSE
        OBVIOUS
      <4>2. PICK x \in more : x.href = h /\ g \in x.to /\ x.seq = f.seq + 1
        BY <3>1, <3>3, <4>1 DEF Removed
      <4>3. PICK m \in mail \cup more :
              /\ m.href = h /\ g \in m.to /\ m.method = "REQUEST"
              /\ \A y \in mail \cup more : y.href = h /\ g \in y.to => y.seq <= m.seq
        BY <1>5 DEF Expecting
      <4>4. m \in mail
        BY <4>3 DEF Removed
      <4>5. m.seq <= f.seq /\ m.seq \in Nat /\ f.seq \in Nat
        BY <1>2, <3>1, <4>3, <4>4 DEF NoneIsNewer, Letter
      <4>6. f.seq + 1 <= m.seq
        BY <4>2, <4>3
      <4>. QED
        BY <4>5, <4>6
    <3>. QED
      BY <1>1, <3>2, <3>3
  <2>. QED
    BY <2>2, <2>3, <2>4 DEF Removed
<1>. QED
  BY <1>3, <1>4, <1>5 DEF OthersAreNot

\* Answers: what is stored has those it had, and new ones that are mailed or patched in.
LEMMA AnswersTell ==
  ASSUME NEW mail, NEW more, AnswersAreMailed(mail, files, inPlace), inPlace \subseteq inPlace',
         \A f \in files' : f \in files \/ \A g \in f.guests :
           \/ <<f.href, g>> \in inPlace'
           \/ \E m \in more : m.method = "REPLY" /\ m.href = f.href /\ g \in m.to
           \/ \E b \in files : b.href = f.href /\ g \in b.guests
  PROVE  AnswersAreMailed(mail \cup more, files', inPlace')
<1>1. SUFFICES ASSUME NEW f \in files', NEW g \in f.guests
               PROVE  \/ <<f.href, g>> \in inPlace'
                      \/ \E m \in mail \cup more : m.method = "REPLY" /\ m.href = f.href /\ g \in m.to
  BY DEF AnswersAreMailed
<1>2. ASSUME NEW b \in files, b.href = f.href, g \in b.guests
      PROVE  \/ <<f.href, g>> \in inPlace'
             \/ \E m \in mail : m.method = "REPLY" /\ m.href = f.href /\ g \in m.to
  BY <1>2 DEF AnswersAreMailed
<1>. QED
  BY <1>1, <1>2

LEMMA PlansAreLetters ==
  ASSUME NEW plan, NEW vs, PlanOK(plan, vs)
  PROVE  Elements(plan) \subseteq Letter
<1>1. plan \in Seq(Letter)
  BY DEF PlanOK
<1>. QED
  BY <1>1 DEF Elements

LEMMA MailGrows ==
  ASSUME NEW r \in Request, UNCHANGED told, Letters(r) = {},
         \A s \in Request : s # r => req'[s] = req[s]
  PROVE  AllMail' = AllMail \cup Letters(r)'
<1>1. \A s \in Request : s # r => Letters(s)' = Letters(s)
  BY DEF Letters, InFlight
<1>. QED
  BY <1>1 DEF AllMail
LEMMA NothingEdited ==
  ASSUME StoreInv, files' \subseteq files
  PROVE  EditsKept
BY DEF EditsKept, StoreInv, ServerOK, Named

LEMMA AcceptIsSound ==
  ASSUME DavInv, NEW r \in Request, req[r].pc = "sent", CallOK(req[r], versions),
         NEW h, doing(r) = "create" => h \in Href \ used, Accept(r, NewOf(r, h))
  PROVE  /\ StoreInv' /\ versions \subseteq versions' /\ EditsKept
         /\ PlanOK(PlanOf(r, NewOf(r, h)), versions')
<1> DEFINE op == req[r].op
           new == NewOf(r, h)
<1>1. CASE doing(r) \in {"create", "edit", "invite"} /\ MayPut(op, req[r].base) /\ Put(new)
  BY <1>1, PutIsSound
<1>2. CASE doing(r) = "remove" /\ \E f \in Named(op.href) : Delete(f)
  <2>1. PICK f \in files : f.href = op.href /\ Delete(f)
    BY <1>2 DEF Named
  <2>2. /\ StoreInv' /\ versions \subseteq versions'
        /\ \E v \in versions' : v.href = op.href /\ v.col \notin Col
    BY <2>1, DeleteKeepsStore DEF DavInv
  <2>3. EditsKept
    BY <2>1, NothingEdited DEF DavInv, Delete
  <2>4. req[r].base = None \/ (req[r].base \in Resource /\ req[r].base.href = op.href)
    BY DEF CallOK, BodyOf
  <2>5. PlanOf(r, new) = schedule(req[r].base, None)
    BY <1>2 DEF PlanOf, Before, After
  <2>6. PlanOK(schedule(req[r].base, None), versions')
    BY <2>2, <2>4, RemovedIsWarranted
  <2>. QED
    BY <2>2, <2>3, <2>5, <2>6
<1>3. CASE doing(r) \in {"make", "mkcol"} /\ op.col \notin cols /\ MakeCol(op.col)
  <2>1. StoreInv' /\ versions \subseteq versions'
    BY <1>3, MakeColKeepsStore DEF DavInv
  <2>2. EditsKept
    BY <1>3, NothingEdited DEF DavInv, MakeCol
  <2>3. PlanOf(r, new) = <<>>
    BY <1>3 DEF PlanOf
  <2>. QED
    BY <2>1, <2>2, <2>3, NoMail
<1>4. CASE doing(r) = "rmcol" /\ op.col \in cols /\ DeleteCol(op.col)
  <2>1. StoreInv' /\ versions \subseteq versions'
    BY <1>4, DeleteColKeepsStore DEF DavInv, cols
  <2>2. EditsKept
    BY <1>4, NothingEdited DEF DavInv, DeleteCol
  <2>3. PlanOf(r, new) = <<>>
    BY <1>4 DEF PlanOf
  <2>. QED
    BY <2>1, <2>2, <2>3, NoMail
<1>. QED
  BY <1>1, <1>2, <1>3, <1>4 DEF Accept

\* What the mail of a client alone says of the server, when a put owes its share of it.
LEMMA PutTells ==
  ASSUME StoreInv, NEW r \in Request, NEW new, StoredBy(r, new),
         Elements(PlanOf(r, new)) \subseteq Letter, inPlace' = inPlace \cup PatchedInPlace(r),
         NEW mail, Told(mail, files, versions, inPlace)
  PROVE  Told(mail \cup Elements(PlanOf(r, new)), files', versions', inPlace')
<1> DEFINE base == req[r].base
           before == Before(r, new)
           more == Elements(PlanOf(r, new))
<1>1. /\ new \in Resource /\ PlanOf(r, new) = schedule(before, new)
      /\ files' = (files \ Named(new.href)) \cup {new} /\ versions' = versions \cup {new}
      /\ before = None \/ before \in Resource
  BY DEF StoredBy
<1>2. \/ base = None /\ before = None /\ new.href \notin used
      \/ /\ base \in files /\ base \in Resource /\ base # None
         /\ before \in Resource /\ before # None
         /\ base.href = new.href /\ before.href = new.href
         /\ new.seq = base.seq + 1 /\ before.seq = base.seq
         /\ \/ before.guests = base.guests
            \/ before.guests = new.guests /\ {new.href} \X Guest \subseteq inPlace'
  BY NoneAssumption DEF StoredBy
<1> HIDE DEF base, before
<1>3. CASE flavor = "cal"
  <2>1. more = Requests(new)
                 \cup (IF before = None THEN {} ELSE Cancels(before, before.guests \ new.guests))
    BY <1>1, <1>3, OrganizerOwes
  <2>2. StoredAs(new, base, more)
    BY <1>1, <1>2 DEF StoredAs
  <2>3. \A m \in Requests(new) : /\ m.href = new.href /\ m.seq = new.seq /\ m.to = new.guests
    BY DEF Requests, Message
  <2>4. \A to : \A m \in Cancels(before, to) :
          m.href = before.href /\ m.seq = before.seq + 1 /\ m.method = "CANCEL"
    BY DEF Cancels, Message
  <2>5. \A to : \A g \in to : \E m \in Cancels(before, to) : g \in m.to
    BY DEF Cancels, Message
  <2> HIDE DEF more
  <2>6. ASSUME NEW m \in more
        PROVE  m.href = new.href /\ m.seq = new.seq /\ (m.method = "REQUEST" => m.to = new.guests)
    <3>1. CASE m \in Requests(new)
      BY <2>3, <3>1
    <3>2. CASE before # None /\ m \in Cancels(before, before.guests \ new.guests)
      BY <1>2, <2>4, <3>2
    <3>. QED
      BY <2>1, <3>1, <3>2
  <2>7. ASSUME base # None, NEW g \in base.guests \ new.guests
        PROVE  <<new.href, g>> \in inPlace' \/ \E m \in more : g \in m.to
    <3>1. g \in Guest
      BY <1>2, <2>7 DEF Resource
    <3>2. CASE {new.href} \X Guest \subseteq inPlace'
      BY <3>1, <3>2
    <3>3. CASE before # None /\ before.guests = base.guests
      BY <2>1, <2>5, <2>7, <3>3
    <3>. QED
      BY <1>2, <2>7, <3>2, <3>3
  <2>8. MailedAs(new, base, more)
    BY <2>1, <2>6, <2>7 DEF MailedAs
  <2>. QED
    BY <1>3, <2>2, <2>8, StoreTells DEF Told, more
<1>4. CASE flavor = "guest"
  <2> DEFINE answers == new.guests \ (IF before = None THEN {} ELSE before.guests)
             m == Message("REPLY", new.href, answers, new.seq)
  <2>1. schedule(before, new) = IF answers = {} THEN <<>> ELSE <<m>>
    BY <1>1, <1>4, NoneAssumption DEF schedule, reply
  <2>2. m.method = "REPLY" /\ m.href = new.href /\ m.to = answers
    BY DEF Message
  <2>3. new.guests \subseteq Guest
    BY <1>1 DEF Resource
  <2>4. before = None \/ (before # None /\ base \in files /\ base.href = new.href
                          /\ \/ before.guests = base.guests
                             \/ {new.href} \X Guest \subseteq inPlace')
    BY <1>2
  <2> HIDE DEF m
  <2>5. answers # {} => m \in more
    BY <1>1, <2>1, ElementsOfOne
  <2>6. ASSUME NEW g \in new.guests
        PROVE  \/ <<new.href, g>> \in inPlace'
               \/ \E x \in more : x.method = "REPLY" /\ x.href = new.href /\ g \in x.to
               \/ \E b \in files : b.href = new.href /\ g \in b.guests
    <3>1. CASE g \in answers
      BY <2>2, <2>5, <3>1
    <3>2. CASE g \notin answers
      BY <2>3, <2>4, <2>6, <3>2
    <3>. QED
      BY <3>1, <3>2
  <2>7. inPlace \subseteq inPlace' /\ AnswersAreMailed(mail, files, inPlace)
    BY <1>4 DEF Told
  <2>8. \A f \in files' : f \in files \/ f = new
    BY <1>1
  <2> HIDE DEF more
  <2>9. AnswersAreMailed(mail \cup more, files', inPlace')
    BY <2>6, <2>7, <2>8, AnswersTell
  <2>. QED
    BY <1>4, <2>9 DEF Told, more
<1>5. CASE flavor \notin {"cal", "guest"}
  BY <1>5 DEF Told
<1>. QED
  BY <1>3, <1>4, <1>5

\* And when events are taken away.
LEMMA GoneTells ==
  ASSUME StoreInv, NEW gone, NEW more, flavor = "cal" => Removed(gone, more),
         files' \subseteq files, inPlace \subseteq inPlace',
         NEW mail, Told(mail, files, versions, inPlace)
  PROVE  Told(mail \cup more, files', versions', inPlace')
<1>1. CASE flavor = "cal"
  BY <1>1, RemovalTells DEF Told
<1>2. CASE flavor = "guest"
  <2>1. AnswersAreMailed(mail, files, inPlace)
    BY <1>2 DEF Told
  <2>2. AnswersAreMailed(mail \cup more, files', inPlace')
    BY <2>1, AnswersTell
  <2>. QED
    BY <1>2, <2>2 DEF Told
<1>3. CASE flavor \notin {"cal", "guest"}
  BY <1>3 DEF Told
<1>. QED
  BY <1>1, <1>2, <1>3

LEMMA AcceptTells ==
  ASSUME DavInv, NEW r \in Request, req[r].pc = "sent", CallOK(req[r], versions),
         NEW h, doing(r) = "create" => h \in Href \ used, Accept(r, NewOf(r, h)),
         inPlace' = inPlace \cup PatchedInPlace(r), flavor # "card", Alone,
         NEW mail, Told(mail, files, versions, inPlace)
  PROVE  Told(mail \cup Elements(PlanOf(r, NewOf(r, h))), files', versions', inPlace')
<1> DEFINE op == req[r].op
           new == NewOf(r, h)
<1>1. StoreInv /\ Fresh(req[r]) /\ inPlace \subseteq inPlace'
  BY DEF DavInv, SoloInv, InFlight
<1>2. CASE doing(r) \in {"create", "edit", "invite"} /\ MayPut(op, req[r].base) /\ Put(new)
  <2>1. PlanOK(PlanOf(r, new), versions') /\ StoredBy(r, new)
    BY <1>2, PutIsSound
  <2>. QED
    BY <1>1, <2>1, PlansAreLetters, PutTells
<1>3. CASE doing(r) = "remove" /\ \E f \in Named(op.href) : Delete(f)
  <2>1. PICK f \in Named(op.href) : Delete(f)
    BY <1>3
  <2>2. op.kind = "remove"
    BY <1>3 DEF doing
  <2>3. f \in files /\ f \in Resource /\ f # None /\ f = req[r].base
    BY <1>1, <2>1, <2>2, NoneAssumption DEF Fresh, AboutOne, Holds, Named, StoreInv, ServerOK
  <2>4. PlanOf(r, new) = schedule(f, None)
    BY <1>3, <2>3 DEF PlanOf, Before, After
  <2>5. files' = files \ {f} /\ versions \subseteq versions'
    BY <2>1 DEF Delete, Record
  <2>6. ASSUME flavor = "cal" PROVE Removed({f}, Elements(PlanOf(r, new)))
    <3>1. Elements(PlanOf(r, new)) = Cancels(f, f.guests)
      BY <2>3, <2>4, <2>6, OrganizerOwes
    <3>2. Elements(PlanOf(r, new)) \subseteq Letter
      BY AcceptIsSound, PlansAreLetters
    <3>3. \A m \in Cancels(f, f.guests) : m.method = "CANCEL" /\ m.href = f.href
      BY DEF Cancels, Message
    <3>4. \A g \in f.guests : \E m \in Cancels(f, f.guests) :
            m.href = f.href /\ g \in m.to /\ m.seq = f.seq + 1
      BY DEF Cancels, Message
    <3>. QED
      BY <1>1, <2>3, <2>5, <3>1, <3>2, <3>3, <3>4 DEF Removed
  <2>. QED
    BY <1>1, <2>5, <2>6, GoneTells
<1>4. CASE doing(r) \in {"make", "mkcol", "rmcol"} /\ Elements(PlanOf(r, new)) = {}
  <2>1. CASE MakeCol(op.col)
    <3>1. Removed({}, {}) /\ files' = files
      BY <1>1, <2>1 DEF MakeCol, Removed
    <3>. QED
      BY <1>1, <1>4, <3>1, GoneTells
  <2>2. CASE DeleteCol(op.col)
    <3>1. files' = files \ In(op.col) /\ versions' = versions \cup {Dead(f, "all") : f \in In(op.col)}
      BY <2>2 DEF DeleteCol, Record
    <3>2. ASSUME NEW f \in In(op.col) PROVE Swept(f.href, versions')
      <4>1. Dead(f, "all") \in versions' /\ f \in Resource
        BY <1>1, <3>1 DEF In, StoreInv, ServerOK
      <4>2. Dead(f, "all").href = f.href /\ Dead(f, "all").col = "all"
        BY <4>1 DEF Dead, Resource
      <4>. QED
        BY <4>1, <4>2 DEF Swept
    <3>3. Removed(In(op.col), {})
      BY <1>1, <3>1, <3>2 DEF Removed, In
    <3>. QED
      BY <1>1, <1>4, <3>1, <3>3, GoneTells
  <2>. QED
    BY <1>4, <2>1, <2>2 DEF Accept
<1>5. doing(r) \in {"make", "mkcol", "rmcol"} => Elements(PlanOf(r, new)) = {}
  BY ElementsOfNone DEF PlanOf
<1>. QED
  BY <1>2, <1>3, <1>4, <1>5 DEF Accept

LEMMA PlanOfMake ==
  ASSUME NEW r \in Request, NEW new, doing(r) = "make"
  PROVE  PlanOf(r, new) = <<>>
BY DEF PlanOf

\* A write answered, one way or another, and what the call that made it does next.
LEMMA WritingOver ==
  ASSUME DavInv, NEW r \in Request, req[r].pc = "sent", StoreInv', versions \subseteq versions',
         TellInv', DOMAIN req' = Request,
         \A s \in Request : s # r => req'[s] = req[s],
         \/ req'[r] = Done
         \/ CallOK(req'[r], versions') /\ req'[r].pc = "list",
         NEW a \in Outcomes, CountFault(a),
         UNCHANGED <<flavor, caches, others, told, overlapped, behind>>,
         unasked' = (unasked \/ /\ doing(r) = "rmcol" /\ ~ req[r].op.contents
                                /\ In(req[r].op.col) # {})
  PROVE  DavInv'
<1>1. CallsInv'
  BY CallsMove DEF DavInv
<1>2. InFlight(r) /\ DOMAIN dirCache = Col
  BY DEF InFlight, DavInv, CacheInv
<1>3. ASSUME flavor # "card", Alone
      PROVE  /\ CachesFresh' /\ ~ unasked' /\ ~ behind'
             /\ InFlight(r)' => Fresh(req[r])'
  <2>1. Fresh(req[r]) /\ ~ unasked /\ ~ behind
    BY <1>2, <1>3 DEF DavInv, SoloInv
  <2>2. listCache = None /\ \A c \in Col : dirCache[c] = None
    BY <2>1 DEF Fresh
  <2>3. CachesFresh'
    BY <2>2 DEF CachesFresh, caches
  <2>4. doing(r) = "rmcol" => req[r].op.kind = "rmcol"
    BY DEF doing
  <2>5. ~ unasked'
    BY <2>1, <2>4 DEF Fresh
  <2>6. InFlight(r)' => Fresh(req[r])'
    BY DEF InFlight, Done, Fresh
  <2>. QED
    BY <2>1, <2>3, <2>5, <2>6
<1>4. SoloInv'
  BY <1>2, <1>3, SoloMoves DEF DavInv
<1>5. MailInv'
  BY MailStays DEF DavInv
<1>6. CacheInv'
  <2>1. faults' \in Nat /\ faults' + others' <= Budget[flavor']
    BY FaultsAreBounded DEF DavInv
  <2>. QED
    BY <2>1 DEF DavInv, CacheInv, caches
<1>. QED
  BY <1>1, <1>4, <1>5, <1>6 DEF DavInv

LEMMA TakeKeeps ==
  ASSUME DavInv, NEW r \in Request, Take(r)
  PROVE  DavInv' /\ EditsKept
<1>1. /\ req[r].pc = "sent"
      /\ UNCHANGED <<flavor, caches, others, told, overlapped, behind>>
      /\ inPlace' = inPlace \cup PatchedInPlace(r)
      /\ unasked' = (unasked \/ /\ doing(r) = "rmcol" /\ ~ req[r].op.contents
                                /\ In(req[r].op.col) # {})
  BY DEF Take
<1>2. PICK a \in Outcomes \ {"no"}, h \in IF doing(r) = "create" THEN Href \ used ELSE {None} :
        /\ Accept(r, NewOf(r, h)) /\ CountFault(a)
        /\ IF a = "lost" THEN Quit(r) ELSE Succeed(r, PlanOf(r, NewOf(r, h)))
  BY DEF Take
<1>3. CallOK(req[r], versions) /\ DOMAIN req = Request
  BY <1>1 DEF DavInv, CallsInv, InFlight
<1>4. /\ StoreInv' /\ versions \subseteq versions' /\ EditsKept
      /\ PlanOK(PlanOf(r, NewOf(r, h)), versions')
  BY <1>1, <1>2, <1>3, AcceptIsSound
<1>5. /\ DOMAIN req' = Request
      /\ \A s \in Request : s # r => req'[s] = req[s]
      /\ \/ req'[r] = Done
         \/ CallOK(req'[r], versions') /\ req'[r].pc = "list"
  <2>1. CASE a = "lost"
    <3>1. Leaves(r)
      BY <1>2, <1>3, <2>1, Quitting
    <3>. QED
      BY <3>1 DEF Leaves
  <2>2. CASE a # "lost"
    BY <1>1, <1>2, <1>3, <1>4, <2>2, PlanOfMake, SucceedOK
  <2>. QED
    BY <2>1, <2>2
<1>6. TellInv'
  <2> DEFINE plan == PlanOf(r, NewOf(r, h))
  <2>1. CASE a = "lost"
    <3>1. faults' = faults + 1 /\ faults \in Nat
      BY <1>2, <2>1 DEF CountFault, DavInv, CacheInv
    <3>. QED
      BY <3>1 DEF TellInv
  <2>2. CASE a # "lost"
    <3>1. faults' = faults
      BY <1>2, <2>2 DEF CountFault
    <3>2. req'[r].pc = "list" /\ req'[r].plan = plan
      BY <1>1, <1>2, <1>3, <1>4, <2>2, PlanOfMake, SucceedOK
    <3>3. Letters(r)' = Elements(plan)
      BY <3>2 DEF Letters, InFlight, Elements
    <3>4. Letters(r) = {}
      BY <1>1, <1>3, ElementsOfNone DEF CallOK, Letters, Elements
    <3>5. AllMail' = AllMail \cup Elements(plan)
      BY <1>1, <1>5, <3>3, <3>4, MailGrows
    <3>6. SUFFICES ASSUME flavor # "card", Alone, faults = 0
                   PROVE  Told(AllMail', files', versions', inPlace')
      BY <1>1, <3>1 DEF TellInv, Alone, Told
    <3>7. Told(AllMail, files, versions, inPlace)
      BY <3>6 DEF DavInv, TellInv
    <3> HIDE DEF plan
    <3>8. Told(AllMail \cup Elements(plan), files', versions', inPlace')
      BY <1>1, <1>2, <1>3, <3>6, <3>7, AcceptTells DEF plan
    <3>. QED
      BY <3>5, <3>8
  <2>. QED
    BY <2>1, <2>2
<1>7. DavInv'
  BY <1>1, <1>2, <1>4, <1>5, <1>6, WritingOver
<1>. QED
  BY <1>4, <1>7

LEMMA RefuseKeeps ==
  ASSUME DavInv, NEW r \in Request, Refuse(r)
  PROVE  DavInv'
<1> DEFINE op == req[r].op
<1>1. /\ req[r].pc = "sent"
      /\ UNCHANGED <<flavor, server, caches, others, history>>
  BY DEF Refuse
<1>2. /\ versions' = versions /\ StoreInv'
      /\ UNCHANGED <<told, overlapped, unasked, behind>>
  BY <1>1, StoreStays DEF DavInv, server, history
<1>3. CallOK(req[r], versions) /\ DOMAIN req = Request /\ InFlight(r)
  BY <1>1 DEF DavInv, CallsInv, InFlight
<1>4. \E a \in Outcomes : CountFault(a)
  BY DEF Refuse, CountFault, Outcomes
<1>5. ASSUME Moot(r) PROVE PlanOK(PlanOf(r, None), versions)
  <2>1. CASE doing(r) = "remove" /\ Named(op.href) = {}
    <3> DEFINE base == req[r].base
    <3>1. PlanOf(r, None) = schedule(base, None)
      BY <2>1 DEF PlanOf, Before, After
    <3>2. base = None \/ (base \in Resource /\ base \in versions /\ base.href = op.href)
      BY <1>3 DEF CallOK, BodyOf
    <3>3. base # None => \E v \in versions : v.href = base.href /\ v.col \notin Col
      <4>1. SUFFICES ASSUME base # None PROVE \E v \in versions : v.href = base.href /\ v.col \notin Col
        OBVIOUS
      <4>2. base.col \in Col
        BY <3>2, <4>1 DEF Resource
      <4>3. Replaced(base) \/ Deleted(base)
        BY <3>2, <4>1, <4>2 DEF DavInv, StoreInv, HistoryOK
      <4>4. ~ Replaced(base)
        BY <2>1, <3>2, <4>1 DEF Replaced, Named
      <4>. QED
        BY <4>3, <4>4 DEF Deleted
    <3> HIDE DEF base
    <3>. QED
      BY <3>1, <3>2, <3>3, RemovedIsWarranted
  <2>2. CASE doing(r) \in {"rmcol", "make"}
    BY <2>2, NoMail DEF PlanOf
  <2>. QED
    BY <1>5, <2>1, <2>2 DEF Moot
<1>6. /\ DOMAIN req' = Request
      /\ \A s \in Request : s # r => req'[s] = req[s]
      /\ \/ req'[r] = Done
         \/ CallOK(req'[r], versions') /\ req'[r].pc = "list"
  <2>1. CASE Moot(r) /\ Succeed(r, PlanOf(r, None))
    BY <1>1, <1>2, <1>3, <1>5, <2>1, PlanOfMake, SucceedOK
  <2>2. CASE Quit(r)
    BY <1>3, <2>2, Quitting DEF Leaves
  <2>. QED
    BY <2>1, <2>2 DEF Refuse
<1>7. CallsInv'
  BY <1>2, <1>6, CallsMove DEF DavInv
<1>8. ASSUME flavor # "card", Alone
      PROVE  /\ CachesFresh' /\ ~ unasked' /\ ~ behind'
             /\ InFlight(r)' => Fresh(req[r])'
  <2>1. CachesFresh /\ ~ unasked /\ ~ behind
    BY <1>8 DEF DavInv, SoloInv
  <2>2. InFlight(r)' => Fresh(req[r])'
    BY <1>6 DEF InFlight, Done, Fresh
  <2>. QED
    BY <1>1, <1>2, <2>1, <2>2, FreshStays
<1>9. SoloInv'
  BY <1>1, <1>2, <1>3, <1>6, <1>8, SoloMoves DEF DavInv
<1>10. MailInv'
  BY <1>2, MailStays DEF DavInv
<1>11. CacheInv'
  <2>1. faults' \in Nat /\ faults' + others' <= Budget[flavor']
    BY <1>1, <1>4, FaultsAreBounded DEF DavInv
  <2>. QED
    BY <1>1, <1>2, <2>1 DEF DavInv, CacheInv, caches
<1>12. TellInv'
  <2>1. Letters(r) = {}
    BY <1>1, <1>3, ElementsOfNone DEF CallOK, Letters, Elements
  <2>2. ASSUME flavor # "card", Alone PROVE Letters(r)' = {}
    <3>1. CASE Quit(r)
      BY <1>3, <3>1, Quitting DEF Leaves, Letters, InFlight, Done
    <3>2. CASE Moot(r) /\ Succeed(r, PlanOf(r, None))
      <4>1. PlanOf(r, None) = <<>>
        <5>1. CASE doing(r) = "remove" /\ Named(op.href) = {}
          <6>1. Holds(op, req[r].base)
            BY <1>1, <1>3, <2>2, <5>1 DEF DavInv, SoloInv, Fresh, doing, AboutOne
          <6>2. req[r].base = None
            BY <1>3, <5>1, <6>1 DEF Holds, Named, CallOK, BodyOf
          <6>3. PlanOf(r, None) = schedule(None, None)
            BY <5>1, <6>2 DEF PlanOf, Before, After
          <6>. QED
            BY <6>3 DEF schedule, planScheduling, reply
        <5>2. CASE doing(r) \in {"rmcol", "make"}
          BY <5>2 DEF PlanOf
        <5>. QED
          BY <3>2, <5>1, <5>2 DEF Moot
      <4>2. PlanOK(<<>>, versions')
        BY NoMail
      <4>3. req'[r].pc = "list" /\ req'[r].plan = <<>>
        BY <1>1, <1>2, <1>3, <3>2, <4>1, <4>2, SucceedOK
      <4>. QED
        BY <4>3, ElementsOfNone DEF Letters, Elements
    <3>. QED
      BY <3>1, <3>2 DEF Refuse
  <2>3. UNCHANGED <<flavor, files, versions, told, inPlace>> /\ (Alone' => Alone)
    BY <1>1 DEF server, history, Alone
  <2>4. faults' = 0 => faults = 0
    <3>1. faults \in Nat
      BY DEF DavInv, CacheInv
    <3>. QED
      BY <3>1 DEF Refuse, CountFault
  <2>. QED
    BY <1>6, <2>1, <2>2, <2>3, <2>4, TellStays DEF DavInv
<1>. QED
  BY <1>2, <1>7, <1>9, <1>10, <1>11, <1>12 DEF DavInv

LEMMA ElementsOfTail ==
  ASSUME NEW plan \in Seq(Letter), plan # <<>>
  PROVE  Elements(plan) = {Head(plan)} \cup Elements(Tail(plan))
<1>1. /\ Len(plan) \in Nat /\ Len(plan) # 0 /\ Head(plan) = plan[1]
      /\ Len(Tail(plan)) = Len(plan) - 1
      /\ \A i \in 1..(Len(plan) - 1) : Tail(plan)[i] = plan[i + 1]
  OBVIOUS
<1>2. ASSUME NEW i \in 1..Len(plan) PROVE plan[i] \in {Head(plan)} \cup Elements(Tail(plan))
  <2>1. CASE i = 1
    BY <1>1, <2>1
  <2>2. CASE i # 1
    <3>1. i - 1 \in 1..Len(Tail(plan)) /\ Tail(plan)[i - 1] = plan[i]
      BY <1>1, <2>2
    <3>. QED
      BY <3>1 DEF Elements
  <2>. QED
    BY <2>1, <2>2
<1>3. ASSUME NEW i \in 1..Len(Tail(plan)) PROVE Tail(plan)[i] \in Elements(plan)
  <2>1. i + 1 \in 1..Len(plan) /\ Tail(plan)[i] = plan[i + 1]
    BY <1>1
  <2>. QED
    BY <2>1 DEF Elements
<1>4. 1 \in 1..Len(plan)
  BY <1>1
<1>. QED
  BY <1>1, <1>2, <1>3, <1>4 DEF Elements

LEMMA MailKeeps ==
  ASSUME DavInv, NEW r \in Request, Mail(r)
  PROVE  DavInv'
<1> DEFINE plan == req[r].plan
           new == [plan |-> Tail(plan)]
<1>1. /\ req[r].pc = "mail"
      /\ UNCHANGED <<flavor, server, caches, others, inPlace, overlapped, unasked, behind>>
  BY DEF Mail
<1>2. versions' = versions /\ StoreInv'
  BY <1>1, StoreStays DEF DavInv, server
<1>3. /\ InFlight(r) /\ CallOK(req[r], versions) /\ DOMAIN req = Request /\ DOMAIN req[r] = Fields
      /\ PlanOK(plan, versions)
  BY <1>1 DEF DavInv, CallsInv, InFlight, CallOK
<1>4. CASE plan = <<>>
  <2>1. Leaves(r) /\ UNCHANGED <<faults, told>>
    BY <1>3, <1>4, Quitting DEF Mail
  <2>2. CallsInv'
    BY <1>2, <2>1, CallsMove DEF DavInv, Leaves
  <2>3. SoloInv'
    <3>1. ASSUME flavor # "card", Alone
          PROVE  /\ CachesFresh' /\ ~ unasked' /\ ~ behind'
                 /\ InFlight(r)' => Fresh(req[r])'
      <4>1. CachesFresh /\ ~ unasked /\ ~ behind
        BY <3>1 DEF DavInv, SoloInv
      <4>. QED
        BY <1>1, <2>1, <4>1, FreshStays DEF Leaves, InFlight, Done
    <3>. QED
      BY <1>1, <1>3, <2>1, <3>1, SoloMoves DEF DavInv, Leaves
  <2>4. CacheInv' /\ MailInv'
    BY <1>1, <1>2, <2>1, CachesStay, MailStays DEF DavInv
  <2>5. TellInv'
    <3>1. Letters(r)' = Letters(r)
      BY <1>3, <1>4, <2>1, LettersStay DEF Leaves
    <3>2. UNCHANGED <<files, versions>> /\ (Alone' => Alone)
      BY <1>1 DEF server, Alone
    <3>. QED
      BY <1>1, <2>1, <3>1, <3>2, TellStays DEF DavInv, Leaves
  <2>. QED
    BY <1>2, <2>2, <2>3, <2>4, <2>5 DEF DavInv
<1>5. CASE plan # <<>>
  <2>1. Become(r, new)
    BY <1>5 DEF Mail
  <2>2. PICK a \in Outcomes \ {"lost"} :
          /\ CountFault(a)
          /\ told' = IF a = "ok" THEN told \cup {Head(plan)} ELSE told
    BY <1>5 DEF Mail
  <2>3. Moves(r, new)
    BY <1>1, <1>3, <2>1, Moving DEF Fields
  <2>4. Head(plan) \in Letter /\ Warranted(Head(plan), versions) /\ PlanOK(Tail(plan), versions)
    <3>1. plan \in Seq(Letter) /\ Len(plan) \in Nat /\ Len(plan) # 0 /\ Head(plan) = plan[1]
      BY <1>3, <1>5 DEF PlanOK
    <3>2. /\ Tail(plan) \in Seq(Letter) /\ Len(Tail(plan)) = Len(plan) - 1
          /\ \A i \in 1..(Len(plan) - 1) : Tail(plan)[i] = plan[i + 1]
      BY <3>1
    <3>3. \A i \in 1..Len(plan) : Warranted(plan[i], versions)
      BY <1>3 DEF PlanOK
    <3>4. \A i \in 1..(Len(plan) - 1) : i + 1 \in 1..Len(plan)
      BY <3>1
    <3>. QED
      BY <3>1, <3>2, <3>3, <3>4 DEF PlanOK
  <2>5. /\ req'[r].op = req[r].op /\ req'[r].plan = Tail(plan) /\ req'[r].base = req[r].base
        /\ req'[r].pc = "mail" /\ DOMAIN req'[r] = Fields /\ req'[r].phase = req[r].phase
    BY <1>1, <2>3 DEF Moves, Fields
  <2>11. req[r].phase = "last"
    BY <1>3, <1>5 DEF CallOK
  <2> HIDE DEF plan, new
  <2>6. CallOK(req'[r], versions')
    BY <1>1, <1>2, <1>3, <2>4, <2>5, <2>11 DEF CallOK, Stage
  <2>7. CallsInv'
    BY <1>2, <2>3, <2>6, CallsMove DEF DavInv, Moves
  <2>8. SoloInv'
    <3>1. ASSUME flavor # "card", Alone
          PROVE  CachesFresh' /\ ~ unasked' /\ ~ behind' /\ Fresh(req[r])'
      <4>1. CachesFresh /\ ~ unasked /\ ~ behind
        BY <3>1 DEF DavInv, SoloInv
      <4>2. Fresh(req[r])'
        BY <2>5 DEF Fresh
      <4>. QED
        BY <1>1, <4>1, <4>2, FreshStays
    <3>. QED
      BY <1>1, <1>3, <2>3, <3>1, SoloMoves DEF DavInv, Moves
  <2>9. MailInv'
    BY <1>2, <2>2, <2>4 DEF DavInv, MailInv
  <2>10. CacheInv'
    <3>1. faults' \in Nat /\ faults' + others' <= Budget[flavor']
      BY <1>1, <2>2, FaultsAreBounded DEF DavInv
    <3>. QED
      BY <1>1, <1>2, <3>1 DEF DavInv, CacheInv, caches
  <2>12. TellInv'
    <3>1. UNCHANGED <<files, versions>> /\ (Alone' => Alone)
      BY <1>1 DEF server, Alone
    <3>2. CASE a # "ok"
      <4>1. a = "no" /\ faults \in Nat
        BY <3>2 DEF Outcomes, DavInv, CacheInv
      <4>2. faults' = faults + 1
        BY <2>2, <4>1 DEF CountFault
      <4>. QED
        BY <4>1, <4>2 DEF TellInv
    <3>3. CASE a = "ok"
      <4>1. told' = told \cup {Head(plan)} /\ faults' = faults
        BY <2>2, <3>3 DEF CountFault
      <4>2. Letters(r) = Elements(plan) /\ Letters(r)' = Elements(Tail(plan))
        BY <1>3, <2>5 DEF Letters, InFlight, Elements, plan
      <4>3. Elements(plan) = {Head(plan)} \cup Elements(Tail(plan))
        BY <1>3, <1>5, ElementsOfTail DEF PlanOK
      <4>4. ASSUME NEW s \in Request, s # r PROVE Letters(s)' = Letters(s)
        <5>1. req'[s] = req[s]
          BY <2>3, <4>4 DEF Moves
        <5>. QED
          BY <5>1 DEF Letters, InFlight
      <4>5. AllMail' = AllMail
        BY <4>1, <4>2, <4>3, <4>4 DEF AllMail
      <4>. QED
        BY <1>1, <3>1, <4>1, <4>5, TellSame DEF DavInv
    <3>. QED
      BY <3>2, <3>3
  <2>. QED
    BY <1>2, <2>7, <2>8, <2>9, <2>10, <2>12 DEF DavInv
<1>. QED
  BY <1>4, <1>5

-----------------------------------------------------------------------------
(* Other clients, and the theorems.                                        *)

LEMMA OtherWritesKeep ==
  ASSUME DavInv, OtherWrites
  PROVE  DavInv' /\ EditsKept
<1>1. Calm /\ others' = others + 1 /\ UNCHANGED <<flavor, caches, req, faults, history>>
  BY DEF OtherWrites
<1>2. /\ clock \in Nat /\ now = clock + 1 /\ MaxClock \in Nat
      /\ \A f \in files : /\ f \in Resource /\ f.col \in cols /\ f.seq < f.tag /\ f.tag <= clock
                          /\ f.href \in used /\ Named(f.href) = {f}
  BY DavAssumption DEF DavInv, StoreInv, ServerOK, VersionsOK, used, now
<1>3. StoreInv' /\ versions \subseteq versions' /\ EditsKept
  <2>1. ASSUME NEW f \in files, Put([f EXCEPT !.tag = now, !.text = now])
        PROVE  StoreInv' /\ versions \subseteq versions' /\ EditsKept
    <3> DEFINE new == [f EXCEPT !.tag = now, !.text = now]
    <3>1. now <= MaxClock /\ now \in 1..MaxClock /\ now \in 0..MaxClock
      BY <1>2, <2>1 DEF Put
    <3>2. f \in Resource
      BY <1>2
    <3>3. /\ new \in Resource /\ new.tag = now /\ new.col = f.col /\ new.href = f.href
          /\ new.seq = f.seq /\ new.guests = f.guests
      BY <3>1, <3>2 DEF Resource
    <3>4. new.seq < now
      BY <1>2, <3>3, DavAssumption DEF Resource
    <3> HIDE DEF new
    <3>5. Put(new)
      BY <2>1 DEF new
    <3>6. StoreInv' /\ versions \subseteq versions'
      BY <1>2, <3>3, <3>4, <3>5, PutKeepsStore DEF DavInv
    <3>7. files' = (files \ Named(f.href)) \cup {new}
      BY <3>3, <3>5 DEF Put
    <3>8. EditsKept
      BY <1>2, <3>3, <3>7 DEF EditsKept, Named
    <3>. QED
      BY <3>6, <3>8
  <2>2. ASSUME NEW f \in files, Delete(f)
        PROVE  StoreInv' /\ versions \subseteq versions' /\ EditsKept
    BY <2>2, DeleteKeepsStore, NothingEdited DEF DavInv, Delete
  <2>3. ASSUME NEW c \in cols, NEW h \in Href \ used,
               Put([href |-> h, col |-> c, tag |-> now, text |-> now, guests |-> {}, seq |-> 0])
        PROVE  StoreInv' /\ versions \subseteq versions' /\ EditsKept
    <3> DEFINE new == [href |-> h, col |-> c, tag |-> now, text |-> now, guests |-> {}, seq |-> 0]
    <3>1. now <= MaxClock /\ now \in 1..MaxClock /\ now \in 0..MaxClock /\ 0 < now /\ c \in Col
      BY <1>2, <2>3 DEF Put, cols
    <3>2. new \in Resource /\ new.tag = now /\ new.col \in cols /\ new.href \notin used /\ new.seq < now
      BY <1>2, <3>1 DEF Resource
    <3> HIDE DEF new
    <3>3. Put(new)
      BY <2>3 DEF new
    <3>4. StoreInv' /\ versions \subseteq versions'
      BY <3>2, <3>3, PutKeepsStore DEF DavInv
    <3>5. EditsKept
      BY <1>2, <3>2, <3>3 DEF EditsKept, Put, Named
    <3>. QED
      BY <3>4, <3>5
  <2>4. ASSUME NEW c \in Col \ cols, MakeCol(c)
        PROVE  StoreInv' /\ versions \subseteq versions' /\ EditsKept
    BY <2>4, MakeColKeepsStore, NothingEdited DEF DavInv, MakeCol
  <2>5. ASSUME NEW c \in cols, DeleteCol(c)
        PROVE  StoreInv' /\ versions \subseteq versions' /\ EditsKept
    BY <2>5, DeleteColKeepsStore, NothingEdited DEF DavInv, DeleteCol, cols
  <2>. QED
    BY <2>1, <2>2, <2>3, <2>4, <2>5 DEF OtherWrites
<1>4. CallsInv'
  <2>1. ASSUME NEW r \in Request
        PROVE  IF InFlight(r)' THEN CallOK(req'[r], versions') ELSE req'[r] \in {Idle, Done}
    <3>1. req'[r] = req[r] /\ (InFlight(r)' <=> InFlight(r))
      BY <1>1 DEF InFlight
    <3>. QED
      BY <1>3, <3>1, CallStays DEF DavInv, CallsInv
  <2>. QED
    BY <1>1, <2>1 DEF DavInv, CallsInv
<1>5. MailInv'
  BY <1>1, <1>3, MailStays DEF DavInv, history
<1>6. CacheInv'
  <2> DEFINE busy == {r \in Request : req[r].pc # "idle"}
  <2>1. Cardinality(busy) + faults + others < Budget[flavor]
    BY <1>1 DEF Calm
  <2>2. Cardinality(busy) \in Nat
    BY DavAssumption, FS_Subset, FS_CardinalityType
  <2>3. faults \in Nat /\ others \in Nat /\ Budget[flavor] \in Nat
    BY DavAssumption DEF DavInv, CacheInv
  <2> HIDE DEF busy
  <2>4. faults' \in Nat /\ others' \in Nat /\ faults' + others' <= Budget[flavor']
    BY <1>1, <2>1, <2>2, <2>3
  <2>. QED
    BY <1>1, <1>3, <2>4 DEF DavInv, CacheInv, caches
<1>7. SoloInv'
  <2>1. ~ Alone'
    BY <1>1 DEF DavInv, CacheInv, Alone
  <2>2. OneCall' <=> OneCall
    BY <1>1 DEF OneCall, InFlight
  <2>. QED
    BY <1>1, <2>1, <2>2 DEF DavInv, SoloInv, history
<1>8. TellInv'
  <2>1. ~ Alone'
    BY <1>1 DEF DavInv, CacheInv, Alone
  <2>. QED
    BY <2>1 DEF TellInv
<1>. QED
  BY <1>3, <1>4, <1>5, <1>6, <1>7, <1>8 DEF DavInv

LEMMA InitIsOK ==
  ASSUME Init
  PROVE  DavInv
<1>1. PICK h \in Href, g \in SUBSET Guest :
        files \in IF clock = 1
                  THEN {{}, {[href |-> h, col |-> Default, tag |-> 1, text |-> 1, guests |-> g, seq |-> 0]}}
                  ELSE {{}}
  BY DEF Init
<1> DEFINE f == [href |-> h, col |-> Default, tag |-> 1, text |-> 1, guests |-> g, seq |-> 0]
<1>2. /\ clock \in {0, 1} /\ ctag = [c \in Col |-> IF c = Default THEN clock ELSE 0]
      /\ versions = files /\ MaxClock \in Nat /\ 1 <= MaxClock
  BY DavAssumption DEF Init
<1>3. files = {} \/ (files = {f} /\ clock = 1)
  BY <1>1
<1>4. /\ f \in Resource /\ f \in Version /\ f.tag = 1 /\ f.seq = 0 /\ f.col = Default
      /\ f.href = h /\ f.guests = g
  BY <1>2, DavAssumption DEF Resource, Version
<1>5. clock = 1 => Default \in cols /\ ctag[Default] = 1
  BY <1>2, DavAssumption DEF cols
<1> HIDE DEF f
<1>6. StoreInv
  <2>1. ServerOK
    <3>1. clock \in 0..MaxClock /\ ctag \in [Col -> 0..MaxClock]
      BY <1>2
    <3>. QED
      BY <1>2, <1>3, <1>4, <1>5, <3>1 DEF ServerOK, Named
  <2>2. VersionsOK
    BY <1>2, <1>3, <1>4 DEF VersionsOK
  <2>3. HistoryOK
    BY <1>2, <1>3, <1>4, <1>5 DEF HistoryOK, Replaced
  <2>. QED
    BY <2>1, <2>2, <2>3 DEF StoreInv
<1>7. CacheInv
  <2>1. /\ flavor \in {"card", "cal", "guest"} /\ faults = 0 /\ others = 0
        /\ listCache = None /\ dirCache = [c \in Col |-> None] /\ bodies = {}
    BY DEF Init
  <2>2. Budget[flavor] \in Nat
    BY <2>1, DavAssumption
  <2>. QED
    BY <2>1, <2>2 DEF CacheInv
<1>8. CallsInv
  BY DEF Init, CallsInv, InFlight, Idle
<1>9. MailInv
  <2>1. SUFFICES ASSUME NEW m \in told PROVE m \in Letter /\ Warranted(m, versions)
    BY DEF MailInv
  <2>2. PICK x \in files :
          m = Message(IF flavor = "guest" THEN "REPLY" ELSE "REQUEST", x.href, x.guests, 0)
    BY DEF Init
  <2>3. x \in versions /\ x.seq = 0 /\ x.href \in Href /\ x.guests \in SUBSET Guest
    BY <1>2, <1>3, <1>4
  <2>4. /\ m.href = x.href /\ m.to = x.guests /\ m.seq = 0 /\ m.method \in {"REQUEST", "REPLY"}
        /\ m \in Letter
    BY <2>2, <2>3 DEF Message, Letter
  <2>. QED
    BY <2>3, <2>4 DEF Warranted
<1>10. SoloInv
  <2>1. \A r \in Request : ~ InFlight(r)
    BY DEF Init, InFlight, Idle
  <2>2. CachesFresh
    BY DEF Init, CachesFresh
  <2>. QED
    BY <2>1, <2>2 DEF Init, SoloInv, OneCall
<1>11. TellInv
  <2> DEFINE m == Message(IF flavor = "guest" THEN "REPLY" ELSE "REQUEST", f.href, f.guests, 0)
  <2>1. AllMail = told
    BY DEF Init, AllMail, Letters, InFlight, Idle
  <2>2. told = {Message(IF flavor = "guest" THEN "REPLY" ELSE "REQUEST", x.href, x.guests, 0) : x \in files}
    BY DEF Init
  <2>3. (files = {} /\ told = {}) \/ (files = {f} /\ told = {m})
    BY <1>3, <2>2
  <2>4. /\ m \in Letter /\ m.href = f.href /\ m.to = f.guests /\ m.seq = 0
        /\ m.method = IF flavor = "guest" THEN "REPLY" ELSE "REQUEST"
    BY <1>4 DEF Message, Letter
  <2> HIDE DEF m
  <2>5. ASSUME flavor = "cal"
        PROVE  /\ NoneIsNewer(told, files, versions) /\ GuestsAreInvited(told, files)
               /\ OthersAreNot(told, files, versions, inPlace)
    <3>1. CASE files = {} /\ told = {}
      BY <3>1 DEF NoneIsNewer, GuestsAreInvited, OthersAreNot, Expecting
    <3>2. CASE files = {f} /\ told = {m}
      BY <1>2, <1>4, <2>4, <2>5, <3>2
         DEF NoneIsNewer, GuestsAreInvited, OthersAreNot, Expecting, Invited
    <3>. QED
      BY <2>3, <3>1, <3>2
  <2>6. ASSUME flavor = "guest" PROVE AnswersAreMailed(told, files, inPlace)
    <3>1. CASE files = {} /\ told = {}
      BY <3>1 DEF AnswersAreMailed
    <3>2. CASE files = {f} /\ told = {m}
      BY <2>4, <2>6, <3>2 DEF AnswersAreMailed
    <3>. QED
      BY <2>3, <3>1, <3>2
  <2>. QED
    BY <2>1, <2>5, <2>6 DEF TellInv, Told
<1>. QED
  BY <1>6, <1>7, <1>8, <1>9, <1>10, <1>11 DEF DavInv

LEMMA StepKeeps ==
  ASSUME DavInv, NEW r \in Request, Step(r)
  PROVE  DavInv' /\ EditsKept
<1>1. CASE Take(r)
  BY <1>1, TakeKeeps
<1>2. CASE \E op \in Calls : Call(r, op)
  BY <1>2, CallKeeps, NothingEdited DEF Call, server, DavInv
<1>3. CASE ListHit(r) \/ ListMiss(r) \/ Listed(r)
  BY <1>3, ListHitKeeps, ListMissKeeps, ListedKeeps, NothingEdited
     DEF ListHit, ListMiss, Listed, server, DavInv
<1>4. CASE DirHit(r) \/ DirMiss(r) \/ Dirred(r)
  BY <1>4, DirHitKeeps, DirMissKeeps, DirredKeeps, NothingEdited
     DEF DirHit, DirMiss, Dirred, server, DavInv
<1>5. CASE FetchHit(r) \/ FetchMiss(r) \/ Fetched(r)
  BY <1>5, FetchHitKeeps, FetchMissKeeps, FetchedKeeps, NothingEdited
     DEF FetchHit, FetchMiss, Fetched, AfterFetch, server, DavInv
<1>6. CASE Issue(r) \/ Refuse(r) \/ Mail(r)
  BY <1>6, IssueKeeps, RefuseKeeps, MailKeeps, NothingEdited
     DEF Issue, Refuse, Mail, server, DavInv
<1>. QED
  BY <1>1, <1>2, <1>3, <1>4, <1>5, <1>6 DEF Step

LEMMA NextKeeps ==
  ASSUME DavInv, [Next]_vars
  PROVE  DavInv' /\ EditsKept
<1>1. CASE UNCHANGED vars
  <2>1. UNCHANGED <<flavor, server, caches, req, faults, others, history>>
    BY <1>1 DEF vars
  <2>2. UNCHANGED <<files, versions, told, inPlace, overlapped, unasked, behind>>
    BY <2>1 DEF server, history
  <2>3. StoreInv' /\ CacheInv' /\ MailInv' /\ EditsKept
    BY <2>1, <2>2, StoreStays, CachesStay, MailStays, NothingEdited DEF DavInv
  <2>4. CallsInv'
    BY <2>1, <2>2 DEF DavInv, CallsInv, InFlight
  <2>5. SoloInv'
    BY <1>1 DEF DavInv, SoloInv, OneCall, Alone, InFlight, Fresh, CachesFresh, vars, server, caches,
               history, Listing, cols, Dir, In, Named, Holds
  <2>6. TellInv'
    <3>1. AllMail' = AllMail /\ (Alone' => Alone)
      BY <2>1, <2>2 DEF AllMail, Letters, InFlight, Alone
    <3>. QED
      BY <2>1, <2>2, <3>1, TellSame DEF DavInv
  <2>. QED
    BY <2>3, <2>4, <2>5, <2>6 DEF DavInv
<1>2. CASE Next
  BY <1>2, StepKeeps, OtherWritesKeep DEF Next
<1>. QED
  BY <1>1, <1>2

\* The invariant of a step, as TLC checks it on a small account.
THEOREM Inductive == Spec => []DavInv
<1>1. Init => DavInv
  BY InitIsOK
<1>2. DavInv /\ [Next]_vars => DavInv'
  BY NextKeeps
<1>. QED
  BY <1>1, <1>2, PTL DEF Spec

\* Two updates of a card or an event never undo one another, whatever listings and bodies
\* they were computed from: the server takes one made of what it still holds only.
THEOREM EditsAreKept == Spec => NoLostEdit
<1>1. DavInv /\ [Next]_vars =>
        [\A f \in files : \A new \in files' :
           new.href = f.href => new.text = f.text \/ new.guests = f.guests]_vars
  BY NextKeeps DEF EditsKept
<1>. QED
  BY <1>1, Inductive, PTL DEF Spec, NoLostEdit

\* Whatever overlaps, fails or is written by others, the mail people get says what some
\* version of the event is: schedule() is given what was stored, or what is gone.
THEOREM MailIsWarranted == Spec => []MailOnlyForWrites
<1>1. DavInv => MailOnlyForWrites
  BY DEF DavInv, MailInv, Warranted, MailOnlyForWrites
<1>. QED
  BY <1>1, Inductive, PTL

\* For one client alone, the caches of the CalDAV client are what is on the server when
\* they are read, so no calendar is destroyed with events unasked and no get answers a
\* body older than its state, whichever writes fail or lose their answers.
THEOREM CalendarsAreCurrent == Spec => []CalendarsOK
<1>1. DavInv => CalendarsOK
  <2>1. DavInv => TypeOK
    BY DEF DavInv, StoreInv, ServerOK, CacheInv, TypeOK
  <2>2. DavInv => (flavor # "card" /\ Alone => ~ unasked /\ ~ behind)
    BY DEF DavInv, SoloInv
  <2>. QED
    BY <2>1, <2>2 DEF CalendarsOK
<1>. QED
  BY <1>1, Inductive, PTL

\* For one client alone that meets no failure, when its calls are over: every guest of an
\* event has been invited to it as it is last, whoever was taken out of it has been told
\* so, and an answer that is in an event has been mailed; but for patches in place.
THEOREM PeopleAreInformed == Spec => []PeopleAreTold
<1>1. ASSUME DavInv, Quiet PROVE Told(told, files, versions, inPlace)
  <2>1. AllMail = told
    BY <1>1 DEF Quiet, AllMail, Letters
  <2>. QED
    BY <1>1, <2>1 DEF Quiet, DavInv, TellInv
<1>2. ASSUME DavInv, Told(told, files, versions, inPlace), flavor = "cal" PROVE GuestsAreTold
  <2>1. SUFFICES ASSUME NEW h \in used, \A v \in versions : v.href = h => v.col # "all", NEW g \in Guest
                 PROVE  LET invited == \E f \in Named(h) : g \in f.guests
                        IN  /\ invited => Expects(h, g)
                            /\ Expects(h, g) => invited \/ <<h, g>> \in inPlace
    BY DEF GuestsAreTold
  <2>2. /\ NoneIsNewer(told, files, versions) /\ GuestsAreInvited(told, files)
        /\ OthersAreNot(told, files, versions, inPlace)
    BY <1>2 DEF Told
  <2>3. ASSUME NEW f \in Named(h), g \in f.guests PROVE Expects(h, g)
    <3>1. f \in files /\ f.href = h
      BY DEF Named
    <3>2. PICK m \in told : m.method = "REQUEST" /\ m.href = h /\ g \in m.to /\ m.seq = f.seq
      BY <2>2, <2>3, <3>1 DEF GuestsAreInvited
    <3>3. \A x \in told : x.href = h => x.seq <= f.seq
      BY <2>2, <3>1 DEF NoneIsNewer
    <3>. QED
      BY <3>2, <3>3 DEF Expects, Mails
  <2>4. ASSUME Expects(h, g) PROVE (\E f \in Named(h) : g \in f.guests) \/ <<h, g>> \in inPlace
    <3>1. Expecting(told, h, g)
      BY <2>4 DEF Expects, Mails, Expecting
    <3>2. h \in Href
      BY <1>2 DEF used, DavInv, StoreInv, VersionsOK, Version
    <3>3. Swept(h, versions) \/ Invited(h, g, files) \/ <<h, g>> \in inPlace
      BY <2>2, <3>1, <3>2 DEF OthersAreNot
    <3>. QED
      BY <2>1, <3>3 DEF Swept, Invited, Named
  <2>. QED
    BY <2>3, <2>4
<1>3. ASSUME Told(told, files, versions, inPlace), flavor = "guest" PROVE AnswersAreSent
  BY <1>3 DEF Told, AnswersAreMailed, AnswersAreSent, Mails
<1>4. DavInv => PeopleAreTold
  BY <1>1, <1>2, <1>3 DEF PeopleAreTold
<1>. QED
  BY <1>4, Inductive, PTL
====
