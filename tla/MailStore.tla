----------------------------- MODULE MailStore -----------------------------
(***************************************************************************)
(* What the mail methods of one account share: the IMAP server (external,  *)
(* as the proxy's commands show it), the account's `email` and `mailbox`   *)
(* counters, and the JMAP requests in flight.  Every request has an IMAP   *)
(* connection of its own out of the pool; what a command does on the       *)
(* server and what the code does with its answer are separate steps when   *)
(* the command reads.                                                      *)
(***************************************************************************)
EXTENDS Naturals, FiniteSets, SequencesExt

CONSTANTS
    Path,       \* names a folder may have
    Inbox,      \* the folder the IDLE worker watches
    Msg,        \* messages, followed through moves and copies
    Start,      \* the mail there is at first: a set of letters
    Empty,      \* the folders that are empty at first
    MaxUid,     \* bound on the UIDs of a folder
    MaxTrouble, \* bound on commands that fail and steps other IMAP clients take
    Request,    \* the JMAP calls of a run, each used once
    None

ASSUME MailStoreAssumption ==
    /\ Inbox \in Path /\ Empty \subseteq Path /\ {MaxUid, MaxTrouble} \subseteq Nat
    /\ \A x \in Start : x.at \in Path /\ x.uid \in 1..MaxUid /\ x.msg \in Msg

VARIABLES
    ident,    \* path -> its UIDVALIDITY, 0 when there is no such folder
    mail,     \* the letters on the server
    uidNext,  \* path -> the UIDNEXT of the folder
    idents,   \* UIDVALIDITYs handed out so far
    faults,   \* commands that have failed so far
    others,   \* steps other clients have taken so far
    estate,   \* the `email` counter
    mstate,   \* the `mailbox` counter
    hushed,   \* history: letters changed since the `email` counter last moved
    doomed,   \* history: messages somebody asked to be destroyed
    req       \* the requests: a record of locals each

serverVars == <<ident, mail, uidNext, idents, faults, others, doomed>>

\* `at` is the folder, `uid` the UID in it; `seen` stands for the keywords.
Letter == [at : Path, uid : 1..MaxUid, msg : Msg, seen : BOOLEAN]

folders == {p \in Path : ident[p] # 0}
In(p) == {x \in mail : x.at = p}
UidsOf(letters) == {x.uid : x \in letters}
Picked(p, uids) == {x \in In(p) : x.uid \in uids}

Calm == faults + others < MaxTrouble

(* What becomes of a command of r: the server obeys, refuses, never gets   *)
(* it, or obeys and its answer is lost.  imapflow reports a failed STORE,  *)
(* MOVE, COPY, EXPUNGE or SEARCH by answering false, and a connection that *)
(* is gone refuses the SELECT before the next one.                         *)
Outcomes(r) ==
    IF req[r].dead THEN {"dead"}
    ELSE {"ok"} \cup (IF Calm THEN {"no", "cut", "lost"} ELSE {})
Obeyed(a) == a \in {"ok", "lost"}
Dies(a) == a \in {"cut", "lost", "dead"}
CountFault(a) == faults' = IF a \in {"no", "cut", "lost"} THEN faults + 1 ELSE faults

Idle == [op |-> "idle", pc |-> "idle", dead |-> FALSE]
Done == [Idle EXCEPT !.op = "done", !.pc = "done"]

\* The locals of r that a step changes, given as a record; its end drops them all.
Become(r, locals) ==
    req' = [req EXCEPT ![r] = LET new == locals @@ @ IN IF new.pc = "done" THEN Done ELSE new]

\* A session goes on with the folder it opened, whatever that is called by now.
Opened(id) == \E p \in folders : ident[p] = id
Held(id) == {x \in mail : ident[x.at] = id}

\* The letters as MOVE or COPY would lay them down in p: new UIDs, same order.
Landed(letters, p) ==
    {[x EXCEPT !.at = p,
               !.uid = uidNext[p] + Cardinality({y \in letters : y.uid < x.uid})] :
        x \in letters}
Fits(n, p) == uidNext[p] + n - 1 <= MaxUid
Took(n, p) == uidNext' = [uidNext EXCEPT ![p] = @ + n]

\* Store.bumpState and recordChanges on `email`: what changed before is announced.
BumpEmail == estate' = estate + 1 /\ hushed' = {}

Hush(letters) == hushed' = hushed \cup {<<x.at, x.uid>> : x \in letters}

-----------------------------------------------------------------------------
(* Other IMAP clients of the same account.                                 *)

OtherStep == Calm /\ others' = others + 1

Deliver(p, m) ==
    /\ OtherStep /\ p \in folders /\ Fits(1, p)
    /\ \A x \in mail : x.msg # m
    /\ m \notin doomed
    /\ LET x == [at |-> p, uid |-> uidNext[p], msg |-> m, seen |-> FALSE]
       IN  mail' = mail \cup {x} /\ Hush({x})
    /\ Took(1, p)
    /\ UNCHANGED <<ident, idents, faults, estate, mstate, doomed, req>>

Expunge(x) ==
    /\ OtherStep
    /\ mail' = mail \ {x} /\ Hush({x}) /\ doomed' = doomed \cup {x.msg}
    /\ UNCHANGED <<ident, uidNext, idents, faults, estate, mstate, req>>

Flag(x) ==
    /\ OtherStep
    /\ mail' = (mail \ {x}) \cup {[x EXCEPT !.seen = ~ @]} /\ Hush({x})
    /\ UNCHANGED <<ident, uidNext, idents, faults, estate, mstate, doomed, req>>

\* Another client removes a folder, or makes one: a new UIDVALIDITY.
OtherRemoves(p) ==
    /\ OtherStep /\ p \in folders /\ p # Inbox
    /\ ident' = [ident EXCEPT ![p] = 0]
    /\ mail' = mail \ In(p) /\ Hush(In(p))
    /\ doomed' = doomed \cup {x.msg : x \in In(p)}
    /\ UNCHANGED <<uidNext, idents, faults, estate, mstate, req>>

OtherMakes(p) ==
    /\ OtherStep /\ p \notin folders
    /\ ident' = [ident EXCEPT ![p] = idents + 1] /\ idents' = idents + 1
    /\ uidNext' = [uidNext EXCEPT ![p] = 1]
    /\ UNCHANGED <<mail, faults, estate, mstate, hushed, doomed, req>>

\* PushIdleManager: what the IDLE worker hears of INBOX moves both counters.
Announce ==
    /\ \E c \in hushed : c[1] = Inbox
    /\ BumpEmail
    /\ mstate' = mstate + 1
    /\ UNCHANGED <<serverVars, req>>

OtherNext ==
    \/ \E p \in Path, m \in Msg : Deliver(p, m)
    \/ \E x \in mail : Expunge(x) \/ Flag(x)
    \/ \E p \in Path : OtherRemoves(p) \/ OtherMakes(p)

StartFolders == {Inbox} \cup {x.at : x \in Start} \cup Empty
Index(p) == CHOOSE i \in 1..Cardinality(StartFolders) : SetToSeq(StartFolders)[i] = p

StoreInit ==
    /\ ident = [p \in Path |-> IF p \in StartFolders THEN Index(p) ELSE 0]
    /\ mail = Start
    /\ uidNext = [p \in Path |-> 1 + Cardinality({x \in Start : x.at = p})]
    /\ idents = Cardinality(StartFolders) /\ faults = 0 /\ others = 0
    /\ estate = 0 /\ mstate = 0
    /\ hushed = {} /\ doomed = {}
    /\ req = [r \in Request |-> Idle]
=============================================================================
