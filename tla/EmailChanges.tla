---------------------------- MODULE EmailChanges ----------------------------
(***************************************************************************)
(* Email/set, Email/import, Email/copy and EmailSubmission/set.  A batch   *)
(* is one command for all its UIDs; when it throws, every id is tried by   *)
(* itself.  What succeeded is recorded once, at the end of the call.       *)
(***************************************************************************)
EXTENDS Emails

CONSTANTS
    SetArgs,     \* [make, msg, move, kill], None where there is nothing to do
    CopyArgs,    \* [src, uid, dest, mark, drop]
    SubmitArgs   \* [src, uid, then, dest]: then is what onSuccess asks for

NoSuch(b) == b = None \/ row[b] = None

\* The UIDs of the next command: all of them, or one at a time.
Cur(r) == IF req[r].batch THEN req[r].rest ELSE {Min2(req[r].rest)}

\* The messages these ids name, by folder, UIDVALIDITY and UID.
NamedBy(k) == IF k = None \/ ~ Reaches(k.src) \/ ident[row[k.src]] # k.ident THEN {}
              ELSE {x.msg : x \in Picked(row[k.src], k.uids)}

-----------------------------------------------------------------------------
(* Email/set creates, then updates, then destroys.  Email/import is its    *)
(* create with an uploaded message.                                        *)

emailSet(r, arg) ==
    /\ req[r].pc = "idle"
    /\ Become(r, [op |-> "set", pc |-> "make", arg |-> arg, did |-> FALSE, touched |-> {}])
    /\ doomed' = doomed \cup NamedBy(arg.kill)
    /\ UNCHANGED <<ident, mail, uidNext, idents, faults, others, estate, mstate, hushed,
                   boxVars, emailVars>>

\* The ids one command moves or marks; an unknown folder fails them all.
UpdatesFrom(r) ==
    LET v == req[r].arg.move
        pc == IF v.mark THEN "store" ELSE "move"
    IN
    IF v = None \/ NoSuch(v.src) \/ (v.dest # None /\ NoSuch(v.dest))
    THEN [pc |-> "destroys"]
    ELSE [pc |-> pc, begin |-> pc, after |-> "destroys", batch |-> TRUE,
          src |-> v.src, rest |-> v.uids, dest |-> v.dest]

DestroysFrom(r) ==
    LET k == req[r].arg.kill IN
    IF k = None \/ NoSuch(k.src) THEN [pc |-> "record"]
    ELSE [pc |-> "kill", begin |-> "kill", after |-> "record", batch |-> TRUE,
          src |-> k.src, rest |-> k.uids, dest |-> None]

\* APPEND; when its answer is lost the letter is there all the same.
applyEmailCreate(r) ==
    LET b == req[r].arg.make
        x == [at |-> row[b], uid |-> uidNext[row[b]], msg |-> req[r].arg.msg, seen |-> FALSE]
    IN
    /\ req[r].pc = "make"
    /\ IF NoSuch(b)
       THEN Become(r, UpdatesFrom(r)) /\ UNCHANGED <<mail, uidNext, hushed, faults>>
       ELSE \E a \in Outcomes(r) :
            /\ CountFault(a)
            /\ IF Obeyed(a) /\ Reaches(b)
               THEN Fits(1, row[b]) /\ Took(1, row[b]) /\ mail' = mail \cup {x} /\ Hush({x})
               ELSE UNCHANGED <<mail, uidNext, hushed>>
            /\ Become(r, (IF a = "ok" /\ Reaches(b) THEN [did |-> TRUE, touched |-> {b}]
                          ELSE [dead |-> Dies(a)]) @@ UpdatesFrom(r))
    /\ UNCHANGED <<ident, idents, others, doomed, estate, mstate, boxVars, emailVars>>

EmailDestroys(r) ==
    /\ req[r].pc = "destroys"
    /\ Become(r, DestroysFrom(r))
    /\ UNCHANGED <<serverVars, estate, mstate, hushed, boxVars, emailVars>>

\* Where a command leaves its call when it is done, and when it threw: a batch
\* that threw is tried id by id, a single id that threw is given up.
Onward(r) ==
    LET left == req[r].rest \ Cur(r) IN
    [rest |-> left, pc |-> IF left = {} THEN req[r].after ELSE req[r].begin]
Succeeds(r) ==
    [did |-> TRUE, touched |-> req[r].touched \cup ({req[r].src, req[r].dest} \ {None})] @@ Onward(r)
Throws(r) ==
    IF req[r].batch THEN [batch |-> FALSE, pc |-> req[r].begin] ELSE Onward(r)

\* What is dropped from email_cache once a batch has left its folder.
Forget(r) ==
    LET uids == IF req[r].batch THEN Cur(r) ELSE {} IN
    /\ cached' = DeleteUids(cached, req[r].src, uids)
    /\ misled' = misled \cup {<<req[r].src, u>> : u \in uids \cap UidsOf(mail' \cap Lets(req[r].src))}

\* UID STORE: nobody looks at a refusal.
StoreFlags(r) ==
    LET marked == {x \in Lets(req[r].src) : x.uid \in Cur(r)} IN
    /\ req[r].pc = "store"
    /\ \E a \in Outcomes(r) :
        /\ CountFault(a)
        /\ IF Obeyed(a)
           THEN /\ mail' = (mail \ marked) \cup {[x EXCEPT !.seen = TRUE] : x \in marked}
                /\ Hush(Unseen(marked))
           ELSE UNCHANGED <<mail, hushed>>
        /\ Become(r, [dead |-> Dies(a)] @@
                     (IF a = "dead" \/ ~ Reaches(req[r].src) THEN Throws(r)
                      ELSE IF req[r].dest # None THEN [pc |-> "move"] ELSE Succeeds(r)))
    /\ UNCHANGED <<ident, uidNext, idents, others, doomed, estate, mstate, boxVars, emailVars>>

\* UID MOVE: a refusal throws; when it is done the rows of a batch go.
MoveLetters(r) ==
    LET taken == {x \in Lets(req[r].src) : x.uid \in Cur(r)}
        dest == row[req[r].dest]
        can == Reaches(req[r].src) /\ Reaches(req[r].dest)
    IN
    /\ req[r].pc = "move"
    /\ \E a \in Outcomes(r) :
        /\ CountFault(a)
        /\ IF Obeyed(a) /\ can
           THEN /\ Fits(Cardinality(taken), dest) /\ Took(Cardinality(taken), dest)
                /\ mail' = (mail \ taken) \cup Landed(taken, dest)
                /\ Hush(taken \cup Landed(taken, dest))
           ELSE UNCHANGED <<mail, uidNext, hushed>>
        /\ IF a = "ok" /\ can THEN Become(r, Succeeds(r)) /\ Forget(r)
           ELSE Become(r, [dead |-> Dies(a)] @@ Throws(r)) /\ UNCHANGED <<cached, misled>>
    /\ UNCHANGED <<ident, idents, others, doomed, estate, mstate, boxVars, search, sent>>

\* STORE \Deleted and EXPUNGE: only a folder that cannot be opened throws.
KillLetters(r) ==
    LET taken == {x \in Lets(req[r].src) : x.uid \in Cur(r)} IN
    /\ req[r].pc = "kill"
    /\ \E a \in Outcomes(r) :
        /\ CountFault(a)
        /\ IF Obeyed(a) THEN mail' = mail \ taken /\ Hush(taken) ELSE UNCHANGED <<mail, hushed>>
        /\ IF a = "dead" \/ ~ Reaches(req[r].src)
           THEN Become(r, Throws(r)) /\ UNCHANGED <<cached, misled>>
           ELSE Become(r, [dead |-> Dies(a)] @@ Succeeds(r)) /\ Forget(r)
    /\ UNCHANGED <<ident, uidNext, idents, others, doomed, estate, mstate, boxVars, search, sent>>

\* recordChanges, both counters, and the counts of the folders touched.
EmailRecord(r) ==
    /\ req[r].pc = "record"
    /\ IF req[r].did
       THEN /\ search' = [b \in BoxId |-> None]
            /\ BumpEmail /\ mstate' = mstate + 1
            /\ RefreshFrom(r, req[r].touched)
       ELSE Become(r, [pc |-> "done"]) /\ UNCHANGED <<search, estate, hushed, mstate, list, holders>>
    /\ UNCHANGED <<serverVars, row, total, nextBox, live, given, muddled, cached, sent, misled>>

-----------------------------------------------------------------------------
(* Email/copy: COPY, the flags of the copy, and the end of the original.   *)

emailCopy(r, arg) ==
    /\ req[r].pc = "idle"
    /\ Become(r, [op |-> "copy", pc |-> IF NoSuch(arg.src) \/ NoSuch(arg.dest) THEN "done" ELSE "copy",
                  arg |-> arg, did |-> FALSE, touched |-> {}])
    /\ UNCHANGED <<serverVars, estate, mstate, hushed, boxVars, emailVars>>

\* The original goes, if that was asked for: its errors are swallowed.
OriginalOf(r) ==
    IF req[r].arg.drop
    THEN [pc |-> "kill", begin |-> "kill", after |-> "record", batch |-> FALSE,
          src |-> req[r].arg.src, rest |-> {req[r].arg.uid}, dest |-> None]
    ELSE [pc |-> "record"]

\* Mutant of DropWhen: the original goes whatever became of the copy.
DropAlways(done, r) == OriginalOf(r)
DropWhen(done, r) == IF done THEN OriginalOf(r) ELSE [pc |-> "record"]

CopyLetter(r) ==
    LET taken == {x \in Lets(req[r].arg.src) : x.uid = req[r].arg.uid}
        dest == row[req[r].arg.dest]
        can == Reaches(req[r].arg.src) /\ Reaches(req[r].arg.dest) /\ taken # {}
        onward == IF req[r].arg.mark THEN [pc |-> "copymark", new |-> uidNext[dest]]
                  ELSE DropWhen(TRUE, r)
    IN
    /\ req[r].pc = "copy"
    /\ \E a \in Outcomes(r) :
        /\ CountFault(a)
        /\ IF Obeyed(a) /\ can
           THEN /\ Fits(1, dest) /\ Took(1, dest)
                /\ mail' = mail \cup Landed(taken, dest) /\ Hush(Landed(taken, dest))
           ELSE UNCHANGED <<mail, uidNext, hushed>>
        /\ Become(r, [dead |-> Dies(a)] @@
                     (IF a = "ok" /\ can
                      THEN [did |-> TRUE, touched |-> {req[r].arg.dest}
                                \cup (IF req[r].arg.drop THEN {req[r].arg.src} ELSE {})] @@ onward
                      ELSE DropWhen(FALSE, r)))
    /\ UNCHANGED <<ident, idents, others, doomed, estate, mstate, boxVars, emailVars>>

\* When the folder of the copy cannot be opened, the copy counts as not created.
CopyFlags(r) ==
    LET b == req[r].arg.dest
        marked == {x \in Lets(b) : x.uid = req[r].new}
    IN
    /\ req[r].pc = "copymark"
    /\ \E a \in Outcomes(r) :
        /\ CountFault(a)
        /\ IF Obeyed(a)
           THEN /\ mail' = (mail \ marked) \cup {[x EXCEPT !.seen = TRUE] : x \in marked}
                /\ Hush(Unseen(marked))
           ELSE UNCHANGED <<mail, hushed>>
        /\ Become(r, [dead |-> Dies(a)] @@
                     (IF a = "dead" \/ ~ Reaches(b) THEN [did |-> FALSE] @@ DropWhen(FALSE, r)
                      ELSE DropWhen(TRUE, r)))
    /\ UNCHANGED <<ident, uidNext, idents, others, doomed, estate, mstate, boxVars, emailVars>>

-----------------------------------------------------------------------------
(* EmailSubmission/set: the message is read, handed to SMTP, and only then *)
(* is its draft filed or destroyed.  The counters are bumped, nothing else.*)

emailSubmissionSet(r, arg) ==
    /\ req[r].pc = "idle"
    /\ Become(r, [op |-> "submit", pc |-> IF NoSuch(arg.src) THEN "done" ELSE "source",
                  arg |-> arg, did |-> FALSE, touched |-> {}])
    /\ UNCHANGED <<serverVars, estate, mstate, hushed, boxVars, emailVars>>

fetchRfc822(r) ==
    LET b == req[r].arg.src
        found == {x \in Lets(b) : x.uid = req[r].arg.uid}
    IN
    /\ req[r].pc = "source"
    /\ \E a \in Outcomes(r) :
        /\ CountFault(a)
        /\ Become(r, [dead |-> Dies(a)] @@
                     (IF a = "ok" /\ found # {}
                      THEN [pc |-> "smtp", msg |-> (CHOOSE x \in found : TRUE).msg]
                      ELSE [pc |-> "done"]))
    /\ UNCHANGED <<ident, mail, uidNext, idents, others, doomed, estate, mstate, hushed,
                   boxVars, emailVars>>

\* onSuccessDestroyEmail and onSuccessUpdateEmail: one id, by itself.
AfterSend(r) ==
    LET v == req[r].arg IN
    [src |-> v.src, rest |-> {v.uid}, batch |-> FALSE, after |-> "sentrecord"] @@
    (IF v.then = "destroy" THEN [pc |-> "kill", begin |-> "kill", dest |-> None]
     ELSE IF v.then = "nothing" \/ NoSuch(v.dest) THEN [pc |-> "sentrecord"]
     ELSE [pc |-> "store", begin |-> "store", dest |-> v.dest])

submit(r) ==
    /\ req[r].pc = "smtp"
    /\ \E a \in {"ok"} \cup (IF Calm THEN {"no", "lost"} ELSE {}) :
        /\ CountFault(a)
        /\ sent' = IF Obeyed(a) THEN sent \cup {req[r].msg} ELSE sent
        /\ Become(r, IF a = "ok" THEN AfterSend(r) ELSE [pc |-> "done"])
    /\ UNCHANGED <<ident, mail, uidNext, idents, others, doomed, estate, mstate, hushed,
                   boxVars, search, cached, misled>>

\* Both counters move; the list and the search cache are left as they are.
SentRecord(r) ==
    /\ req[r].pc = "sentrecord"
    /\ BumpEmail /\ mstate' = mstate + 1
    /\ Become(r, [pc |-> "done"])
    /\ UNCHANGED <<serverVars, boxVars, emailVars>>
=============================================================================
