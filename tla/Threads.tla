------------------------------ MODULE Threads ------------------------------
(***************************************************************************)
(* The thread index: one build at a time for the account, on a LIST of its *)
(* own and a scan of every folder that is not as it was last scanned.  The *)
(* index is read from the rows of email_cache and kept for some seconds    *)
(* under the `email` counter as it was when the build began.               *)
(***************************************************************************)
EXTENDS EmailChanges

VARIABLES
    scan,      \* mailbox_scan: id -> the SELECT of the last scan, or None
    index,     \* indexCache, or None
    building   \* inflight: the request that builds, or None

threadVars == <<scan, index, building>>
mailVars == <<serverVars, estate, mstate, hushed, boxVars>>

\* What LIST-STATUS and SELECT say of a folder.
StatusOf(p) == [ident |-> ident[p], uidNext |-> uidNext[p], count |-> Cardinality(In(p))]

\* The folder of a row has not moved since the row was scanned.
sameAsLastScan(b) == row[b] \in DOMAIN live /\ scan[b] # None /\ live[row[b]] = scan[b]

-----------------------------------------------------------------------------

threadGet(r) ==
    /\ req[r].pc = "idle"
    /\ Become(r, [op |-> "thread", pc |-> "thread"])
    /\ UNCHANGED <<mailVars, emailVars, threadVars>>

IndexIsCurrent == index # None /\ index.state = estate

\* Answered from the cache, or after the build under way, or by a build.
buildThreadIndex(r) ==
    /\ req[r].pc = "thread"
    /\ IF IndexIsCurrent
       THEN Become(r, [pc |-> "done"]) /\ UNCHANGED building
       ELSE IF building # None
       THEN Become(r, [pc |-> "await", awaits |-> building]) /\ UNCHANGED building
       ELSE /\ building' = r
            /\ Become(r, [pc |-> "list", next |-> "plan", catch |-> "unbuilt", since |-> estate])
    /\ UNCHANGED <<mailVars, emailVars, scan, index>>

AwaitBuild(r) ==
    /\ req[r].pc = "await" /\ building # req[r].awaits
    /\ Become(r, [pc |-> "thread"])
    /\ UNCHANGED <<mailVars, emailVars, threadVars>>

\* The `finally` of the build: the waiters go on, with or without an index.
Built == building' = None

BuildFails(r) ==
    /\ req[r].pc = "unbuilt"
    /\ Built
    /\ Become(r, [pc |-> "done"])
    /\ UNCHANGED <<mailVars, emailVars, scan, index>>

\* The folders of the LIST, with the names their rows had then.
PlanScan(r) ==
    /\ req[r].pc = "plan"
    /\ LET listed == {b \in known : row[b] \in DOMAIN req[r].listing} IN
       Become(r, [pc |-> "walk", todo |-> listed, skipped |-> {}, listing |-> None,
                  names |-> [b \in listed |-> row[b]],
                  counts |-> [b \in listed |-> req[r].listing[row[b]].count]])
    /\ UNCHANGED <<mailVars, emailVars, threadVars>>

\* The folder is left out when it is empty and was, or as it was scanned;
\* one that cannot be opened is skipped.
ScanOpen(r) ==
    LET b == Min2(req[r].todo)
        p == req[r].names[b]
        rest == [todo |-> req[r].todo \ {b}]
        seen == StatusOf(p)
        rolled == scan[b] # None /\ scan[b].ident # seen.ident
        from == IF scan[b] = None \/ rolled THEN 1 ELSE scan[b].uidNext
    IN
    /\ req[r].pc = "walk" /\ req[r].todo # {}
    /\ IF (req[r].counts[b] = 0 /\ (scan[b] = None \/ scan[b].count = 0))
          \/ (row[b] = p /\ sameAsLastScan(b))
       THEN Become(r, rest) /\ UNCHANGED <<faults, cached, scan>>
       ELSE \E a \in Outcomes(r) :
            /\ CountFault(a)
            /\ IF a # "ok" \/ ident[p] = 0
               THEN /\ Become(r, [skipped |-> req[r].skipped \cup {b}, dead |-> Dies(a)] @@ rest)
                    /\ UNCHANGED <<cached, scan>>
               ELSE IF scan[b] = seen
               THEN Become(r, rest) /\ UNCHANGED <<cached, scan>>
               ELSE /\ Become(r, [box |-> b, open |-> seen, from |-> from, pc |->
                                    IF seen.count > 0 /\ seen.uidNext > from THEN "fetchnew"
                                    ELSE "reconcile"] @@ rest)
                    /\ cached' = IF rolled THEN DeleteUids(cached, b, 1..MaxUid) ELSE cached
                    /\ scan' = IF rolled THEN [scan EXCEPT ![b] = None] ELSE scan
    /\ UNCHANGED <<ident, mail, uidNext, idents, others, doomed, estate, mstate, hushed,
                   boxVars, search, sent, misled, index, building>>

\* What is in the folder the scan has open.
Open(r) == Held(req[r].open.ident)

\* One command of the scan; when it throws the folder is skipped.
Ask(r, answer, otherwise) ==
    /\ \E a \in Outcomes(r) :
        /\ CountFault(a)
        /\ Become(r, [dead |-> Dies(a)] @@
                     (IF a = "ok" /\ Opened(req[r].open.ident) THEN answer ELSE otherwise))
    /\ UNCHANGED <<ident, mail, uidNext, idents, others, doomed, estate, mstate, hushed,
                   boxVars, emailVars, threadVars>>
Skip(r) == [pc |-> "walk", skipped |-> req[r].skipped \cup {req[r].box}]

ScanNew(r) ==
    /\ req[r].pc = "fetchnew"
    /\ Ask(r, [pc |-> "newfetched", got |-> Shown({x \in Open(r) : x.uid >= req[r].from})], Skip(r))

ScanNewReply(r) ==
    /\ req[r].pc = "newfetched"
    /\ cached' = UpsertAll(req[r].box, req[r].open.ident, req[r].got, 2)
    /\ Become(r, [pc |-> "reconcile", got |-> {}])
    /\ UNCHANGED <<mailVars, search, sent, misled, threadVars>>

ScannedAt(r) == scan' = [scan EXCEPT ![req[r].box] = req[r].open]

ScanCountsAgree(r) == Cardinality(RowUids(req[r].box)) = req[r].open.count

\* Only when the rows and EXISTS disagree is the server asked for its UIDs;
\* an answer of false counts as none.
ScanReconcile(r) ==
    /\ req[r].pc = "reconcile"
    /\ IF ScanCountsAgree(r)
       THEN /\ ScannedAt(r) /\ Become(r, [pc |-> "walk"])
            /\ UNCHANGED <<mailVars, emailVars, index, building>>
       ELSE IF req[r].open.count = 0
       THEN Become(r, [pc |-> "searched", found |-> {}]) /\ UNCHANGED <<mailVars, emailVars, threadVars>>
       ELSE Ask(r, [pc |-> "searched", found |-> UidsOf(Open(r))], [pc |-> "searched", found |-> {}])

ScanSearched(r) ==
    LET b == req[r].box
        gaps == req[r].found \ RowUids(b)
        stale == RowUids(b) \ req[r].found
    IN
    /\ req[r].pc = "searched"
    /\ cached' = DeleteUids(cached, b, stale)
    /\ misled' = misled \cup {<<b, u>> : u \in stale \cap UidsOf(Open(r))}
    /\ IF gaps = {} THEN ScannedAt(r) /\ Become(r, [pc |-> "walk"])
       ELSE UNCHANGED scan /\ Become(r, [pc |-> "fetchgaps", uids |-> gaps])
    /\ UNCHANGED <<mailVars, search, sent, index, building>>

ScanGaps(r) ==
    /\ req[r].pc = "fetchgaps"
    /\ Ask(r, [pc |-> "gapsfetched", got |-> Shown({x \in Open(r) : x.uid \in req[r].uids})], Skip(r))

ScanGapsReply(r) ==
    /\ req[r].pc = "gapsfetched"
    /\ cached' = UpsertAll(req[r].box, req[r].open.ident, req[r].got, 2)
    /\ ScannedAt(r)
    /\ Become(r, [pc |-> "walk", got |-> {}])
    /\ UNCHANGED <<mailVars, search, sent, misled, index, building>>

\* The counter the index is kept under: read before the LIST.
IndexedUnder(r) == req[r].since

BuildEnds(r) ==
    /\ req[r].pc = "walk" /\ req[r].todo = {}
    /\ index' = [state |-> IndexedUnder(r), skipped |-> req[r].skipped,
                 rows |-> {<<b, u>> \in BoxId \X (1..MaxUid) : u \in Threaded(b)}]
    /\ Built
    /\ Become(r, [pc |-> "done"])
    /\ UNCHANGED <<mailVars, emailVars, scan>>

\* INDEX_TTL_MS has passed.
IndexExpires ==
    /\ index # None
    /\ index' = None
    /\ UNCHANGED <<mailVars, emailVars, scan, building, req>>
=============================================================================
