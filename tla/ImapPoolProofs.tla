---------------------------- MODULE ImapPoolProofs ----------------------------
(***************************************************************************)
(* For any callers, roles, caps and sockets: no role opens more than its    *)
(* cap, no connection has two holders or a lost one, and what is lent has   *)
(* caught up and is not on its way out.                                     *)
(***************************************************************************)
EXTENDS ImapPool, FiniteSetTheorems, SequenceTheorems, TLAPS

Dialling(r) == {p \in Caller : At(p, r, "dial")}

\* The slots the pool counts are its connections and the dials in progress.
SlotsOf(r) ==
  /\ IsFiniteSet(entries[r]) /\ IsFiniteSet(Dialling(r))
  /\ opening[r] = Cardinality(Dialling(r))
  /\ Occupied(r, entries) <= Cap[r]
SlotInv == \A r \in Role : SlotsOf(r)

\* Who waits in line is parked, and is in line once.
QueueInv ==
  \A r \in Role :
    /\ \A k \in DOMAIN waiters[r] : At(waiters[r][k], r, "parked")
    /\ \A j, k \in DOMAIN waiters[r] : waiters[r][j] = waiters[r][k] => j = k

\* A connection is in a caller's hands while it is probed or lent, and is busy.
HoldInv ==
  \A p \in Caller, r \in Role :
    /\ conn[p][r] # None <=> pc[p][r] \in {"noop", "lent"}
    /\ conn[p][r] # None => busy[conn[p][r]]

\* A role deals with the connections whose handlers are its own.
OwnInv ==
  \A r \in Role :
    /\ \A c \in entries[r] : owner[c] = r
    /\ \A p \in Caller : \A c \in todo[p][r] : owner[c] = r

\* A label never promises more than the view has synced.
LabelInv == \A c \in Conn : label[c] <= view[c]

PoolInv == TypeOK /\ SlotInv /\ QueueInv /\ HoldInv /\ OwnInv /\ LentOnce /\ NoLeakedLease
LendInv == PoolInv /\ LabelInv /\ LentIsFit

-------------------------------------------------------------------------------
(* Updates of the callers' locals, and waking *)

\* One caller's local for one role changes.
LEMMA LocalUpdate ==
  ASSUME NEW S, NEW f \in [Caller -> [Role -> S]], NEW p \in Caller, NEW r \in Role, NEW v \in S
  PROVE  /\ [f EXCEPT ![p][r] = v] \in [Caller -> [Role -> S]]
         /\ \A q \in Caller, s \in Role :
              [f EXCEPT ![p][r] = v][q][s] = IF q = p /\ s = r THEN v ELSE f[q][s]
<1>1. [f[p] EXCEPT ![r] = v] \in [Role -> S]
  OBVIOUS
<1>2. [f EXCEPT ![p][r] = v] = [f EXCEPT ![p] = [f[p] EXCEPT ![r] = v]]
  OBVIOUS
<1>. QED
  BY <1>1, <1>2

\* wake(): who is woken leaves the line; who stays in it is parked, and once.
LEMMA Waking ==
  ASSUME TypeOK, QueueInv, NEW r \in Role, NEW n \in Nat,
         NEW pcs \in [Caller -> [Role -> Stage]],
         \A s \in Role : \A k \in DOMAIN waiters[s] : pcs[waiters[s][k]][s] = "parked"
  PROVE  /\ Woken(pcs, r, n) \in [Caller -> [Role -> Stage]]
         /\ StillParked(r, n) \in [Role -> Seq(Caller)]
         /\ \A q \in Caller, s \in Role :
              \/ Woken(pcs, r, n)[q][s] = pcs[q][s]
              \/ pcs[q][s] = "parked" /\ Woken(pcs, r, n)[q][s] = "woken"
         /\ \A s \in Role :
              LET line == StillParked(r, n)[s]
              IN  /\ \A k \in DOMAIN line : Woken(pcs, r, n)[line[k]][s] = "parked"
                  /\ \A j, k \in DOMAIN line : line[j] = line[k] => j = k
<1>. DEFINE line == waiters[r]
            rest == SubSeq(line, n + 1, Len(line))
            heads == {line[k] : k \in {j \in DOMAIN line : j <= n}}
            W == Woken(pcs, r, n)
<1>1. line \in Seq(Caller) /\ Len(line) \in Nat /\ DOMAIN line = 1 .. Len(line)
  BY DEF TypeOK
<1>2. /\ rest \in Seq(Caller)
      /\ Len(rest) = IF n + 1 <= Len(line) THEN Len(line) - n ELSE 0
      /\ \A i \in 1 .. Len(line) - n : rest[i] = line[n + i]
  <2>1. \A i \in n + 1 .. Len(line) : line[i] \in Caller
    BY <1>1
  <2>. QED
    BY <1>1, <2>1, SubSeqProperties
<1>3. DOMAIN rest = 1 .. Len(rest)
  BY <1>2
<1>4. \A k \in DOMAIN rest : n + k \in DOMAIN line /\ rest[k] = line[n + k]
  BY <1>1, <1>2, <1>3
<1>5. \A k \in DOMAIN rest : rest[k] \notin heads
  <2>. SUFFICES ASSUME NEW k \in DOMAIN rest, NEW j \in DOMAIN line, j <= n, rest[k] = line[j]
                PROVE  FALSE
    OBVIOUS
  <2>1. j = n + k
    BY <1>4 DEF QueueInv
  <2>. QED
    BY <2>1, <1>2, <1>3
<1>6. StillParked(r, n)[r] = rest /\ \A s \in Role \ {r} : StillParked(r, n)[s] = waiters[s]
  BY DEF StillParked, TypeOK
<1>7. W = [q \in Caller |-> IF q \in heads THEN [pcs[q] EXCEPT ![r] = "woken"] ELSE pcs[q]]
  BY DEF Woken
<1>8. W \in [Caller -> [Role -> Stage]]
  <2>1. \A q \in Caller : [pcs[q] EXCEPT ![r] = "woken"] \in [Role -> Stage]
    BY DEF Stage
  <2>. QED
    BY <1>7, <2>1
<1>9. \A q \in Caller, s \in Role : W[q][s] = IF q \in heads /\ s = r THEN "woken" ELSE pcs[q][s]
  BY <1>7
<1>10. \A q \in heads : pcs[q][r] = "parked"
  OBVIOUS
<1>11. ASSUME NEW s \in Role
       PROVE  LET l == StillParked(r, n)[s]
              IN  /\ \A k \in DOMAIN l : W[l[k]][s] = "parked"
                  /\ \A j, k \in DOMAIN l : l[j] = l[k] => j = k
  <2>1. CASE s = r
    <3>1. StillParked(r, n)[s] = rest
      BY <1>6, <2>1
    <3>2. \A k \in DOMAIN rest : W[rest[k]][s] = "parked"
      <4>. SUFFICES ASSUME NEW k \in DOMAIN rest PROVE W[rest[k]][s] = "parked"
        OBVIOUS
      <4>1. rest[k] \in Caller /\ rest[k] \notin heads /\ pcs[rest[k]][r] = "parked"
        BY <1>1, <1>4, <1>5
      <4>. QED
        BY <4>1, <1>9, <2>1
    <3>3. \A j, k \in DOMAIN rest : rest[j] = rest[k] => j = k
      <4>. SUFFICES ASSUME NEW j \in DOMAIN rest, NEW k \in DOMAIN rest, rest[j] = rest[k]
                    PROVE  j = k
        OBVIOUS
      <4>1. n + j \in DOMAIN line /\ n + k \in DOMAIN line /\ line[n + j] = line[n + k]
        BY <1>4
      <4>2. n + j = n + k
        BY <4>1 DEF QueueInv
      <4>. QED
        BY <4>2, <1>3, <1>2
    <3>. QED
      BY <3>1, <3>2, <3>3
  <2>2. CASE s # r
    <3>1. StillParked(r, n)[s] = waiters[s]
      BY <1>6, <2>2
    <3>2. \A k \in DOMAIN waiters[s] : waiters[s][k] \in Caller
      BY DEF TypeOK
    <3>. QED
      BY <3>1, <3>2, <1>9, <2>2 DEF QueueInv
  <2>. QED
    BY <2>1, <2>2
<1>12. StillParked(r, n) \in [Role -> Seq(Caller)]
  BY <1>2 DEF StillParked, TypeOK
<1>. QED
  BY <1>8, <1>9, <1>10, <1>11, <1>12

-------------------------------------------------------------------------------
(* takeFree, wherever it is called from *)

\* What its three callers have in common: a list to look at, entries some of
\* which are forgotten, and busy flags without that of a connection just given up.
Setting(p, r, list, ents, bsy) ==
  /\ list \subseteq Conn /\ \A c \in list : owner[c] = r
  /\ ents \in [Role -> SUBSET Conn] /\ \A s \in Role : ents[s] \subseteq entries[s]
  /\ bsy \in [Conn -> BOOLEAN] /\ \A c \in Conn : bsy[c] <=> busy[c] /\ c # conn[p][r]
  /\ pc[p][r] \in {"out", "woken", "noop"}
  /\ TakeFree(p, r, list, ents, bsy)
  /\ asked' \in [Caller -> [Role -> 0 .. MaxRequests]]
  /\ UNCHANGED <<sockets, outside>>

\* acquire(), a retry and a failed NOOP each run takeFree in such a setting.
LEMMA Selection ==
  ASSUME TypeOK, HoldInv, OwnInv, NEW p \in Caller, NEW r \in Role,
         Acquire(p, r) \/ Retry(p, r) \/ NoopFails(p, r)
  PROVE  \E list, ents, bsy : Setting(p, r, list, ents, bsy)
<1>. USE NoneAssumption
<1>1. CASE Acquire(p, r)
  <2>1. asked' \in [Caller -> [Role -> 0 .. MaxRequests]]
    <3>1. asked \in [Caller -> [Role -> 0 .. MaxRequests]] /\ asked[p][r] + 1 \in 0 .. MaxRequests
      BY <1>1, BoundsAssumption DEF Acquire, TypeOK
    <3>2. asked' = [asked EXCEPT ![p][r] = asked[p][r] + 1]
      BY <1>1 DEF Acquire
    <3>. QED
      BY <3>1, <3>2, LocalUpdate
  <2>2. pc[p][r] = "out" /\ conn[p][r] = None
    BY <1>1 DEF Acquire, At, HoldInv
  <2>3. Setting(p, r, entries[r], entries, busy)
    BY <1>1, <2>1, <2>2 DEF Setting, Acquire, TypeOK, OwnInv
  <2>. QED
    BY <2>3
<1>2. CASE Retry(p, r)
  <2>1. pc[p][r] = "woken" /\ conn[p][r] = None
    BY <1>2 DEF Retry, At, HoldInv
  <2>2. Setting(p, r, entries[r], entries, busy)
    BY <1>2, <2>1 DEF Setting, Retry, TypeOK, OwnInv
  <2>. QED
    BY <2>2
<1>3. CASE NoopFails(p, r)
  <2>. DEFINE c == conn[p][r]
              ents == Drop(entries, r, {c})
              bsy == [busy EXCEPT ![c] = FALSE]
  <2>1. pc[p][r] = "noop" /\ c \in Conn
    BY <1>3 DEF NoopFails, At, HoldInv, TypeOK
  <2>2. ents \in [Role -> SUBSET Conn] /\ \A s \in Role : ents[s] \subseteq entries[s]
    BY DEF Drop, TypeOK
  <2>3. bsy \in [Conn -> BOOLEAN] /\ \A d \in Conn : bsy[d] <=> busy[d] /\ d # c
    BY <2>1 DEF TypeOK
  <2>4. TakeFree(p, r, todo[p][r], ents, bsy) /\ UNCHANGED <<sockets, asked, outside>>
    BY <1>3 DEF NoopFails
  <2>5. todo[p][r] \subseteq Conn /\ \A d \in todo[p][r] : owner[d] = r
    BY DEF TypeOK, OwnInv
  <2>6. Setting(p, r, todo[p][r], ents, bsy)
    BY <2>1, <2>2, <2>3, <2>4, <2>5, Zenon DEF Setting, TypeOK
  <2>. QED
    BY <2>6
<1>. QED
  BY <1>1, <1>2, <1>3

\* The entries only shrink.
LEMMA TakingShrinks ==
  ASSUME TypeOK, NEW p \in Caller, NEW r \in Role, NEW list, NEW ents, NEW bsy,
         Setting(p, r, list, ents, bsy)
  PROVE  entries' \in [Role -> SUBSET Conn] /\ \A s \in Role : entries'[s] \subseteq entries[s]
<1>1. \E C : entries' = Drop(ents, r, C)
  BY Zenon DEF Setting, TakeFree, Claim, Dial, Park
<1>. QED
  BY <1>1 DEF Setting, Drop

-------------------------------------------------------------------------------
(* The types, and the slots *)

\* A connection a dial or a probe opens is nobody's.
LEMMA NewConnIsUnused == ASSUME NEW c \in NewConn PROVE c \in Unused /\ c \in Conn
BY DEF NewConn, Unused

\* Who dials holds a slot.
LEMMA DialHoldsSlot ==
  ASSUME TypeOK, SlotInv, NEW p \in Caller, NEW r \in Role, At(p, r, "dial")
  PROVE  /\ opening[r] - 1 \in Nat
         /\ IsFiniteSet(Dialling(r) \ {p}) /\ Cardinality(Dialling(r) \ {p}) = opening[r] - 1
<1>1. p \in Dialling(r)
  BY DEF Dialling
<1>2. IsFiniteSet(Dialling(r)) /\ Cardinality(Dialling(r)) = opening[r]
  BY DEF SlotInv, SlotsOf
<1>3. IsFiniteSet(Dialling(r) \ {p}) /\ Cardinality(Dialling(r) \ {p}) = opening[r] - 1
  BY <1>1, <1>2, FS_RemoveElement
<1>. QED
  BY <1>3, FS_CardinalityType

\* What the step of p leaves behind: p is out of it, the line is as it was.
Left(p, r) == [pc EXCEPT ![p][r] = "out"]

LeftOrNot(pcs) ==
  /\ pcs \in [Caller -> [Role -> Stage]]
  /\ \A q \in Caller, s \in Role : pcs[q][s] # "out" => pcs[q][s] = pc[q][s]
  /\ \A q \in Caller, s \in Role : pc[q][s] = "parked" => pcs[q][s] = "parked"

\* Nobody moves but who is woken, or who leaves and was not parked.
LEMMA Leaving ==
  ASSUME TypeOK, NEW p \in Caller, NEW r \in Role, pc[p][r] # "parked"
  PROVE  /\ LeftOrNot(Left(p, r))
         /\ \A q \in Caller, s \in Role : Left(p, r)[q][s] = IF q = p /\ s = r THEN "out" ELSE pc[q][s]
<1>1. pc \in [Caller -> [Role -> Stage]] /\ "out" \in Stage
  BY DEF TypeOK, Stage
<1>2. /\ Left(p, r) \in [Caller -> [Role -> Stage]]
      /\ \A q \in Caller, s \in Role : Left(p, r)[q][s] = IF q = p /\ s = r THEN "out" ELSE pc[q][s]
  BY <1>1, LocalUpdate DEF Left
<1>. QED
  BY <1>2 DEF LeftOrNot

\* Nobody moves, nobody leaves.
LEMMA Staying == TypeOK => LeftOrNot(pc)
BY DEF TypeOK, LeftOrNot

\* What waking keeps: the types, and where everybody is who was not parked.
LEMMA WakingKeeps ==
  ASSUME TypeOK, QueueInv, NEW r \in Role, NEW n \in Nat, NEW pcs, LeftOrNot(pcs),
         pc' = Woken(pcs, r, n), waiters' = StillParked(r, n)
  PROVE  /\ pc' \in [Caller -> [Role -> Stage]] /\ waiters' \in [Role -> Seq(Caller)]
         /\ \A q \in Caller, s \in Role :
              pc'[q][s] = pcs[q][s] \/ (pcs[q][s] = "parked" /\ pc'[q][s] = "woken")
         /\ QueueInv'
<1>1. \A s \in Role : \A k \in DOMAIN waiters[s] : pcs[waiters[s][k]][s] = "parked"
  <2>1. \A s \in Role : \A k \in DOMAIN waiters[s] :
          waiters[s][k] \in Caller /\ pc[waiters[s][k]][s] = "parked"
    BY DEF TypeOK, QueueInv, At
  <2>. QED
    BY <2>1 DEF LeftOrNot
<1>2. pcs \in [Caller -> [Role -> Stage]]
  BY DEF LeftOrNot
<1>3. /\ Woken(pcs, r, n) \in [Caller -> [Role -> Stage]]
      /\ StillParked(r, n) \in [Role -> Seq(Caller)]
      /\ \A q \in Caller, s \in Role :
           \/ Woken(pcs, r, n)[q][s] = pcs[q][s]
           \/ pcs[q][s] = "parked" /\ Woken(pcs, r, n)[q][s] = "woken"
  BY <1>1, <1>2, Waking
<1>4. \A s \in Role :
        LET line == StillParked(r, n)[s]
        IN  /\ \A k \in DOMAIN line : Woken(pcs, r, n)[line[k]][s] = "parked"
            /\ \A j, k \in DOMAIN line : line[j] = line[k] => j = k
  BY <1>1, <1>2, Waking
<1>5. QueueInv'
  BY <1>4 DEF QueueInv, At
<1>6. /\ pc' \in [Caller -> [Role -> Stage]] /\ waiters' \in [Role -> Seq(Caller)]
      /\ \A q \in Caller, s \in Role :
           pc'[q][s] = pcs[q][s] \/ (pcs[q][s] = "parked" /\ pc'[q][s] = "woken")
  BY <1>3
<1>. QED
  BY <1>5, <1>6

\* takeFree keeps the types.
LEMMA TakingTypes ==
  ASSUME TypeOK, NEW p \in Caller, NEW r \in Role, NEW list, NEW ents, NEW bsy,
         Setting(p, r, list, ents, bsy)
  PROVE  TypeOK'
<1>1. /\ opening \in [Role -> Nat] /\ waiters \in [Role -> Seq(Caller)]
      /\ pc \in [Caller -> [Role -> Stage]] /\ conn \in [Caller -> [Role -> Conn \cup {None}]]
      /\ todo \in [Caller -> [Role -> SUBSET Conn]] /\ seen \in [Caller -> [Role -> 0 .. MaxMail]]
      /\ mail \in 0 .. MaxMail
  BY DEF TypeOK
<1>2. {"out", "noop", "dial", "parked", "woken", "lent"} = Stage
  BY DEF Stage
<1>3. entries' \in [Role -> SUBSET Conn]
  BY TakingShrinks
<1>4. UNCHANGED <<sockets, outside>> /\ asked' \in [Caller -> [Role -> 0 .. MaxRequests]]
  BY DEF Setting
<1>5. CASE Claim(p, r, list, ents, bsy)
  <2>1. PICK c \in Candidates(list, bsy), rest \in SUBSET list :
          /\ busy' = [bsy EXCEPT ![c] = TRUE]
          /\ conn' = [conn EXCEPT ![p][r] = c]
          /\ seen' = [seen EXCEPT ![p][r] = mail]
          /\ \/ /\ pc' = [pc EXCEPT ![p][r] = "lent"]
                /\ todo' = [todo EXCEPT ![p][r] = {}]
             \/ /\ pc' = [pc EXCEPT ![p][r] = "noop"]
                /\ todo' = [todo EXCEPT ![p][r] = rest]
          /\ UNCHANGED <<opening, waiters>>
    BY <1>5 DEF Claim
  <2>2. c \in Conn /\ rest \in SUBSET Conn
    BY DEF Candidates, Free, Setting
  <2>3. busy' \in [Conn -> BOOLEAN]
    BY <2>1 DEF Setting
  <2>4. conn' \in [Caller -> [Role -> Conn \cup {None}]]
    BY <1>1, <2>1, <2>2, LocalUpdate
  <2>5. seen' \in [Caller -> [Role -> 0 .. MaxMail]]
    BY <1>1, <2>1, LocalUpdate
  <2>a. PICK stage \in Stage, left \in SUBSET Conn :
          pc' = [pc EXCEPT ![p][r] = stage] /\ todo' = [todo EXCEPT ![p][r] = left]
    <3>1. CASE pc' = [pc EXCEPT ![p][r] = "lent"] /\ todo' = [todo EXCEPT ![p][r] = {}]
      BY <1>2, <3>1
    <3>2. CASE pc' = [pc EXCEPT ![p][r] = "noop"] /\ todo' = [todo EXCEPT ![p][r] = rest]
      BY <1>2, <2>2, <3>2
    <3>. QED
      BY <2>1, <3>1, <3>2
  <2>6. pc' \in [Caller -> [Role -> Stage]]
    BY <1>1, <2>a, LocalUpdate
  <2>7. todo' \in [Caller -> [Role -> SUBSET Conn]]
    BY <1>1, <2>a, LocalUpdate
  <2>. QED
    BY <1>3, <1>4, <2>1, <2>3, <2>4, <2>5, <2>6, <2>7 DEF TypeOK, sockets, outside
<1>6. CASE Dial(p, r, list, ents, bsy)
  <2>1. /\ busy' = bsy
        /\ opening' = [opening EXCEPT ![r] = @ + 1]
        /\ pc' = [pc EXCEPT ![p][r] = "dial"]
        /\ conn' = [conn EXCEPT ![p][r] = None]
        /\ seen' = [seen EXCEPT ![p][r] = mail]
        /\ todo' = [todo EXCEPT ![p][r] = {}]
        /\ UNCHANGED waiters
    BY <1>6 DEF Dial
  <2>2. pc' \in [Caller -> [Role -> Stage]]
    BY <1>1, <1>2, <2>1, LocalUpdate
  <2>3. conn' \in [Caller -> [Role -> Conn \cup {None}]]
    BY <1>1, <2>1, LocalUpdate
  <2>4. seen' \in [Caller -> [Role -> 0 .. MaxMail]]
    BY <1>1, <2>1, LocalUpdate
  <2>5. todo' \in [Caller -> [Role -> SUBSET Conn]]
    BY <1>1, <2>1, LocalUpdate
  <2>6. opening' \in [Role -> Nat] /\ busy' \in [Conn -> BOOLEAN]
    BY <1>1, <2>1 DEF Setting
  <2>. QED
    BY <1>3, <1>4, <2>1, <2>2, <2>3, <2>4, <2>5, <2>6 DEF TypeOK, sockets, outside
<1>7. CASE Park(p, r, list, ents, bsy)
  <2>1. /\ busy' = bsy
        /\ waiters' = [waiters EXCEPT ![r] = Append(@, p)]
        /\ pc' = [pc EXCEPT ![p][r] = "parked"]
        /\ conn' = [conn EXCEPT ![p][r] = None]
        /\ todo' = [todo EXCEPT ![p][r] = {}]
        /\ UNCHANGED <<opening, seen>>
    BY <1>7 DEF Park
  <2>2. pc' \in [Caller -> [Role -> Stage]]
    BY <1>1, <1>2, <2>1, LocalUpdate
  <2>3. conn' \in [Caller -> [Role -> Conn \cup {None}]]
    BY <1>1, <2>1, LocalUpdate
  <2>4. todo' \in [Caller -> [Role -> SUBSET Conn]]
    BY <1>1, <2>1, LocalUpdate
  <2>5. waiters' \in [Role -> Seq(Caller)]
    BY <1>1, <2>1
  <2>. QED
    BY <1>3, <1>4, <2>1, <2>2, <2>3, <2>4, <2>5 DEF TypeOK, sockets, outside, Setting
<1>. QED
  BY <1>5, <1>6, <1>7 DEF Setting, TakeFree

\* The types are kept by every step.
LEMMA StepTypes == TypeOK /\ SlotInv /\ QueueInv /\ HoldInv /\ OwnInv /\ [Next]_vars => TypeOK'
<1>. SUFFICES ASSUME TypeOK, SlotInv, QueueInv, HoldInv, OwnInv, [Next]_vars PROVE TypeOK'
  OBVIOUS
<1>. USE NoneAssumption, RoleAssumption, BoundsAssumption
<1>0. /\ opening \in [Role -> Nat] /\ label \in [Conn -> 0 .. MaxMail] /\ view \in [Conn -> 0 .. MaxMail]
      /\ pc \in [Caller -> [Role -> Stage]] /\ conn \in [Caller -> [Role -> Conn \cup {None}]]
      /\ todo \in [Caller -> [Role -> SUBSET Conn]] /\ seen \in [Caller -> [Role -> 0 .. MaxMail]]
      /\ mail \in 0 .. MaxMail /\ {"out", "noop", "dial", "parked", "woken", "lent"} = Stage
  BY DEF TypeOK, Stage
<1>a. \A p \in Caller, r \in Role : seen[p][r] .. mail \subseteq 0 .. MaxMail
  <2>1. \A p \in Caller, r \in Role : seen[p][r] \in 0 .. MaxMail
    BY <1>0
  <2>. QED
    BY <1>0, <2>1
<1>1. ASSUME NEW p \in Caller, NEW r \in Role, Acquire(p, r) \/ Retry(p, r) \/ NoopFails(p, r)
      PROVE  TypeOK'
  BY <1>1, Selection, TakingTypes
<1>2. ASSUME NEW p \in Caller, NEW r \in Role, NoopOk(p, r) PROVE TypeOK'
  <2>1. PICK v \in 0 .. MaxMail : view' = [view EXCEPT ![conn[p][r]] = v]
    BY <1>a, <1>2 DEF NoopOk
  <2>2. /\ pc' = [pc EXCEPT ![p][r] = "lent"]
        /\ todo' = [todo EXCEPT ![p][r] = {}]
        /\ label' = [label EXCEPT ![conn[p][r]] = seen[p][r]]
        /\ UNCHANGED <<entries, opening, waiters, busy, link, owner, conn, seen, asked, outside>>
    BY <1>2 DEF NoopOk
  <2>3. pc' \in [Caller -> [Role -> Stage]] /\ todo' \in [Caller -> [Role -> SUBSET Conn]]
    BY <1>0, <2>2, LocalUpdate
  <2>4. label' \in [Conn -> 0 .. MaxMail] /\ view' \in [Conn -> 0 .. MaxMail]
    <3>1. seen[p][r] \in 0 .. MaxMail
      BY <1>0
    <3>. QED
      BY <1>0, <2>1, <2>2, <3>1
  <2>. QED
    BY <2>2, <2>3, <2>4 DEF TypeOK, outside
<1>3. ASSUME NEW p \in Caller, NEW r \in Role, DialOk(p, r) PROVE TypeOK'
  <2>1. PICK c \in NewConn, v \in 0 .. MaxMail :
          /\ entries' = [entries EXCEPT ![r] = @ \cup {c}]
          /\ busy' = [busy EXCEPT ![c] = TRUE]
          /\ label' = [label EXCEPT ![c] = seen[p][r]]
          /\ view' = [view EXCEPT ![c] = v]
          /\ link' = [link EXCEPT ![c] = "open"]
          /\ owner' = [owner EXCEPT ![c] = r]
          /\ conn' = [conn EXCEPT ![p][r] = c]
          /\ leaked' = leaked \ {c}
    BY <1>a, <1>3, Zenon DEF DialOk
  <2>2. /\ At(p, r, "dial")
        /\ opening' = [opening EXCEPT ![r] = @ - 1]
        /\ pc' = [pc EXCEPT ![p][r] = "lent"]
        /\ UNCHANGED <<waiters, todo, seen, asked, probes, mail>>
    BY <1>3 DEF DialOk
  <2>3. c \in Conn /\ opening[r] - 1 \in Nat
    BY <2>2, NewConnIsUnused, DialHoldsSlot
  <2>4. pc' \in [Caller -> [Role -> Stage]] /\ conn' \in [Caller -> [Role -> Conn \cup {None}]]
    BY <1>0, <2>1, <2>2, <2>3, LocalUpdate
  <2>5. /\ label' \in [Conn -> 0 .. MaxMail] /\ view' \in [Conn -> 0 .. MaxMail]
        /\ opening' \in [Role -> Nat]
    BY <1>0, <2>1, <2>2, <2>3
  <2>6. /\ entries' \in [Role -> SUBSET Conn] /\ busy' \in [Conn -> BOOLEAN]
        /\ link' \in [Conn -> {"open", "leaving", "gone", "closed"}] /\ owner' \in [Conn -> Role]
        /\ leaked' \subseteq Conn
    BY <2>1, <2>3 DEF TypeOK
  <2>. QED
    BY <2>2, <2>4, <2>5, <2>6 DEF TypeOK
<1>4. ASSUME NEW p \in Caller, NEW r \in Role, DialFails(p, r) PROVE TypeOK'
  <2>1. /\ At(p, r, "dial")
        /\ opening' = [opening EXCEPT ![r] = @ - 1]
        /\ pc' = Woken(Left(p, r), r, 1)
        /\ waiters' = StillParked(r, 1)
        /\ UNCHANGED <<entries, busy, sockets, conn, todo, seen, asked, outside>>
    BY <1>4 DEF DialFails, Left
  <2>2. LeftOrNot(Left(p, r))
    BY <2>1, Leaving DEF At
  <2>3. pc' \in [Caller -> [Role -> Stage]] /\ waiters' \in [Role -> Seq(Caller)]
    BY <2>1, <2>2, WakingKeeps
  <2>4. opening' \in [Role -> Nat]
    BY <1>0, <2>1, DialHoldsSlot
  <2>. QED
    BY <2>1, <2>3, <2>4 DEF TypeOK, sockets, outside
<1>5. ASSUME NEW p \in Caller, NEW r \in Role, Release(p, r) \/ ReleaseBroken(p, r) PROVE TypeOK'
  <2>1. PICK n \in Nat :
          /\ At(p, r, "lent")
          /\ pc' = Woken(Left(p, r), r, n)
          /\ waiters' = StillParked(r, n)
    BY <1>5 DEF Release, ReleaseBroken, Left
  <2>2. /\ busy' = [busy EXCEPT ![conn[p][r]] = FALSE]
        /\ entries' \in {entries, Drop(entries, r, {conn[p][r]})}
        /\ link' = link \/ link' = [link EXCEPT ![conn[p][r]] = "closed"]
        /\ conn' = [conn EXCEPT ![p][r] = None]
        /\ UNCHANGED <<opening, label, view, owner, todo, seen, asked, outside>>
    BY <1>5 DEF Release, ReleaseBroken, sockets
  <2>3. LeftOrNot(Left(p, r))
    BY <2>1, Leaving DEF At
  <2>4. pc' \in [Caller -> [Role -> Stage]] /\ waiters' \in [Role -> Seq(Caller)]
    BY <2>1, <2>3, WakingKeeps
  <2>5. conn' \in [Caller -> [Role -> Conn \cup {None}]]
    BY <1>0, <2>2, LocalUpdate
  <2>6. entries' \in [Role -> SUBSET Conn]
    <3>1. entries \in [Role -> SUBSET Conn]
      BY DEF TypeOK
    <3>2. Drop(entries, r, {conn[p][r]}) \in [Role -> SUBSET Conn]
      BY <3>1 DEF Drop
    <3>. QED
      BY <2>2, <3>1, <3>2
  <2>7. busy' \in [Conn -> BOOLEAN] /\ link' \in [Conn -> {"open", "leaving", "gone", "closed"}]
    BY <2>2 DEF TypeOK
  <2>. QED
    BY <2>2, <2>4, <2>5, <2>6, <2>7 DEF TypeOK, outside
<1>6. ASSUME NEW p \in Caller, NEW r \in Role, DownloadLockFails(p, r) PROVE TypeOK'
  <2>1. /\ At(p, r, "lent")
        /\ pc' = [pc EXCEPT ![p][r] = "out"]
        /\ conn' = [conn EXCEPT ![p][r] = None]
        /\ leaked' = leaked \cup {conn[p][r]}
        /\ UNCHANGED <<entries, opening, waiters, busy, sockets, todo, seen, asked, probes, mail>>
    BY <1>6 DEF DownloadLockFails
  <2>2. conn[p][r] \in Conn
    BY <1>0, <2>1 DEF At, HoldInv
  <2>3. pc' \in [Caller -> [Role -> Stage]] /\ conn' \in [Caller -> [Role -> Conn \cup {None}]]
    BY <1>0, <2>1, LocalUpdate
  <2>. QED
    BY <2>1, <2>2, <2>3 DEF TypeOK, sockets
<1>7. ASSUME NEW r \in Role, ReapIdle(r) PROVE TypeOK'
  <2>1. entries' \in [Role -> SUBSET Conn] /\ link' \in [Conn -> {"open", "leaving", "gone", "closed"}]
    BY <1>7 DEF TypeOK, ReapIdle, Drop
  <2>. QED
    BY <1>7, <2>1 DEF TypeOK, ReapIdle, caller, outside
<1>8. ASSUME NEW c \in Conn, Close(c) \/ Error(c) PROVE TypeOK'
  <2>1. /\ pc' = Woken(pc, owner[c], 1) /\ waiters' = StillParked(owner[c], 1)
        /\ entries' = Drop(entries, owner[c], {c})
        /\ link' = link \/ link' = [link EXCEPT ![c] = "closed"]
        /\ UNCHANGED <<opening, busy, label, view, owner, conn, todo, seen, asked, outside>>
    BY <1>8 DEF Close, Error, sockets
  <2>2. owner[c] \in Role /\ entries' \in [Role -> SUBSET Conn]
    BY <2>1 DEF TypeOK, Drop
  <2>4. pc' \in [Caller -> [Role -> Stage]] /\ waiters' \in [Role -> Seq(Caller)]
    BY <2>1, <2>2, Staying, WakingKeeps
  <2>. QED
    BY <2>1, <2>2, <2>4 DEF TypeOK, outside
<1>9. ASSUME Adopt PROVE TypeOK'
  <2>. DEFINE r == Interactive
  <2>1. PICK c \in NewConn, health \in {"open", "gone"} :
          /\ entries' = [entries EXCEPT ![r] = @ \cup {c}]
          /\ busy' = [busy EXCEPT ![c] = FALSE]
          /\ label' = [label EXCEPT ![c] = mail]
          /\ view' = [view EXCEPT ![c] = mail]
          /\ link' = [link EXCEPT ![c] = health]
          /\ owner' = [owner EXCEPT ![c] = r]
          /\ leaked' = leaked \ {c}
    BY <1>9 DEF Adopt
  <2>2. /\ probes < MaxProbes /\ probes' = probes + 1
        /\ pc' = Woken(pc, r, 1) /\ waiters' = StillParked(r, 1)
        /\ UNCHANGED <<opening, conn, todo, seen, asked, mail>>
    BY <1>9 DEF Adopt
  <2>4. pc' \in [Caller -> [Role -> Stage]] /\ waiters' \in [Role -> Seq(Caller)]
    BY <2>2, Staying, WakingKeeps
  <2>5. c \in Conn
    BY NewConnIsUnused
  <2>. QED
    BY <2>1, <2>2, <2>4, <2>5 DEF TypeOK
<1>10. ASSUME MailMoves PROVE TypeOK'
  <2>1. mail' \in 0 .. MaxMail
    BY <1>0, <1>10 DEF MailMoves
  <2>. QED
    BY <1>10, <2>1 DEF TypeOK, MailMoves, caller, sockets
<1>11. CASE UNCHANGED vars
  BY <1>11 DEF TypeOK, vars, caller, sockets, outside
<1>. QED
  BY <1>1, <1>2, <1>3, <1>4, <1>5, <1>6, <1>7, <1>8, <1>9, <1>10, <1>11, Zenon DEF Next

-------------------------------------------------------------------------------
(* Who moves *)

\* Where everybody but p stays, and the three ways p comes out of takeFree.
Others(p, r) ==
  \A q \in Caller, s \in Role : (q # p \/ s # r) =>
    pc'[q][s] = pc[q][s] /\ conn'[q][s] = conn[q][s] /\ seen'[q][s] = seen[q][s]

Claims(p, r, bsy) ==
  /\ pc'[p][r] \in {"noop", "lent"} /\ conn'[p][r] \in Conn /\ seen'[p][r] = mail
  /\ owner[conn'[p][r]] = r
  /\ ~bsy[conn'[p][r]] /\ busy' = [bsy EXCEPT ![conn'[p][r]] = TRUE]
  /\ pc'[p][r] = "lent" => label[conn'[p][r]] = mail /\ link[conn'[p][r]] = "open"
  /\ UNCHANGED <<opening, waiters>>

Dials(p, r, bsy) ==
  /\ pc'[p][r] = "dial" /\ conn'[p][r] = None /\ busy' = bsy
  /\ Occupied(r, entries') < Cap[r]
  /\ opening' = [opening EXCEPT ![r] = @ + 1]
  /\ UNCHANGED waiters

Parks(p, r, bsy) ==
  /\ pc'[p][r] = "parked" /\ conn'[p][r] = None /\ busy' = bsy
  /\ waiters' = [waiters EXCEPT ![r] = Append(@, p)]
  /\ UNCHANGED opening

\* takeFree moves the caller and nobody else.
LEMMA TakingMoves ==
  ASSUME TypeOK, NEW p \in Caller, NEW r \in Role, NEW list, NEW ents, NEW bsy,
         Setting(p, r, list, ents, bsy)
  PROVE  Others(p, r) /\ (Claims(p, r, bsy) \/ Dials(p, r, bsy) \/ Parks(p, r, bsy))
<1>1. /\ pc \in [Caller -> [Role -> Stage]] /\ conn \in [Caller -> [Role -> Conn \cup {None}]]
      /\ seen \in [Caller -> [Role -> 0 .. MaxMail]] /\ mail \in 0 .. MaxMail
      /\ {"out", "noop", "dial", "parked", "woken", "lent"} = Stage
  BY DEF TypeOK, Stage
<1>2. CASE Claim(p, r, list, ents, bsy)
  <2>1. PICK c \in Candidates(list, bsy), stage \in {"noop", "lent"} :
          /\ busy' = [bsy EXCEPT ![c] = TRUE]
          /\ conn' = [conn EXCEPT ![p][r] = c]
          /\ seen' = [seen EXCEPT ![p][r] = mail]
          /\ pc' = [pc EXCEPT ![p][r] = stage]
          /\ stage = "lent" => label[c] = mail /\ link[c] = "open"
          /\ UNCHANGED <<opening, waiters>>
    BY <1>2 DEF Claim
  <2>2. c \in Conn /\ ~bsy[c] /\ stage \in Stage /\ owner[c] = r
    BY <1>1 DEF Candidates, Free, Setting
  <2>3. \A q \in Caller, s \in Role : conn'[q][s] = IF q = p /\ s = r THEN c ELSE conn[q][s]
    BY <1>1, <2>1, <2>2, LocalUpdate
  <2>4. \A q \in Caller, s \in Role : seen'[q][s] = IF q = p /\ s = r THEN mail ELSE seen[q][s]
    BY <1>1, <2>1, LocalUpdate
  <2>5. \A q \in Caller, s \in Role : pc'[q][s] = IF q = p /\ s = r THEN stage ELSE pc[q][s]
    BY <1>1, <2>1, <2>2, LocalUpdate
  <2>6. conn'[p][r] = c /\ seen'[p][r] = mail /\ pc'[p][r] = stage /\ Others(p, r)
    BY <2>3, <2>4, <2>5 DEF Others
  <2>. QED
    BY <2>1, <2>2, <2>6 DEF Claims
<1>3. CASE Dial(p, r, list, ents, bsy)
  <2>1. /\ conn' = [conn EXCEPT ![p][r] = None]
        /\ seen' = [seen EXCEPT ![p][r] = mail]
        /\ pc' = [pc EXCEPT ![p][r] = "dial"]
        /\ busy' = bsy /\ opening' = [opening EXCEPT ![r] = @ + 1] /\ UNCHANGED waiters
        /\ Occupied(r, entries') < Cap[r]
    BY <1>3 DEF Dial, Occupied
  <2>2. \A q \in Caller, s \in Role : conn'[q][s] = IF q = p /\ s = r THEN None ELSE conn[q][s]
    BY <1>1, <2>1, LocalUpdate
  <2>3. \A q \in Caller, s \in Role : seen'[q][s] = IF q = p /\ s = r THEN mail ELSE seen[q][s]
    BY <1>1, <2>1, LocalUpdate
  <2>4. \A q \in Caller, s \in Role : pc'[q][s] = IF q = p /\ s = r THEN "dial" ELSE pc[q][s]
    BY <1>1, <2>1, LocalUpdate
  <2>. QED
    BY <2>1, <2>2, <2>3, <2>4 DEF Dials, Others
<1>4. CASE Park(p, r, list, ents, bsy)
  <2>1. /\ conn' = [conn EXCEPT ![p][r] = None]
        /\ pc' = [pc EXCEPT ![p][r] = "parked"]
        /\ busy' = bsy /\ UNCHANGED <<opening, seen>>
        /\ waiters' = [waiters EXCEPT ![r] = Append(@, p)]
    BY <1>4 DEF Park
  <2>2. \A q \in Caller, s \in Role : conn'[q][s] = IF q = p /\ s = r THEN None ELSE conn[q][s]
    BY <1>1, <2>1, LocalUpdate
  <2>3. \A q \in Caller, s \in Role : pc'[q][s] = IF q = p /\ s = r THEN "parked" ELSE pc[q][s]
    BY <1>1, <2>1, LocalUpdate
  <2>. QED
    BY <2>1, <2>2, <2>3 DEF Parks, Others
<1>. QED
  BY <1>2, <1>3, <1>4 DEF Setting, TakeFree

\* The three steps that run takeFree, in those terms.
LEMMA Selecting ==
  ASSUME TypeOK, HoldInv, OwnInv, NEW p \in Caller, NEW r \in Role,
         Acquire(p, r) \/ Retry(p, r) \/ NoopFails(p, r)
  PROVE  /\ pc[p][r] \in {"out", "woken", "noop"}
         /\ UNCHANGED <<sockets, outside>>
         /\ \A s \in Role : entries'[s] \subseteq entries[s]
         /\ Others(p, r)
         /\ \E bsy \in [Conn -> BOOLEAN] :
              /\ \A c \in Conn : bsy[c] <=> busy[c] /\ c # conn[p][r]
              /\ Claims(p, r, bsy) \/ Dials(p, r, bsy) \/ Parks(p, r, bsy)
         /\ \A q \in Caller, s \in Role : \A c \in todo'[q][s] : owner[c] = s
<1>1. PICK list, ents, bsy : Setting(p, r, list, ents, bsy)
  BY Selection
<1>2. /\ pc[p][r] \in {"out", "woken", "noop"} /\ UNCHANGED <<sockets, outside>>
      /\ bsy \in [Conn -> BOOLEAN] /\ \A c \in Conn : bsy[c] <=> busy[c] /\ c # conn[p][r]
  BY <1>1 DEF Setting
<1>3. \A s \in Role : entries'[s] \subseteq entries[s]
  BY <1>1, TakingShrinks
<1>4. Others(p, r) /\ (Claims(p, r, bsy) \/ Dials(p, r, bsy) \/ Parks(p, r, bsy))
  BY <1>1, TakingMoves
<1>5. \A q \in Caller, s \in Role : \A c \in todo'[q][s] : owner[c] = s
  <2>1. PICK left \in SUBSET list : todo' = [todo EXCEPT ![p][r] = left]
    BY <1>1 DEF Setting, TakeFree, Claim, Dial, Park
  <2>2. todo \in [Caller -> [Role -> SUBSET Conn]] /\ list \subseteq Conn /\ \A c \in list : owner[c] = r
    BY <1>1 DEF TypeOK, Setting
  <2>3. \A q \in Caller, s \in Role : todo'[q][s] = IF q = p /\ s = r THEN left ELSE todo[q][s]
    BY <2>1, <2>2, LocalUpdate
  <2>. QED
    BY <2>2, <2>3 DEF OwnInv
<1>. QED
  BY <1>2, <1>3, <1>4, <1>5

-------------------------------------------------------------------------------
(* The slots *)

\* A role that nobody starts or ends a dial of, and whose entries only shrink.
LEMMA SlotsKept ==
  ASSUME TypeOK, SlotInv, NEW r \in Role,
         entries'[r] \subseteq entries[r], opening'[r] = opening[r],
         \A q \in Caller : pc'[q][r] = "dial" <=> pc[q][r] = "dial"
  PROVE  SlotsOf(r)'
<1>1. Dialling(r)' = Dialling(r)
  BY DEF Dialling, At
<1>2. IsFiniteSet(entries'[r]) /\ Cardinality(entries'[r]) <= Cardinality(entries[r])
  BY FS_Subset DEF SlotInv, SlotsOf
<1>3. Cardinality(entries'[r]) \in Nat /\ Cardinality(entries[r]) \in Nat /\ Cap[r] \in Nat /\ opening[r] \in Nat
  BY <1>2, FS_CardinalityType, RoleAssumption DEF SlotInv, SlotsOf, TypeOK
<1>4. Occupied(r, entries) <= Cap[r] /\ IsFiniteSet(Dialling(r)) /\ opening[r] = Cardinality(Dialling(r))
  BY DEF SlotInv, SlotsOf
<1>5. Occupied(r, entries)' <= Cap[r]
  BY <1>2, <1>3, <1>4 DEF Occupied
<1>. QED
  BY <1>1, <1>2, <1>4, <1>5 DEF SlotsOf

\* p begins to dial.
LEMMA SlotTaken ==
  ASSUME TypeOK, SlotInv, NEW p \in Caller, NEW r \in Role, pc[p][r] # "dial", pc'[p][r] = "dial",
         \A q \in Caller \ {p} : pc'[q][r] = "dial" <=> pc[q][r] = "dial",
         entries'[r] \subseteq entries[r], Occupied(r, entries') < Cap[r],
         opening'[r] = opening[r] + 1
  PROVE  SlotsOf(r)'
<1>1. Dialling(r)' = Dialling(r) \cup {p} /\ p \notin Dialling(r)
  BY DEF Dialling, At
<1>2. IsFiniteSet(Dialling(r)) /\ opening[r] = Cardinality(Dialling(r)) /\ IsFiniteSet(entries[r])
  BY DEF SlotInv, SlotsOf
<1>3. IsFiniteSet(Dialling(r)') /\ Cardinality(Dialling(r)') = opening[r] + 1
  BY <1>1, <1>2, FS_AddElement
<1>4. IsFiniteSet(entries'[r])
  BY <1>2, FS_Subset
<1>5. Cardinality(entries'[r]) \in Nat /\ opening[r] \in Nat /\ Cap[r] \in Nat
  BY <1>4, FS_CardinalityType, RoleAssumption DEF TypeOK
<1>6. Occupied(r, entries)' <= Cap[r]
  BY <1>5 DEF Occupied
<1>. QED
  BY <1>3, <1>4, <1>6 DEF SlotsOf

\* A dial of p ends; a connection may take its slot.
LEMMA SlotGiven ==
  ASSUME TypeOK, SlotInv, NEW p \in Caller, NEW r \in Role, pc[p][r] = "dial", pc'[p][r] # "dial",
         \A q \in Caller \ {p} : pc'[q][r] = "dial" <=> pc[q][r] = "dial",
         NEW c, entries'[r] \subseteq entries[r] \cup {c}, opening'[r] = opening[r] - 1
  PROVE  SlotsOf(r)'
<1>1. Dialling(r)' = Dialling(r) \ {p}
  BY DEF Dialling, At
<1>2. /\ IsFiniteSet(Dialling(r) \ {p}) /\ Cardinality(Dialling(r) \ {p}) = opening[r] - 1
      /\ opening[r] - 1 \in Nat
  BY DialHoldsSlot DEF At
<1>3. IsFiniteSet(entries[r]) /\ Occupied(r, entries) <= Cap[r]
  BY DEF SlotInv, SlotsOf
<1>4. /\ IsFiniteSet(entries[r] \cup {c})
      /\ Cardinality(entries[r] \cup {c}) <= Cardinality(entries[r]) + 1
  <2>1. Cardinality(entries[r]) \in Nat
    BY <1>3, FS_CardinalityType
  <2>2. /\ IsFiniteSet(entries[r] \cup {c})
        /\ Cardinality(entries[r] \cup {c}) \in {Cardinality(entries[r]), Cardinality(entries[r]) + 1}
    BY <1>3, FS_AddElement
  <2>. QED
    BY <2>1, <2>2
<1>5. IsFiniteSet(entries'[r]) /\ Cardinality(entries'[r]) <= Cardinality(entries[r] \cup {c})
  BY <1>4, FS_Subset
<1>6. /\ Cardinality(entries'[r]) \in Nat /\ Cardinality(entries[r] \cup {c}) \in Nat
      /\ Cardinality(entries[r]) \in Nat /\ opening[r] \in Nat /\ Cap[r] \in Nat
  BY <1>3, <1>4, <1>5, FS_CardinalityType, RoleAssumption DEF TypeOK
<1>7. Occupied(r, entries)' <= Cap[r]
  BY <1>3, <1>4, <1>5, <1>6 DEF Occupied
<1>. QED
  BY <1>1, <1>2, <1>5, <1>7 DEF SlotsOf

\* A probe joins where there is room.
LEMMA SlotAdopted ==
  ASSUME TypeOK, SlotInv, NEW r \in Role, NEW c \in Conn, Occupied(r, entries) < Cap[r],
         entries'[r] = entries[r] \cup {c}, opening'[r] = opening[r],
         \A q \in Caller : pc'[q][r] = "dial" <=> pc[q][r] = "dial"
  PROVE  SlotsOf(r)'
<1>1. Dialling(r)' = Dialling(r)
  BY DEF Dialling, At
<1>2. IsFiniteSet(Dialling(r)) /\ opening[r] = Cardinality(Dialling(r)) /\ IsFiniteSet(entries[r])
  BY DEF SlotInv, SlotsOf
<1>3. /\ IsFiniteSet(entries'[r]) /\ Cardinality(entries'[r]) <= Cardinality(entries[r]) + 1
      /\ Cardinality(entries[r]) \in Nat
  <2>1. Cardinality(entries[r]) \in Nat
    BY <1>2, FS_CardinalityType
  <2>2. /\ IsFiniteSet(entries[r] \cup {c})
        /\ Cardinality(entries[r] \cup {c}) \in {Cardinality(entries[r]), Cardinality(entries[r]) + 1}
    BY <1>2, FS_AddElement
  <2>. QED
    BY <2>1, <2>2
<1>4. Cardinality(entries'[r]) \in Nat /\ opening[r] \in Nat /\ Cap[r] \in Nat
  BY <1>3, FS_CardinalityType, RoleAssumption DEF TypeOK
<1>5. Occupied(r, entries)' <= Cap[r]
  BY <1>3, <1>4 DEF Occupied
<1>. QED
  BY <1>1, <1>2, <1>3, <1>5 DEF SlotsOf

\* Every step keeps every role's slots counted and below the cap.
LEMMA StepSlots == TypeOK /\ SlotInv /\ QueueInv /\ HoldInv /\ OwnInv /\ [Next]_vars => SlotInv'
<1>. SUFFICES ASSUME TypeOK, SlotInv, QueueInv, HoldInv, OwnInv, [Next]_vars, NEW s \in Role
              PROVE  SlotsOf(s)'
  BY DEF SlotInv
<1>. USE RoleAssumption
<1>0. /\ entries \in [Role -> SUBSET Conn] /\ opening \in [Role -> Nat]
      /\ pc \in [Caller -> [Role -> Stage]] /\ {"out", "dial", "lent"} \subseteq Stage
      /\ owner \in [Conn -> Role]
  BY DEF TypeOK, Stage
<1>1. ASSUME NEW p \in Caller, NEW r \in Role, Acquire(p, r) \/ Retry(p, r) \/ NoopFails(p, r)
      PROVE  SlotsOf(s)'
  <2>1. PICK bsy : Claims(p, r, bsy) \/ Dials(p, r, bsy) \/ Parks(p, r, bsy)
    BY <1>1, Selecting
  <2>2. /\ pc[p][r] # "dial" /\ entries'[s] \subseteq entries[s]
        /\ \A q \in Caller : (q # p \/ s # r) => pc'[q][s] = pc[q][s]
    BY <1>1, Selecting DEF Others
  <2>3. CASE s = r /\ Dials(p, r, bsy)
    <3>1. pc'[p][r] = "dial" /\ Occupied(r, entries') < Cap[r] /\ opening'[r] = opening[r] + 1
      BY <1>0, <2>3 DEF Dials
    <3>. QED
      BY <2>2, <2>3, <3>1, SlotTaken
  <2>4. CASE ~(s = r /\ Dials(p, r, bsy))
    <3>1. opening'[s] = opening[s]
      BY <1>0, <2>1, <2>4 DEF Claims, Dials, Parks
    <3>2. \A q \in Caller : pc'[q][s] = "dial" <=> pc[q][s] = "dial"
      BY <2>1, <2>2, <2>4 DEF Claims, Parks
    <3>. QED
      BY <2>2, <3>1, <3>2, SlotsKept
  <2>. QED
    BY <2>3, <2>4
<1>2. ASSUME NEW p \in Caller, NEW r \in Role, NoopOk(p, r) \/ DownloadLockFails(p, r)
      PROVE  SlotsOf(s)'
  <2>1. PICK stage \in {"lent", "out"} : pc' = [pc EXCEPT ![p][r] = stage]
    BY <1>2 DEF NoopOk, DownloadLockFails
  <2>2. UNCHANGED <<entries, opening>> /\ pc[p][r] # "dial"
    BY <1>2 DEF NoopOk, DownloadLockFails, At
  <2>3. \A q \in Caller : pc'[q][s] = "dial" <=> pc[q][s] = "dial"
    BY <1>0, <2>1, <2>2, LocalUpdate
  <2>. QED
    BY <2>2, <2>3, SlotsKept
<1>3. ASSUME NEW p \in Caller, NEW r \in Role, DialOk(p, r) PROVE SlotsOf(s)'
  <2>1. PICK c \in NewConn : entries' = [entries EXCEPT ![r] = @ \cup {c}]
    BY <1>3 DEF DialOk
  <2>2. /\ opening' = [opening EXCEPT ![r] = @ - 1] /\ pc' = [pc EXCEPT ![p][r] = "lent"]
        /\ pc[p][r] = "dial"
    BY <1>3 DEF DialOk, At
  <2>3. \A q \in Caller, t \in Role : pc'[q][t] = IF q = p /\ t = r THEN "lent" ELSE pc[q][t]
    BY <1>0, <2>2, LocalUpdate
  <2>4. c \in Conn
    BY NewConnIsUnused
  <2>5. CASE s = r
    <3>1. entries'[r] = entries[r] \cup {c} /\ opening'[r] = opening[r] - 1
      BY <1>0, <2>1, <2>2
    <3>. QED
      BY <2>2, <2>3, <2>4, <2>5, <3>1, SlotGiven
  <2>6. CASE s # r
    BY <1>0, <2>1, <2>2, <2>3, <2>6, SlotsKept
  <2>. QED
    BY <2>5, <2>6
<1>4. ASSUME NEW p \in Caller, NEW r \in Role, DialFails(p, r) PROVE SlotsOf(s)'
  <2>1. /\ pc[p][r] = "dial" /\ opening' = [opening EXCEPT ![r] = @ - 1] /\ entries' = entries
        /\ pc' = Woken(Left(p, r), r, 1) /\ waiters' = StillParked(r, 1)
    BY <1>4 DEF DialFails, Left, At
  <2>2. /\ LeftOrNot(Left(p, r))
        /\ \A q \in Caller, t \in Role : Left(p, r)[q][t] = IF q = p /\ t = r THEN "out" ELSE pc[q][t]
    BY <2>1, Leaving
  <2>3. \A q \in Caller, t \in Role :
          pc'[q][t] = Left(p, r)[q][t] \/ (Left(p, r)[q][t] = "parked" /\ pc'[q][t] = "woken")
    BY <2>1, <2>2, WakingKeeps
  <2>4. /\ pc'[p][r] # "dial"
        /\ \A q \in Caller : (q # p \/ s # r) => (pc'[q][s] = "dial" <=> pc[q][s] = "dial")
    BY <2>2, <2>3
  <2>5. CASE s = r
    <3>1. opening'[r] = opening[r] - 1
      BY <1>0, <2>1
    <3>. QED
      BY <2>1, <2>4, <2>5, <3>1, SlotGiven
  <2>6. CASE s # r
    BY <1>0, <2>1, <2>4, <2>6, SlotsKept
  <2>. QED
    BY <2>5, <2>6
<1>5. ASSUME NEW p \in Caller, NEW r \in Role, Release(p, r) \/ ReleaseBroken(p, r) PROVE SlotsOf(s)'
  <2>1. PICK n \in Nat :
          /\ pc[p][r] = "lent" /\ pc' = Woken(Left(p, r), r, n) /\ waiters' = StillParked(r, n)
    BY <1>5 DEF Release, ReleaseBroken, Left, At
  <2>2. entries'[s] \subseteq entries[s] /\ opening' = opening
    BY <1>0, <1>5 DEF Release, ReleaseBroken, Drop
  <2>3. /\ LeftOrNot(Left(p, r))
        /\ \A q \in Caller, t \in Role : Left(p, r)[q][t] = IF q = p /\ t = r THEN "out" ELSE pc[q][t]
    BY <2>1, Leaving
  <2>4. \A q \in Caller, t \in Role :
          pc'[q][t] = Left(p, r)[q][t] \/ (Left(p, r)[q][t] = "parked" /\ pc'[q][t] = "woken")
    BY <2>1, <2>3, WakingKeeps
  <2>5. \A q \in Caller : pc'[q][s] = "dial" <=> pc[q][s] = "dial"
    BY <2>1, <2>3, <2>4
  <2>. QED
    BY <2>2, <2>5, SlotsKept
<1>6. ASSUME NEW c \in Conn, Close(c) \/ Error(c) PROVE SlotsOf(s)'
  <2>1. /\ pc' = Woken(pc, owner[c], 1) /\ waiters' = StillParked(owner[c], 1)
        /\ entries' = Drop(entries, owner[c], {c}) /\ opening' = opening
    BY <1>6 DEF Close, Error
  <2>2. \A q \in Caller, t \in Role :
          pc'[q][t] = pc[q][t] \/ (pc[q][t] = "parked" /\ pc'[q][t] = "woken")
    BY <1>0, <2>1, Staying, WakingKeeps
  <2>3. entries'[s] \subseteq entries[s]
    BY <1>0, <2>1 DEF Drop
  <2>4. \A q \in Caller : pc'[q][s] = "dial" <=> pc[q][s] = "dial"
    BY <2>2
  <2>. QED
    BY <2>1, <2>3, <2>4, SlotsKept
<1>7. ASSUME Adopt PROVE SlotsOf(s)'
  <2>1. PICK c \in NewConn : entries' = [entries EXCEPT ![Interactive] = @ \cup {c}]
    BY <1>7 DEF Adopt
  <2>2. /\ pc' = Woken(pc, Interactive, 1) /\ waiters' = StillParked(Interactive, 1)
        /\ opening' = opening /\ Occupied(Interactive, entries) < Cap[Interactive]
    BY <1>7 DEF Adopt
  <2>3. \A q \in Caller, t \in Role :
          pc'[q][t] = pc[q][t] \/ (pc[q][t] = "parked" /\ pc'[q][t] = "woken")
    BY <2>2, Staying, WakingKeeps
  <2>4. \A q \in Caller : pc'[q][s] = "dial" <=> pc[q][s] = "dial"
    BY <2>3
  <2>5. CASE s = Interactive
    <3>1. entries'[s] = entries[s] \cup {c} /\ c \in Conn
      BY <1>0, <2>1, <2>5, NewConnIsUnused
    <3>. QED
      BY <2>2, <2>4, <2>5, <3>1, SlotAdopted
  <2>6. CASE s # Interactive
    BY <1>0, <2>1, <2>2, <2>4, <2>6, SlotsKept
  <2>. QED
    BY <2>5, <2>6
<1>8. ASSUME (\E r \in Role : ReapIdle(r)) \/ MailMoves \/ UNCHANGED vars PROVE SlotsOf(s)'
  <2>1. entries'[s] \subseteq entries[s] /\ opening' = opening /\ pc' = pc
    BY <1>0, <1>8 DEF ReapIdle, Drop, MailMoves, vars, caller
  <2>. QED
    BY <2>1, SlotsKept
<1>. QED
  BY <1>1, <1>2, <1>3, <1>4, <1>5, <1>6, <1>7, <1>8, Zenon DEF Next

-------------------------------------------------------------------------------
(* The line *)

\* A step that leaves the line alone and moves nobody who is in it.
LEMMA LineKept ==
  ASSUME TypeOK, QueueInv, waiters' = waiters,
         \A q \in Caller, s \in Role : pc[q][s] = "parked" => pc'[q][s] = "parked"
  PROVE  QueueInv'
<1>1. \A s \in Role : \A k \in DOMAIN waiters[s] :
        waiters[s][k] \in Caller /\ pc[waiters[s][k]][s] = "parked"
  BY DEF TypeOK, QueueInv, At
<1>. QED
  BY <1>1 DEF QueueInv, At

\* Every step keeps the line what it is.
LEMMA StepQueue == TypeOK /\ SlotInv /\ QueueInv /\ HoldInv /\ OwnInv /\ [Next]_vars => QueueInv'
<1>. SUFFICES ASSUME TypeOK, SlotInv, QueueInv, HoldInv, OwnInv, [Next]_vars PROVE QueueInv'
  OBVIOUS
<1>. USE RoleAssumption
<1>0. /\ waiters \in [Role -> Seq(Caller)] /\ owner \in [Conn -> Role]
      /\ pc \in [Caller -> [Role -> Stage]] /\ {"out", "dial", "lent"} \subseteq Stage
  BY DEF TypeOK, Stage
<1>1. ASSUME NEW p \in Caller, NEW r \in Role, Acquire(p, r) \/ Retry(p, r) \/ NoopFails(p, r)
      PROVE  QueueInv'
  <2>1. PICK bsy : Claims(p, r, bsy) \/ Dials(p, r, bsy) \/ Parks(p, r, bsy)
    BY <1>1, Selecting
  <2>2. /\ pc[p][r] # "parked"
        /\ \A q \in Caller, s \in Role : (q # p \/ s # r) => pc'[q][s] = pc[q][s]
    BY <1>1, Selecting DEF Others
  <2>3. CASE Claims(p, r, bsy) \/ Dials(p, r, bsy)
    <3>1. waiters' = waiters
      BY <2>3 DEF Claims, Dials
    <3>. QED
      BY <2>2, <3>1, LineKept
  <2>4. CASE Parks(p, r, bsy)
    <3>. DEFINE line == waiters[r]
    <3>1. line \in Seq(Caller) /\ pc'[p][r] = "parked"
      BY <1>0, <2>4 DEF Parks
    <3>2. waiters'[r] = Append(line, p) /\ \A s \in Role \ {r} : waiters'[s] = waiters[s]
      BY <1>0, <2>4 DEF Parks
    <3>3. /\ DOMAIN waiters'[r] = DOMAIN line \cup {Len(line) + 1}
          /\ \A k \in DOMAIN line : waiters'[r][k] = line[k] /\ k # Len(line) + 1
          /\ waiters'[r][Len(line) + 1] = p
      BY <3>1, <3>2
    <3>4. \A s \in Role : \A k \in DOMAIN waiters[s] :
            waiters[s][k] \in Caller /\ pc[waiters[s][k]][s] = "parked"
      BY <1>0 DEF QueueInv, At
    <3>5. \A k \in DOMAIN line : line[k] # p
      BY <2>2, <3>4
    <3>6. \A j, k \in DOMAIN line : line[j] = line[k] => j = k
      BY DEF QueueInv
    <3>7. ASSUME NEW s \in Role
          PROVE  /\ \A k \in DOMAIN waiters'[s] : pc'[waiters'[s][k]][s] = "parked"
                 /\ \A j, k \in DOMAIN waiters'[s] : waiters'[s][j] = waiters'[s][k] => j = k
      <4>1. CASE s = r
        <5>1. \A k \in DOMAIN waiters'[r] : pc'[waiters'[r][k]][r] = "parked"
          BY <2>2, <3>1, <3>3, <3>4, <3>5
        <5>2. \A j, k \in DOMAIN waiters'[r] : waiters'[r][j] = waiters'[r][k] => j = k
          BY <3>3, <3>5, <3>6
        <5>. QED
          BY <4>1, <5>1, <5>2
      <4>2. CASE s # r
        BY <2>2, <3>2, <3>4, <4>2 DEF QueueInv
      <4>. QED
        BY <4>1, <4>2
    <3>. QED
      BY <3>7 DEF QueueInv, At
  <2>. QED
    BY <2>1, <2>3, <2>4
<1>2. ASSUME NEW p \in Caller, NEW r \in Role, NoopOk(p, r) \/ DownloadLockFails(p, r) \/ DialOk(p, r)
      PROVE  QueueInv'
  <2>1. PICK stage \in {"lent", "out"} : pc' = [pc EXCEPT ![p][r] = stage]
    BY <1>2 DEF NoopOk, DownloadLockFails, DialOk
  <2>2. UNCHANGED waiters /\ pc[p][r] # "parked"
    BY <1>2 DEF NoopOk, DownloadLockFails, DialOk, At
  <2>3. \A q \in Caller, s \in Role : pc[q][s] = "parked" => pc'[q][s] = "parked"
    BY <1>0, <2>1, <2>2, LocalUpdate
  <2>. QED
    BY <2>2, <2>3, LineKept
<1>3. ASSUME NEW p \in Caller, NEW r \in Role, DialFails(p, r) \/ Release(p, r) \/ ReleaseBroken(p, r)
      PROVE  QueueInv'
  <2>1. PICK n \in Nat :
          pc[p][r] # "parked" /\ pc' = Woken(Left(p, r), r, n) /\ waiters' = StillParked(r, n)
    BY <1>3 DEF DialFails, Release, ReleaseBroken, Left, At
  <2>. QED
    BY <2>1, Leaving, WakingKeeps
<1>4. ASSUME NEW c \in Conn, Close(c) \/ Error(c) PROVE QueueInv'
  <2>1. pc' = Woken(pc, owner[c], 1) /\ waiters' = StillParked(owner[c], 1)
    BY <1>4 DEF Close, Error
  <2>. QED
    BY <1>0, <2>1, Staying, WakingKeeps
<1>5. ASSUME Adopt PROVE QueueInv'
  <2>1. pc' = Woken(pc, Interactive, 1) /\ waiters' = StillParked(Interactive, 1)
    BY <1>5 DEF Adopt
  <2>. QED
    BY <2>1, Staying, WakingKeeps
<1>6. ASSUME (\E r \in Role : ReapIdle(r)) \/ MailMoves \/ UNCHANGED vars PROVE QueueInv'
  <2>1. waiters' = waiters /\ pc' = pc
    BY <1>6 DEF ReapIdle, MailMoves, vars, caller
  <2>. QED
    BY <2>1, LineKept
<1>. QED
  BY <1>1, <1>2, <1>3, <1>4, <1>5, <1>6, Zenon DEF Next

-------------------------------------------------------------------------------
(* Who holds what *)

Holding(q, s) == pc[q][s] \in {"noop", "lent"}
Held == HoldInv /\ OwnInv /\ LentOnce /\ NoLeakedLease

\* A step that hands nothing over.
LEMMA HeldKept ==
  ASSUME TypeOK, Held, UNCHANGED <<conn, busy, owner>>, leaked \subseteq leaked',
         \A q \in Caller, s \in Role : Holding(q, s)' <=> Holding(q, s),
         \A q \in Caller, s \in Role : todo'[q][s] \subseteq todo[q][s],
         \A s \in Role : entries'[s] \subseteq entries[s]
  PROVE  Held'
<1>1. HoldInv'
  BY DEF Held, HoldInv, Holding
<1>2. OwnInv'
  BY DEF Held, OwnInv
<1>3. LentOnce'
  BY DEF Held, LentOnce
<1>4. NoLeakedLease'
  BY DEF Held, NoLeakedLease
<1>. QED
  BY <1>1, <1>2, <1>3, <1>4 DEF Held

\* p gives up a connection, which is then free or lost.
LEMMA HeldLess ==
  ASSUME TypeOK, Held, NEW p \in Caller, NEW r \in Role, conn[p][r] \in Conn,
         \A q \in Caller, s \in Role :
           conn'[q][s] = IF q = p /\ s = r THEN None ELSE conn[q][s],
         ~Holding(p, r)',
         \A q \in Caller, s \in Role : (q # p \/ s # r) => (Holding(q, s)' <=> Holding(q, s)),
         \/ busy' = [busy EXCEPT ![conn[p][r]] = FALSE] /\ leaked' = leaked
         \/ busy' = busy /\ leaked' = leaked \cup {conn[p][r]},
         UNCHANGED <<owner, todo>>,
         \A s \in Role : entries'[s] \subseteq entries[s]
  PROVE  Held'
<1>. DEFINE c == conn[p][r]
<1>0. c # None /\ busy \in [Conn -> BOOLEAN]
  BY NoneAssumption DEF TypeOK
<1>1. \A q \in Caller, s \in Role : (q # p \/ s # r) => conn[q][s] # c
  BY <1>0 DEF Held, LentOnce
<1>2. \A d \in Conn : d # c => (busy'[d] <=> busy[d])
  BY <1>0
<1>3. HoldInv'
  <2>1. \A q \in Caller, s \in Role : conn[q][s] \in Conn \cup {None}
    BY DEF TypeOK
  <2>. QED
    BY <1>1, <1>2, <2>1 DEF Held, HoldInv, Holding
<1>4. OwnInv'
  BY DEF Held, OwnInv
<1>5. LentOnce'
  BY DEF Held, LentOnce
<1>6. NoLeakedLease'
  <2>. SUFFICES ASSUME NEW s \in Role, NEW d \in entries'[s], busy'[d], d \notin leaked'
                PROVE  \E q \in Caller : conn'[q][s] = d
    BY DEF NoLeakedLease
  <2>1. d \in Conn /\ d \in entries[s]
    BY DEF TypeOK
  <2>2. d # c /\ busy[d] /\ d \notin leaked
    BY <1>0, <1>2, <2>1
  <2>. QED
    BY <2>1, <2>2 DEF Held, NoLeakedLease
<1>. QED
  BY <1>3, <1>4, <1>5, <1>6 DEF Held

\* Connection c joins role r, free or in the hands of one caller.
Joins(r, c, who) ==
  /\ \A q \in Caller, s \in Role :
       conn'[q][s] = IF q \in who /\ s = r THEN c ELSE conn[q][s]
  /\ \A q \in who : ~Holding(q, r)
  /\ \A p, q \in who : p = q
  /\ \A q \in Caller, s \in Role :
       Holding(q, s)' <=> (Holding(q, s) \/ (q \in who /\ s = r))
  /\ \A d \in Conn : busy'[d] <=> IF d = c THEN who # {} ELSE busy[d]
  /\ \A d \in Conn : owner'[d] = IF d = c THEN r ELSE owner[d]
  /\ \A s \in Role : \A d : d \in entries'[s] <=> d \in entries[s] \/ (s = r /\ d = c)
  /\ leaked' = leaked \ {c} /\ todo' = todo

\* A connection nothing refers to joins the pool.
LEMMA HeldNew ==
  ASSUME TypeOK, Held, NEW r \in Role, NEW c \in Unused, NEW who \in SUBSET Caller,
         Joins(r, c, who)
  PROVE  Held'
<1>. USE DEF Joins
<1>0. /\ c \in Conn /\ c # None /\ busy \in [Conn -> BOOLEAN] /\ owner \in [Conn -> Role]
      /\ entries \in [Role -> SUBSET Conn] /\ \A q \in Caller, s \in Role : todo[q][s] \subseteq Conn
      /\ \A q \in Caller, s \in Role : conn[q][s] \in Conn \cup {None}
  BY NoneAssumption DEF TypeOK, Unused
<1>1. /\ \A s \in Role : c \notin entries[s]
      /\ \A q \in Caller, s \in Role : conn[q][s] # c /\ c \notin todo[q][s]
  BY DEF Unused
<1>2. /\ (busy'[c] <=> who # {}) /\ owner'[c] = r
      /\ \A d \in Conn : d # c => (busy'[d] <=> busy[d]) /\ owner'[d] = owner[d]
  BY <1>0
<1>3. HoldInv'
  <2>. SUFFICES ASSUME NEW q \in Caller, NEW s \in Role
                PROVE  /\ conn'[q][s] # None <=> pc'[q][s] \in {"noop", "lent"}
                       /\ conn'[q][s] # None => busy'[conn'[q][s]]
    BY DEF HoldInv
  <2>1. CASE q \in who /\ s = r
    BY <1>0, <1>2, <2>1 DEF Holding
  <2>2. CASE ~(q \in who /\ s = r)
    <3>1. conn'[q][s] = conn[q][s] /\ (Holding(q, s)' <=> Holding(q, s))
      BY <2>2
    <3>. QED
      BY <1>0, <1>1, <1>2, <3>1 DEF Held, HoldInv, Holding
  <2>. QED
    BY <2>1, <2>2
<1>4. OwnInv'
  <2>1. \A s \in Role : \A d \in entries'[s] : (d = c /\ s = r) \/ (d # c /\ d \in entries[s])
    BY <1>0, <1>1
  <2>2. \A s \in Role : \A d \in entries'[s] : owner'[d] = s
    BY <1>0, <1>2, <2>1 DEF Held, OwnInv
  <2>3. \A s \in Role, q \in Caller : \A d \in todo'[q][s] : owner'[d] = s
    BY <1>0, <1>1, <1>2 DEF Held, OwnInv
  <2>. QED
    BY <2>2, <2>3 DEF OwnInv
<1>5. LentOnce'
  BY <1>1 DEF Held, LentOnce
<1>6. NoLeakedLease'
  <2>. SUFFICES ASSUME NEW s \in Role, NEW d \in entries'[s], busy'[d], d \notin leaked'
                PROVE  \E q \in Caller : conn'[q][s] = d
    BY DEF NoLeakedLease
  <2>1. CASE d = c
    <3>1. s = r
      BY <1>0, <1>1, <2>1
    <3>. QED
      BY <1>2, <2>1, <3>1
  <2>2. CASE d # c
    <3>1. d \in entries[s] /\ d \in Conn /\ busy[d] /\ d \notin leaked
      BY <1>0, <1>2, <2>2
    <3>2. PICK q \in Caller : conn[q][s] = d
      BY <3>1 DEF Held, NoLeakedLease
    <3>3. ~(q \in who /\ s = r)
      BY <1>0, <3>1, <3>2, NoneAssumption DEF Held, HoldInv, Holding
    <3>. QED
      BY <3>2, <3>3
  <2>. QED
    BY <2>1, <2>2
<1>. QED
  BY <1>3, <1>4, <1>5, <1>6 DEF Held

\* Every step leaves each connection with one holder at most, and no lease lost.
LEMMA StepHeld == TypeOK /\ SlotInv /\ QueueInv /\ Held /\ [Next]_vars => Held'
<1>. SUFFICES ASSUME TypeOK, SlotInv, QueueInv, Held, [Next]_vars PROVE Held'
  OBVIOUS
<1>. USE RoleAssumption, NoneAssumption
<1>0. /\ entries \in [Role -> SUBSET Conn] /\ owner \in [Conn -> Role] /\ busy \in [Conn -> BOOLEAN]
      /\ pc \in [Caller -> [Role -> Stage]] /\ {"out", "dial", "lent"} \subseteq Stage
      /\ conn \in [Caller -> [Role -> Conn \cup {None}]] /\ HoldInv /\ OwnInv
  BY DEF TypeOK, Stage, Held
<1>1. ASSUME NEW p \in Caller, NEW r \in Role, Acquire(p, r) \/ Retry(p, r) \/ NoopFails(p, r)
      PROVE  Held'
  <2>1. PICK bsy \in [Conn -> BOOLEAN] :
          /\ \A c \in Conn : bsy[c] <=> busy[c] /\ c # conn[p][r]
          /\ Claims(p, r, bsy) \/ Dials(p, r, bsy) \/ Parks(p, r, bsy)
    BY <1>0, <1>1, Selecting
  <2>2. /\ UNCHANGED <<owner, leaked>> /\ \A s \in Role : entries'[s] \subseteq entries[s]
        /\ \A q \in Caller, s \in Role : (q # p \/ s # r) =>
             pc'[q][s] = pc[q][s] /\ conn'[q][s] = conn[q][s]
        /\ \A q \in Caller, s \in Role : \A c \in todo'[q][s] : owner[c] = s
    BY <1>0, <1>1, Selecting DEF Others, sockets, outside
  <2>3. \A q \in Caller, s \in Role : (q # p \/ s # r) /\ conn[q][s] # None =>
          conn[q][s] \in Conn /\ bsy[conn[q][s]]
    BY <1>0, <2>1 DEF Held, HoldInv, LentOnce
  <2>4. \A c \in Conn : bsy[c] => busy'[c]
    BY <2>1 DEF Claims, Dials, Parks
  <2>5. \A c \in Conn : busy'[c] => bsy[c] \/ (Claims(p, r, bsy) /\ c = conn'[p][r])
    BY <2>1 DEF Claims, Dials, Parks
  <2>6. HoldInv'
    <3>. SUFFICES ASSUME NEW q \in Caller, NEW s \in Role
                  PROVE  /\ conn'[q][s] # None <=> pc'[q][s] \in {"noop", "lent"}
                         /\ conn'[q][s] # None => busy'[conn'[q][s]]
      BY DEF HoldInv
    <3>1. CASE q = p /\ s = r
      BY <2>1, <3>1 DEF Claims, Dials, Parks
    <3>2. CASE q # p \/ s # r
      BY <1>0, <2>2, <2>3, <2>4, <3>2 DEF HoldInv
    <3>. QED
      BY <3>1, <3>2
  <2>7. OwnInv'
    BY <1>0, <2>2 DEF OwnInv
  <2>8. LentOnce'
    <3>1. conn'[p][r] # None => conn'[p][r] \in Conn /\ ~bsy[conn'[p][r]]
      BY <2>1 DEF Claims, Dials, Parks
    <3>2. \A q \in Caller, s \in Role : (q # p \/ s # r) /\ conn'[q][s] # None => conn'[q][s] # conn'[p][r]
      BY <2>2, <2>3, <3>1
    <3>. QED
      BY <2>2, <3>2 DEF Held, LentOnce
  <2>9. NoLeakedLease'
    <3>. SUFFICES ASSUME NEW s \in Role, NEW d \in entries'[s], busy'[d], d \notin leaked'
                  PROVE  \E q \in Caller : conn'[q][s] = d
      BY DEF NoLeakedLease
    <3>1. d \in Conn /\ d \in entries[s] /\ d \notin leaked
      BY <1>0, <2>2
    <3>2. CASE bsy[d]
      <4>1. PICK q \in Caller : conn[q][s] = d
        BY <2>1, <3>1, <3>2 DEF Held, NoLeakedLease
      <4>2. q # p \/ s # r
        BY <2>1, <3>1, <3>2, <4>1
      <4>. QED
        BY <2>2, <4>1, <4>2
    <3>3. CASE Claims(p, r, bsy) /\ d = conn'[p][r]
      BY <1>0, <3>1, <3>3 DEF Claims, OwnInv
    <3>. QED
      BY <2>5, <3>1, <3>2, <3>3
  <2>. QED
    BY <2>6, <2>7, <2>8, <2>9 DEF Held
<1>2. ASSUME NEW p \in Caller, NEW r \in Role, NoopOk(p, r) PROVE Held'
  <2>1. /\ pc[p][r] = "noop" /\ pc' = [pc EXCEPT ![p][r] = "lent"]
        /\ todo' = [todo EXCEPT ![p][r] = {}]
        /\ UNCHANGED <<entries, busy, owner, conn, leaked>>
    BY <1>2 DEF NoopOk, At, outside
  <2>2. \A q \in Caller, s \in Role : Holding(q, s)' <=> Holding(q, s)
    BY <1>0, <2>1, LocalUpdate DEF Holding
  <2>3. \A q \in Caller, s \in Role : todo'[q][s] \subseteq todo[q][s]
    <3>1. todo \in [Caller -> [Role -> SUBSET Conn]]
      BY DEF TypeOK
    <3>. QED
      BY <2>1, <3>1, LocalUpdate
  <2>. QED
    BY <2>1, <2>2, <2>3, HeldKept
<1>3. ASSUME NEW p \in Caller, NEW r \in Role, DialOk(p, r) PROVE Held'
  <2>1. PICK c \in NewConn :
          /\ entries' = [entries EXCEPT ![r] = @ \cup {c}] /\ busy' = [busy EXCEPT ![c] = TRUE]
          /\ owner' = [owner EXCEPT ![c] = r] /\ conn' = [conn EXCEPT ![p][r] = c]
          /\ leaked' = leaked \ {c}
    BY <1>3 DEF DialOk
  <2>2. pc[p][r] = "dial" /\ pc' = [pc EXCEPT ![p][r] = "lent"] /\ todo' = todo
    BY <1>3 DEF DialOk, At
  <2>3. c \in Unused /\ c \in Conn
    BY NewConnIsUnused
  <2>4. \A q \in Caller, s \in Role : pc'[q][s] = IF q = p /\ s = r THEN "lent" ELSE pc[q][s]
    BY <1>0, <2>2, LocalUpdate
  <2>5. \A q \in Caller, s \in Role : conn'[q][s] = IF q = p /\ s = r THEN c ELSE conn[q][s]
    BY <1>0, <2>1, <2>3, LocalUpdate
  <2>6. \E who \in SUBSET Caller : Joins(r, c, who)
    <3>. DEFINE w == {p}
    <3>1. w \in SUBSET Caller /\ w # {} /\ (\A q1, q2 \in w : q1 = q2) /\ \A q : q \in w <=> q = p
      OBVIOUS
    <3>. HIDE DEF w
    <3>2. \A q \in Caller, s \in Role : conn'[q][s] = IF q \in w /\ s = r THEN c ELSE conn[q][s]
      BY <2>5, <3>1
    <3>3. \A q \in w : ~Holding(q, r)
      BY <2>2, <3>1 DEF Holding
    <3>4. \A q \in Caller, s \in Role : Holding(q, s)' <=> (Holding(q, s) \/ (q \in w /\ s = r))
      BY <2>2, <2>4, <3>1 DEF Holding
    <3>5. /\ \A d \in Conn : busy'[d] <=> IF d = c THEN w # {} ELSE busy[d]
          /\ \A d \in Conn : owner'[d] = IF d = c THEN r ELSE owner[d]
          /\ \A s \in Role : \A d : d \in entries'[s] <=> d \in entries[s] \/ (s = r /\ d = c)
      BY <1>0, <2>1, <3>1
    <3>6. Joins(r, c, w)
      BY <2>1, <2>2, <3>1, <3>2, <3>3, <3>4, <3>5 DEF Joins
    <3>. QED
      BY <3>1, <3>6
  <2>. QED
    BY <2>3, <2>6, HeldNew
<1>4. ASSUME NEW p \in Caller, NEW r \in Role, DialFails(p, r) PROVE Held'
  <2>1. /\ pc[p][r] = "dial" /\ pc' = Woken(Left(p, r), r, 1) /\ waiters' = StillParked(r, 1)
        /\ UNCHANGED <<entries, busy, owner, conn, todo, leaked>>
    BY <1>4 DEF DialFails, Left, At, sockets, outside
  <2>2. /\ LeftOrNot(Left(p, r))
        /\ \A q \in Caller, s \in Role : Left(p, r)[q][s] = IF q = p /\ s = r THEN "out" ELSE pc[q][s]
    BY <2>1, Leaving
  <2>3. \A q \in Caller, s \in Role :
          pc'[q][s] = Left(p, r)[q][s] \/ (Left(p, r)[q][s] = "parked" /\ pc'[q][s] = "woken")
    BY <2>1, <2>2, WakingKeeps
  <2>4. \A q \in Caller, s \in Role : Holding(q, s)' <=> Holding(q, s)
    BY <2>1, <2>2, <2>3 DEF Holding
  <2>. QED
    BY <2>1, <2>4, HeldKept
<1>5. ASSUME NEW p \in Caller, NEW r \in Role, Release(p, r) \/ ReleaseBroken(p, r) PROVE Held'
  <2>1. PICK n \in Nat :
          /\ pc[p][r] = "lent" /\ pc' = Woken(Left(p, r), r, n) /\ waiters' = StillParked(r, n)
    BY <1>5 DEF Release, ReleaseBroken, Left, At
  <2>2. /\ busy' = [busy EXCEPT ![conn[p][r]] = FALSE] /\ conn' = [conn EXCEPT ![p][r] = None]
        /\ UNCHANGED <<owner, todo, leaked>> /\ entries' \in {entries, Drop(entries, r, {conn[p][r]})}
    BY <1>5 DEF Release, ReleaseBroken, sockets, outside
  <2>8. \A s \in Role : entries'[s] \subseteq entries[s]
    BY <1>0, <2>2 DEF Drop
  <2>3. /\ LeftOrNot(Left(p, r))
        /\ \A q \in Caller, s \in Role : Left(p, r)[q][s] = IF q = p /\ s = r THEN "out" ELSE pc[q][s]
    BY <2>1, Leaving
  <2>4. \A q \in Caller, s \in Role :
          pc'[q][s] = Left(p, r)[q][s] \/ (Left(p, r)[q][s] = "parked" /\ pc'[q][s] = "woken")
    BY <2>1, <2>3, WakingKeeps
  <2>5. /\ ~Holding(p, r)'
        /\ \A q \in Caller, s \in Role : (q # p \/ s # r) => (Holding(q, s)' <=> Holding(q, s))
    BY <2>3, <2>4 DEF Holding
  <2>6. \A q \in Caller, s \in Role : conn'[q][s] = IF q = p /\ s = r THEN None ELSE conn[q][s]
    BY <1>0, <2>2, LocalUpdate
  <2>7. conn[p][r] \in Conn
    BY <1>0, <2>1 DEF HoldInv
  <2>. QED
    BY <2>2, <2>5, <2>6, <2>7, <2>8, HeldLess
<1>6. ASSUME NEW p \in Caller, NEW r \in Role, DownloadLockFails(p, r) PROVE Held'
  <2>1. /\ pc[p][r] = "lent" /\ pc' = [pc EXCEPT ![p][r] = "out"] /\ conn' = [conn EXCEPT ![p][r] = None]
        /\ leaked' = leaked \cup {conn[p][r]} /\ UNCHANGED <<entries, busy, owner, todo>>
    BY <1>6 DEF DownloadLockFails, At, sockets
  <2>2. \A q \in Caller, s \in Role : pc'[q][s] = IF q = p /\ s = r THEN "out" ELSE pc[q][s]
    BY <1>0, <2>1, LocalUpdate
  <2>3. \A q \in Caller, s \in Role : conn'[q][s] = IF q = p /\ s = r THEN None ELSE conn[q][s]
    BY <1>0, <2>1, LocalUpdate
  <2>4. conn[p][r] \in Conn
    BY <1>0, <2>1 DEF HoldInv
  <2>5. /\ ~Holding(p, r)'
        /\ \A q \in Caller, s \in Role : (q # p \/ s # r) => (Holding(q, s)' <=> Holding(q, s))
    BY <2>2 DEF Holding
  <2>. QED
    BY <2>1, <2>3, <2>4, <2>5, HeldLess
<1>7. ASSUME NEW c \in Conn, Close(c) \/ Error(c) PROVE Held'
  <2>1. /\ pc' = Woken(pc, owner[c], 1) /\ waiters' = StillParked(owner[c], 1)
        /\ entries' = Drop(entries, owner[c], {c})
        /\ UNCHANGED <<busy, owner, conn, todo, leaked>>
    BY <1>7 DEF Close, Error, sockets, outside
  <2>2. \A q \in Caller, s \in Role :
          pc'[q][s] = pc[q][s] \/ (pc[q][s] = "parked" /\ pc'[q][s] = "woken")
    BY <1>0, <2>1, Staying, WakingKeeps
  <2>3. \A s \in Role : entries'[s] \subseteq entries[s]
    BY <1>0, <2>1 DEF Drop
  <2>4. \A q \in Caller, s \in Role : Holding(q, s)' <=> Holding(q, s)
    BY <2>2 DEF Holding
  <2>. QED
    BY <2>1, <2>3, <2>4, HeldKept
<1>8. ASSUME Adopt PROVE Held'
  <2>1. PICK c \in NewConn :
          /\ entries' = [entries EXCEPT ![Interactive] = @ \cup {c}] /\ busy' = [busy EXCEPT ![c] = FALSE]
          /\ owner' = [owner EXCEPT ![c] = Interactive] /\ leaked' = leaked \ {c}
    BY <1>8 DEF Adopt
  <2>2. /\ pc' = Woken(pc, Interactive, 1) /\ waiters' = StillParked(Interactive, 1)
        /\ conn' = conn /\ todo' = todo
    BY <1>8 DEF Adopt
  <2>3. \A q \in Caller, s \in Role :
          pc'[q][s] = pc[q][s] \/ (pc[q][s] = "parked" /\ pc'[q][s] = "woken")
    BY <2>2, Staying, WakingKeeps
  <2>4. c \in Unused
    BY NewConnIsUnused
  <2>. PICK who \in SUBSET Caller : who = {}
    OBVIOUS
  <2>5. \A q \in Caller, s \in Role :
          Holding(q, s)' <=> (Holding(q, s) \/ (q \in who /\ s = Interactive))
    BY <2>3 DEF Holding
  <2>6. \A q \in Caller, s \in Role :
          conn'[q][s] = IF q \in who /\ s = Interactive THEN c ELSE conn[q][s]
    BY <2>2
  <2>7. /\ \A d \in Conn : busy'[d] <=> IF d = c THEN who # {} ELSE busy[d]
        /\ \A d \in Conn : owner'[d] = IF d = c THEN Interactive ELSE owner[d]
        /\ \A s \in Role : \A d : d \in entries'[s] <=> d \in entries[s] \/ (s = Interactive /\ d = c)
    BY <1>0, <2>1
  <2>8. (\A q \in who : ~Holding(q, Interactive)) /\ (\A q1, q2 \in who : q1 = q2)
    OBVIOUS
  <2>9. Joins(Interactive, c, who)
    BY <2>1, <2>2, <2>5, <2>6, <2>7, <2>8 DEF Joins
  <2>. QED
    BY <2>4, <2>9, HeldNew
<1>9. ASSUME (\E r \in Role : ReapIdle(r)) \/ MailMoves \/ UNCHANGED vars PROVE Held'
  <2>1. UNCHANGED <<conn, busy, owner, leaked, pc, todo>> /\ \A s \in Role : entries'[s] \subseteq entries[s]
    BY <1>0, <1>9 DEF ReapIdle, Drop, MailMoves, vars, caller, sockets, outside
  <2>. QED
    BY <2>1, HeldKept DEF Holding
<1>. QED
  BY <1>1, <1>2, <1>3, <1>4, <1>5, <1>6, <1>7, <1>8, <1>9, Zenon DEF Next
-------------------------------------------------------------------------------
(* What is lent is fit *)

\* Caller q has a lease of role s, and it is fit for what q has seen.
Fits(q, s) == view[conn[q][s]] >= seen[q][s] /\ link[conn[q][s]] # "leaving"

\* A lease nobody touched, neither its terms nor its connection.
Untouched(q, s) ==
  /\ At(q, s, "lent") /\ conn'[q][s] = conn[q][s] /\ seen'[q][s] = seen[q][s]
  /\ view'[conn[q][s]] = view[conn[q][s]]
  /\ link'[conn[q][s]] = "leaving" => link[conn[q][s]] = "leaving"

\* Every lease that is not untouched is fit when it is made.
LEMMA FitKept ==
  ASSUME LentIsFit,
         \A q \in Caller, s \in Role : At(q, s, "lent")' => Untouched(q, s) \/ Fits(q, s)'
  PROVE  LentIsFit'
<1>1. \A q \in Caller, s \in Role : Untouched(q, s) => Fits(q, s)'
  BY DEF Untouched, LentIsFit, Fits
<1>. QED
  BY <1>1 DEF LentIsFit, Fits

\* Of two leases, each has a connection of its own.
LEMMA OwnConnection ==
  ASSUME TypeOK, Held, NEW p \in Caller, NEW r \in Role, NEW q \in Caller, NEW s \in Role,
         q # p \/ s # r, At(q, s, "lent")
  PROVE  conn[q][s] \in Conn /\ conn[q][s] # conn[p][r] /\ busy[conn[q][s]]
BY DEF TypeOK, Held, HoldInv, LentOnce, At

\* Every step keeps labels honest and leases fit.
LEMMA StepFit == TypeOK /\ QueueInv /\ Held /\ LabelInv /\ LentIsFit /\ [Next]_vars
                   => LabelInv' /\ LentIsFit'
<1>. SUFFICES ASSUME TypeOK, QueueInv, Held, LabelInv, LentIsFit, [Next]_vars
              PROVE  LabelInv' /\ LentIsFit'
  OBVIOUS
<1>. USE NoneAssumption, RoleAssumption, BoundsAssumption
<1>0. /\ label \in [Conn -> 0 .. MaxMail] /\ view \in [Conn -> 0 .. MaxMail]
      /\ link \in [Conn -> {"open", "leaving", "gone", "closed"}]
      /\ conn \in [Caller -> [Role -> Conn \cup {None}]] /\ mail \in 0 .. MaxMail
      /\ seen \in [Caller -> [Role -> 0 .. MaxMail]] /\ pc \in [Caller -> [Role -> Stage]]
      /\ {"out", "noop", "dial", "parked", "woken", "lent"} = Stage /\ HoldInv
  BY DEF TypeOK, Stage, Held
<1>1. ASSUME NEW p \in Caller, NEW r \in Role, Acquire(p, r) \/ Retry(p, r) \/ NoopFails(p, r)
      PROVE  LabelInv' /\ LentIsFit'
  <2>1. HoldInv /\ OwnInv
    BY DEF Held
  <2>2. UNCHANGED <<label, view, link>> /\ Others(p, r)
    BY <1>1, <2>1, Selecting DEF sockets
  <2>3. \E bsy \in [Conn -> BOOLEAN] : Claims(p, r, bsy) \/ Dials(p, r, bsy) \/ Parks(p, r, bsy)
    BY <1>1, <2>1, Selecting
  <2>4. At(p, r, "lent")' => Fits(p, r)'
    BY <1>0, <2>2, <2>3 DEF Claims, Dials, Parks, At, Fits, LabelInv
  <2>5. \A q \in Caller, s \in Role : (q # p \/ s # r) /\ At(q, s, "lent")' => Untouched(q, s)
    BY <2>2 DEF Others, At, Untouched
  <2>6. LentIsFit'
    BY <2>4, <2>5, FitKept
  <2>. QED
    BY <2>2, <2>6 DEF LabelInv
<1>2. ASSUME NEW p \in Caller, NEW r \in Role, NoopOk(p, r) PROVE LabelInv' /\ LentIsFit'
  <2>. DEFINE c == conn[p][r]
  <2>1. PICK v \in seen[p][r] .. mail : view' = [view EXCEPT ![c] = v]
    BY <1>2 DEF NoopOk
  <2>2. /\ pc[p][r] = "noop" /\ link[c] = "open" /\ pc' = [pc EXCEPT ![p][r] = "lent"]
        /\ label' = [label EXCEPT ![c] = seen[p][r]] /\ UNCHANGED <<link, conn, seen>>
    BY <1>2 DEF NoopOk, At
  <2>3. c \in Conn /\ seen[p][r] \in Nat /\ v \in Nat /\ v >= seen[p][r]
    BY <1>0, <2>1, <2>2 DEF HoldInv
  <2>4. view'[c] = v /\ label'[c] = seen[p][r]
    BY <1>0, <2>1, <2>2, <2>3
  <2>5. \A d \in Conn : d # c => view'[d] = view[d] /\ label'[d] = label[d]
    BY <1>0, <2>1, <2>2
  <2>6. \A q \in Caller, s \in Role : pc'[q][s] = IF q = p /\ s = r THEN "lent" ELSE pc[q][s]
    BY <1>0, <2>2, LocalUpdate
  <2>7. Fits(p, r)'
    BY <2>2, <2>3, <2>4 DEF Fits
  <2>8. ASSUME NEW q \in Caller, NEW s \in Role, q # p \/ s # r, At(q, s, "lent")'
        PROVE  Untouched(q, s)
    <3>1. At(q, s, "lent")
      BY <2>6, <2>8 DEF At
    <3>. QED
      BY <2>2, <2>5, <2>8, <3>1, OwnConnection DEF Untouched
  <2>9. LentIsFit'
    BY <2>7, <2>8, FitKept
  <2>. QED
    BY <2>3, <2>4, <2>5, <2>9 DEF LabelInv
<1>3. ASSUME NEW p \in Caller, NEW r \in Role, DialOk(p, r) PROVE LabelInv' /\ LentIsFit'
  <2>1. PICK c \in NewConn, v \in seen[p][r] .. mail :
          /\ label' = [label EXCEPT ![c] = seen[p][r]] /\ view' = [view EXCEPT ![c] = v]
          /\ link' = [link EXCEPT ![c] = "open"] /\ conn' = [conn EXCEPT ![p][r] = c]
    BY <1>3, Zenon DEF DialOk
  <2>2. pc' = [pc EXCEPT ![p][r] = "lent"] /\ UNCHANGED seen
    BY <1>3 DEF DialOk
  <2>3. c \in Conn /\ seen[p][r] \in Nat /\ v \in Nat /\ v >= seen[p][r]
    BY <1>0, <2>1, NewConnIsUnused
  <2>4. \A q \in Caller, s \in Role : conn[q][s] # c
    BY NewConnIsUnused DEF Unused
  <2>5. view'[c] = v /\ label'[c] = seen[p][r] /\ link'[c] = "open"
    BY <1>0, <2>1, <2>3
  <2>6. \A d \in Conn : d # c => view'[d] = view[d] /\ label'[d] = label[d] /\ link'[d] = link[d]
    BY <1>0, <2>1
  <2>7. \A q \in Caller, s \in Role : pc'[q][s] = IF q = p /\ s = r THEN "lent" ELSE pc[q][s]
    BY <1>0, <2>2, LocalUpdate
  <2>8. \A q \in Caller, s \in Role : conn'[q][s] = IF q = p /\ s = r THEN c ELSE conn[q][s]
    BY <1>0, <2>1, <2>3, LocalUpdate
  <2>9. Fits(p, r)'
    BY <2>2, <2>3, <2>5, <2>8 DEF Fits
  <2>10. ASSUME NEW q \in Caller, NEW s \in Role, q # p \/ s # r, At(q, s, "lent")'
         PROVE  Untouched(q, s)
    <3>1. At(q, s, "lent")
      BY <2>7, <2>10 DEF At
    <3>. QED
      BY <2>2, <2>4, <2>6, <2>8, <2>10, <3>1, OwnConnection DEF Untouched
  <2>11. LentIsFit'
    BY <2>9, <2>10, FitKept
  <2>. QED
    BY <2>3, <2>5, <2>6, <2>11 DEF LabelInv
<1>4. ASSUME NEW p \in Caller, NEW r \in Role,
             DialFails(p, r) \/ Release(p, r) \/ ReleaseBroken(p, r) \/ DownloadLockFails(p, r)
      PROVE  LabelInv' /\ LentIsFit'
  <2>1. /\ UNCHANGED <<label, view, seen>> /\ conn' \in {conn, [conn EXCEPT ![p][r] = None]}
        /\ link' \in {link, [link EXCEPT ![conn[p][r]] = "closed"]}
    BY <1>4 DEF DialFails, Release, ReleaseBroken, DownloadLockFails, sockets
  <2>2. pc[p][r] \in {"dial", "lent"}
    BY <1>4 DEF DialFails, Release, ReleaseBroken, DownloadLockFails, At
  <2>3. \A q \in Caller, s \in Role : Left(p, r)[q][s] = IF q = p /\ s = r THEN "out" ELSE pc[q][s]
    BY <2>2, Leaving
  <2>4. \A q \in Caller, s \in Role :
          pc'[q][s] = Left(p, r)[q][s] \/ (Left(p, r)[q][s] = "parked" /\ pc'[q][s] = "woken")
    <3>1. CASE DownloadLockFails(p, r)
      BY <3>1 DEF DownloadLockFails, Left
    <3>2. CASE DialFails(p, r) \/ Release(p, r) \/ ReleaseBroken(p, r)
      <4>1. PICK n \in Nat : pc' = Woken(Left(p, r), r, n) /\ waiters' = StillParked(r, n)
        BY <3>2 DEF DialFails, Release, ReleaseBroken, Left
      <4>. QED
        BY <2>2, <4>1, Leaving, WakingKeeps
    <3>. QED
      BY <1>4, <3>1, <3>2
  <2>5. ASSUME NEW q \in Caller, NEW s \in Role, At(q, s, "lent")'
        PROVE  Untouched(q, s)
    <3>1. (q # p \/ s # r) /\ At(q, s, "lent")
      BY <2>3, <2>4, <2>5 DEF At
    <3>2. conn[q][s] \in Conn /\ link'[conn[q][s]] = "leaving" => link[conn[q][s]] = "leaving"
      BY <1>0, <2>1, <3>1
    <3>3. conn'[q][s] = conn[q][s]
      BY <1>0, <2>1, <3>1, LocalUpdate
    <3>. QED
      BY <2>1, <3>1, <3>2, <3>3, OwnConnection DEF Untouched
  <2>6. LentIsFit'
    BY <2>5, FitKept
  <2>. QED
    BY <2>1, <2>6 DEF LabelInv
<1>5. ASSUME NEW c \in Conn, Close(c) \/ Error(c) PROVE LabelInv' /\ LentIsFit'
  <2>1. /\ pc' = Woken(pc, owner[c], 1) /\ waiters' = StillParked(owner[c], 1)
        /\ UNCHANGED <<label, view, conn, seen>> /\ link' \in {link, [link EXCEPT ![c] = "closed"]}
    BY <1>5 DEF Close, Error, sockets
  <2>2. owner[c] \in Role
    BY DEF TypeOK
  <2>3. \A q \in Caller, s \in Role :
          pc'[q][s] = pc[q][s] \/ (pc[q][s] = "parked" /\ pc'[q][s] = "woken")
    BY <2>1, <2>2, Staying, WakingKeeps
  <2>4. \A d \in Conn : link'[d] = "leaving" => link[d] = "leaving"
    BY <1>0, <2>1
  <2>5. \A q \in Caller, s \in Role : At(q, s, "lent")' => At(q, s, "lent") /\ conn[q][s] \in Conn
    BY <1>0, <2>3 DEF At, HoldInv
  <2>6. \A q \in Caller, s \in Role : At(q, s, "lent")' => Untouched(q, s)
    BY <2>1, <2>4, <2>5 DEF Untouched
  <2>. QED
    BY <2>1, <2>6, FitKept DEF LabelInv
<1>6. ASSUME Adopt PROVE LabelInv' /\ LentIsFit'
  <2>1. PICK c \in NewConn, health \in {"open", "gone"} :
          /\ label' = [label EXCEPT ![c] = mail] /\ view' = [view EXCEPT ![c] = mail]
          /\ link' = [link EXCEPT ![c] = health]
    BY <1>6, Zenon DEF Adopt
  <2>2. /\ pc' = Woken(pc, Interactive, 1) /\ waiters' = StillParked(Interactive, 1)
        /\ UNCHANGED <<conn, seen>>
    BY <1>6 DEF Adopt
  <2>3. \A q \in Caller, s \in Role :
          pc'[q][s] = pc[q][s] \/ (pc[q][s] = "parked" /\ pc'[q][s] = "woken")
    BY <2>2, Staying, WakingKeeps
  <2>4. c \in Conn /\ \A q \in Caller, s \in Role : conn[q][s] # c
    BY NewConnIsUnused DEF Unused
  <2>5. \A d \in Conn : d # c => view'[d] = view[d] /\ label'[d] = label[d] /\ link'[d] = link[d]
    BY <1>0, <2>1
  <2>6. view'[c] = mail /\ label'[c] = mail
    BY <1>0, <2>1, <2>4
  <2>7. \A q \in Caller, s \in Role : At(q, s, "lent")' => At(q, s, "lent") /\ conn[q][s] \in Conn
    BY <1>0, <2>3 DEF At, HoldInv
  <2>8. \A q \in Caller, s \in Role : At(q, s, "lent")' => Untouched(q, s)
    BY <2>2, <2>4, <2>5, <2>7 DEF Untouched
  <2>9. LentIsFit'
    BY <2>8, FitKept
  <2>. QED
    BY <1>0, <2>5, <2>6, <2>9 DEF LabelInv
<1>7. ASSUME NEW r \in Role, ReapIdle(r) PROVE LabelInv' /\ LentIsFit'
  <2>1. PICK old \in SUBSET {c \in entries[r] : ~busy[c]} :
          link' = [c \in Conn |-> IF c \in old /\ link[c] = "open" THEN "leaving" ELSE link[c]]
    BY <1>7 DEF ReapIdle
  <2>2. UNCHANGED <<label, view, conn, seen, pc>>
    BY <1>7 DEF ReapIdle, caller
  <2>3. \A q \in Caller, s \in Role :
          At(q, s, "lent") => conn[q][s] \in Conn /\ busy[conn[q][s]]
    BY <1>0 DEF At, HoldInv
  <2>4. \A q \in Caller, s \in Role : At(q, s, "lent")' => Untouched(q, s)
    BY <2>1, <2>2, <2>3 DEF Untouched, At
  <2>. QED
    BY <2>2, <2>4, FitKept DEF LabelInv
<1>8. ASSUME MailMoves \/ UNCHANGED vars PROVE LabelInv' /\ LentIsFit'
  <2>1. UNCHANGED <<label, view, link, conn, seen, pc>>
    BY <1>8 DEF MailMoves, vars, caller, sockets
  <2>. QED
    BY <2>1 DEF LabelInv, LentIsFit, At
<1>. QED
  BY <1>1, <1>2, <1>3, <1>4, <1>5, <1>6, <1>7, <1>8, Zenon DEF Next

-------------------------------------------------------------------------------
(* The theorems *)

\* The pool starts empty, with nobody waiting and nothing lent.
LEMMA InitLend == Init => LendInv
<1>. SUFFICES ASSUME Init PROVE LendInv
  OBVIOUS
<1>. USE RoleAssumption, NoneAssumption, BoundsAssumption
<1>1. TypeOK
  <2>1. <<>> \in Seq(Caller) /\ "out" \in Stage /\ 0 \in 0 .. MaxMail /\ 0 \in 0 .. MaxRequests
    BY DEF Stage
  <2>. QED
    BY <2>1 DEF Init, TypeOK
<1>2. SlotInv
  <2>. SUFFICES ASSUME NEW r \in Role PROVE SlotsOf(r)
    BY DEF SlotInv
  <2>1. Dialling(r) = {} /\ entries[r] = {} /\ opening[r] = 0
    BY DEF Init, Dialling, At
  <2>2. Cap[r] \in Nat
    OBVIOUS
  <2>. QED
    BY <2>1, <2>2, FS_EmptySet DEF SlotsOf, Occupied
<1>3. QueueInv
  BY DEF Init, QueueInv
<1>4. HoldInv /\ OwnInv /\ LentOnce /\ NoLeakedLease
  BY DEF Init, HoldInv, OwnInv, LentOnce, NoLeakedLease
<1>5. LabelInv /\ LentIsFit
  BY DEF Init, LabelInv, LentIsFit, At
<1>. QED
  BY <1>1, <1>2, <1>3, <1>4, <1>5 DEF LendInv, PoolInv

\* The invariant is inductive.
LEMMA StepLend == LendInv /\ [Next]_vars => LendInv'
BY StepTypes, StepSlots, StepQueue, StepHeld, StepFit DEF LendInv, PoolInv, Held

\* It holds in every reachable state.
LEMMA LendAlways == Spec => []LendInv
BY InitLend, StepLend, PTL DEF Spec

\* imap/pool.ts acquire, openSlot, adopt: the slots of a role count its
\* connections and the dials in progress, so the cap bounds the sockets.
LEMMA SlotsWithinCap == PoolInv => PoolOK
<1>. SUFFICES ASSUME PoolInv PROVE PoolOK
  OBVIOUS
<1>1. \A r \in Role : SlotsOf(r) /\ Dialling(r) = {p \in Caller : At(p, r, "dial")}
  BY DEF PoolInv, SlotInv, Dialling
<1>2. CapHolds
  BY <1>1 DEF CapHolds, SlotsOf, Occupied
<1>. QED
  BY <1>2 DEF PoolOK, PoolInv

\* imap/pool.ts 52-55: whatever the callers, roles and caps, a role never has
\* more connections and dials in progress than MAX_PER_ROLE allows.
THEOREM PoolIsSafe == Spec => []PoolOK
<1>1. LendInv => PoolOK
  BY SlotsWithinCap DEF LendInv
<1>. QED
  BY <1>1, LendAlways, PTL

\* imap/pool.ts acquire, release: a connection has one holder at most, and a
\* busy one of the pool has one, but for the lease a download lost.
THEOREM OneHolderAlways == Spec => []OneHolder
<1>1. LendInv => OneHolder
  BY DEF LendInv, PoolInv, OneHolder
<1>. QED
  BY <1>1, LendAlways, PTL

\* imap/pool.ts takeFree, reapIdle: what is lent has synced up to the email
\* state its acquire observed, and the reaper has not sent it a LOGOUT.
THEOREM LentConnectionsFit == Spec => []LentIsFit
<1>1. LendInv => LentIsFit
  BY DEF LendInv
<1>. QED
  BY <1>1, LendAlways, PTL
===============================================================================
