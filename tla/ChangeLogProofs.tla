--------------------------- MODULE ChangeLogProofs ----------------------------
(***************************************************************************)
(* For any set of ids and clients, any CHANGE_LOG_LIMIT, any batch size and *)
(* any number of states: the log has the shape its readers rely on, a range *)
(* that entriesSince answers has every entry (up to a cut oldest batch), a  *)
(* range whose entries are all there is answered, when batches carry one id *)
(* nothing evicted is ever answered, and as long as nothing evicted is,     *)
(* clients that replay the answers hold the collections of their states.    *)
(***************************************************************************)
EXTENDS ChangeLog, TLAPS, FiniteSetTheorems, SequenceTheorems, WellFoundedInduction

\* A list of ids tagged with an action and a state is a sequence of entries.
LEMMA TaggedType ==
  ASSUME NEW ids \in IdLists, NEW action \in Action, NEW state \in 1 .. MaxState
  PROVE  /\ Tagged(ids, action, state) \in Seq(Entry)
         /\ Len(Tagged(ids, action, state)) = Len(ids)
         /\ \A k \in DOMAIN Tagged(ids, action, state) :
              Tagged(ids, action, state)[k].state = state
<1>1. PICK m \in 0 .. MaxBatch : ids \in [1 .. m -> Id]
  BY DEF IdLists
<1>2. \A k \in 1 .. m : [state |-> state, action |-> action, id |-> ids[k]] \in Entry
  BY <1>1 DEF Entry
<1>3. m \in Nat
  BY MaxBatchAssumption
<1>4. Tagged(ids, action, state) \in [1 .. m -> Entry]
  BY <1>1, <1>2 DEF Tagged
<1>5. Tagged(ids, action, state) \in Seq(Entry) /\ Len(Tagged(ids, action, state)) = m
  BY <1>3, <1>4, SMT
<1>6. Len(ids) = m
  BY <1>1, <1>3, SMT
<1>7. \A k \in DOMAIN Tagged(ids, action, state) :
        Tagged(ids, action, state)[k].state = state
  BY DEF Tagged
<1>. QED
  BY <1>5, <1>6, <1>7

\* The rows of one recordChanges call all carry its state.
LEMMA RowsType ==
  ASSUME NEW created \in IdLists, NEW updated \in IdLists, NEW destroyed \in IdLists,
         NEW state \in 1 .. MaxState
  PROVE  /\ Rows(created, updated, destroyed, state) \in Seq(Entry)
         /\ \A k \in DOMAIN Rows(created, updated, destroyed, state) :
              Rows(created, updated, destroyed, state)[k].state = state
<1>. DEFINE tc == Tagged(created, "created", state)
            tu == Tagged(updated, "updated", state)
            td == Tagged(destroyed, "destroyed", state)
<1>1. /\ tc \in Seq(Entry) /\ \A k \in DOMAIN tc : tc[k].state = state
      /\ tu \in Seq(Entry) /\ \A k \in DOMAIN tu : tu[k].state = state
      /\ td \in Seq(Entry) /\ \A k \in DOMAIN td : td[k].state = state
  BY TaggedType DEF Action
<1>. HIDE DEF tc, tu, td
<1>2. /\ tc \o tu \in Seq(Entry)
      /\ \A k \in DOMAIN (tc \o tu) : (tc \o tu)[k].state = state
  BY <1>1, ConcatProperties, LenProperties
<1>3. /\ (tc \o tu) \o td \in Seq(Entry)
      /\ \A k \in DOMAIN ((tc \o tu) \o td) : ((tc \o tu) \o td)[k].state = state
  BY <1>1, <1>2, ConcatProperties, LenProperties
<1>. QED
  BY <1>3 DEF Rows, tc, tu, td

\* What TypeOK says of one entry of the log.
LEMMA EntriesTyped ==
  ASSUME NEW buf \in Seq(Entry)
  PROVE  /\ Len(buf) \in Nat
         /\ DOMAIN buf = 1 .. Len(buf)
         /\ buf # <<>> => 1 \in DOMAIN buf
         /\ \A k \in DOMAIN buf : buf[k] \in Entry /\ buf[k].state \in Nat \ {0}
<1>1. Len(buf) \in Nat /\ DOMAIN buf = 1 .. Len(buf)
  BY LenProperties
<1>2. \A k \in DOMAIN buf : buf[k] \in Entry
  BY <1>1, ElementOfSeq
<1>3. \A e \in Entry : e.state \in Nat \ {0}
  BY MaxStateAssumption DEF Entry
<1>4. buf # <<>> => Len(buf) >= 1
  BY <1>1, EmptySeq
<1>. QED
  BY <1>1, <1>2, <1>3, <1>4

\* Where the entries of a concatenation come from.
LEMMA ConcatSplit ==
  ASSUME NEW s \in Seq(Entry), NEW t \in Seq(Entry)
  PROVE  /\ s \o t \in Seq(Entry)
         /\ Len(s \o t) = Len(s) + Len(t)
         /\ \A k \in 1 .. Len(s) : (s \o t)[k] = s[k]
         /\ \A k \in 1 .. Len(t) : (s \o t)[Len(s) + k] = t[k]
         /\ \A k \in 1 .. Len(s) + Len(t) :
              k \in 1 .. Len(s) \/ \E m \in 1 .. Len(t) : k = Len(s) + m /\ (s \o t)[k] = t[m]
<1>1. Len(s) \in Nat /\ Len(t) \in Nat
  BY LenProperties
<1>2. /\ s \o t \in Seq(Entry)
      /\ Len(s \o t) = Len(s) + Len(t)
      /\ \A k \in 1 .. Len(s) + Len(t) :
           (s \o t)[k] = IF k <= Len(s) THEN s[k] ELSE t[k - Len(s)]
  BY ConcatProperties
<1>3. \A k \in 1 .. Len(s) : (s \o t)[k] = s[k]
  BY <1>1, <1>2
<1>4. \A k \in 1 .. Len(t) : (s \o t)[Len(s) + k] = t[k]
  <2>. TAKE k \in 1 .. Len(t)
  <2>1. Len(s) + k \in 1 .. Len(s) + Len(t) /\ ~(Len(s) + k <= Len(s))
    BY <1>1
  <2>2. Len(s) + k - Len(s) = k
    BY <1>1
  <2>. QED
    BY <1>2, <2>1, <2>2
<1>5. \A k \in 1 .. Len(s) + Len(t) :
        k \in 1 .. Len(s) \/ \E m \in 1 .. Len(t) : k = Len(s) + m /\ (s \o t)[k] = t[m]
  <2>. TAKE k \in 1 .. Len(s) + Len(t)
  <2>1. k \in 1 .. Len(s) \/ k - Len(s) \in 1 .. Len(t)
    BY <1>1
  <2>2. ASSUME k - Len(s) \in 1 .. Len(t)
        PROVE  k = Len(s) + (k - Len(s)) /\ (s \o t)[k] = t[k - Len(s)]
    BY <1>1, <1>4, <2>2
  <2>. QED
    BY <2>1, <2>2
<1>. QED
  BY <1>2, <1>3, <1>4, <1>5

\* Evict keeps a suffix of at most LogLimit entries.
LEMMA EvictKeepsSuffix ==
  ASSUME NEW buf \in Seq(Entry)
  PROVE  \E d \in 0 .. Len(buf) :
           /\ Evict(buf) \in Seq(Entry)
           /\ Len(Evict(buf)) = Len(buf) - d
           /\ Len(Evict(buf)) <= LogLimit
           /\ Len(buf) > 0 => d < Len(buf)
           /\ \A k \in 1 .. Len(buf) - d : Evict(buf)[k] = buf[k + d]
<1>0. Len(buf) \in Nat /\ LogLimit \in Nat \ {0}
  BY LogLimitAssumption, LenProperties
<1>1. CASE Len(buf) <= LogLimit
  <2>1. Evict(buf) = buf
    BY <1>0, <1>1 DEF Evict
  <2>. WITNESS 0 \in 0 .. Len(buf)
  <2>. QED
    BY <1>0, <1>1, <2>1
<1>2. CASE Len(buf) > LogLimit
  <2>. DEFINE d == Len(buf) - LogLimit
  <2>1. Evict(buf) = SubSeq(buf, d + 1, Len(buf))
    BY <1>0, <1>2 DEF Evict
  <2>2. d \in 0 .. Len(buf) /\ d < Len(buf)
    BY <1>0, <1>2
  <2>3. \A k \in d + 1 .. Len(buf) : buf[k] \in Entry
    BY <1>0, <2>2, ElementOfSeq
  <2>4. /\ Evict(buf) \in Seq(Entry)
        /\ Len(Evict(buf)) = Len(buf) - d
        /\ \A k \in 1 .. Len(buf) - d : Evict(buf)[k] = buf[k + d]
    BY <1>0, <2>1, <2>2, <2>3, SubSeqProperties, SMTT(30)
  <2>5. Len(Evict(buf)) <= LogLimit
    BY <1>0, <2>4
  <2>. HIDE DEF d
  <2>. QED
    BY <2>2, <2>4, <2>5
<1>3. Len(buf) <= LogLimit \/ Len(buf) > LogLimit
  BY <1>0
<1>. QED
  BY <1>1, <1>2, <1>3, Zenon

-------------------------------------------------------------------------------
(* The inductive invariant *)

LEMMA InitLogInv == Init => LogInv
<1>. SUFFICES ASSUME Init PROVE LogInv
  OBVIOUS
<1>1. TypeOK
  <2>1. snap \in Seq([Id -> (0 .. MaxState) \cup {Absent}]) /\ Len(snap) = 1
    BY DEF Init
  <2>2. held \in [Client -> [state : 0 .. MaxState,
                             copy : [Id -> (0 .. MaxState) \cup {Absent}]]]
    BY MaxStateAssumption DEF Init
  <2>. QED
    BY <2>1, <2>2, MaxStateAssumption, LogLimitAssumption DEF Init, TypeOK
<1>2. Ordered /\ Sourced /\ BatchTagged /\ CompleteAbove
  BY DEF Init, Ordered, Sourced, BatchTagged, CompleteAbove
<1>. QED
  BY <1>1, <1>2 DEF LogInv

\* What a step that logs nothing and moves the counter by one preserves.
LEMMA BumpKeepsLog ==
  ASSUME LogInv, counter < MaxState, counter' = counter + 1, log' = log,
         batch' = Append(batch, <<>>)
  PROVE  /\ Ordered' /\ Sourced' /\ BatchTagged' /\ CompleteAbove'
         /\ batch' \in Seq(Seq(Entry)) /\ Len(batch') = counter'
<1>1. /\ counter \in Nat /\ log \in Seq(Entry)
      /\ batch \in Seq(Seq(Entry)) /\ Len(batch) = counter
      /\ Ordered /\ Sourced /\ BatchTagged /\ CompleteAbove
  BY DEF LogInv, TypeOK
<1>2. <<>> \in Seq(Entry)
  OBVIOUS
<1>3. /\ batch' \in Seq(Seq(Entry)) /\ Len(batch') = counter'
      /\ \A n \in 1 .. counter : batch'[n] = batch[n]
      /\ batch'[counter + 1] = <<>>
  BY <1>1, <1>2, AppendProperties
<1>4. Ordered'
  BY <1>1 DEF Ordered
<1>5. Sourced'
  <2>1. \A k \in DOMAIN log : log[k].state \in 1 .. counter
    BY <1>1, EntriesTyped DEF Sourced
  <2>. QED
    BY <1>1, <1>3, <2>1 DEF Sourced
<1>6. BatchTagged'
  BY <1>1, <1>3 DEF BatchTagged
<1>7. CompleteAbove'
  <2>. SUFFICES ASSUME log # <<>>, NEW n \in log[1].state + 1 .. counter + 1,
                       NEW k \in DOMAIN batch'[n]
                PROVE  \E j \in DOMAIN log : log[j] = batch'[n][k]
    BY DEF CompleteAbove, InLog
  <2>1. log[1].state \in Nat /\ log[1].state >= 1
    BY <1>1, EntriesTyped
  <2>2. n \in 1 .. counter
    BY <1>1, <1>3, <2>1
  <2>. QED
    BY <1>1, <1>3, <2>1, <2>2 DEF CompleteAbove, InLog
<1>. QED
  BY <1>3, <1>4, <1>5, <1>6, <1>7

\* What a recordChanges call with a non-empty diff preserves.
LEMMA RecordKeepsLog ==
  ASSUME LogInv, counter < MaxState, counter' = counter + 1,
         NEW rows \in Seq(Entry), rows # <<>>,
         \A k \in DOMAIN rows : rows[k].state = counter + 1,
         log' = Evict(log \o rows), batch' = Append(batch, rows)
  PROVE  /\ Ordered' /\ Sourced' /\ BatchTagged' /\ CompleteAbove'
         /\ batch' \in Seq(Seq(Entry)) /\ Len(batch') = counter'
         /\ log' \in Seq(Entry) /\ Len(log') <= LogLimit
<1>. DEFINE buf == log \o rows
<1>1. /\ counter \in Nat /\ log \in Seq(Entry)
      /\ batch \in Seq(Seq(Entry)) /\ Len(batch) = counter
      /\ Ordered /\ Sourced /\ BatchTagged /\ CompleteAbove
  BY DEF LogInv, TypeOK
<1>2. /\ Len(log) \in Nat /\ DOMAIN log = 1 .. Len(log)
      /\ Len(rows) \in Nat \ {0} /\ DOMAIN rows = 1 .. Len(rows)
      /\ \A k \in DOMAIN log : log[k].state \in 1 .. counter
  <2>1. Len(rows) \in Nat /\ DOMAIN rows = 1 .. Len(rows) /\ Len(rows) # 0
    BY EntriesTyped
  <2>2. Len(log) \in Nat /\ DOMAIN log = 1 .. Len(log)
    BY <1>1, EntriesTyped
  <2>3. \A k \in DOMAIN log : log[k].state \in 1 .. counter
    BY <1>1, EntriesTyped DEF Sourced
  <2>. QED
    BY <2>1, <2>2, <2>3
<1>3. /\ batch' \in Seq(Seq(Entry)) /\ Len(batch') = counter'
      /\ \A n \in 1 .. counter : batch'[n] = batch[n]
      /\ batch'[counter + 1] = rows
  BY <1>1, AppendProperties
<1>4. /\ buf \in Seq(Entry) /\ Len(buf) = Len(log) + Len(rows) /\ Len(buf) \in Nat \ {0}
      /\ \A k \in 1 .. Len(log) : buf[k] = log[k]
      /\ \A k \in 1 .. Len(rows) : buf[Len(log) + k] = rows[k]
      /\ \A k \in 1 .. Len(buf) :
           k \in 1 .. Len(log) \/ \E m \in 1 .. Len(rows) : k = Len(log) + m /\ buf[k] = rows[m]
  BY <1>1, <1>2, ConcatSplit
<1>. HIDE DEF buf
<1>5. \A k \in 1 .. Len(buf) :
        /\ buf[k].state \in 1 .. counter + 1
        /\ k \notin 1 .. Len(log) => buf[k].state = counter + 1
  <2>. TAKE k \in 1 .. Len(buf)
  <2>1. CASE k \in 1 .. Len(log)
    <3>1. buf[k].state \in 1 .. counter
      BY <1>2, <1>4, <2>1
    <3>. QED
      BY <1>1, <2>1, <3>1
  <2>2. ASSUME NEW m \in 1 .. Len(rows), buf[k] = rows[m]
        PROVE  buf[k].state = counter + 1
    BY <1>2, <2>2
  <2>3. counter + 1 \in 1 .. counter + 1
    BY <1>1
  <2>. QED
    BY <1>4, <2>1, <2>2, <2>3
<1>6. \A j, k \in 1 .. Len(buf) : j <= k => buf[j].state <= buf[k].state
  <2>. TAKE j, k \in 1 .. Len(buf)
  <2>. HAVE j <= k
  <2>1. CASE k \in 1 .. Len(log)
    <3>1. j \in 1 .. Len(log) /\ k \in 1 .. Len(log)
      BY <1>2, <2>1
    <3>2. log[j].state <= log[k].state
      BY <1>1, <1>2, <3>1 DEF Ordered
    <3>. QED
      BY <1>4, <3>1, <3>2
  <2>2. CASE k \notin 1 .. Len(log)
    <3>1. buf[k].state = counter + 1 /\ buf[j].state \in 1 .. counter + 1
      BY <1>5, <2>2
    <3>. QED
      BY <1>1, <3>1
  <2>. QED
    BY <2>1, <2>2
<1>7. PICK d \in 0 .. Len(buf) :
        /\ log' \in Seq(Entry)
        /\ Len(log') = Len(buf) - d
        /\ Len(log') <= LogLimit
        /\ d < Len(buf)
        /\ \A k \in 1 .. Len(buf) - d : log'[k] = buf[k + d]
  <2>1. log' = Evict(buf)
    BY DEF buf
  <2>2. Len(buf) > 0
    BY <1>4
  <2>3. \E d \in 0 .. Len(buf) :
          /\ Evict(buf) \in Seq(Entry)
          /\ Len(Evict(buf)) = Len(buf) - d
          /\ Len(Evict(buf)) <= LogLimit
          /\ Len(buf) > 0 => d < Len(buf)
          /\ \A k \in 1 .. Len(buf) - d : Evict(buf)[k] = buf[k + d]
    BY <1>4, EvictKeepsSuffix
  <2>. QED
    BY <2>1, <2>2, <2>3
<1>8. DOMAIN log' = 1 .. Len(buf) - d /\ log' # <<>>
  <2>1. DOMAIN log' = 1 .. Len(buf) - d
    BY <1>7, LenProperties
  <2>2. Len(buf) \in Nat /\ Len(buf) - d # 0
    BY <1>2, <1>4, <1>7
  <2>3. Len(log') # 0
    BY <1>7, <2>2
  <2>. QED
    BY <2>1, <2>3
<1>9. Ordered'
  <2>. SUFFICES ASSUME NEW j \in 1 .. Len(buf) - d, NEW k \in 1 .. Len(buf) - d, j <= k
                PROVE  log'[j].state <= log'[k].state
    BY <1>8 DEF Ordered
  <2>1. j + d \in 1 .. Len(buf) /\ k + d \in 1 .. Len(buf) /\ j + d <= k + d
    BY <1>4
  <2>. QED
    BY <1>6, <1>7, <2>1
<1>10. Sourced'
  <2>1. \A k \in 1 .. Len(buf) :
          /\ buf[k].state <= counter + 1
          /\ \E m \in DOMAIN batch'[buf[k].state] : batch'[buf[k].state][m] = buf[k]
    <3>. TAKE k \in 1 .. Len(buf)
    <3>1. buf[k].state <= counter + 1
      BY <1>1, <1>5
    <3>2. CASE k \in 1 .. Len(log)
      <4>1. PICK m \in DOMAIN batch[log[k].state] : batch[log[k].state][m] = log[k]
        BY <1>1, <1>2, <3>2 DEF Sourced
      <4>2. buf[k] = log[k] /\ batch'[log[k].state] = batch[log[k].state]
        BY <1>2, <1>3, <1>4, <3>2
      <4>. QED
        BY <3>1, <4>1, <4>2
    <3>3. CASE k \notin 1 .. Len(log)
      <4>1. PICK m \in 1 .. Len(rows) : buf[k] = rows[m]
        BY <1>4, <3>3
      <4>2. batch'[buf[k].state] = rows
        BY <1>3, <1>5, <3>3
      <4>. QED
        BY <1>2, <3>1, <4>1, <4>2
    <3>. QED
      BY <3>2, <3>3
  <2>2. \A k \in 1 .. Len(buf) - d : k + d \in 1 .. Len(buf)
    BY <1>4
  <2>3. \A k \in DOMAIN log' : \E j \in 1 .. Len(buf) : log'[k] = buf[j]
    BY <1>7, <1>8, <2>2
  <2>4. ASSUME NEW k \in DOMAIN log'
        PROVE  /\ log'[k].state <= counter + 1
               /\ \E m \in DOMAIN batch'[log'[k].state] : batch'[log'[k].state][m] = log'[k]
    <3>1. PICK j \in 1 .. Len(buf) : log'[k] = buf[j]
      BY <2>3
    <3>. QED
      BY <2>1, <3>1, ZenonT(30)
  <2>. QED
    BY <2>4, Zenon DEF Sourced
<1>11. BatchTagged'
  BY <1>1, <1>3 DEF BatchTagged
<1>12. CompleteAbove'
  <2>. SUFFICES ASSUME NEW n \in log'[1].state + 1 .. counter + 1,
                       NEW k \in DOMAIN batch'[n]
                PROVE  \E j \in d + 1 .. Len(buf) : buf[j] = batch'[n][k]
    <3>1. \A j \in d + 1 .. Len(buf) : /\ j - d \in DOMAIN log'
                                       /\ log'[j - d] = buf[j]
      <4>. TAKE j \in d + 1 .. Len(buf)
      <4>1. j - d \in 1 .. Len(buf) - d /\ j - d + d = j
        BY <1>4
      <4>2. log'[j - d] = buf[j - d + d]
        BY <1>7, <4>1
      <4>. QED
        BY <1>8, <4>1, <4>2
    <3>2. \A e : (\E j \in d + 1 .. Len(buf) : buf[j] = e) => \E j \in DOMAIN log' : log'[j] = e
      BY <3>1
    <3>. QED
      BY <3>2, ZenonT(30) DEF CompleteAbove, InLog
  <2>1. d + 1 \in 1 .. Len(buf) /\ log'[1] = buf[d + 1]
    BY <1>2, <1>4, <1>7
  <2>2. buf[d + 1].state < n /\ n \in 1 .. counter + 1
    BY <1>1, <1>5, <2>1
  <2>3. \A j \in 1 .. Len(buf) : buf[j].state = n => j \in d + 1 .. Len(buf)
    BY <1>1, <1>2, <1>4, <1>5, <1>6, <2>1, <2>2, SMTT(30)
  <2>4. CASE n = counter + 1
    <3>1. k \in 1 .. Len(rows) /\ batch'[n][k] = buf[Len(log) + k]
      BY <1>2, <1>3, <1>4, <2>4
    <3>2. Len(log) + k \in 1 .. Len(buf) /\ buf[Len(log) + k].state = n
      BY <1>2, <1>4, <2>4, <3>1
    <3>. QED
      BY <2>3, <3>1, <3>2
  <2>5. CASE n # counter + 1
    <3>1. n \in 1 .. counter /\ batch'[n] = batch[n]
      BY <1>1, <1>3, <2>2, <2>5
    <3>2. batch[n][k].state = n
      BY <1>1, <3>1 DEF BatchTagged
    <3>3. log # <<>> /\ log[1].state < n
      <4>1. buf[d + 1].state # counter + 1
        BY <1>1, <2>2
      <4>2. d + 1 \in 1 .. Len(log)
        BY <1>5, <2>1, <4>1
      <4>3. log[1].state <= log[d + 1].state
        BY <1>1, <1>2, <4>2 DEF Ordered
      <4>4. log[d + 1].state < n /\ 1 \in DOMAIN log
        BY <1>2, <1>4, <2>2, <4>2
      <4>5. log[1].state \in Int /\ log[d + 1].state \in Int
        BY <1>2, <4>2, <4>4, SMTT(30)
      <4>. QED
        BY <1>2, <2>2, <4>3, <4>4, <4>5
    <3>4. PICK j \in DOMAIN log : log[j] = batch[n][k]
      <4>1. log[1].state \in Nat
        BY <1>1, <3>3, EntriesTyped
      <4>2. n \in log[1].state + 1 .. counter
        BY <1>1, <3>1, <3>3, <4>1
      <4>3. k \in DOMAIN batch[n]
        BY <3>1
      <4>. QED
        BY <1>1, <3>3, <4>2, <4>3 DEF CompleteAbove, InLog
    <3>5. j \in 1 .. Len(buf) /\ buf[j] = batch'[n][k]
      BY <1>2, <1>4, <3>1, <3>4
    <3>. QED
      BY <2>3, <3>2, <3>1, <3>5
  <2>. QED
    BY <2>4, <2>5
<1>. QED
  BY <1>3, <1>7, <1>9, <1>10, <1>11, <1>12

\* Appending a collection to the history of collections.
LEMMA SnapAppend ==
  ASSUME TypeOK, counter < MaxState, counter' = counter + 1,
         NEW next \in [Id -> (0 .. MaxState) \cup {Absent}], snap' = Append(snap, next)
  PROVE  /\ snap' \in Seq([Id -> (0 .. MaxState) \cup {Absent}])
         /\ Len(snap') = counter' + 1
         /\ counter' \in 0 .. MaxState
<1>1. /\ snap \in Seq([Id -> (0 .. MaxState) \cup {Absent}])
      /\ Len(snap) = counter + 1 /\ counter \in 0 .. MaxState
  BY DEF TypeOK
<1>2. counter' \in 0 .. MaxState
  BY <1>1, MaxStateAssumption
<1>. QED
  BY <1>1, <1>2, AppendProperties

\* What a client may hold.
LEMMA ObjectsType == TypeOK => objects \in [Id -> (0 .. MaxState) \cup {Absent}]
<1>. SUFFICES ASSUME TypeOK PROVE objects \in [Id -> (0 .. MaxState) \cup {Absent}]
  OBVIOUS
<1>1. /\ snap \in Seq([Id -> (0 .. MaxState) \cup {Absent}])
      /\ Len(snap) = counter + 1 /\ counter \in 0 .. MaxState
  BY DEF TypeOK
<1>2. counter + 1 \in 1 .. Len(snap)
  BY <1>1, MaxStateAssumption
<1>. QED
  BY <1>1, <1>2, ElementOfSeq DEF objects

LEMMA HeldType ==
  ASSUME TypeOK, NEW c \in Client, NEW copy \in [Id -> (0 .. MaxState) \cup {Absent}],
         held' = [held EXCEPT ![c] = [state |-> counter, copy |-> copy]]
  PROVE  held' \in [Client -> [state : 0 .. MaxState,
                               copy : [Id -> (0 .. MaxState) \cup {Absent}]]]
BY DEF TypeOK

LEMMA NextLogInv == LogInv /\ [Next]_vars => LogInv'
<1>. SUFFICES ASSUME LogInv, [Next]_vars PROVE LogInv'
  OBVIOUS
<1>0. /\ TypeOK /\ Ordered /\ Sourced /\ BatchTagged /\ CompleteAbove
      /\ counter \in 0 .. MaxState /\ counter \in Nat /\ used \subseteq Id
      /\ objects \in [Id -> (0 .. MaxState) \cup {Absent}]
  BY MaxStateAssumption, ObjectsType DEF LogInv, TypeOK
<1>1. ASSUME NEW created \in IdLists, NEW updated \in IdLists, NEW destroyed \in IdLists,
             RecordChanges(created, updated, destroyed)
      PROVE  LogInv'
  <2>. DEFINE rows == Rows(created, updated, destroyed, counter + 1)
              next == [i \in Id |->
                  CASE i \in Range(destroyed) -> Absent
                    [] i \in (Range(created) \cup Range(updated)) \ Range(destroyed) -> counter + 1
                    [] OTHER -> objects[i]]
  <2>1. /\ counter < MaxState /\ counter' = counter + 1 /\ counter + 1 \in 1 .. MaxState
        /\ Len(rows) \in 1 .. MaxBatch
        /\ IsListOf(created, Id \ used)
        /\ log' = Evict(log \o rows)
        /\ batch' = Append(batch, rows)
        /\ snap' = Append(snap, next)
        /\ used' = used \cup Range(created)
        /\ held' = held
    BY <1>0, <1>1, MaxStateAssumption DEF RecordChanges
  <2>2. /\ rows \in Seq(Entry)
        /\ \A k \in DOMAIN rows : rows[k].state = counter + 1
    BY <2>1, RowsType, ZenonT(30)
  <2>3. next \in [Id -> (0 .. MaxState) \cup {Absent}]
    <3>1. ASSUME NEW i \in Id PROVE next[i] \in (0 .. MaxState) \cup {Absent}
      <4>1. CASE i \in Range(destroyed)
        BY <4>1
      <4>2. CASE i \notin Range(destroyed) /\ i \in Range(created) \cup Range(updated)
        BY <2>1, <4>2, <1>0
      <4>3. CASE i \notin Range(destroyed) /\ i \notin Range(created) \cup Range(updated)
        BY <4>3, <1>0
      <4>. QED
        BY <4>1, <4>2, <4>3
    <3>. QED
      BY <3>1
  <2>4. used' \subseteq Id
    BY <1>0, <2>1 DEF IsListOf
  <2>. HIDE DEF rows, next
  <2>5. rows # <<>>
    BY <2>1, MaxBatchAssumption
  <2>6. /\ Ordered' /\ Sourced' /\ BatchTagged' /\ CompleteAbove'
        /\ batch' \in Seq(Seq(Entry)) /\ Len(batch') = counter'
        /\ log' \in Seq(Entry) /\ Len(log') <= LogLimit
    BY <2>1, <2>2, <2>5, RecordKeepsLog
  <2>7. /\ snap' \in Seq([Id -> (0 .. MaxState) \cup {Absent}])
        /\ Len(snap') = counter' + 1
        /\ counter' \in 0 .. MaxState
    BY <1>0, <2>1, <2>3, SnapAppend
  <2>8. TypeOK'
    BY <1>0, <2>1, <2>4, <2>6, <2>7 DEF TypeOK
  <2>. QED
    BY <2>6, <2>8 DEF LogInv
<1>2. CASE BumpState
  <2>0. PICK arrived \in SUBSET (Id \ used), touched \in SUBSET Alive :
          \E gone \in SUBSET touched :
            /\ counter < MaxState /\ counter' = counter + 1
            /\ batch' = Append(batch, <<>>)
            /\ snap' = Append(snap, [i \in Id |->
                     CASE i \in gone -> Absent
                       [] i \in (arrived \cup touched) \ gone -> counter + 1
                       [] OTHER -> objects[i]])
            /\ used' = used \cup arrived
            /\ log' = log /\ held' = held
    BY <1>2 DEF BumpState
  <2>1. PICK gone \in SUBSET touched :
          /\ counter < MaxState /\ counter' = counter + 1
          /\ batch' = Append(batch, <<>>)
          /\ snap' = Append(snap, [i \in Id |->
                   CASE i \in gone -> Absent
                     [] i \in (arrived \cup touched) \ gone -> counter + 1
                     [] OTHER -> objects[i]])
          /\ used' = used \cup arrived
          /\ log' = log /\ held' = held
    BY <2>0
  <2>. DEFINE next == [i \in Id |->
                   CASE i \in gone -> Absent
                     [] i \in (arrived \cup touched) \ gone -> counter + 1
                     [] OTHER -> objects[i]]
  <2>2. next \in [Id -> (0 .. MaxState) \cup {Absent}]
    <3>0. counter + 1 \in 0 .. MaxState
      BY <1>0, <2>1, MaxStateAssumption
    <3>1. ASSUME NEW i \in Id PROVE next[i] \in (0 .. MaxState) \cup {Absent}
      <4>1. CASE i \in gone
        BY <4>1
      <4>2. CASE i \notin gone /\ i \in arrived \cup touched
        BY <3>0, <4>2
      <4>3. CASE i \notin gone /\ i \notin arrived \cup touched
        BY <4>3, <1>0
      <4>. QED
        BY <4>1, <4>2, <4>3
    <3>. QED
      BY <3>1
  <2>3. snap' = Append(snap, next)
    BY <2>1
  <2>. HIDE DEF next
  <2>4. /\ Ordered' /\ Sourced' /\ BatchTagged' /\ CompleteAbove'
        /\ batch' \in Seq(Seq(Entry)) /\ Len(batch') = counter'
    BY <2>1, BumpKeepsLog
  <2>5. /\ snap' \in Seq([Id -> (0 .. MaxState) \cup {Absent}])
        /\ Len(snap') = counter' + 1
        /\ counter' \in 0 .. MaxState
    BY <1>0, <2>1, <2>2, <2>3, SnapAppend
  <2>6. TypeOK'
    BY <1>0, <2>1, <2>4, <2>5 DEF TypeOK
  <2>. QED
    BY <2>4, <2>6 DEF LogInv
<1>3. CASE Restart
  <2>1. /\ log' = <<>> /\ counter' = counter /\ batch' = batch /\ snap' = snap
        /\ used' = used /\ held' = held
    BY <1>3 DEF Restart
  <2>2. TypeOK'
    BY <1>0, <2>1, LogLimitAssumption DEF TypeOK
  <2>3. Ordered' /\ Sourced' /\ BatchTagged' /\ CompleteAbove'
    BY <1>0, <2>1 DEF Ordered, Sourced, BatchTagged, CompleteAbove
  <2>. QED
    BY <2>2, <2>3 DEF LogInv
<1>4. ASSUME NEW c \in Client, SyncByChanges(c) \/ Resync(c)
      PROVE  LogInv'
  <2>1. PICK copy \in [Id -> (0 .. MaxState) \cup {Absent}] :
          held' = [held EXCEPT ![c] = [state |-> counter, copy |-> copy]]
    <3>1. CASE Resync(c)
      BY <1>0, <3>1 DEF Resync
    <3>2. CASE SyncByChanges(c)
      <4>. DEFINE diff == Changes(held[c].state)
      <4>1. held' = [held EXCEPT ![c] =
                      [state |-> counter, copy |-> Replay(held[c].copy, diff)]]
        BY <3>2 DEF SyncByChanges
      <4>2. held[c].copy \in [Id -> (0 .. MaxState) \cup {Absent}]
        BY <1>0 DEF TypeOK
      <4>. HIDE DEF diff
      <4>3. Replay(held[c].copy, diff) \in [Id -> (0 .. MaxState) \cup {Absent}]
        BY <1>0, <4>2 DEF Replay
      <4>. QED
        BY <4>1, <4>3
    <3>. QED
      BY <1>4, <3>1, <3>2
  <2>2. UNCHANGED <<counter, log, batch, snap, used>>
    BY <1>4 DEF SyncByChanges, Resync
  <2>3. held' \in [Client -> [state : 0 .. MaxState,
                              copy : [Id -> (0 .. MaxState) \cup {Absent}]]]
    BY <1>0, <2>1, HeldType
  <2>4. TypeOK'
    BY <1>0, <2>2, <2>3 DEF TypeOK
  <2>5. Ordered' /\ Sourced' /\ BatchTagged' /\ CompleteAbove'
    BY <1>0, <2>2 DEF Ordered, Sourced, BatchTagged, CompleteAbove, InLog
  <2>. QED
    BY <2>4, <2>5 DEF LogInv
<1>5. CASE UNCHANGED vars
  <2>1. TypeOK'
    BY <1>0, <1>5 DEF TypeOK, vars
  <2>2. Ordered' /\ Sourced' /\ BatchTagged' /\ CompleteAbove'
    BY <1>0, <1>5 DEF Ordered, Sourced, BatchTagged, CompleteAbove, InLog, vars
  <2>. QED
    BY <2>1, <2>2 DEF LogInv
<1>. QED
  BY <1>1, <1>2, <1>3, <1>4, <1>5 DEF Next

-------------------------------------------------------------------------------
(* What the invariant gives the readers of the log *)

LEMMA CoversRange == LogInv => AnswerCoversRange
<1>. SUFFICES ASSUME LogInv, NEW since \in 0 .. counter, Answerable(since),
                     NEW n \in since + 1 .. counter
              PROVE  Whole(n) \/ (n = since + 1 /\ Cut(n))
  BY DEF AnswerCoversRange
<1>1. /\ counter \in Nat /\ log \in Seq(Entry) /\ Sourced /\ CompleteAbove
      /\ since \in Nat /\ n \in 1 .. counter
  BY MaxStateAssumption DEF LogInv, TypeOK
<1>2. /\ log # <<>> /\ log[1].state <= since + 1 /\ EveryStateLogged(since)
  BY <1>1 DEF Answerable
<1>3. PICK j \in DOMAIN log : log[j].state = n
  BY <1>2 DEF EveryStateLogged, Window
<1>4. PICK m \in DOMAIN batch[n] : batch[n][m] = log[j]
  BY <1>1, <1>3 DEF Sourced
<1>5. batch[n] # <<>>
  BY <1>4
<1>6. InLog(batch[n][m])
  BY <1>4 DEF InLog
<1>7. CASE n > since + 1
  <2>1. log[1].state \in Nat
    BY <1>1, <1>2, EntriesTyped
  <2>2. n \in log[1].state + 1 .. counter
    BY <1>1, <1>2, <1>7, <2>1
  <2>. QED
    BY <1>1, <1>2, <1>5, <2>2 DEF CompleteAbove, Whole
<1>8. CASE n = since + 1
  BY <1>6, <1>8 DEF Cut
<1>. QED
  BY <1>1, <1>7, <1>8

\* States that all have an entry in the log are no more than it has entries.
LEMMA LoggedStatesFit ==
  ASSUME log \in Seq(Entry), NEW since \in Nat, counter \in Nat, since <= counter,
         \A n \in since + 1 .. counter : \E k \in DOMAIN log : log[k].state = n
  PROVE  counter - since <= Len(log)
<1>1. Len(log) \in Nat /\ DOMAIN log = 1 .. Len(log)
  BY LenProperties
<1>. DEFINE S == since + 1 .. counter
            T == 1 .. Len(log)
            at == [n \in S |-> CHOOSE k \in T : log[k].state = n]
<1>2. \A n \in S : at[n] \in T /\ log[at[n]].state = n
  BY <1>1
<1>3. at \in Injection(S, T)
  <2>1. at \in [S -> T]
    BY <1>2
  <2>. HIDE DEF at
  <2>2. \A a, b \in S : at[a] = at[b] => a = b
    BY <1>2
  <2>. QED
    BY <2>1, <2>2 DEF Injection, IsInjective
<1>4. IsFiniteSet(T) /\ Cardinality(T) = Len(log)
  <2>1. Cardinality(T) = IF 1 > Len(log) THEN 0 ELSE Len(log) - 1 + 1
    BY <1>1, FS_Interval
  <2>2. IsFiniteSet(T)
    BY <1>1, FS_Interval
  <2>. QED
    BY <1>1, <2>1, <2>2
<1>5. IsFiniteSet(S) /\ Cardinality(S) = counter - since
  <2>1. since + 1 \in Int /\ counter \in Int
    OBVIOUS
  <2>2. IsFiniteSet(S)
    BY <2>1, FS_Interval
  <2>3. Cardinality(S) = IF since + 1 > counter THEN 0 ELSE counter - (since + 1) + 1
    BY <2>1, FS_Interval
  <2>. QED
    BY <2>2, <2>3
<1>6. Cardinality(S) <= Cardinality(T)
  <2>. HIDE DEF at, S, T
  <2>. QED
    BY <1>3, <1>4, FS_Injection
<1>. QED
  BY <1>4, <1>5, <1>6

LEMMA WholeAnswered == LogInv => WholeRangeAnswered
<1>. SUFFICES ASSUME LogInv, NEW since \in 0 .. counter,
                     \A n \in since + 1 .. counter : Whole(n)
              PROVE  Answerable(since)
  BY DEF WholeRangeAnswered
<1>1. /\ counter \in Nat /\ log \in Seq(Entry) /\ batch \in Seq(Seq(Entry))
      /\ Len(batch) = counter /\ Len(log) <= LogLimit
      /\ Ordered /\ BatchTagged /\ since \in Nat /\ since <= counter
  BY MaxStateAssumption DEF LogInv, TypeOK
<1>2. CASE since = counter
  BY <1>2 DEF Answerable
<1>3. CASE since < counter
  <2>1. \A n \in since + 1 .. counter : \E k \in DOMAIN log : log[k].state = n
    <3>. TAKE n \in since + 1 .. counter
    <3>1. batch[n] # <<>> /\ batch[n] \in Seq(Entry) /\ n \in 1 .. counter
      BY <1>1 DEF Whole
    <3>2. 1 \in DOMAIN batch[n] /\ batch[n][1].state = n
      BY <1>1, <3>1, EntriesTyped DEF BatchTagged
    <3>. QED
      BY <3>2 DEF Whole, InLog
  <2>2. PICK k \in DOMAIN log : log[k].state = since + 1
    <3>1. since + 1 \in since + 1 .. counter
      BY <1>1, <1>3
    <3>. QED
      BY <2>1, <3>1
  <2>3. log # <<>> /\ 1 \in DOMAIN log /\ 1 <= k
    BY <1>1, <2>2, EntriesTyped
  <2>4. log[1].state <= since + 1
    BY <1>1, <2>2, <2>3 DEF Ordered
  <2>5. counter - since <= LogLimit
    <3>1. counter - since <= Len(log)
      BY <1>1, <2>1, LoggedStatesFit
    <3>. QED
      BY <1>1, <3>1, LenProperties, LogLimitAssumption
  <2>6. EveryStateLogged(since)
    <3>. SUFFICES ASSUME NEW n \in since + 1 .. counter
                  PROVE  \E j \in DOMAIN log : InWindow(log[j], since) /\ log[j].state = n
      BY DEF EveryStateLogged, Window
    <3>1. PICK j \in DOMAIN log : log[j].state = n
      BY <2>1
    <3>. QED
      BY <1>1, <3>1, SMTT(30) DEF InWindow
  <2>. QED
    BY <1>3, <2>3, <2>4, <2>5, <2>6 DEF Answerable
<1>. QED
  BY <1>1, <1>2, <1>3

\* No batch holds more ids than one call may carry.
BatchBounded == \A n \in 1 .. counter : Len(batch[n]) <= MaxBatch

LEMMA NextBatchBounded == LogInv /\ BatchBounded /\ [Next]_vars => BatchBounded'
<1>. SUFFICES ASSUME LogInv, BatchBounded, [Next]_vars PROVE BatchBounded'
  OBVIOUS
<1>1. counter \in Nat /\ batch \in Seq(Seq(Entry)) /\ Len(batch) = counter
  BY MaxStateAssumption DEF LogInv, TypeOK
<1>2. ASSUME NEW rows \in Seq(Entry), Len(rows) <= MaxBatch, counter' = counter + 1,
             batch' = Append(batch, rows)
      PROVE  BatchBounded'
  <2>1. \A n \in 1 .. counter : batch'[n] = batch[n]
    BY <1>1, <1>2, AppendProperties
  <2>2. batch'[counter + 1] = rows
    BY <1>1, <1>2, AppendProperties
  <2>. QED
    BY <1>1, <1>2, <2>1, <2>2 DEF BatchBounded
<1>3. ASSUME NEW created \in IdLists, NEW updated \in IdLists, NEW destroyed \in IdLists,
             RecordChanges(created, updated, destroyed)
      PROVE  BatchBounded'
  <2>. DEFINE rows == Rows(created, updated, destroyed, counter + 1)
  <2>1. counter + 1 \in 1 .. MaxState
    BY <1>1, <1>3, MaxStateAssumption DEF RecordChanges
  <2>2. rows \in Seq(Entry)
    BY <2>1, RowsType
  <2>3. Len(rows) <= MaxBatch /\ counter' = counter + 1 /\ batch' = Append(batch, rows)
    BY <1>3, MaxBatchAssumption DEF RecordChanges
  <2>. QED
    BY <1>2, <2>2, <2>3
<1>4. CASE BumpState
  <2>1. counter' = counter + 1 /\ batch' = Append(batch, <<>>)
    BY <1>4 DEF BumpState
  <2>2. <<>> \in Seq(Entry) /\ Len(<<>>) <= MaxBatch
    BY MaxBatchAssumption
  <2>. QED
    BY <1>2, <2>1, <2>2
<1>5. CASE UNCHANGED <<counter, batch>>
  BY <1>5 DEF BatchBounded
<1>. QED
  BY <1>3, <1>4, <1>5 DEF Next, vars, Restart, SyncByChanges, Resync

LEMMA OneIdIsNeverCut ==
  ASSUME LogInv, BatchBounded, MaxBatch = 1
  PROVE  \A n \in 1 .. counter : ~Cut(n)
<1>. SUFFICES ASSUME NEW n \in 1 .. counter, NEW k \in DOMAIN batch[n],
                     InLog(batch[n][k])
              PROVE  Whole(n)
  BY DEF Cut
<1>1. batch[n] \in Seq(Entry) /\ Len(batch[n]) <= 1
  BY MaxStateAssumption DEF LogInv, TypeOK, BatchBounded
<1>2. DOMAIN batch[n] = 1 .. Len(batch[n]) /\ Len(batch[n]) \in Nat
  BY <1>1, EntriesTyped
<1>3. \A j \in DOMAIN batch[n] : j = k
  BY <1>1, <1>2
<1>. QED
  BY <1>3 DEF Whole

-------------------------------------------------------------------------------
(* What changesFromLog makes of the entries it is given: the loop over the  *)
(* entries at the places s comes to Net(s).                                 *)

\* The entries about i, and those that say it came or went.
About(i, s) == {k \in s : log[k].id = i}
Turns(i, s) == {k \in About(i, s) : log[k].action # "updated"}
LastTurn(i, s) == Max({0} \cup Turns(i, s))
Before(s, k) == {j \in s : j < k}

\* The last turn created i; or destroyed it, when it was not created just before; or
\* neither is so and i was updated after the last turn.
IsNew(i, s) == LastTurn(i, s) # 0 /\ log[LastTurn(i, s)].action = "created"
IsGone(i, s) ==
  /\ LastTurn(i, s) # 0 /\ log[LastTurn(i, s)].action = "destroyed"
  /\ ~ IsNew(i, Before(s, LastTurn(i, s)))
IsOther(i, s) ==
  /\ ~ IsNew(i, s) /\ ~ IsGone(i, s)
  /\ \E k \in About(i, s) : log[k].action = "updated" /\ k > LastTurn(i, s)

Net(s) == [created   |-> {i \in Id : IsNew(i, s)},
           updated   |-> {i \in Id : IsOther(i, s)},
           destroyed |-> {i \in Id : IsGone(i, s)}]

\* A set of numbers that is not empty has a least one.
LEMMA Least ==
  ASSUME NEW T \in SUBSET Nat, T # {}
  PROVE  \E x \in T : \A y \in T : x <= y
<1> DEFINE less == {ss \in Nat \X Nat : ss[1] < ss[2]}
<1>1. less = OpToRel(<, Nat)
  BY Zenon DEF OpToRel
<1>2. IsWellFoundedOn(less, Nat)
  BY <1>1, NatLessThanWellFounded, Zenon
<1>3. \E x \in T : \A y \in T : <<y, x>> \notin less
  <2> HIDE DEF less
  <2>. QED
    BY <1>2, WFMin
<1>4. PICK x \in T : \A y \in T : <<y, x>> \notin less
  BY <1>3, Zenon
<1>5. ASSUME NEW y \in T
      PROVE  x <= y
  <2>1. <<y, x>> \notin less /\ y \in Nat /\ x \in Nat
    BY <1>4
  <2>2. ~ (y < x)
    BY <2>1
  <2>. QED
    BY <2>1, <2>2
<1>. QED
  BY <1>5

\* The greatest of finitely many numbers, as FiniteSetsExt computes it.
LEMMA Greatest ==
  ASSUME NEW n \in Nat, NEW T \in SUBSET (0 .. n), T # {}
  PROVE  Max(T) \in T /\ \A y \in T : y <= Max(T)
<1> DEFINE U == {n - y : y \in T}
<1>0. U \in SUBSET Nat /\ U # {}
  <2>1. \A y \in T : n - y \in Nat
    OBVIOUS
  <2>. QED
    BY <2>1, Zenon
<1>1. \E x \in U : \A z \in U : x <= z
  <2> HIDE DEF U
  <2>. QED
    BY <1>0, Least
<1>2. PICK y \in T : \A z \in T : n - y <= n - z
  BY <1>1
<1>3. \A z \in T : y >= z
  BY <1>2
<1>. QED
  BY <1>3 DEF Max

\* The last turn is one, if there is any, and none is after it.
LEMMA LastTurnIs ==
  ASSUME log \in Seq(Entry), NEW s \in SUBSET DOMAIN log, NEW i
  PROVE  /\ LastTurn(i, s) \in 0 .. Len(log)
         /\ LastTurn(i, s) # 0 => LastTurn(i, s) \in Turns(i, s)
         /\ \A k \in Turns(i, s) : k <= LastTurn(i, s)
<1>1. Len(log) \in Nat /\ DOMAIN log = 1 .. Len(log)
  BY EntriesTyped
<1> DEFINE T == {0} \cup Turns(i, s)
<1>2. T \in SUBSET (0 .. Len(log)) /\ T # {}
  BY <1>1 DEF Turns, About
<1>3. Max(T) \in T /\ \A k \in T : k <= Max(T)
  <2> HIDE DEF T
  <2>. QED
    BY <1>1, <1>2, Greatest
<1>. QED
  BY <1>2, <1>3 DEF LastTurn

\* x is the last of the places s.
IsLast(x, s) == x \in s /\ \A k \in s : k <= x

\* An entry changes nothing about the ids it does not name.
LEMMA OthersStay ==
  ASSUME log \in Seq(Entry), NEW s \in SUBSET DOMAIN log, NEW x, IsLast(x, s),
         NEW i, log[x].id # i
  PROVE  /\ IsNew(i, s) <=> IsNew(i, s \ {x})
         /\ IsGone(i, s) <=> IsGone(i, s \ {x})
         /\ IsOther(i, s) <=> IsOther(i, s \ {x})
<1> DEFINE r == s \ {x}
           l == LastTurn(i, s)
<1>1. About(i, s) = About(i, r)
  BY DEF About
<1>2. Turns(i, s) = Turns(i, r) /\ l = LastTurn(i, r)
  BY <1>1 DEF Turns, LastTurn
<1>3. IsNew(i, s) <=> IsNew(i, r)
  BY <1>2 DEF IsNew
<1>4. l # 0 => Before(s, l) = Before(r, l)
  <2>1. l # 0 => l \in s /\ l \in Nat /\ x \in Nat /\ l <= x
    <3>1. /\ l # 0 => l \in Turns(i, s)
          /\ DOMAIN log = 1 .. Len(log)
      BY LastTurnIs, EntriesTyped
    <3>. QED
      BY <3>1 DEF Turns, About, IsLast
  <2> HIDE DEF l
  <2>2. l # 0 => ~ (x < l)
    BY <2>1
  <2>. QED
    BY <2>2 DEF Before
<1>5. IsGone(i, s) <=> IsGone(i, r)
  BY <1>2, <1>4 DEF IsGone
<1>6. IsOther(i, s) <=> IsOther(i, r)
  BY <1>1, <1>2, <1>3, <1>5 DEF IsOther
<1>. QED
  BY <1>3, <1>5, <1>6

\* A turn is the last one from then on.
LEMMA TurnIsLast ==
  ASSUME log \in Seq(Entry), NEW s \in SUBSET DOMAIN log, NEW x, IsLast(x, s),
         log[x].action # "updated"
  PROVE  LET i == log[x].id IN
         /\ LastTurn(i, s) = x /\ x # 0 /\ Before(s, x) = s \ {x}
         /\ ~ IsOther(i, s)
<1> DEFINE i == log[x].id
<1>1. /\ DOMAIN log = 1 .. Len(log) /\ Len(log) \in Nat /\ x \in DOMAIN log
      /\ x \in Turns(i, s)
  BY EntriesTyped DEF IsLast, Turns, About
<1>2. LastTurn(i, s) = x
  <2>1. /\ LastTurn(i, s) \in 0 .. Len(log) /\ x <= LastTurn(i, s)
        /\ LastTurn(i, s) # 0 => LastTurn(i, s) <= x
    <3>1. /\ LastTurn(i, s) \in 0 .. Len(log)
          /\ LastTurn(i, s) # 0 => LastTurn(i, s) \in Turns(i, s)
          /\ \A k \in Turns(i, s) : k <= LastTurn(i, s)
      BY LastTurnIs
    <3>. QED
      BY <1>1, <3>1 DEF IsLast, Turns, About
  <2>. QED
    BY <1>1, <2>1
<1>3. Before(s, x) = s \ {x}
  <2>1. \A k \in s : k < x <=> k # x
    BY <1>1 DEF IsLast
  <2>. QED
    BY <2>1 DEF Before
<1>4. ~ IsOther(i, s)
  <2>1. \A k \in s : ~ (k > x)
    BY <1>1 DEF IsLast
  <2>. QED
    BY <1>2, <2>1 DEF IsOther, About
<1>. QED
  BY <1>1, <1>2, <1>3, <1>4

\* An update is no turn.
LEMMA UpdateIsNoTurn ==
  ASSUME log \in Seq(Entry), NEW s \in SUBSET DOMAIN log, NEW x, IsLast(x, s),
         log[x].action = "updated"
  PROVE  LET i == log[x].id IN
         /\ IsNew(i, s) <=> IsNew(i, s \ {x})
         /\ IsGone(i, s) <=> IsGone(i, s \ {x})
         /\ IsOther(i, s) <=> ~ IsNew(i, s) /\ ~ IsGone(i, s)
<1> DEFINE i == log[x].id
           r == s \ {x}
           l == LastTurn(i, s)
<1>1. /\ DOMAIN log = 1 .. Len(log) /\ Len(log) \in Nat /\ x \in DOMAIN log
      /\ x \in About(i, s)
  BY EntriesTyped DEF IsLast, About
<1>2. Turns(i, s) = Turns(i, r) /\ l = LastTurn(i, r)
  BY DEF Turns, About, LastTurn
<1>3. l \in Nat /\ l < x /\ ~ (x < l)
  <2>1. /\ l \in 0 .. Len(log)
        /\ l # 0 => l \in s /\ log[l].action # "updated"
    <3>1. /\ l \in 0 .. Len(log)
          /\ l # 0 => l \in Turns(i, s)
      BY LastTurnIs
    <3>. QED
      BY <3>1 DEF Turns, About
  <2>2. l # 0 => l <= x /\ l # x
    BY <2>1 DEF IsLast
  <2> HIDE DEF l
  <2>. QED
    BY <1>1, <2>1, <2>2
<1>4. Before(s, l) = Before(r, l)
  <2> HIDE DEF l
  <2>. QED
    BY <1>3 DEF Before
<1>5. IsNew(i, s) <=> IsNew(i, r)
  BY <1>2 DEF IsNew
<1>6. IsGone(i, s) <=> IsGone(i, r)
  BY <1>2, <1>4 DEF IsGone
<1>7. IsOther(i, s) <=> ~ IsNew(i, s) /\ ~ IsGone(i, s)
  <2>1. x > l
    <3> HIDE DEF l
    <3>. QED
      BY <1>1, <1>3
  <2>. QED
    BY <1>1, <2>1 DEF IsOther
<1>. QED
  BY <1>5, <1>6, <1>7

\* One turn of the loop takes the closed form one entry further.
LEMMA NetGrows ==
  ASSUME log \in Seq(Entry), NEW s \in SUBSET DOMAIN log, NEW x, IsLast(x, s)
  PROVE  Net(s) = Fold(Net(s \ {x}), log[x])
<1> DEFINE e == log[x]
           r == s \ {x}
           was == Net(r)
           now == Net(s)
<1>1. e \in Entry
  BY EntriesTyped DEF IsLast
<1>2. e.action \in Action /\ e.id \in Id
  BY <1>1 DEF Entry
<1>3. \A i \in Id : i # e.id => /\ IsNew(i, s) <=> IsNew(i, r)
                                /\ IsGone(i, s) <=> IsGone(i, r)
                                /\ IsOther(i, s) <=> IsOther(i, r)
  BY OthersStay
<1>4. /\ was = [created |-> was.created, updated |-> was.updated, destroyed |-> was.destroyed]
      /\ now = [created |-> now.created, updated |-> now.updated, destroyed |-> now.destroyed]
      /\ was.created \subseteq Id /\ was.updated \subseteq Id /\ was.destroyed \subseteq Id
      /\ now.created \subseteq Id /\ now.updated \subseteq Id /\ now.destroyed \subseteq Id
      /\ \A i \in Id : /\ i \in was.created <=> IsNew(i, r)
                       /\ i \in was.updated <=> IsOther(i, r)
                       /\ i \in was.destroyed <=> IsGone(i, r)
                       /\ i \in now.created <=> IsNew(i, s)
                       /\ i \in now.updated <=> IsOther(i, s)
                       /\ i \in now.destroyed <=> IsGone(i, s)
  BY DEF Net
<1>5. \A i : ~ (IsNew(i, r) /\ IsGone(i, r)) /\ ~ (IsOther(i, r) /\ (IsNew(i, r) \/ IsGone(i, r)))
  BY DEF IsNew, IsGone, IsOther
<1> HIDE DEF e, r, was, now
<1>6. CASE e.action = "created"
  <2>1. IsNew(e.id, s) /\ ~ IsGone(e.id, s) /\ ~ IsOther(e.id, s)
    <3>1. LastTurn(e.id, s) = x /\ x # 0 /\ ~ IsOther(e.id, s)
      BY <1>6, TurnIsLast DEF e
    <3>. QED
      BY <1>6, <3>1 DEF IsNew, IsGone, e
  <2>2. /\ now.created = was.created \cup {e.id}
        /\ now.updated = was.updated \ {e.id}
        /\ now.destroyed = was.destroyed \ {e.id}
    BY <1>2, <1>3, <1>4, <2>1
  <2>3. Fold(was, e) = [created |-> was.created \cup {e.id}, updated |-> was.updated \ {e.id},
                        destroyed |-> was.destroyed \ {e.id}]
    BY <1>6 DEF Fold
  <2>. QED
    BY <1>4, <2>2, <2>3 DEF was, now, r, e
<1>7. CASE e.action = "updated"
  <2>1. /\ IsNew(e.id, s) <=> IsNew(e.id, r)
        /\ IsGone(e.id, s) <=> IsGone(e.id, r)
        /\ IsOther(e.id, s) <=> ~ IsNew(e.id, s) /\ ~ IsGone(e.id, s)
    BY <1>7, UpdateIsNoTurn DEF e, r
  <2>2. /\ now.created = was.created /\ now.destroyed = was.destroyed
    BY <1>2, <1>3, <1>4, <2>1
  <2>3. now.updated = IF e.id \in was.created \cup was.destroyed THEN was.updated
                      ELSE was.updated \cup {e.id}
    BY <1>2, <1>3, <1>4, <1>5, <2>1
  <2>4. Fold(was, e) = IF e.id \in was.created \cup was.destroyed THEN was
                       ELSE [was EXCEPT !.updated = @ \cup {e.id}]
    BY <1>7 DEF Fold
  <2>. QED
    BY <1>4, <2>2, <2>3, <2>4 DEF was, now, r, e
<1>8. CASE e.action = "destroyed"
  <2>1. /\ ~ IsNew(e.id, s) /\ ~ IsOther(e.id, s)
        /\ IsGone(e.id, s) <=> ~ IsNew(e.id, r)
    <3>1. /\ LastTurn(e.id, s) = x /\ x # 0 /\ ~ IsOther(e.id, s)
          /\ Before(s, x) = r
      BY <1>8, TurnIsLast DEF e, r
    <3>. QED
      BY <1>8, <3>1 DEF IsNew, IsGone, e
  <2>2. /\ now.created = was.created \ {e.id} /\ now.updated = was.updated \ {e.id}
    BY <1>2, <1>3, <1>4, <2>1
  <2>3. now.destroyed = IF e.id \in was.created THEN was.destroyed ELSE was.destroyed \cup {e.id}
    BY <1>2, <1>3, <1>4, <1>5, <2>1
  <2>4. Fold(was, e) =
          IF e.id \in was.created
          THEN [was EXCEPT !.created = @ \ {e.id}, !.updated = @ \ {e.id}]
          ELSE [was EXCEPT !.updated = @ \ {e.id}, !.destroyed = @ \cup {e.id}]
    BY <1>8 DEF Fold
  <2>5. e.id \notin was.created => was.created \ {e.id} = was.created
    OBVIOUS
  <2>. QED
    BY <1>4, <2>2, <2>3, <2>4, <2>5 DEF was, now, r, e
<1>. QED
  BY <1>2, <1>6, <1>7, <1>8 DEF Action

\* The fold of changesFromLog has the closed form, for any entries of a log of any length.
LEMMA FoldIsNet ==
  ASSUME log \in Seq(Entry), NEW S \in SUBSET DOMAIN log
  PROVE  MapThenFoldSet(LAMBDA e, diff : Fold(diff, e), NoChanges, LAMBDA k : log[k], Max, S)
           = Net(S)
<1> DEFINE n == Len(log)
           D == SUBSET S
           Solves(f) == f = [s \in D |-> IF s = {} THEN NoChanges
                                         ELSE Fold(f[s \ {Max(s)}], log[Max(s)])]
           F == [s \in D |-> Net(s)]
<1>0. n \in Nat /\ DOMAIN log = 1 .. n
  BY EntriesTyped
<1>1. \A s \in D : s # {} => /\ Max(s) \in s /\ \A y \in s : y <= Max(s)
                            /\ s \ {Max(s)} \in D /\ Max(s) \in 1 .. n
  <2>1. \A s \in D : s \in SUBSET (0 .. n)
    BY <1>0
  <2>2. \A s \in D : s # {} => Max(s) \in s /\ \A y \in s : y <= Max(s)
    BY <1>0, <2>1, Greatest
  <2>. QED
    BY <1>0, <2>2
<1>2. Solves(F)
  <2>1. ASSUME NEW s \in D
        PROVE  F[s] = IF s = {} THEN NoChanges ELSE Fold(F[s \ {Max(s)}], log[Max(s)])
    <3>1. CASE s = {}
      <4>1. \A i : Turns(i, {}) = {} /\ About(i, {}) = {}
        BY DEF Turns, About
      <4>2. \A i : LastTurn(i, {}) = 0
        BY <4>1, LastTurnIs
      <4>3. \A i : ~ IsNew(i, {}) /\ ~ IsGone(i, {}) /\ ~ IsOther(i, {})
        BY <4>1, <4>2 DEF IsNew, IsGone, IsOther
      <4>. QED
        BY <3>1, <4>3 DEF Net, NoChanges
    <3>2. CASE s # {}
      <4> DEFINE x == Max(s)
      <4>1. IsLast(x, s) /\ s \ {x} \in D /\ s \in SUBSET DOMAIN log
        BY <1>1, <3>2 DEF IsLast
      <4>2. Net(s) = Fold(Net(s \ {x}), log[x])
        <5> HIDE DEF x
        <5>. QED
          BY <4>1, NetGrows
      <4>. QED
        BY <3>2, <4>1, <4>2
    <3>. QED
      BY <3>1, <3>2
  <2>. QED
    BY <2>1
<1>3. PICK f : /\ Solves(f)
               /\ MapThenFoldSet(LAMBDA e, diff : Fold(diff, e), NoChanges, LAMBDA k : log[k], Max, S)
                     = f[S]
  <2>1. MapThenFoldSet(LAMBDA e, diff : Fold(diff, e), NoChanges, LAMBDA k : log[k], Max, S)
          = (CHOOSE f : Solves(f))[S]
    BY DEF MapThenFoldSet
  <2> HIDE DEF Solves, F
  <2>2. Solves(CHOOSE f : Solves(f))
    BY <1>2
  <2>. QED
    BY <2>1, <2>2
<1>4. \A s \in D : f[s] = F[s]
  <2> DEFINE rank(s) == IF s = {} THEN 0 ELSE Max(s)
             Bad == {s \in D : f[s] # F[s]}
             R == {rank(s) : s \in Bad}
  <2>1. ASSUME NEW s \in D
        PROVE  rank(s) \in 0 .. n
    <3>1. CASE s # {}
      BY <1>1, <3>1
    <3>. QED
      BY <1>0, <3>1
  <2>2. SUFFICES ASSUME Bad # {} PROVE FALSE
    OBVIOUS
  <2>3. R \in SUBSET Nat /\ R # {}
    <3>1. \A s \in Bad : rank(s) \in Nat
      BY <1>0, <2>1
    <3> HIDE DEF rank, Bad
    <3>. QED
      BY <2>2, <3>1
  <2>4. PICK k \in R : \A l \in R : k <= l
    <3> HIDE DEF R
    <3>. QED
      BY <2>3, Least
  <2>5. PICK s \in Bad : \A t \in Bad : rank(s) <= rank(t)
    <3> HIDE DEF rank, Bad
    <3>. QED
      BY <2>4
  <2>6. s # {}
    BY <1>2, <1>3, <2>5
  <2> DEFINE t == s \ {Max(s)}
  <2>7. t \in D /\ rank(t) < rank(s)
    <3>1. /\ Max(s) \in s /\ \A y \in s : y <= Max(s)
          /\ t \in D
      BY <1>1, <2>6
    <3>2. t # {} => Max(t) \in t
      BY <1>1, <3>1
    <3> DEFINE x == Max(s)
               z == Max(t)
    <3>3. x \in s /\ (\A y \in s : y <= x) /\ (t # {} => z \in s /\ z # x)
      BY <3>1, <3>2
    <3>4. rank(s) = x /\ rank(t) = IF t = {} THEN 0 ELSE z
      BY <2>6
    <3>5. x \in 1 .. n /\ (t # {} => z \in 1 .. n)
      BY <1>0, <1>1, <2>6, <3>1
    <3> HIDE DEF x, z, t
    <3>6. (IF t = {} THEN 0 ELSE z) < x
      BY <3>3, <3>5
    <3> HIDE DEF rank
    <3>. QED
      BY <3>1, <3>4, <3>6
  <2>8. f[t] = F[t]
    <3>1. rank(s) \in 0 .. n /\ rank(t) \in 0 .. n
      BY <2>1, <2>7
    <3>2. ~ (rank(s) <= rank(t))
      <4> HIDE DEF rank
      <4>. QED
        BY <1>0, <2>7, <3>1
    <3> HIDE DEF rank, F
    <3>. QED
      BY <2>5, <2>7, <3>2
  <2>9. f[s] = Fold(f[t], log[Max(s)]) /\ F[s] = Fold(F[t], log[Max(s)])
    BY <1>2, <1>3, <2>6
  <2>. QED
    BY <2>5, <2>8, <2>9
<1>. QED
  BY <1>3, <1>4

\* An answered range is given to the client as the closed form of its entries.
LEMMA ChangesAreNet ==
  ASSUME LogInv, NEW since \in 0 .. counter, Answerable(since)
  PROVE  Changes(since) = Net(Window(since))
<1>1. log \in Seq(Entry) /\ counter \in Nat /\ since \in Nat
  BY MaxStateAssumption DEF LogInv, TypeOK
<1>2. EntriesSince(since) = Window(since)
  <2>1. CASE since = counter
    <3>1. \A k \in DOMAIN log : ~ InWindow(log[k], since)
      BY <1>1, <2>1, EntriesTyped DEF InWindow
    <3>. QED
      BY <2>1, <3>1 DEF EntriesSince, Window
  <2>2. CASE since # counter
    BY <2>2 DEF EntriesSince
  <2>. QED
    BY <2>1, <2>2
<1>3. Window(since) \in SUBSET DOMAIN log
  BY DEF Window
<1>. QED
  BY <1>1, <1>2, <1>3, FoldIsNet DEF Changes

\* Who is named destroyed was destroyed; who is not named at all has no entry, or was
\* created and destroyed.
LEMMA NetTells ==
  ASSUME log \in Seq(Entry), NEW s \in SUBSET DOMAIN log, NEW i \in Id
  PROVE  /\ i \in Net(s).destroyed => \E k \in About(i, s) : log[k].action = "destroyed"
         /\ i \notin Net(s).created \cup Net(s).updated \cup Net(s).destroyed =>
              \/ About(i, s) = {}
              \/ /\ \E k \in About(i, s) : log[k].action = "created"
                 /\ \E k \in About(i, s) : log[k].action = "destroyed"
<1> DEFINE l == LastTurn(i, s)
<1>1. /\ l # 0 => l \in About(i, s) /\ log[l].action # "updated"
      /\ Before(s, l) \in SUBSET DOMAIN log
  BY LastTurnIs DEF Turns, Before
<1>2. \A k \in DOMAIN log : k > 0 /\ log[k].action \in Action
  <2>1. \A e \in Entry : e.action \in Action
    BY DEF Entry
  <2>. QED
    BY <2>1, EntriesTyped
<1>3. i \in Net(s).destroyed => l # 0 /\ log[l].action = "destroyed"
  BY DEF Net, IsGone
<1>4. ASSUME i \notin Net(s).created \cup Net(s).updated \cup Net(s).destroyed, About(i, s) # {}
      PROVE  /\ \E k \in About(i, s) : log[k].action = "created"
             /\ \E k \in About(i, s) : log[k].action = "destroyed"
  <2>1. ~ IsNew(i, s) /\ ~ IsGone(i, s) /\ ~ IsOther(i, s)
    BY <1>4 DEF Net
  <2>2. l # 0
    <3>1. SUFFICES ASSUME l = 0 PROVE FALSE
      OBVIOUS
    <3>2. \A k \in Turns(i, s) : FALSE
      <4>1. \A k \in Turns(i, s) : k <= 0
        BY <3>1, LastTurnIs
      <4>2. \A k \in Turns(i, s) : k \in Nat /\ k > 0
        BY <1>2, EntriesTyped DEF Turns, About
      <4>. QED
        BY <4>1, <4>2
    <3>3. PICK k \in About(i, s) : log[k].action = "updated"
      BY <1>4, <3>2 DEF Turns
    <3>4. k > 0
      BY <1>2 DEF About
    <3>. QED
      BY <2>1, <3>1, <3>3, <3>4 DEF IsOther
  <2>3. log[l].action = "destroyed"
    <3>1. log[l].action # "created"
      BY <2>1, <2>2 DEF IsNew
    <3>. QED
      BY <1>1, <1>2, <2>2, <3>1 DEF Action, About
  <2>4. IsNew(i, Before(s, l))
    BY <2>1, <2>2, <2>3 DEF IsGone
  <2>5. PICK k \in About(i, Before(s, l)) : log[k].action = "created"
    BY <1>1, <2>4, LastTurnIs DEF IsNew, Turns
  <2>6. k \in About(i, s)
    BY DEF About, Before
  <2>. QED
    BY <1>1, <2>2, <2>3, <2>5, <2>6
<1>. QED
  BY <1>1, <1>3, <1>4

-------------------------------------------------------------------------------
(* What the log says of the history of the collection *)

\* An entry that says created or destroyed is right: of all that was before, or is since.
NamedInv ==
  \A n \in 1 .. counter : \A k \in DOMAIN batch[n] :
    LET e == batch[n][k] IN
    /\ e.action = "created" => \A m \in 0 .. n - 1 : snap[m + 1][e.id] = Absent
    /\ e.action = "destroyed" => e.id \in used /\ \A m \in n .. counter : snap[m + 1][e.id] = Absent

\* What a call that recorded anything did not name it did not touch.
UnnamedInv ==
  \A n \in 1 .. counter : batch[n] # <<>> =>
    \A i \in Id : (\A k \in DOMAIN batch[n] : batch[n][k].id # i) => snap[n + 1][i] = snap[n][i]

\* Who has been there has used its id, and carries no state to come.
UsedInv ==
  /\ \A n \in 0 .. counter, i \in Id : snap[n + 1][i] # Absent => i \in used
  /\ objects \in [Id -> (0 .. counter) \cup {Absent}]

HistoryInv == LogInv /\ NamedInv /\ UnnamedInv /\ UsedInv

\* What the rows of a call say is what it was told, and all of it.
LEMMA RowsSay ==
  ASSUME NEW created \in IdLists, NEW updated \in IdLists, NEW destroyed \in IdLists,
         NEW state \in 1 .. MaxState
  PROVE  LET rows == Rows(created, updated, destroyed, state) IN
         /\ \A k \in DOMAIN rows :
              \/ rows[k].action = "created" /\ rows[k].id \in Range(created)
              \/ rows[k].action = "updated" /\ rows[k].id \in Range(updated)
              \/ rows[k].action = "destroyed" /\ rows[k].id \in Range(destroyed)
         /\ \A i \in Range(created) \cup Range(updated) \cup Range(destroyed) :
              \E k \in DOMAIN rows : rows[k].id = i
<1> DEFINE tc == Tagged(created, "created", state)
           tu == Tagged(updated, "updated", state)
           td == Tagged(destroyed, "destroyed", state)
           rows == Rows(created, updated, destroyed, state)
<1>1. /\ tc \in Seq(Entry) /\ tu \in Seq(Entry) /\ td \in Seq(Entry)
  BY TaggedType DEF Action
<1>2. /\ DOMAIN tc = DOMAIN created /\ DOMAIN tu = DOMAIN updated /\ DOMAIN td = DOMAIN destroyed
      /\ \A k \in DOMAIN tc : tc[k].action = "created" /\ tc[k].id = created[k]
      /\ \A k \in DOMAIN tu : tu[k].action = "updated" /\ tu[k].id = updated[k]
      /\ \A k \in DOMAIN td : td[k].action = "destroyed" /\ td[k].id = destroyed[k]
  BY DEF Tagged
<1>3. rows = (tc \o tu) \o td
  BY DEF Rows
<1>4. \A k \in DOMAIN rows : \/ \E j \in DOMAIN tc : rows[k] = tc[j]
                             \/ \E j \in DOMAIN tu : rows[k] = tu[j]
                             \/ \E j \in DOMAIN td : rows[k] = td[j]
  <2> HIDE DEF tc, tu, td, rows
  <2>1. \A k \in DOMAIN (tc \o tu) : \/ \E j \in DOMAIN tc : (tc \o tu)[k] = tc[j]
                                     \/ \E j \in DOMAIN tu : (tc \o tu)[k] = tu[j]
    <3>1. /\ DOMAIN (tc \o tu) = 1 .. Len(tc) + Len(tu)
          /\ DOMAIN tc = 1 .. Len(tc) /\ DOMAIN tu = 1 .. Len(tu)
      BY <1>1, ConcatSplit, EntriesTyped
    <3>2. /\ \A k \in 1 .. Len(tc) : (tc \o tu)[k] = tc[k]
          /\ \A k \in 1 .. Len(tc) + Len(tu) :
               k \in 1 .. Len(tc) \/ \E m \in 1 .. Len(tu) : k = Len(tc) + m /\ (tc \o tu)[k] = tu[m]
      BY <1>1, ConcatSplit
    <3>. QED
      BY <3>1, <3>2, Zenon
  <2>2. tc \o tu \in Seq(Entry)
    BY <1>1, ConcatSplit
  <2>3. \A k \in DOMAIN rows : \/ \E j \in DOMAIN (tc \o tu) : rows[k] = (tc \o tu)[j]
                               \/ \E j \in DOMAIN td : rows[k] = td[j]
    <3> DEFINE both == tc \o tu
    <3>1. both \in Seq(Entry) /\ rows = both \o td
      BY <1>3, <2>2
    <3> HIDE DEF both
    <3>2. /\ DOMAIN rows = 1 .. Len(both) + Len(td)
          /\ DOMAIN both = 1 .. Len(both) /\ DOMAIN td = 1 .. Len(td)
      BY <1>1, <3>1, ConcatSplit, EntriesTyped
    <3>3. /\ \A k \in 1 .. Len(both) : rows[k] = both[k]
          /\ \A k \in 1 .. Len(both) + Len(td) :
               k \in 1 .. Len(both) \/ \E m \in 1 .. Len(td) : k = Len(both) + m /\ rows[k] = td[m]
      BY <1>1, <3>1, ConcatSplit
    <3>4. \A k \in DOMAIN rows : \/ \E j \in DOMAIN both : rows[k] = both[j]
                                 \/ \E j \in DOMAIN td : rows[k] = td[j]
      BY <3>2, <3>3, Zenon
    <3>. QED
      BY <3>4 DEF both
  <2>. QED
    BY <2>1, <2>3
<1>5. /\ \A j \in DOMAIN tc : \E k \in DOMAIN rows : rows[k] = tc[j]
      /\ \A j \in DOMAIN tu : \E k \in DOMAIN rows : rows[k] = tu[j]
      /\ \A j \in DOMAIN td : \E k \in DOMAIN rows : rows[k] = td[j]
  <2> HIDE DEF tc, tu, td, rows
  <2> DEFINE both == tc \o tu
  <2>0. both \in Seq(Entry) /\ rows = both \o td /\ rows \in Seq(Entry)
    BY <1>1, <1>3, ConcatSplit
  <2>1. /\ \A j \in DOMAIN tc : j \in DOMAIN both /\ both[j] = tc[j]
        /\ \A j \in DOMAIN tu : Len(tc) + j \in DOMAIN both /\ both[Len(tc) + j] = tu[j]
    <3>1. /\ Len(both) = Len(tc) + Len(tu) /\ DOMAIN both = 1 .. Len(both)
          /\ DOMAIN tc = 1 .. Len(tc) /\ DOMAIN tu = 1 .. Len(tu)
          /\ Len(tc) \in Nat /\ Len(tu) \in Nat
          /\ \A k \in 1 .. Len(tc) : both[k] = tc[k]
          /\ \A k \in 1 .. Len(tu) : both[Len(tc) + k] = tu[k]
      BY <1>1, <2>0, ConcatSplit, EntriesTyped
    <3>. QED
      BY <3>1
  <2> HIDE DEF both
  <2>2. /\ \A j \in DOMAIN both : j \in DOMAIN rows /\ rows[j] = both[j]
        /\ \A j \in DOMAIN td : Len(both) + j \in DOMAIN rows /\ rows[Len(both) + j] = td[j]
    <3>1. /\ Len(rows) = Len(both) + Len(td) /\ DOMAIN rows = 1 .. Len(rows)
          /\ DOMAIN both = 1 .. Len(both) /\ DOMAIN td = 1 .. Len(td)
          /\ Len(both) \in Nat /\ Len(td) \in Nat
          /\ \A k \in 1 .. Len(both) : rows[k] = both[k]
          /\ \A k \in 1 .. Len(td) : rows[Len(both) + k] = td[k]
      BY <1>1, <2>0, ConcatSplit, EntriesTyped
    <3>. QED
      BY <3>1
  <2>. QED
    BY <2>1, <2>2
<1>6. /\ \A j \in DOMAIN created : created[j] \in Range(created)
      /\ \A j \in DOMAIN updated : updated[j] \in Range(updated)
      /\ \A j \in DOMAIN destroyed : destroyed[j] \in Range(destroyed)
      /\ \A i \in Range(created) : \E j \in DOMAIN created : created[j] = i
      /\ \A i \in Range(updated) : \E j \in DOMAIN updated : updated[j] = i
      /\ \A i \in Range(destroyed) : \E j \in DOMAIN destroyed : destroyed[j] = i
  BY DEF Range
<1> HIDE DEF tc, tu, td, rows
<1>7. \A k \in DOMAIN rows :
        \/ rows[k].action = "created" /\ rows[k].id \in Range(created)
        \/ rows[k].action = "updated" /\ rows[k].id \in Range(updated)
        \/ rows[k].action = "destroyed" /\ rows[k].id \in Range(destroyed)
  BY <1>2, <1>4, <1>6
<1>8. \A i \in Range(created) \cup Range(updated) \cup Range(destroyed) :
        \E k \in DOMAIN rows : rows[k].id = i
  BY <1>2, <1>5, <1>6
<1>. QED
  BY <1>7, <1>8 DEF rows

\* A place after the nth and not after the last one is a place before it.
LEMMA WithinTheHistory ==
  ASSUME NEW c \in Nat, NEW n \in 1 .. c, NEW m \in n .. c + 1, m # c + 1
  PROVE  m \in n .. c /\ m \in 0 .. c
OBVIOUS

\* A new state of the collection keeps what is known of the old ones, if its call did as
\* its rows say and brought nobody back.
LEMMA HistoryGrows ==
  ASSUME HistoryInv, LogInv', NEW next, NEW rows \in Seq(Entry),
         counter' = counter + 1, snap' = Append(snap, next), batch' = Append(batch, rows),
         used \subseteq used',
         next \in [Id -> (0 .. counter + 1) \cup {Absent}],
         \A i \in Id : next[i] # Absent => i \in used',
         \A i \in used : objects[i] = Absent => next[i] = Absent,
         \A k \in DOMAIN rows :
           /\ rows[k].action = "created" => rows[k].id \notin used
           /\ rows[k].action = "destroyed" => rows[k].id \in used /\ next[rows[k].id] = Absent,
         rows # <<>> =>
           \A i \in Id : (\A k \in DOMAIN rows : rows[k].id # i) => next[i] = objects[i]
  PROVE  HistoryInv'
<1>1. /\ counter \in Nat /\ counter' \in Nat /\ Len(snap) = counter + 1 /\ Len(batch) = counter
      /\ snap \in Seq([Id -> (0 .. MaxState) \cup {Absent}]) /\ batch \in Seq(Seq(Entry))
      /\ NamedInv /\ UnnamedInv /\ UsedInv /\ used \subseteq Id
  BY MaxStateAssumption DEF HistoryInv, LogInv, TypeOK
<1>2. /\ \A n \in 0 .. counter : snap'[n + 1] = snap[n + 1]
      /\ snap'[counter + 2] = next /\ objects' = next /\ objects = snap[counter + 1]
  <2>1. /\ \A j \in 1 .. Len(snap) : snap'[j] = snap[j]
        /\ snap'[Len(snap) + 1] = next
    BY <1>1, AppendProperties
  <2>. QED
    BY <1>1, <2>1 DEF objects
<1>3. /\ \A n \in 1 .. counter : batch'[n] = batch[n]
      /\ batch'[counter + 1] = rows
  BY <1>1, AppendProperties
<1>4. \A k \in DOMAIN rows : rows[k].id \in Id
  <2>1. \A e \in Entry : e.id \in Id
    BY DEF Entry
  <2>. QED
    BY <2>1, EntriesTyped
<1>5. NamedInv'
  <2>. SUFFICES ASSUME NEW n \in 1 .. counter + 1, NEW k \in DOMAIN batch'[n]
                PROVE  LET e == batch'[n][k] IN
                       /\ e.action = "created" => \A m \in 0 .. n - 1 : snap'[m + 1][e.id] = Absent
                       /\ e.action = "destroyed" =>
                            e.id \in used' /\ \A m \in n .. counter + 1 : snap'[m + 1][e.id] = Absent
    BY DEF NamedInv
  <2>1. CASE n = counter + 1
    <3> DEFINE e == rows[k]
    <3>1. batch'[n][k] = e /\ k \in DOMAIN rows /\ e.id \in Id
      BY <1>3, <1>4, <2>1
    <3>2. ASSUME e.action = "created", NEW m \in 0 .. n - 1
          PROVE  snap'[m + 1][e.id] = Absent
      <4>1. m \in 0 .. counter /\ e.id \notin used
        BY <1>1, <2>1, <3>1, <3>2, SMTT(30)
      <4>. QED
        BY <1>1, <1>2, <3>1, <4>1 DEF UsedInv
    <3>3. ASSUME e.action = "destroyed", NEW m \in n .. counter + 1
          PROVE  snap'[m + 1][e.id] = Absent
      <4>1. m + 1 = counter + 2
        BY <1>1, <2>1, SMTT(30)
      <4>2. next[e.id] = Absent
        BY <3>1, <3>3
      <4>. QED
        BY <1>2, <4>1, <4>2
    <3>. QED
      BY <3>1, <3>2, <3>3
  <2>2. CASE n # counter + 1
    <3> DEFINE e == batch[n][k]
    <3>1. n \in 1 .. counter /\ batch'[n][k] = e /\ k \in DOMAIN batch[n]
      BY <1>1, <1>3, <2>2, SMTT(30)
    <3>2. /\ e.action = "created" => \A m \in 0 .. n - 1 : snap[m + 1][e.id] = Absent
          /\ e.action = "destroyed" => e.id \in used /\ \A m \in n .. counter : snap[m + 1][e.id] = Absent
      BY <1>1, <3>1 DEF NamedInv
    <3>3. ASSUME e.action = "created", NEW m \in 0 .. n - 1
          PROVE  snap'[m + 1][e.id] = Absent
      <4>1. m \in 0 .. counter
        BY <1>1, <3>1, SMTT(30)
      <4>. QED
        BY <1>2, <3>2, <3>3, <4>1
    <3>4. ASSUME e.action = "destroyed", NEW m \in n .. counter + 1
          PROVE  snap'[m + 1][e.id] = Absent
      <4>1. CASE m = counter + 1
        <5>1. counter \in n .. counter
          BY <1>1, <3>1, SMTT(30)
        <5>2. snap[counter + 1][e.id] = Absent /\ e.id \in used
          BY <3>2, <3>4, <5>1
        <5>3. m + 1 = counter + 2
          BY <1>1, <4>1, SMTT(30)
        <5>4. objects[e.id] = Absent
          BY <1>2, <5>2, Zenon
        <5>5. next[e.id] = Absent
          BY <5>2, <5>4, Zenon
        <5>6. snap'[m + 1] = next
          BY <1>2, <5>3, Zenon
        <5>. QED
          BY <5>5, <5>6, Zenon
      <4>2. CASE m # counter + 1
        <5>1. m \in n .. counter /\ m \in 0 .. counter
          BY <1>1, <3>1, <4>2, WithinTheHistory, Zenon
        <5>. QED
          BY <1>2, <3>2, <3>4, <5>1
      <4>. QED
        BY <4>1, <4>2
    <3>. QED
      BY <3>1, <3>2, <3>3, <3>4
  <2>. QED
    BY <2>1, <2>2
<1>6. UnnamedInv'
  <2>. SUFFICES ASSUME NEW n \in 1 .. counter + 1, batch'[n] # <<>>, NEW i \in Id,
                       \A k \in DOMAIN batch'[n] : batch'[n][k].id # i
                PROVE  snap'[n + 1][i] = snap'[n][i]
    BY DEF UnnamedInv
  <2>1. CASE n = counter + 1
    <3>1. counter \in 0 .. counter /\ n + 1 = counter + 2 /\ n = counter + 1
      BY <1>1, <2>1, SMTT(30)
    <3>2. next[i] = objects[i]
      BY <1>3, <3>1
    <3>3. snap'[n + 1] = next /\ snap'[n] = objects
      BY <1>2, <3>1
    <3>. QED
      BY <3>2, <3>3
  <2>2. CASE n # counter + 1
    <3>1. n \in 1 .. counter /\ n \in 0 .. counter
        /\ n - 1 \in 0 .. counter /\ n - 1 + 1 = n
      BY <1>1, <2>2, SMTT(30)
    <3>2. snap[n + 1][i] = snap[n][i]
      <4>1. batch[n] # <<>> /\ \A k \in DOMAIN batch[n] : batch[n][k].id # i
        BY <1>3, <3>1
      <4>. QED
        BY <1>1, <3>1, <4>1, Zenon DEF UnnamedInv
    <3>3. snap'[n + 1] = snap[n + 1]
      BY <1>2, <3>1
    <3>4. snap'[n] = snap[n]
      <4>1. snap'[n - 1 + 1] = snap[n - 1 + 1]
        BY <1>2, <3>1
      <4>. QED
        BY <3>1, <4>1
    <3>. QED
      BY <3>2, <3>3, <3>4
  <2>. QED
    BY <2>1, <2>2
<1>7. UsedInv'
  <2>1. ASSUME NEW n \in 0 .. counter + 1, NEW i \in Id, snap'[n + 1][i] # Absent
        PROVE  i \in used'
    <3>1. CASE n = counter + 1
      <4>1. n + 1 = counter + 2
        BY <1>1, <3>1, SMTT(30)
      <4>. QED
        BY <1>2, <2>1, <4>1
    <3>2. CASE n # counter + 1
      <4>1. n \in 0 .. counter
        BY <1>1, <3>2, SMTT(30)
      <4>. QED
        BY <1>1, <1>2, <2>1, <4>1 DEF UsedInv
    <3>. QED
      BY <3>1, <3>2
  <2>. QED
    BY <1>2, <2>1 DEF UsedInv
<1>. QED
  BY <1>5, <1>6, <1>7 DEF HistoryInv

\* Every step keeps what is known of the history.
LEMMA NextHistory == HistoryInv /\ LogInv' /\ [Next]_vars => HistoryInv'
<1>. SUFFICES ASSUME HistoryInv, LogInv', [Next]_vars PROVE HistoryInv'
  OBVIOUS
<1>0. /\ LogInv /\ UsedInv /\ TypeOK /\ counter \in Nat /\ used \subseteq Id
      /\ objects \in [Id -> (0 .. counter) \cup {Absent}]
      /\ \A i \in Id : objects[i] # Absent => i \in used
  <2>1. counter \in Nat /\ counter \in 0 .. counter /\ UsedInv
    BY MaxStateAssumption DEF HistoryInv, LogInv, TypeOK
  <2>. QED
    BY <2>1 DEF HistoryInv, LogInv, TypeOK, UsedInv, objects
<1>1. ASSUME NEW created \in IdLists, NEW updated \in IdLists, NEW destroyed \in IdLists,
             RecordChanges(created, updated, destroyed)
      PROVE  HistoryInv'
  <2> DEFINE rows == Rows(created, updated, destroyed, counter + 1)
             next == [i \in Id |->
                  CASE i \in Range(destroyed) -> Absent
                    [] i \in (Range(created) \cup Range(updated)) \ Range(destroyed) -> counter + 1
                    [] OTHER -> objects[i]]
  <2>1. /\ counter + 1 \in 1 .. MaxState
        /\ counter' = counter + 1 /\ snap' = Append(snap, next) /\ batch' = Append(batch, rows)
        /\ used' = used \cup Range(created)
        /\ Range(created) \subseteq Id \ used
        /\ Range(updated) \subseteq Alive /\ Range(destroyed) \subseteq Alive
    BY <1>0, <1>1, MaxStateAssumption DEF RecordChanges, IsListOf
  <2>2. /\ rows \in Seq(Entry)
        /\ \A k \in DOMAIN rows :
             \/ rows[k].action = "created" /\ rows[k].id \in Range(created)
             \/ rows[k].action = "updated" /\ rows[k].id \in Range(updated)
             \/ rows[k].action = "destroyed" /\ rows[k].id \in Range(destroyed)
        /\ \A i \in Range(created) \cup Range(updated) \cup Range(destroyed) :
             \E k \in DOMAIN rows : rows[k].id = i
    <3>1. rows \in Seq(Entry)
      BY <2>1, RowsType, ZenonT(30)
    <3>2. /\ \A k \in DOMAIN rows :
               \/ rows[k].action = "created" /\ rows[k].id \in Range(created)
               \/ rows[k].action = "updated" /\ rows[k].id \in Range(updated)
               \/ rows[k].action = "destroyed" /\ rows[k].id \in Range(destroyed)
          /\ \A i \in Range(created) \cup Range(updated) \cup Range(destroyed) :
               \E k \in DOMAIN rows : rows[k].id = i
      BY <2>1, RowsSay
    <3>. QED
      BY <3>1, <3>2
  <2>3. Alive \subseteq used
    BY <1>0 DEF Alive
  <2>4. /\ \A i \in Id : i \in Range(destroyed) => next[i] = Absent
        /\ \A i \in Id : i \notin Range(destroyed) /\ i \in Range(created) \cup Range(updated)
             => next[i] = counter + 1
        /\ \A i \in Id : i \notin Range(created) \cup Range(updated) \cup Range(destroyed)
             => next[i] = objects[i]
        /\ DOMAIN next = Id /\ next = [i \in Id |-> next[i]]
    OBVIOUS
  <2> HIDE DEF rows, next
  <2>5. next \in [Id -> (0 .. counter + 1) \cup {Absent}]
    <3>1. \A i \in Id : next[i] \in (0 .. counter + 1) \cup {Absent}
      BY <1>0, <2>4
    <3>. QED
      BY <2>4, <3>1
  <2>6. /\ \A i \in Id : next[i] # Absent => i \in used'
        /\ \A i \in used : objects[i] = Absent => next[i] = Absent
    <3>1. \A i \in Alive : objects[i] # Absent
      BY DEF Alive
    <3>. QED
      BY <1>0, <2>1, <2>3, <2>4, <3>1
  <2>7. \A k \in DOMAIN rows :
          /\ rows[k].action = "created" => rows[k].id \notin used
          /\ rows[k].action = "destroyed" => rows[k].id \in used /\ next[rows[k].id] = Absent
    BY <1>0, <2>1, <2>2, <2>3, <2>4
  <2>8. \A i \in Id : (\A k \in DOMAIN rows : rows[k].id # i) => next[i] = objects[i]
    BY <2>2, <2>4
  <2>. QED
    BY <2>1, <2>2, <2>5, <2>6, <2>7, <2>8, HistoryGrows
<1>2. CASE BumpState
  <2>1. PICK arrived \in SUBSET (Id \ used), touched \in SUBSET Alive :
          \E gone \in SUBSET touched :
            /\ counter' = counter + 1 /\ batch' = Append(batch, <<>>)
            /\ snap' = Append(snap, [i \in Id |->
                     CASE i \in gone -> Absent
                       [] i \in (arrived \cup touched) \ gone -> counter + 1
                       [] OTHER -> objects[i]])
            /\ used' = used \cup arrived
    BY <1>2 DEF BumpState
  <2>2. PICK gone \in SUBSET touched :
          /\ counter' = counter + 1 /\ batch' = Append(batch, <<>>)
          /\ snap' = Append(snap, [i \in Id |->
                   CASE i \in gone -> Absent
                     [] i \in (arrived \cup touched) \ gone -> counter + 1
                     [] OTHER -> objects[i]])
          /\ used' = used \cup arrived
    BY <2>1
  <2> DEFINE next == [i \in Id |->
                   CASE i \in gone -> Absent
                     [] i \in (arrived \cup touched) \ gone -> counter + 1
                     [] OTHER -> objects[i]]
  <2>3. \A i \in Alive : i \in used /\ objects[i] # Absent
    BY <1>0 DEF Alive
  <2>4. /\ \A i \in Id : i \in gone => next[i] = Absent
        /\ \A i \in Id : i \notin gone /\ i \in arrived \cup touched => next[i] = counter + 1
        /\ \A i \in Id : i \notin gone /\ i \notin arrived \cup touched => next[i] = objects[i]
        /\ DOMAIN next = Id /\ next = [i \in Id |-> next[i]]
    OBVIOUS
  <2>5. snap' = Append(snap, next)
    BY <2>2
  <2> HIDE DEF next
  <2>6. next \in [Id -> (0 .. counter + 1) \cup {Absent}]
    <3>1. \A i \in Id : next[i] \in (0 .. counter + 1) \cup {Absent}
      BY <1>0, <2>4
    <3>. QED
      BY <2>4, <3>1
  <2>7. /\ \A i \in Id : next[i] # Absent => i \in used'
        /\ \A i \in used : objects[i] = Absent => next[i] = Absent
    BY <1>0, <2>2, <2>3, <2>4
  <2> DEFINE rows == <<>>
  <2>8. rows \in Seq(Entry) /\ (\A k \in DOMAIN rows : FALSE) /\ rows = <<>> /\ used \subseteq used'
    BY <2>2
  <2>9. counter' = counter + 1 /\ batch' = Append(batch, rows)
    BY <2>2
  <2> HIDE DEF rows
  <2>. QED
    BY <2>5, <2>6, <2>7, <2>8, <2>9, HistoryGrows
<1>3. CASE UNCHANGED <<counter, batch, snap, used>>
  BY <1>3 DEF HistoryInv, NamedInv, UnnamedInv, UsedInv, objects
<1>. QED
  BY <1>1, <1>2, <1>3 DEF Next, vars, Restart, SyncByChanges, Resync

\* It holds at the start.
LEMMA InitHistory == Init => HistoryInv
<1>. SUFFICES ASSUME Init PROVE HistoryInv
  OBVIOUS
<1>1. /\ counter = 0 /\ snap[1] = [i \in Id |-> Absent] /\ objects = [i \in Id |-> Absent]
  BY DEF Init, objects
<1>2. NamedInv /\ UnnamedInv
  BY <1>1 DEF NamedInv, UnnamedInv
<1>3. UsedInv
  <2>1. \A n \in 0 .. counter, i \in Id : snap[n + 1][i] = Absent
    BY <1>1
  <2>. QED
    BY <1>1, <2>1 DEF UsedInv
<1>. QED
  BY <1>2, <1>3, InitLogInv DEF HistoryInv

-------------------------------------------------------------------------------
(* Clients *)

\* An id no entry of the range names is as it was.
LEMMA UnnamedStays ==
  ASSUME HistoryInv, NEW since \in 0 .. counter, NEW i \in Id,
         \A n \in since + 1 .. counter : Whole(n), About(i, Window(since)) = {}
  PROVE  snap[since + 1][i] = objects[i]
<1>1. /\ counter \in Nat /\ since \in Nat /\ log \in Seq(Entry) /\ BatchTagged /\ UnnamedInv
  BY MaxStateAssumption DEF HistoryInv, LogInv, TypeOK
<1>2. ASSUME NEW n \in since + 1 .. counter
      PROVE  snap[n + 1][i] = snap[n][i]
  <2>1. n \in 1 .. counter /\ batch[n] # <<>>
    BY <1>1, <1>2 DEF Whole
  <2>2. ASSUME NEW k \in DOMAIN batch[n], batch[n][k].id = i
        PROVE  FALSE
    <3>1. PICK j \in DOMAIN log : log[j] = batch[n][k]
      BY <1>2, <2>2 DEF Whole, InLog
    <3>2. log[j].state = n /\ log[j].id = i
      BY <1>1, <2>1, <2>2, <3>1 DEF BatchTagged
    <3>3. j \in Window(since)
      BY <1>1, <3>2 DEF Window, InWindow
    <3>. QED
      BY <3>2, <3>3 DEF About
  <2>. QED
    BY <1>1, <2>1, <2>2 DEF UnnamedInv
<1> DEFINE Bad == {n \in since .. counter : snap[n + 1][i] # snap[since + 1][i]}
<1>3. Bad = {}
  <2>. SUFFICES ASSUME Bad # {} PROVE FALSE
    OBVIOUS
  <2>1. Bad \in SUBSET Nat
    BY <1>1
  <2>2. PICK n \in Bad : \A m \in Bad : n <= m
    <3> HIDE DEF Bad
    <3>. QED
      BY <2>1, Least
  <2>3. n \in since + 1 .. counter
    BY <1>1, <2>2
  <2>4. snap[n + 1][i] = snap[n][i]
    BY <1>2, <2>3
  <2>5. n - 1 \in Bad /\ n - 1 < n
    <3>1. n - 1 \in since .. counter /\ n - 1 + 1 = n /\ n - 1 < n
      BY <1>1, <2>3
    <3>. QED
      BY <2>2, <2>4, <3>1
  <2> HIDE DEF Bad
  <2>6. ~ (n <= n - 1)
    BY <1>1, <2>3
  <2>. QED
    BY <2>2, <2>5, <2>6
<1>4. counter \in since .. counter
  BY <1>1
<1>. QED
  BY <1>3, <1>4 DEF objects

\* A client that replays the diff of a range nothing of which is lost ends with the
\* collection of the new state.
LEMMA ReplayIsRight ==
  ASSUME HistoryInv, NEW since \in 0 .. counter, Answerable(since),
         \A n \in since + 1 .. counter : Whole(n)
  PROVE  Replay(snap[since + 1], Changes(since)) = objects
<1> DEFINE s == Window(since)
           diff == Net(s)
<1>1. /\ counter \in Nat /\ since \in Nat /\ log \in Seq(Entry)
      /\ LogInv /\ Sourced /\ NamedInv /\ UsedInv
  BY MaxStateAssumption DEF HistoryInv, LogInv, TypeOK
<1>2. Changes(since) = diff /\ s \in SUBSET DOMAIN log
  BY <1>1, ChangesAreNet DEF Window
<1>3. ASSUME NEW i, NEW k \in About(i, s)
      PROVE  \E n \in since + 1 .. counter : \E m \in DOMAIN batch[n] : batch[n][m] = log[k]
  <2>1. k \in DOMAIN log /\ log[k].state > since /\ log[k].state <= counter
    BY DEF About, Window, InWindow
  <2>2. log[k].state \in since + 1 .. counter
    <3>1. log[k].state \in Nat
      BY <1>1, <2>1, EntriesTyped
    <3>. QED
      BY <1>1, <2>1, <3>1
  <2>. QED
    BY <1>1, <2>1, <2>2 DEF Sourced
<1>4. ASSUME NEW i \in Id, NEW k \in About(i, s), log[k].action = "destroyed"
      PROVE  objects[i] = Absent
  <2>1. PICK n \in since + 1 .. counter : \E m \in DOMAIN batch[n] : batch[n][m] = log[k]
    BY <1>3
  <2>2. n \in 1 .. counter /\ counter \in n .. counter /\ log[k].id = i
    BY <1>1 DEF About
  <2>. QED
    BY <1>1, <1>4, <2>1, <2>2 DEF NamedInv, objects
<1>5. ASSUME NEW i \in Id, NEW k \in About(i, s), log[k].action = "created"
      PROVE  snap[since + 1][i] = Absent
  <2>1. PICK n \in since + 1 .. counter : \E m \in DOMAIN batch[n] : batch[n][m] = log[k]
    BY <1>3
  <2>2. n \in 1 .. counter /\ since \in 0 .. n - 1 /\ log[k].id = i
    BY <1>1 DEF About
  <2>. QED
    BY <1>1, <1>5, <2>1, <2>2 DEF NamedInv
<1> HIDE DEF s, diff
<1>6. ASSUME NEW i \in Id
      PROVE  Replay(snap[since + 1], diff)[i] = objects[i]
  <2>1. CASE i \in diff.destroyed
    <3>1. objects[i] = Absent
      BY <1>1, <1>2, <1>4, <2>1, NetTells DEF diff
    <3>. QED
      BY <2>1, <3>1 DEF Replay
  <2>2. CASE i \notin diff.destroyed /\ i \in diff.created \cup diff.updated
    BY <2>2 DEF Replay
  <2>3. CASE i \notin diff.created \cup diff.updated \cup diff.destroyed
    <3>1. Replay(snap[since + 1], diff)[i] = snap[since + 1][i]
      BY <2>3 DEF Replay
    <3>2. \/ About(i, s) = {}
          \/ /\ \E k \in About(i, s) : log[k].action = "created"
             /\ \E k \in About(i, s) : log[k].action = "destroyed"
      BY <1>1, <1>2, <2>3, NetTells DEF diff
    <3>3. CASE About(i, s) = {}
      BY <3>1, <3>3, UnnamedStays DEF s
    <3>4. CASE About(i, s) # {}
      BY <1>4, <1>5, <3>1, <3>2, <3>4
    <3>. QED
      BY <3>3, <3>4
  <2>. QED
    BY <2>1, <2>2, <2>3
<1>7. objects = [i \in Id |-> objects[i]]
  BY <1>1 DEF UsedInv
<1>8. Replay(snap[since + 1], diff) = [i \in Id |-> Replay(snap[since + 1], diff)[i]]
  BY DEF Replay
<1>. QED
  BY <1>2, <1>6, <1>7, <1>8

\* Every client holds the collection of the state it names.
CopiesInv == \A c \in Client :
  held[c].state \in 0 .. counter /\ held[c].copy = snap[held[c].state + 1]

\* A step of a client leaves it with the collection as it is.
LEMMA ClientsCatchUp ==
  ASSUME HistoryInv, CopiesInv, EvictedNeverAnswered, NEW c \in Client,
         SyncByChanges(c) \/ Resync(c)
  PROVE  /\ held' = [held EXCEPT ![c] = [state |-> counter, copy |-> objects]]
         /\ UNCHANGED <<counter, snap>>
<1>1. CASE SyncByChanges(c)
  <2>1. /\ held[c].state \in 0 .. counter /\ held[c].copy = snap[held[c].state + 1]
        /\ Answerable(held[c].state)
    BY <1>1 DEF CopiesInv, SyncByChanges
  <2>2. \A n \in held[c].state + 1 .. counter : Whole(n)
    BY <2>1 DEF EvictedNeverAnswered
  <2>3. Replay(held[c].copy, Changes(held[c].state)) = objects
    BY <2>1, <2>2, ReplayIsRight
  <2>. QED
    BY <1>1, <2>3 DEF SyncByChanges
<1>2. CASE Resync(c)
  BY <1>2 DEF Resync
<1>. QED
  BY <1>1, <1>2

\* A step that appends a collection leaves the copies what they were.
LEMMA NewStates ==
  ASSUME LogInv, LogInv', NEW next, counter' = counter + 1, snap' = Append(snap, next), held' = held
  PROVE  CopiesInv => CopiesInv'
<1>. SUFFICES ASSUME CopiesInv, NEW c \in Client
              PROVE  held[c].state \in 0 .. counter + 1 /\ held[c].copy = snap'[held[c].state + 1]
  BY DEF CopiesInv
<1>1. /\ counter \in Nat /\ Len(snap) = counter + 1
      /\ snap \in Seq([Id -> (0 .. MaxState) \cup {Absent}])
      /\ held[c].state \in 0 .. counter /\ held[c].copy = snap[held[c].state + 1]
  BY MaxStateAssumption DEF LogInv, TypeOK, CopiesInv
<1>2. \A j \in 1 .. Len(snap) : snap'[j] = snap[j]
  BY <1>1, AppendProperties
<1>. QED
  BY <1>1, <1>2

\* Clients stay right, as long as nothing lost is answered over.
LEMMA NextCopies ==
  HistoryInv /\ LogInv' /\ EvictedNeverAnswered /\ CopiesInv /\ [Next]_vars => CopiesInv'
<1>. SUFFICES ASSUME HistoryInv, LogInv', EvictedNeverAnswered, CopiesInv, [Next]_vars
              PROVE  CopiesInv'
  OBVIOUS
<1>0. LogInv /\ counter \in Nat
  BY MaxStateAssumption DEF HistoryInv, LogInv, TypeOK
<1>1. ASSUME NEW created \in IdLists, NEW updated \in IdLists, NEW destroyed \in IdLists,
             RecordChanges(created, updated, destroyed)
      PROVE  CopiesInv'
  BY <1>0, <1>1, NewStates DEF RecordChanges
<1>2. CASE BumpState
  BY <1>0, <1>2, NewStates DEF BumpState
<1>3. ASSUME NEW c \in Client, SyncByChanges(c) \/ Resync(c)
      PROVE  CopiesInv'
  <2>1. /\ held' = [held EXCEPT ![c] = [state |-> counter, copy |-> objects]]
        /\ UNCHANGED <<counter, snap>>
    BY <1>3, ClientsCatchUp
  <2>2. held = [d \in Client |-> held[d]]
    BY <1>0 DEF LogInv, TypeOK
  <2>3. \A d \in Client : held'[d] = IF d = c THEN [state |-> counter, copy |-> objects] ELSE held[d]
    BY <2>1, <2>2
  <2>. QED
    BY <1>0, <2>1, <2>3 DEF CopiesInv, objects
<1>4. CASE UNCHANGED <<counter, snap, held>>
  BY <1>4 DEF CopiesInv
<1>. QED
  BY <1>1, <1>2, <1>3, <1>4 DEF Next, vars, Restart

\* Clients begin with the empty collection.
LEMMA InitCopies == Init => CopiesInv
BY DEF Init, CopiesInv

\* The initial states are those of ObjectSync.
LEMMA AbstractInit == Init => Abstract!Init
BY DEF Init, Abstract!Init

\* Every step is one of ObjectSync, or one it does not see.
LEMMA AbstractStep ==
  HistoryInv /\ HistoryInv' /\ EvictedNeverAnswered /\ CopiesInv /\ [Next]_vars
    => [Abstract!Next]_(Abstract!vars)
<1>. SUFFICES ASSUME HistoryInv, HistoryInv', EvictedNeverAnswered, CopiesInv, [Next]_vars
              PROVE  Abstract!Next \/ UNCHANGED <<snap, held>>
  BY DEF Abstract!vars
<1>1. /\ counter \in Nat /\ Len(snap) = counter + 1 /\ Abstract!Current = counter
      /\ snap \in Seq([Id -> (0 .. MaxState) \cup {Absent}])
  BY MaxStateAssumption DEF HistoryInv, LogInv, TypeOK, Abstract!Current
<1>2. ASSUME NEW next, counter' = counter + 1, snap' = Append(snap, next), held' = held
      PROVE  Abstract!Next
  <2>1. snap'[Len(snap) + 1] = next
    BY <1>1, <1>2, AppendProperties
  <2>2. objects' = next
    <3>1. objects' = snap'[counter' + 1] /\ counter' + 1 = Len(snap) + 1
      BY <1>1, <1>2 DEF objects
    <3>. QED
      BY <2>1, <3>1
  <2>3. next \in [Id -> (0 .. counter + 1) \cup {Absent}]
    BY <1>2, <2>2 DEF HistoryInv, UsedInv
  <2>. QED
    BY <1>1, <1>2, <2>3 DEF Abstract!Next, Abstract!Change
<1>3. ASSUME NEW created \in IdLists, NEW updated \in IdLists, NEW destroyed \in IdLists,
             RecordChanges(created, updated, destroyed)
      PROVE  Abstract!Next
  BY <1>2, <1>3 DEF RecordChanges
<1>4. CASE BumpState
  BY <1>2, <1>4 DEF BumpState
<1>5. ASSUME NEW c \in Client, SyncByChanges(c) \/ Resync(c)
      PROVE  Abstract!Next
  <2>1. /\ held' = [held EXCEPT ![c] = [state |-> counter, copy |-> objects]]
        /\ snap' = snap
    BY <1>5, ClientsCatchUp
  <2>. QED
    BY <1>1, <2>1 DEF Abstract!Next, Abstract!CatchUp, objects
<1>6. CASE UNCHANGED <<snap, held>>
  BY <1>6
<1>. QED
  BY <1>3, <1>4, <1>5, <1>6 DEF Next, vars, Restart

-------------------------------------------------------------------------------
(* Theorems *)

\* The log is ordered by state, holds only what recordChanges was given and
\* misses nothing above its oldest state (store.ts 281-301).
THEOREM LogCorrect == Spec => []LogInv
<1>1. Init => LogInv
  BY InitLogInv
<1>2. LogInv /\ [Next]_vars => LogInv'
  BY NextLogInv
<1>. QED
  BY <1>1, <1>2, PTL DEF Spec

\* Counter, log, histories and client copies keep their types.
THEOREM TypeCorrect == Spec => []TypeOK
<1>1. LogInv => TypeOK
  BY DEF LogInv
<1>. QED
  BY <1>1, LogCorrect, PTL

\* A range entriesSince answers (store.ts 307-326) has every entry that was
\* recorded in it, but for the head of a cut oldest batch.
THEOREM AnswersCoverTheirRange == Spec => []AnswerCoversRange
<1>1. LogInv => AnswerCoversRange
  BY CoversRange
<1>. QED
  BY <1>1, LogCorrect, PTL

\* A range that still has every entry is answered, never refused.
THEOREM WholeRangesAreAnswered == Spec => []WholeRangeAnswered
<1>1. LogInv => WholeRangeAnswered
  BY WholeAnswered
<1>. QED
  BY <1>1, LogCorrect, PTL

\* With one id per recordChanges call no range that lost an entry is answered:
\* only batches of several ids break the promise of store.ts 266-271.
THEOREM OneIdBatchesAreSafe == MaxBatch = 1 /\ Spec => []EvictedNeverAnswered
<1>. SUFFICES ASSUME MaxBatch = 1 PROVE Spec => []EvictedNeverAnswered
  OBVIOUS
<1>1. Init => BatchBounded
  BY DEF Init, BatchBounded
<1>2. LogInv /\ BatchBounded /\ [Next]_vars => BatchBounded'
  BY NextBatchBounded
<1>3. LogInv /\ BatchBounded => EvictedNeverAnswered
  <2>. SUFFICES ASSUME LogInv, BatchBounded, NEW since \in 0 .. counter, Answerable(since),
                       NEW n \in since + 1 .. counter
                PROVE  Whole(n)
    BY DEF EvictedNeverAnswered
  <2>1. n \in 1 .. counter
    BY MaxStateAssumption DEF LogInv, TypeOK
  <2>2. ~Cut(n)
    BY <2>1, OneIdIsNeverCut
  <2>. QED
    BY <2>2, CoversRange DEF AnswerCoversRange
<1>. QED
  BY <1>1, <1>2, <1>3, LogCorrect, PTL DEF Spec

\* For batches of any size: as long as no range that lost an entry is answered, a client that
\* replays what changesFromLog answers (_shared.ts 75-94) holds, at every state it names,
\* exactly the collection of that state, through restarts, bare bumps and eviction.
THEOREM WholeAnswersAreExact == Spec /\ []EvictedNeverAnswered => ImplementsObjectSync
<1>1. Init => HistoryInv /\ CopiesInv /\ Abstract!Init
  BY InitHistory, InitCopies, AbstractInit
<1>2. HistoryInv /\ LogInv' /\ [Next]_vars => HistoryInv'
  BY NextHistory
<1>3. HistoryInv /\ LogInv' /\ EvictedNeverAnswered /\ CopiesInv /\ [Next]_vars => CopiesInv'
  BY NextCopies
<1>4. HistoryInv /\ HistoryInv' /\ EvictedNeverAnswered /\ CopiesInv /\ [Next]_vars
        => [Abstract!Next]_(Abstract!vars)
  BY AbstractStep
<1>. QED
  BY <1>1, <1>2, <1>3, <1>4, LogCorrect, PTL DEF Spec, ImplementsObjectSync, Abstract!Spec

\* With one id per recordChanges call that is always so: the change log implements ObjectSync.
THEOREM ChangeLogImplementsObjectSync == MaxBatch = 1 /\ Spec => ImplementsObjectSync
BY OneIdBatchesAreSafe, WholeAnswersAreExact, PTL
===============================================================================
