------------------------------ MODULE CardFile ------------------------------
(***************************************************************************)
(* One contact as it is kept and as it is shown: the lines of a vCard on   *)
(* the server, and the JSContact that JMAP calls read and patch.  An       *)
(* update reads the lines, patches the contact and writes new lines, with  *)
(* those it does not understand behind them; other clients write cards of  *)
(* their own in between.                                                   *)
(*                                                                         *)
(* Of each way a property is treated there is one kind of line: EMAIL may  *)
(* be labelled, NICKNAME and NOTE may not, TITLE may belong to an ORG,     *)
(* CALURI has a flat field beside it, JSPROP is what vCard has no name     *)
(* for, and X-FOO is not understood.                                       *)
(***************************************************************************)
EXTENDS Naturals, FiniteSets, SequencesExt

CONSTANTS
    ForeignCards,   \* the cards other clients write
    CardPatch,      \* the patches ContactCard/set is called with
    MaxWrites,      \* bound on updates and cards of others, together
    None

VARIABLES
    card,     \* the resource: a sequence of lines
    change,   \* the patch of the last write, None when it was another client's
    writes

cardVars == <<card, change, writes>>

\* Lines with one group are about each other; a group is a number, as in "g1".
Line(name, group, id, value) == [name |-> name, group |-> group, id |-> id, value |-> value]

MANAGED_PROPS == {"FN", "NICKNAME", "EMAIL", "ORG", "TITLE", "NOTE", "CALURI", "JSPROP"}
Entries == MANAGED_PROPS \ {"FN"}

\* Where a label is looked for when a card is read, and where it is written.
placed == {"NICKNAME", "EMAIL", "ORG"}
labelled == {"EMAIL"}

-----------------------------------------------------------------------------
(* vCard to JSContact.                                                     *)

\* Nicknames and notes count together.
Prefix(name) ==
    CASE name = "EMAIL" -> "e" [] name = "ORG" -> "o" [] name = "TITLE" -> "t"
      [] name = "CALURI" -> "cal" [] OTHER -> "n"

\* PROP-ID, or the count of the lines that have none.
keyFor(lines, i) ==
    IF lines[i].id # None THEN lines[i].id
    ELSE <<Prefix(lines[i].name),
           Cardinality({j \in 1..i : /\ lines[j].name \in Entries /\ lines[j].id = None
                                     /\ Prefix(lines[j].name) = Prefix(lines[i].name)})>>

\* Two lines of one key: the later takes the place of the earlier.
SetEntry(entries, e) ==
    LET at == {j \in DOMAIN entries : entries[j].name = e.name /\ entries[j].key = e.key}
    IN  IF at = {} THEN Append(entries, e) ELSE [j \in DOMAIN entries |-> IF j \in at THEN e ELSE entries[j]]

\* The lines of the group of a line that have some name.
Beside(lines, i, name) ==
    {j \in DOMAIN lines : lines[i].group # None /\ lines[j].group = lines[i].group /\ lines[j].name = name}

LabelAt(lines, i) ==
    LET at == IF lines[i].name \in placed THEN Beside(lines, i, "X-ABLABEL") ELSE {}
    IN  IF at = {} THEN None ELSE lines[CHOOSE j \in at : \A k \in at : k <= j].value

\* A TITLE grouped with exactly one ORG belongs to it.
OrgAt(lines, i) ==
    LET at == Beside(lines, i, "ORG")
    IN  IF lines[i].name = "TITLE" /\ Cardinality(at) = 1 THEN keyFor(lines, CHOOSE j \in at : TRUE) ELSE None

toJsContact(lines) ==
    LET Entry(i) == [name |-> lines[i].name, key |-> keyFor(lines, i), value |-> lines[i].value,
                     label |-> LabelAt(lines, i), org |-> OrgAt(lines, i)]
        Named(name) == {i \in DOMAIN lines : lines[i].name = name}
        First(S) == IF S = {} THEN None ELSE lines[CHOOSE i \in S : \A j \in S : i <= j].value
    IN  [full |-> First(Named("FN")),
         entries |-> FoldLeft(LAMBDA es, i : IF lines[i].name \in Entries THEN SetEntry(es, Entry(i)) ELSE es,
                              <<>>, [i \in DOMAIN lines |-> i]),
         calendarUri |-> First(Named("CALURI"))]

-----------------------------------------------------------------------------
(* JSContact to vCard.                                                     *)

\* What is passed through: not ours, and not the label of a line that is.
unmanagedLines(lines) ==
    SelectSeq(lines, LAMBDA x :
        /\ x.name \notin MANAGED_PROPS
        /\ ~ (/\ x.name = "X-ABLABEL" /\ x.group # None
              /\ \E j \in DOMAIN lines : lines[j].group = x.group /\ lines[j].name \in MANAGED_PROPS))

Written(c, name) == SelectSeq(c.entries, LAMBDA e : e.name = name /\ e.value # None)

fullName(c) ==
    IF c.full \notin {None, ""} THEN c.full
    ELSE IF Written(c, "ORG") # <<>> THEN Written(c, "ORG")[1].value
    ELSE IF Written(c, "EMAIL") # <<>> THEN Written(c, "EMAIL")[1].value ELSE ""

\* Mutant of newGroup: the groups of what is passed through are not looked at.
newGroupBlind(taken, n) == n

\* The n-th group that no line passed through has.
newGroup(taken, n) ==
    CHOOSE g \in 1..(n + Cardinality(taken)) : g \notin taken /\ Cardinality((1..g) \ taken) = n

\* Who gets a group: entries with a label, organizations a title belongs to.
Grouped(c) ==
    LET Refs(es) == [j \in DOMAIN es |-> <<es[j].name, es[j].key>>]
        belongs(o) == \E j \in DOMAIN c.entries :
                          c.entries[j].name = "TITLE" /\ c.entries[j].org = o.key
    IN  Refs(SelectSeq(c.entries, LAMBDA e : e.name \in labelled /\ e.value # None /\ e.label # None))
        \o Refs(SelectSeq(c.entries, LAMBDA e : e.name = "ORG" /\ belongs(e)))

\* The flat field stands for every calendar; without it they are as they are.
CalendarLines(c) ==
    IF c.calendarUri = None
    THEN [j \in DOMAIN Written(c, "CALURI") |->
             Line("CALURI", None, Written(c, "CALURI")[j].key, Written(c, "CALURI")[j].value)]
    ELSE IF c.calendarUri = "" THEN <<>> ELSE <<Line("CALURI", None, None, c.calendarUri)>>

serializeVCard(c, original) ==
    LET preserved == unmanagedLines(original)
        taken == {preserved[j].group : j \in DOMAIN preserved} \ {None}
        group(ref) == IF ref \in ToSet(Grouped(c)) THEN newGroup(taken, SelectInSeq(Grouped(c), LAMBDA x : x = ref))
                      ELSE None
        GroupOf(e) == group(IF e.name = "TITLE" THEN <<"ORG", e.org>> ELSE <<e.name, e.key>>)
        Lines(e) ==
            (IF e.name \in labelled /\ e.label # None
             THEN <<Line("X-ABLABEL", GroupOf(e), None, e.label)>> ELSE <<>>)
            \o <<Line(e.name, GroupOf(e), e.key, e.value)>>
        All(name) == FlattenSeq([j \in DOMAIN Written(c, name) |-> Lines(Written(c, name)[j])])
    IN  <<Line("FN", None, None, fullName(c))>>
        \o All("NICKNAME") \o All("EMAIL") \o All("ORG") \o All("TITLE") \o All("NOTE")
        \o CalendarLines(c) \o All("JSPROP") \o preserved

-----------------------------------------------------------------------------
(* Patches: a flat property, an entry as a whole, or one field of an entry. *)

Blank(at) == [name |-> at[1], key |-> at[2], value |-> None, label |-> None, org |-> None]

applyPatch(c, p) ==
    LET at == {j \in DOMAIN c.entries : <<c.entries[j].name, c.entries[j].key>> = p.at}
        old == IF at = {} THEN Blank(p.at) ELSE c.entries[CHOOSE j \in at : TRUE]
    IN  IF p.at = None THEN [c EXCEPT ![p.field] = p.value]
        ELSE IF p.field = "all"
        THEN IF p.value = None THEN [c EXCEPT !.entries = SelectSeq(@, LAMBDA e : <<e.name, e.key>> # p.at)]
             ELSE [c EXCEPT !.entries = SetEntry(@, [Blank(p.at) EXCEPT !.value = p.value])]
        ELSE IF at = {} /\ p.value = None THEN c
        ELSE [c EXCEPT !.entries = SetEntry(@, [old EXCEPT ![p.field] = p.value])]

-----------------------------------------------------------------------------

CardInit == card \in ForeignCards /\ change = None /\ writes = 0

\* ContactCard/set update: read, patched, written over what was read.
UpdateCard(p) ==
    /\ writes < MaxWrites /\ writes' = writes + 1
    /\ card' = serializeVCard(applyPatch(toJsContact(card), p), card)
    /\ change' = p

\* Another client of the server writes the contact its own way.
OtherWritesCard ==
    /\ writes < MaxWrites /\ writes' = writes + 1
    /\ card' \in ForeignCards
    /\ change' = None

CardNext == (\E p \in CardPatch : UpdateCard(p)) \/ OtherWritesCard

-----------------------------------------------------------------------------
(* Properties.                                                             *)

\* What a contact can be written as: labels and organizations where there is a
\* line for them, one calendar where there is a flat field, always a name.
Writable(c) ==
    LET kept == {e \in ToSet(c.entries) : e.value # None}
        known(o) == \E e \in kept : e.name = "ORG" /\ e.key = o
        uri == IF c.calendarUri # None THEN c.calendarUri
               ELSE IF Written(c, "CALURI") # <<>> THEN Written(c, "CALURI")[1].value ELSE ""
        flat == {[Blank(<<"CALURI", <<"cal", 1>>>>) EXCEPT !.value = c.calendarUri]}
    IN  [full |-> fullName(c),
         entries |-> {[e EXCEPT !.label = IF e.name \in labelled THEN @ ELSE None,
                                !.org = IF known(@) THEN @ ELSE None] :
                          e \in {x \in kept : x.name = "CALURI" => c.calendarUri = None}}
                     \cup (IF c.calendarUri \in {None, ""} THEN {} ELSE flat),
         calendarUri |-> IF uri = "" THEN None ELSE uri]

\* ContactCard/set update: the contact read afterwards is the one that was read before,
\* patched as asked: keys, labels and the organization of a title, whatever groups the
\* lines passed through have.
CardUpdateIsDone ==
    [][change' # None =>
          LET now == toJsContact(card')
          IN  [now EXCEPT !.entries = ToSet(@)] = Writable(applyPatch(toJsContact(card), change'))]_cardVars

\* vcard.ts:776-778: what the proxy does not understand is still there after an update, under
\* the label it had, unless its group had a line the proxy manages; and it is in no group
\* with a line it was not with.
ForeignLinesSurvive ==
    [][change' # None =>
          \A i \in {j \in DOMAIN card : card[j].name = "X-FOO"} :
              LET tied(name) == Beside(card, i, name) # {}
                  Labels(lines, k) == {lines[j].value : j \in Beside(lines, k, "X-ABLABEL")}
              IN  \E k \in DOMAIN card' :
                      /\ card'[k] = card[i]
                      /\ \A name \in MANAGED_PROPS : Beside(card', k, name) = {}
                      /\ (\A name \in MANAGED_PROPS : ~ tied(name)) => Labels(card', k) = Labels(card, i)]_cardVars
=============================================================================
