---------------------------- MODULE CalendarFile ----------------------------
(***************************************************************************)
(* One event of a calendar as it is kept and as it is shown: an iCalendar  *)
(* file of VEVENTs on the server, and the JSCalendar Event that JMAP calls *)
(* read and patch.  An update reads the file, patches the Event, writes it *)
(* out as a new file; other clients write files of their own in between.   *)
(*                                                                         *)
(* Times are the few slots a series can fall on.  A VEVENT without a rid   *)
(* is the master, one with a rid stands for a single occurrence.           *)
(***************************************************************************)
EXTENDS Naturals, FiniteSets, TLC

CONSTANTS
    Time,
    Uri,        \* people
    Extra,      \* what a VEVENT may have beyond what is read of it
    Foreign,    \* the files other clients write
    Patch,      \* the patches CalendarEvent/set is called with
    MaxSteps,   \* bound on updates and files of others, together
    Excluded, Absent,
    None

VARIABLES
    file,   \* the resource: a master or None, and VEVENTs with a rid
    edit,   \* the patch of the last step, None when another client wrote
    steps

vars == <<file, edit, steps>>

\* Of what MODELED_PROPS lists, these two have a value that is never read: PRIORITY, and
\* an ATTACH that holds its data.
Overlooked == Extra \cap {"priority", "inline attachment"}
MODELED_PROPS == Overlooked

NoPatch == [k \in {} |-> None]
Narrow(f, S) == [k \in S |-> f[k]]

-----------------------------------------------------------------------------
(* People: ORGANIZER and ATTENDEEs, and the participants of an Event.       *)

\* The roles an ATTENDEE's ROLE stands for, and the ROLE written for some roles.
RolesOf(role) ==
    CASE role = "chair" -> {"chair", "attendee"}
      [] role = "optional" -> {"optional", "attendee"}
      [] role = "informational" -> {"informational"}
      [] OTHER -> {"attendee"}

RoleFor(roles) ==
    IF "chair" \in roles THEN "chair"
    ELSE IF "informational" \in roles /\ "attendee" \notin roles THEN "informational"
    ELSE IF "optional" \in roles THEN "optional" ELSE "required"

\* The organizer owns the event, and has accepted unless an ATTENDEE says otherwise.
participantsOf(c) ==
    LET owns(u) == IF u = c.organizer THEN {"owner"} ELSE {}
    IN  [u \in ({c.organizer} \ {None}) \cup DOMAIN c.attendees |->
            IF u \in DOMAIN c.attendees
            THEN [roles |-> owns(u) \cup RolesOf(c.attendees[u].role),
                  status |-> c.attendees[u].status]
            ELSE [roles |-> {"owner"}, status |-> "accepted"]]

Owners(ev) == {u \in DOMAIN ev.participants : "owner" \in ev.participants[u].roles}

\* replyTo, as it was read; the owner of an event that has none yet.
organizerUri(ev) ==
    IF ev.replyTo # None THEN ev.replyTo
    ELSE IF Owners(ev) = {} THEN None ELSE CHOOSE u \in Owners(ev) : TRUE

isOrganizerOnly(ev, u) == ev.participants[u].roles = {"owner"} /\ u = organizerUri(ev)

attendeesFor(ev) ==
    [u \in {x \in DOMAIN ev.participants : ~ isOrganizerOnly(ev, x)} |->
        [role |-> RoleFor(ev.participants[u].roles), status |-> ev.participants[u].status]]

-----------------------------------------------------------------------------
(* iCalendar to JSCalendar.                                                *)

\* An RDATE is an override that changes nothing, and prevails over an EXDATE.
eventFromComponent(c) ==
    [start |-> c.start, title |-> c.title,
     locations |-> IF c.location = None THEN <<>> ELSE <<c.location>>,
     recurrenceRules |-> c.rule, recurrenceRule |-> Absent,
     recurrenceOverrides |->
        [t \in c.exdates \cup c.rdates |-> IF t \in c.rdates THEN NoPatch ELSE Excluded],
     participants |-> participantsOf(c), replyTo |-> c.organizer]

OVERRIDABLE == {"start", "title", "locations", "participants"}

diffOverride(master, full) ==
    Narrow(full, {k \in OVERRIDABLE : master[k] # full[k]})

StartLeftOut(master, o) ==
    LET patch == diffOverride(master, eventFromComponent(o))
    IN  Narrow(patch, DOMAIN patch \ {"start"})

\* An occurrence that starts when it should carries no start.
AsPatch(master, o) ==
    LET patch == diffOverride(master, eventFromComponent(o))
    IN  IF "start" \in DOMAIN patch /\ patch.start = o.rid
        THEN Narrow(patch, DOMAIN patch \ {"start"}) ELSE patch

parseICalendar(f) ==
    LET ev == eventFromComponent(f.master)
        Of(t) == CHOOSE o \in f.overrides : o.rid = t
    IN  [ev EXCEPT !.recurrenceOverrides =
            [t \in {o.rid : o \in f.overrides} |-> AsPatch(ev, Of(t))] @@ @]

\* The message about one occurrence of a series we have no more of.
parseOrphan(f) == eventFromComponent(CHOOSE o \in f.overrides : TRUE)

Shown(f) == IF f.master = None THEN parseOrphan(f) ELSE parseICalendar(f)

-----------------------------------------------------------------------------
(* JSCalendar to iCalendar.                                                *)

\* One rule or several: the singular is what a client wrote last.
normaliseInput(ev) ==
    IF ev.recurrenceRule = Absent THEN ev
    ELSE [ev EXCEPT !.recurrenceRules = ev.recurrenceRule, !.recurrenceRule = Absent]

NothingCarried(original) == {}

\* What the original has that is not ours.
CarriedOver(original) == IF original = None THEN {} ELSE original.extra \ MODELED_PROPS

componentFromEvent(ev, original) ==
    [rid |-> None, start |-> ev.start, title |-> ev.title,
     location |-> IF ev.locations = <<>> THEN None ELSE ev.locations[1],
     rule |-> ev.recurrenceRules, exdates |-> {}, rdates |-> {},
     organizer |-> organizerUri(ev), attendees |-> attendeesFor(ev),
     extra |-> CarriedOver(original)]

MergedOnMaster(ev, t) ==
    ev.recurrenceOverrides[t] @@ [ev EXCEPT !.recurrenceOverrides = NoPatch, !.recurrenceRules = {}]

\* The master's properties, the patch's, and a start at the recurrence id.
Merged(ev, t) ==
    ev.recurrenceOverrides[t] @@ [start |-> t]
    @@ [ev EXCEPT !.recurrenceOverrides = NoPatch, !.recurrenceRules = {}]

serializeEvent(input, original) ==
    LET ev == normaliseInput(input)
        ov == ev.recurrenceOverrides
        out == {t \in DOMAIN ov : ov[t] = Excluded}
        plain == {t \in DOMAIN ov \ out : DOMAIN ov[t] = {}}
    IN  [master |-> [componentFromEvent(ev, original) EXCEPT !.exdates = out, !.rdates = plain],
         overrides |-> {[componentFromEvent(Merged(ev, t), None) EXCEPT !.rid = t] :
                            t \in DOMAIN ov \ (out \cup plain)}]

-----------------------------------------------------------------------------
(* Patches.  A patch names a property of the Event, an override as a whole, *)
(* or a property of an override; the value None takes away what it names.   *)

\* applyPatch: null deletes, and what is deleted is not there to be seen.
Deleted(key) ==
    CASE key = "recurrenceRule" -> Absent
      [] key = "recurrenceRules" -> {}
      [] key = "locations" -> <<>>
      [] key = "participants" -> NoPatch
      [] OTHER -> None

\* A property taken out of an override is the series' again; an occurrence that is
\* excluded stays so whatever else is said of it.
PatchOverride(ov, p) ==
    LET old == IF p.at \in DOMAIN ov THEN ov[p.at] ELSE NoPatch
    IN  IF p.key = "all"
        THEN IF p.value = None THEN Narrow(ov, DOMAIN ov \ {p.at}) ELSE (p.at :> p.value) @@ ov
        ELSE IF old = Excluded THEN ov
        ELSE IF p.value # None THEN (p.at :> ((p.key :> p.value) @@ old)) @@ ov
        ELSE IF p.at \in DOMAIN ov THEN (p.at :> Narrow(old, DOMAIN old \ {p.key})) @@ ov ELSE ov

applyPatch(ev, p) ==
    IF p.at = None THEN [ev EXCEPT ![p.key] = IF p.value = None THEN Deleted(p.key) ELSE p.value]
    ELSE [ev EXCEPT !.recurrenceOverrides = PatchOverride(@, p)]

-----------------------------------------------------------------------------

Init == file \in Foreign /\ edit = None /\ steps = 0

\* CalendarEvent/set update: read, patched, and written with what was not ours.
Update(p) ==
    /\ steps < MaxSteps /\ steps' = steps + 1
    /\ file' = serializeEvent(applyPatch(Shown(file), p), file.master)
    /\ edit' = p

\* Another client of the server writes the event its own way.
OtherWrites ==
    /\ steps < MaxSteps /\ steps' = steps + 1
    /\ file' \in Foreign
    /\ edit' = None

Next == (\E p \in Patch : Update(p)) \/ OtherWrites

Spec == Init /\ [][Next]_vars

-----------------------------------------------------------------------------
(* What an Event and a file mean: the occurrences, by recurrence id.        *)

\* RFC 5545: the master at the dates of its rule, and a VEVENT in place of each
\* occurrence that has one of its own.
Meant(c, at) == [start |-> at, title |-> c.title, location |-> c.location,
                 people |-> participantsOf(c)]
DatesOf(start, rule) == {start} \cup {t \in rule : t > start}

Occurrences(f) ==
    LET own == {o.rid : o \in f.overrides}
        Of(t) == CHOOSE o \in f.overrides : o.rid = t
        dates == IF f.master = None THEN {}
                 ELSE (DatesOf(f.master.start, f.master.rule) \cup f.master.rdates) \ f.master.exdates
    IN  [t \in dates \cup own |->
            IF t \in own THEN Meant(Of(t), Of(t).start) ELSE Meant(f.master, t)]

\* RFC 8984: the Event at the dates of its rule, patched where there is a patch, and at
\* the dates only a patch names.
Happenings(ev) ==
    LET ov == ev.recurrenceOverrides
        gone == {t \in DOMAIN ov : ov[t] = Excluded}
        Of(t, k) == IF t \in DOMAIN ov /\ k \in DOMAIN ov[t] THEN ov[t][k]
                    ELSE IF k = "start" THEN t ELSE ev[k]
        First(seq) == IF seq = <<>> THEN None ELSE seq[1]
    IN  [t \in (DatesOf(ev.start, ev.recurrenceRules) \cup DOMAIN ov) \ gone |->
            [start |-> Of(t, "start"), title |-> Of(t, "title"),
             location |-> First(Of(t, "locations")), people |-> Of(t, "participants")]]

\* The Event a client asks for: a rule taken away is taken away, however it is spelled.
Asked(ev, p) ==
    IF p.key = "recurrenceRule" /\ p.value = None
    THEN [ev EXCEPT !.recurrenceRules = {}]
    ELSE normaliseInput(applyPatch(ev, p))

\* An occurrence moved to where the first one starts: the diff does not show it.
MovedOntoStart(f) ==
    f.master # None /\ \E o \in f.overrides : o.start = f.master.start /\ o.rid # o.start

-----------------------------------------------------------------------------
(* Properties.                                                             *)

Component ==
    [rid : Time \cup {None}, start : Time, title : {"a", "b", None}, location : {"here", "there", None},
     rule : SUBSET Time, exdates : SUBSET Time, rdates : SUBSET Time, organizer : Uri \cup {None},
     attendees : UNION {[S -> [role : {"chair", "optional", "informational", "required"},
                               status : {"needs-action", "accepted"}]] : S \in SUBSET Uri},
     extra : SUBSET Extra]

\* Every date is mentioned once: excluded, added, or with a VEVENT of its own.
TypeOK ==
    /\ steps \in 0..MaxSteps
    /\ file.overrides \subseteq Component /\ \A o \in file.overrides : o.rid # None
    /\ file.master # None =>
        /\ file.master \in Component
        /\ file.master.exdates \cap (file.master.rdates \cup {o.rid : o \in file.overrides}) = {}

\* parseICalendar: the Event shown has the occurrences the file has, each with its start,
\* title, place and people, whichever client wrote the file.
ReadIsFaithful ==
    file.master # None /\ ~ MovedOntoStart(file) => Happenings(parseICalendar(file)) = Occurrences(file)

\* A file is one VEVENT for each date, and its Event says what it says: what is read, and
\* what an update writes from it.
FileOK == TypeOK /\ ReadIsFaithful

\* Who organizes cannot be changed through the participants: replyTo stays as it was read.
KeepsOwner(ev) == ev.replyTo # None => Owners(ev) = {ev.replyTo}

\* A rule cannot be taken away by its singular name: what is deleted is not seen.
RuleIsSeen(p) == ~ (p.key = "recurrenceRule" /\ p.value = None)

Understood(ev, p) == RuleIsSeen(p) /\ KeepsOwner(applyPatch(ev, p))

\* CalendarEvent/set update: whatever the file was, the file written has the occurrences of
\* the Event that was shown, patched as asked, and no other change.
UpdateIsDone ==
    [][edit' # None /\ file.master # None
      /\ Understood(parseICalendar(file), edit') =>
          Occurrences(file') = Happenings(Asked(parseICalendar(file), edit'))]_vars

\* jscalendar.ts:85: what this proxy does not know of an event stays in the master through
\* every update, but for the properties it owns and never reads.
ForeignPropsSurvive ==
    [][edit' # None /\ file.master # None => file'.master.extra = file.master.extra \ Overlooked]_vars
=============================================================================
