----------------------------- MODULE MCDavFiles -----------------------------
(* Files and patches: series with occurrences moved, taken out, added and   *)
(* renamed, events with people in every role, and cards of other clients    *)
(* with labels, groups, ids and lines the proxy does not manage.            *)
EXTENDS DavFiles, Sequences

CONSTANTS me, you

At(start) == [rid |-> None, start |-> start, title |-> "a", location |-> "here",
              rule |-> {}, exdates |-> {}, rdates |-> {}, organizer |-> None,
              attendees |-> NoPatch, extra |-> Extra]
Series == [At(1) EXCEPT !.rule = {1, 2, 3}]
Alone(t) == [At(t) EXCEPT !.rid = t]

\* One occurrence as it may differ: in its start, its title, its place.
Own(t) == {[Alone(t) EXCEPT !.start = s, !.title = n, !.location = l] :
              s \in Time, n \in {"a", "b", None}, l \in {"here", None}}

Single(c) == [master |-> c, overrides |-> {}]
SeriesFiles ==
    {Single(Series), Single([Series EXCEPT !.exdates = {2}]), Single([At(1) EXCEPT !.rdates = {3}]),
     Single([Series EXCEPT !.title = None, !.rdates = {4}])}
    \cup {[master |-> m, overrides |-> {o}] : m \in {Series, At(2)}, o \in Own(2) \cup Own(3)}
    \cup {[master |-> [Series EXCEPT !.exdates = {1}], overrides |-> {o, p}] :
             o \in {x \in Own(2) : x.title = "b"}, p \in {x \in Own(3) : x.location = None}}
OrphanFiles == {[master |-> None, overrides |-> {o}] : o \in {x \in Own(2) : x.title = "b"}}

Guests(r, s) == you :> [role |-> r, status |-> s]
Held(o) == [At(1) EXCEPT !.organizer = o]
MeetingFiles ==
    {Single([Held(me) EXCEPT !.attendees = Guests(r, "needs-action")]) :
        r \in {"chair", "optional", "informational", "required"}}
    \cup {Single([Held(you) EXCEPT !.attendees = Guests("chair", "accepted") @@ (me :> [role |-> "required", status |-> "needs-action"])])}
    \cup {[master |-> [Series EXCEPT !.organizer = me, !.attendees = Guests("required", "accepted")],
           overrides |-> {[Alone(2) EXCEPT !.organizer = me, !.attendees = Guests("required", "needs-action")]}]}

Files == SeriesFiles \cup OrphanFiles \cup MeetingFiles

OfEvent == {[at |-> None, key |-> k, value |-> v] :
    <<k, v>> \in ({"title"} \X {"b", None}) \cup ({"start"} \X {2})
                 \cup ({"locations"} \X {<<"there">>, None})
                 \cup ({"recurrenceRule", "recurrenceRules"} \X {{2, 3}, None})}
OfOccurrence == {[at |-> t, key |-> k, value |-> v] : t \in {2, 3},
    <<k, v>> \in ({"title"} \X {"b", None}) \cup ({"start"} \X {1, 4}) \cup ({"locations"} \X {None})
                 \cup ({"all"} \X {Excluded, None, NoPatch, "title" :> "b"})}
Answer == [at |-> None, key |-> "participants",
           value |-> (me :> [roles |-> {"owner"}, status |-> "accepted"])
                     @@ (you :> [roles |-> {"optional", "attendee"}, status |-> "accepted"])]
Nobody == [Answer EXCEPT !.value = None]
Patches == OfEvent \cup OfOccurrence \cup {Answer, Nobody}

-----------------------------------------------------------------------------
L(name, value) == [name |-> name, group |-> None, id |-> None, value |-> value]
InGroup(g, line) == [line EXCEPT !.group = g]
Keyed(key, line) == [line EXCEPT !.id = key]
Foo(g) == InGroup(g, L("X-FOO", "foo"))
Label(g, text) == InGroup(g, L("X-ABLABEL", text))

Name == L("FN", "Ann")
Mail == L("EMAIL", "a@x")
Desks == <<InGroup(3, L("ORG", "Acme")), InGroup(3, L("TITLE", "Head"))>>

Cards == {
    <<Name, Mail, Keyed(<<"e", 2>>, L("EMAIL", "b@x")), L("NICKNAME", "An"), L("NOTE", "tall")>>,
    <<Name, Keyed(<<"e", 2>>, L("EMAIL", "b@x")), Mail, L("EMAIL", "c@x")>>,
    <<Name, InGroup(1, Mail), Label(1, "desk"), Foo(2), Label(2, "shelf")>>,
    <<Name, Foo(1), Label(1, "shelf"), InGroup(2, Mail), Label(2, "desk"), Foo(2)>>,
    <<L("NOTE", "tall"), Foo(1)>> \o Desks \o <<Foo(3)>>,
    <<Name>> \o Desks \o <<InGroup(3, L("ORG", "Old")), InGroup(1, L("TITLE", "Aide")), Label(1, "deputy")>>,
    <<Name, InGroup(1, L("NICKNAME", "An")), Label(1, "youth"), L("CALURI", "u1"), Keyed(<<"cal", 3>>, L("CALURI", "u2"))>>,
    <<L("EMAIL", "c@x"), Keyed(<<"pi", 1>>, L("JSPROP", "chess")), Foo(None)>> }

CardPatches ==
    {[at |-> <<"EMAIL", <<"e", n>>>>, field |-> f, value |-> v] :
        n \in {1, 2}, <<f, v>> \in ({"label"} \X {"home", None}) \cup ({"all", "value"} \X {"d@x", None})}
    \cup {[at |-> <<"TITLE", <<"t", 1>>>>, field |-> "org", value |-> o] : o \in {<<"o", 1>>, <<"o", 2>>, None}}
    \cup {[at |-> <<"ORG", <<"o", 1>>>>, field |-> "all", value |-> v] : v \in {"Acme & Co", None}}
    \cup {[at |-> <<k, <<"n", n>>>>, field |-> "all", value |-> v] :
             k \in {"NICKNAME", "NOTE"}, n \in {1, 2}, v \in {"new", None}}
    \cup {[at |-> <<"JSPROP", <<"pi", 1>>>>, field |-> "all", value |-> v] : v \in {"go", None}}
    \cup {[at |-> None, field |-> f, value |-> v] : f \in {"full", "calendarUri"}, v \in {"u3", "", None}}
    \cup {[at |-> <<"CALURI", <<"cal", 1>>>>, field |-> "value", value |-> "u4"]}
=============================================================================
