---------------------------- MODULE SieveScripts ----------------------------
(***************************************************************************)
(* SieveScript/set and VacationResponse/get,set over a ManageSieve server  *)
(* that runs one active script.  With the `include` extension the active   *)
(* script is a master whose lines include the others; the lines signed by  *)
(* the proxy are its registry.  Every command of a session is a step of    *)
(* its own, and may be refused or lost: the protocol is a read of the      *)
(* master followed by a write of its edited body, several times over.      *)
(***************************************************************************)
EXTENDS Naturals, FiniteSets, SequencesExt

CONSTANTS
    Sessions,    \* ManageSieve connections, one per JMAP call
    Names,       \* the names clients give their scripts
    MaxScripts,  \* MAX_SCRIPTS
    None

ASSUME SieveAssumption == MaxScripts \in Nat

Main == "main"               \* WRAPPER_NAME
Vacation == "vacation"       \* VACATION_NAME
Legacy == "bulwark-vacation" \* LEGACY_SCRIPT_NAME
Spare == "main-1"            \* where rescueForeignWrapper moves a foreign `main`

VARIABLES
    include,   \* whether the server announces the include extension
    scripts,   \* the scripts on the server: name -> body
    active,    \* the active script, or None
    sess,      \* the sessions
    cache      \* vacationCache under the current `vacation` counter, or None

vars == <<include, scripts, active, sess, cache>>

(* A body: whose text it is, whether the master's signature heads it, and  *)
(* its include lines, signed and live, signed and switched off, or         *)
(* somebody else's.                                                        *)
Line(tag, n) == [tag |-> tag, name |-> n]
Rule(text) == [text |-> text, ours |-> FALSE, lines |-> <<>>]

buildWrapper(carried) ==
    [text |-> Main, ours |-> TRUE,
     lines |-> <<Line("live", Vacation)>>
               \o (IF carried = None THEN <<>> ELSE <<Line("foreign", carried)>>)]

parseIncludes(body) == {l \in ToSet(body.lines) : l.tag # "off"}

isMasterBody(body) == body.ours \/ parseIncludes(body) # {}

ownedScriptsOf(body) ==
    {l.name : l \in {k \in ToSet(body.lines) : k.tag # "foreign"}} \ {Vacation}

userScriptOf(body) ==
    LET live == SelectSeq(body.lines, LAMBDA l : l.tag = "live" /\ l.name # Vacation)
    IN  IF live = <<>> THEN None ELSE Head(live).name

\* Mutant of retargetMaster: what ran before is not switched off.
retargetAlso(body, n) ==
    [body EXCEPT !.lines = Append(SelectSeq(@, LAMBDA l : l.name # n), Line("live", n))]

retargetMaster(body, n) ==
    LET turn(l) == IF l.tag = "foreign" THEN l
                   ELSE IF n # None /\ l.name = n THEN Line("live", n)
                   ELSE IF l = Line("live", Vacation) THEN l
                   ELSE Line("off", l.name)
        turned == [i \in DOMAIN body.lines |-> turn(body.lines[i])]
        missing(k) == Line("live", k) \notin ToSet(turned)
    IN  [body EXCEPT !.lines =
            turned \o (IF missing(Vacation) THEN <<Line("live", Vacation)>> ELSE <<>>)
                   \o (IF n # None /\ missing(n) THEN <<Line("live", n)>> ELSE <<>>)]

registerInMaster(body, n) ==
    IF n \in ownedScriptsOf(body) THEN body
    ELSE [body EXCEPT !.lines = Append(@, Line("off", n))]

unregisterFromMaster(body, n) ==
    [body EXCEPT !.lines = SelectSeq(@, LAMBDA l : l.tag = "foreign" \/ l.name # n)]

(* The active script of a listing, if its body, read now, is a master.     *)
activeMaster(raw) ==
    IF raw.active \in DOMAIN scripts /\ isMasterBody(scripts[raw.active])
    THEN raw.active ELSE None

scriptsState(raw) ==
    LET m == activeMaster(raw)
    IN  IF m # None
        THEN [active |-> userScriptOf(scripts[m]), owned |-> ownedScriptsOf(scripts[m])]
        ELSE IF include THEN [active |-> None, owned |-> {}]
        ELSE [active |-> IF raw.active = Vacation THEN None ELSE raw.active,
              owned |-> raw.names \ {Vacation}]

projectScripts(raw, st) ==
    {[name |-> n, isActive |-> n = st.active] : n \in raw.names \cap st.owned}

(* What readVacation finds: enabled when the script has the action and the *)
(* active script is it, or includes it.                                    *)
vacationIsWired ==
    \/ active = Vacation
    \/ /\ active \in DOMAIN scripts
       /\ \E l \in parseIncludes(scripts[active]) : l.name = Vacation

vacationRead ==
    Vacation \in DOMAIN scripts /\ scripts[Vacation].text = "on" /\ vacationIsWired

-----------------------------------------------------------------------------
(* The requests, and what each asks of the server, in order.               *)
Requests ==
    [op : {"create"}, name : Names \cup {Main}, to : {None}, activate : BOOLEAN]
    \cup [op : {"update", "destroy", "activate"}, name : Names, to : {None}, activate : {FALSE}]
    \cup [op : {"rename"}, name : Names, to : Names, activate : {FALSE}]
    \cup [op : {"deactivate", "vacationOn", "vacationOff", "vacationGet"},
          name : {None}, to : {None}, activate : {FALSE}]

Task(op, n, to) == [op |-> op, name |-> n, to |-> to]
Idle == [pc |-> "idle", req |-> None, todo |-> <<>>, raw |-> [names |-> {}, active |-> None],
         view |-> {}, master |-> None, carried |-> None, body |-> None,
         changed |-> FALSE, ok |-> FALSE]

refusedName(n) == n \in {Main, Vacation}

sieveScriptSetRefuses(r, raw, st) ==
    \/ /\ r.op = "create"
       /\ \/ refusedName(r.name)
          \/ r.name \in raw.names
          \/ Cardinality(st.owned) >= MaxScripts
    \/ r.op \in {"update", "rename", "destroy", "activate"} /\ r.name \notin st.owned
    \/ r.op = "rename" /\ r.to \in raw.names \cup {Main, Vacation}
    \/ r.op = "destroy" /\ st.active = r.name

\* Mutant of renameTasks: a renamed script is registered, active or not.
renameInactive(r, st) ==
    <<Task("rename", r.name, r.to), Task("unregister", r.name, None), Task("register", r.to, None)>>

renameTasks(r, st) ==
    <<Task("rename", r.name, r.to), Task("unregister", r.name, None),
      Task(IF st.active = r.name THEN "retarget" ELSE "register", r.to, None)>>

sieveScriptSetTasks(r, st) ==
    CASE r.op = "create" -> <<Task("put", r.name, None), Task("register", r.name, None)>>
                            \o (IF r.activate THEN <<Task("retarget", r.name, None)>> ELSE <<>>)
      [] r.op = "update" -> <<Task("put", r.name, None)>>
      [] r.op = "rename" -> renameTasks(r, st)
      [] r.op = "destroy" -> <<Task("delete", r.name, None), Task("unregister", r.name, None)>>
      [] r.op = "activate" -> IF st.active = r.name THEN <<>> ELSE <<Task("retarget", r.name, None)>>
      [] r.op = "deactivate" -> IF st.active = None THEN <<>> ELSE <<Task("retarget", None, None)>>

Vacations == {"vacationOn", "vacationOff", "vacationGet"}
Listing == [names |-> DOMAIN scripts, active |-> active]

(* The steps a task starts with: without `include` there is no registry,   *)
(* and making a script active is a plain SETACTIVE.                        *)
PcOf(todo) ==
    IF todo = <<>> THEN "answer"
    ELSE IF todo[1].op \in {"put", "rename", "delete"} THEN "command"
    ELSE IF include \/ todo[1].op \in {"wire", "read"} THEN "list"
    ELSE IF todo[1].op = "retarget" THEN "command"
    ELSE "skip"

(* What `changed` says once the first task of todo is done.                *)
Marks(q) == q.changed \/ Len(q.todo) = 1
            \/ (q.req.op = "create" /\ q.todo[1].op = "register")

Advance(s, q) == sess' = [sess EXCEPT ![s] =
    [q EXCEPT !.todo = Tail(@), !.pc = PcOf(Tail(q.todo)), !.changed = Marks(q), !.master = None]]

(* SieveScript/set lists the scripts, then reads the master they show.     *)
StartSet(s) ==
    /\ sess[s].pc = "idle"
    /\ \E r \in Requests :
          /\ r.op \notin Vacations
          /\ sess' = [sess EXCEPT ![s] = [Idle EXCEPT !.pc = "state", !.req = r, !.raw = Listing]]
    /\ UNCHANGED <<include, scripts, active, cache>>

ReadState(s) ==
    /\ sess[s].pc = "state"
    /\ LET q == sess[s]
           st == scriptsState(q.raw)
           todo == sieveScriptSetTasks(q.req, st)
       IN  sess' = [sess EXCEPT ![s] =
               IF sieveScriptSetRefuses(q.req, q.raw, st)
               THEN [Idle EXCEPT !.req = q.req]
               ELSE [q EXCEPT !.todo = todo, !.pc = PcOf(todo), !.view = projectScripts(q.raw, st)]]
    /\ UNCHANGED <<include, scripts, active, cache>>

(* A get the cache answers opens no session and changes nothing.           *)
StartVacation(s) ==
    /\ sess[s].pc = "idle"
    /\ \E r \in Requests :
          /\ r.op \in Vacations
          /\ r.op = "vacationGet" => cache = None
          /\ LET todo == IF r.op = "vacationGet" THEN <<Task("read", None, None)>>
                         ELSE <<Task("put", Vacation, None), Task("wire", None, None)>>
             IN  sess' = [sess EXCEPT ![s] =
                     [Idle EXCEPT !.req = r, !.todo = todo, !.pc = PcOf(todo)]]
    /\ UNCHANGED <<include, scripts, active, cache>>

(* PUTSCRIPT, RENAMESCRIPT, DELETESCRIPT and SETACTIVE as the server does  *)
(* them: a rename keeps a script active, the active one is not deleted.    *)
putScript(n, body) == scripts' = (n :> body) @@ scripts
renameScript(n, to) ==
    /\ n \in DOMAIN scripts /\ to \notin DOMAIN scripts
    /\ scripts' = [k \in (DOMAIN scripts \ {n}) \cup {to} |->
                       IF k = to THEN scripts[n] ELSE scripts[k]]
    /\ active' = IF active = n THEN to ELSE active

Command(s) ==
    /\ sess[s].pc = "command"
    /\ LET q == sess[s]
           t == q.todo[1]
           text == CASE q.req.op = "vacationOn" -> "on"
                     [] q.req.op = "vacationOff" -> "off"
                     [] OTHER -> "jmap"
       IN  /\ \/ t.op = "put" /\ putScript(t.name, Rule(text)) /\ UNCHANGED active
              \/ t.op = "rename" /\ renameScript(t.name, t.to)
              \/ /\ t.op = "delete" /\ t.name \in DOMAIN scripts /\ t.name # active
                 /\ scripts' = [k \in DOMAIN scripts \ {t.name} |-> scripts[k]]
                 /\ UNCHANGED active
              \/ /\ t.op = "retarget" /\ t.name \in DOMAIN scripts \cup {None}
                 /\ active' = t.name /\ UNCHANGED scripts
           /\ Advance(s, q)
    /\ UNCHANGED <<include, cache>>

NoRegistry(s) ==
    /\ sess[s].pc = "skip"
    /\ Advance(s, sess[s])
    /\ UNCHANGED <<include, scripts, active, cache>>

List(s) ==
    /\ sess[s].pc = "list"
    /\ LET old == /\ sess[s].todo[1].op = "read"
                  /\ Vacation \notin DOMAIN scripts /\ Legacy \in DOMAIN scripts
       IN  sess' = [sess EXCEPT ![s].raw = Listing, ![s].pc = IF old THEN "migrate" ELSE "get"]
    /\ UNCHANGED <<include, scripts, active, cache>>

MigrateLegacy(s) ==
    /\ sess[s].pc = "migrate"
    /\ renameScript(Legacy, Vacation)
    /\ sess' = [sess EXCEPT ![s].pc = "list"]
    /\ UNCHANGED <<include, cache>>

ReadVacation(s) ==
    /\ sess[s].pc = "get" /\ sess[s].todo[1].op = "read"
    /\ cache' = vacationRead
    /\ Advance(s, sess[s])
    /\ UNCHANGED <<include, scripts, active>>

(* ensureVacationWired without `include`: the single slot, or nothing.     *)
TakeSlot(s) ==
    /\ sess[s].pc = "get" /\ sess[s].todo[1].op = "wire" /\ ~include
    /\ active' = IF sess[s].req.op = "vacationOn" THEN Vacation
                 ELSE IF sess[s].raw.active = Vacation THEN None
                 ELSE active
    /\ Advance(s, sess[s])
    /\ UNCHANGED <<include, scripts, cache>>

(* The edit a task makes to the master's body.                             *)
Edit(t, body) ==
    CASE t.op = "register" -> registerInMaster(body, t.name)
      [] t.op = "unregister" -> unregisterFromMaster(body, t.name)
      [] t.op = "retarget" -> retargetMaster(body, t.name)
      [] t.op = "wire" -> IF \E l \in parseIncludes(body) : l.name = Vacation THEN body
                          ELSE retargetMaster(body, userScriptOf(body))

(* The master was read: write its edited body back, unless that is what it *)
(* already says.                                                           *)
Reads(s, q, m, body) ==
    IF Edit(q.todo[1], body) = body /\ q.todo[1].op # "retarget"
    THEN Advance(s, q)
    ELSE sess' = [sess EXCEPT ![s] = [q EXCEPT !.pc = "write", !.master = m, !.body = body]]

GetMaster(s) ==
    /\ sess[s].pc = "get" /\ include /\ sess[s].todo[1].op # "read"
    /\ LET q == sess[s]
           m == activeMaster(q.raw)
       IN  IF m # None THEN Reads(s, q, m, scripts[m])
           ELSE IF q.todo[1].op = "unregister" THEN Advance(s, q)
           ELSE sess' = [sess EXCEPT ![s].pc = "rescue"]
    /\ UNCHANGED <<include, scripts, active, cache>>

\* Mutant of Rescue: a script named like our master is taken for it.
RescueNothing(s) ==
    /\ sess[s].pc = "rescue"
    /\ sess' = [sess EXCEPT ![s].pc = "putMain", ![s].carried = sess[s].raw.active]
    /\ UNCHANGED <<include, scripts, active, cache>>

(* ensureMaster without one: a foreign `main` is read, moved aside, our    *)
(* own is written with the script that was active, and becomes active.     *)
Rescue(s) ==
    /\ sess[s].pc = "rescue"
    /\ LET q == sess[s]
           foreign == Main \in q.raw.names \cap DOMAIN scripts /\ ~scripts[Main].ours
       IN  sess' = [sess EXCEPT ![s] = [q EXCEPT
               !.pc = IF foreign THEN "move" ELSE "putMain",
               !.carried = IF q.raw.active = Vacation THEN None
                           ELSE IF foreign /\ q.raw.active = Main THEN Spare
                           ELSE q.raw.active]]
    /\ UNCHANGED <<include, scripts, active, cache>>

MoveAside(s) ==
    /\ sess[s].pc = "move"
    /\ renameScript(Main, Spare)
    /\ sess' = [sess EXCEPT ![s].pc = "putMain"]
    /\ UNCHANGED <<include, cache>>

PutMain(s) ==
    /\ sess[s].pc = "putMain"
    /\ putScript(Main, buildWrapper(sess[s].carried))
    /\ sess' = [sess EXCEPT ![s].pc = "activateMain"]
    /\ UNCHANGED <<include, active, cache>>

ActivateMain(s) ==
    /\ sess[s].pc = "activateMain"
    /\ active' = Main
    /\ Reads(s, sess[s], Main, buildWrapper(sess[s].carried))
    /\ UNCHANGED <<include, scripts, cache>>

WriteMaster(s) ==
    /\ sess[s].pc = "write"
    /\ LET q == sess[s]
       IN  /\ q.todo[1].name # q.master
           /\ putScript(q.master, Edit(q.todo[1], q.body))
           /\ Advance(s, q)
    /\ UNCHANGED <<include, active, cache>>

(* Every command is done: a changed `sieve` counter, the vacation written  *)
(* through to its cache under the counter just bumped.                     *)
Answer(s) ==
    /\ sess[s].pc = "answer"
    /\ cache' = CASE sess[s].req.op = "vacationOn" -> TRUE
                  [] sess[s].req.op = "vacationOff" -> FALSE
                  [] OTHER -> cache
    /\ sess' = [sess EXCEPT ![s].pc = "idle", ![s].ok = TRUE]
    /\ UNCHANGED <<include, scripts, active>>

(* A command is refused, or the connection is lost: the operation reports  *)
(* an error, what it still had to do is dropped and no counter is bumped.  *)
Fail(s) ==
    /\ sess[s].pc \notin {"idle", "skip", "answer"}
    /\ sess' = [sess EXCEPT ![s] = [Idle EXCEPT !.req = sess[s].req]]
    /\ UNCHANGED <<include, scripts, active, cache>>

(* VACATION_CACHE_TTL_MS runs out.                                         *)
CacheExpires ==
    /\ cache # None
    /\ cache' = None
    /\ UNCHANGED <<include, scripts, active, sess>>

-----------------------------------------------------------------------------
(* Accounts the proxy meets: nothing there, a script of another webmail    *)
(* active, one named like our master, another client's master, our own     *)
(* master, an autoresponder from before its rename.                        *)
Starts ==
    { <<<<>>, None>>,
      <<"filters" :> Rule("filters"), "filters">>,
      <<Main :> Rule("filters"), Main>>,
      <<("rc" :> [text |-> "rc", ours |-> FALSE, lines |-> <<Line("foreign", "filters")>>])
        @@ ("filters" :> Rule("filters")), "rc">>,
      <<(Main :> buildWrapper("filters")) @@ ("filters" :> Rule("filters")), Main>>,
      <<Legacy :> Rule("on"), Legacy>> }

Init ==
    /\ include \in BOOLEAN
    /\ \E st \in Starts : scripts = st[1] /\ active = st[2]
    /\ (\E n \in DOMAIN scripts : isMasterBody(scripts[n])) => include
    /\ sess = [s \in Sessions |-> Idle]
    /\ cache = None

Next ==
    \/ \E s \in Sessions :
          \/ StartSet(s) \/ ReadState(s) \/ StartVacation(s) \/ Command(s) \/ NoRegistry(s)
          \/ List(s) \/ MigrateLegacy(s) \/ ReadVacation(s) \/ TakeSlot(s) \/ GetMaster(s)
          \/ Rescue(s) \/ MoveAside(s) \/ PutMain(s) \/ ActivateMain(s) \/ WriteMaster(s)
          \/ Answer(s) \/ Fail(s)
    \/ CacheExpires

Spec == Init /\ [][Next]_vars

-----------------------------------------------------------------------------
(* Type invariant.  Bodies are records whose lines carry one of three tags. *)
TypeOK ==
    /\ include \in BOOLEAN
    /\ \A n \in DOMAIN scripts :
          /\ scripts[n].ours \in BOOLEAN
          /\ \A l \in ToSet(scripts[n].lines) : l.tag \in {"live", "off", "foreign"}
    /\ active \in DOMAIN scripts \cup {None}
    /\ \A s \in Sessions : sess[s].req \in Requests \cup {None}
    /\ cache \in BOOLEAN \cup {None}

(* The texts the server runs: the active script and what it includes.      *)
RunningTexts ==
    LET names == IF active = None THEN {}
                 ELSE {active} \cup {l.name : l \in parseIncludes(scripts[active])}
    IN  {scripts[n].text : n \in names \cap DOMAIN scripts}

(* No step of the proxy, nor a command that fails between two others,      *)
(* stops the script of another client or overwrites it: not the creation   *)
(* of the master, not the move of a script named like it, not an           *)
(* activation.                                                             *)
Texts == {scripts[n].text : n \in DOMAIN scripts}
\* The text of another client's script stays, and goes on running where it ran.
ForeignIsKept ==
    [][/\ "filters" \in Texts => "filters" \in Texts'
       /\ include /\ "filters" \in RunningTexts => "filters" \in RunningTexts']_vars

(* The JMAP client sees one active script at most, so the master runs one  *)
(* of ours at most, `vacation` aside, in every state between two commands. *)
OneOwnedRuns ==
    \A n \in DOMAIN scripts :
        Cardinality({l.name : l \in {k \in ToSet(scripts[n].lines) : k.tag = "live"}}
                    \ {Vacation}) <= 1

\* The scripts are of a known form, and the master runs one of ours at most.
ScriptsOK == TypeOK /\ OneOwnedRuns

(* A request that answers without error did what it says, several commands *)
(* and a rewrite of the master later; and a change of what a client sees   *)
(* has moved the state its other devices compare.                          *)
Done(q) ==
    LET st == scriptsState(Listing)
        seen == projectScripts(Listing, st)
        present(n) == n \in DOMAIN scripts /\ n \in st.owned
        absent(n) == n \notin DOMAIN scripts /\ n \notin st.owned
        r == q.req
    IN  /\ r.op \notin Vacations => (seen # q.view => q.changed)
        /\ r.op = "create" => present(r.name) /\ (r.activate => st.active = r.name)
        /\ r.op = "rename" => /\ absent(r.name) /\ present(r.to)
                              /\ [name |-> r.name, isActive |-> TRUE] \in q.view
                                     => st.active = r.to
        /\ r.op = "destroy" => absent(r.name)
        /\ r.op = "activate" => st.active = r.name
        /\ r.op = "deactivate" => st.active = None
        /\ r.op = "vacationOn" => vacationRead
        /\ r.op = "vacationOff" => ~vacationRead
        /\ r.op \in Vacations /\ cache # None => cache = vacationRead

\* Every call that was answered without error is done, as Done says (sieve.ts:264-390).
AnsweredIsDone ==
    \A s \in Sessions : sess[s].pc = "idle" /\ sess[s].ok => Done(sess[s])
=============================================================================
