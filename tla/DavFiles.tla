------------------------------ MODULE DavFiles ------------------------------
(***************************************************************************)
(* What the DAV methods read and write inside a resource: in a behaviour   *)
(* it is an event of a calendar or a contact of an address book.           *)
(***************************************************************************)
EXTENDS CalendarFile

CONSTANTS ForeignCards, CardPatch

VARIABLES card, change, writes

Contact == INSTANCE CardFile WITH MaxWrites <- MaxSteps

eventVars == vars
contactVars == <<card, change, writes>>

NoEvent == [master |-> None, overrides |-> {}]
NoCard == <<>>

FilesInit ==
    \/ Init /\ card = NoCard /\ change = None /\ writes = 0
    \/ Contact!CardInit /\ file = NoEvent /\ edit = None /\ steps = 0

FilesNext ==
    \/ file # NoEvent /\ Next /\ UNCHANGED contactVars
    \/ card # NoCard /\ Contact!CardNext /\ UNCHANGED eventVars

FilesSpec == FilesInit /\ [][FilesNext]_<<eventVars, contactVars>>

\* vcard.ts:776-1300: a contact read after an update is the one read before, patched as asked.
CardUpdateIsDone == Contact!CardUpdateIsDone

\* jscalendar.ts:85, vcard.ts:776-778: an update leaves in the file what the proxy does not
\* know: of an event but for the properties it owns and never reads, of a contact with
\* the labels of the lines and in groups of their own.
ForeignSurvives == ForeignPropsSurvive /\ Contact!ForeignLinesSurvive
=============================================================================
