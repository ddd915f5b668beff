---------------------------- MODULE MethodCalls ----------------------------
(***************************************************************************)
(* One JMAP method call: the references in its arguments (refs.ts) and     *)
(* what running it may come to (runCall in router.ts).                     *)
(*                                                                         *)
(* The account's data are the set of calls whose writes took effect, by    *)
(* their place in the request; what a call creates is named by that place. *)
(***************************************************************************)
EXTENDS Naturals, Sequences

CONSTANTS
    Reading,    \* methods that only read, all of PARALLEL_SAFE_METHODS
    Creating,   \* */set, */copy and Email/import
    Unknown,    \* no handler, or its capability is not in `using`; safe by its name
    CallId,     \* the ids a client gives its calls; it may give one twice
    TempId,     \* creation ids
    Shapes,     \* the calls requests are made of
    MaxCalls,   \* how many a request has at most
    None

Method == Reading \cup Creating \cup Unknown

\* { resultOf, name, path } of an argument whose key starts with #.
Reference == [of : CallId, name : Reading \cup Creating, path : {"ids", "created"}]

\* ref is its result reference, use a #name anywhere in its arguments, make what it creates.
Call ==
    {c \in [name : Method, id : CallId, ref : Reference \cup {None}, use : TempId \cup {None},
            make : TempId \cup {None}] : c.make # None => c.name \in Creating}

ASSUME CallsAssumption ==
    /\ Reading \cap (Creating \cup Unknown) = {} /\ Creating \cap Unknown = {}
    /\ None \notin TempId \cup Reference
    /\ Shapes \subseteq Call
    /\ MaxCalls \in Nat

-----------------------------------------------------------------------------
(* refs.ts                                                                 *)

\* Undefined unless the result has what the path asks for.
jsonPointer(result, path) == IF path \in DOMAIN result THEN result[path] ELSE None

Refused(ref, prior) ==
    \/ prior[ref.of] = None
    \/ prior[ref.of].name # ref.name
    \/ jsonPointer(prior[ref.of].result, ref.path) = None

\* A name no call has created is left as it is.
resolveArgs(c, prior, created) ==
    [arg  |-> IF c.ref = None THEN None ELSE jsonPointer(prior[c.ref.of].result, c.ref.path),
     used |-> IF c.use # None /\ created[c.use] # None THEN created[c.use] ELSE c.use]

harvestCreatedIds(created, c, outcome) ==
    IF outcome.name \in Creating /\ c.make # None
    THEN [created EXCEPT ![c.make] = outcome.result.created] ELSE created

-----------------------------------------------------------------------------
(* runCall: what call n may come to, and whether it wrote.                 *)

Failure(kind, wrote) == [name |-> "error", result |-> [type |-> kind], side |-> FALSE, wrote |-> wrote]

Outcomes(n, c, args, written) ==
    CASE c.name \in Unknown -> {Failure("unknownMethod", FALSE)}
      [] c.name \in Reading ->
           {Failure("serverFail", FALSE),
            [name |-> c.name, result |-> [ids |-> written, given |-> args],
             side |-> FALSE, wrote |-> FALSE]}
      [] c.name \in Creating ->
           {Failure("serverFail", wrote) : wrote \in BOOLEAN} \cup
           {[name |-> c.name,
             result |-> IF c.make = None THEN [given |-> args] ELSE [created |-> n, given |-> args],
             side |-> side, wrote |-> TRUE] : side \in BOOLEAN}

runCall(n, c, prior, created, written) ==
    IF c.ref # None /\ Refused(c.ref, prior) THEN {Failure("invalidResultReference", FALSE)}
    ELSE Outcomes(n, c, resolveArgs(c, prior, created), written)

-----------------------------------------------------------------------------
(* record: an answer, and the implicit one that rides on it.               *)

Response(c, outcome) == [name |-> outcome.name, result |-> outcome.result, id |-> c.id]
Implicit(c) == [name |-> "Email/set", result |-> [type |-> "implicit"], id |-> c.id]

Answer(c, outcome) ==
    IF outcome.side THEN <<Response(c, outcome), Implicit(c)>> ELSE <<Response(c, outcome)>>

Remember(prior, c, outcome) ==
    [prior EXCEPT ![c.id] = [name |-> outcome.name, result |-> outcome.result]]
=============================================================================
