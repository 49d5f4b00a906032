----------------------------- MODULE DynamicName -----------------------------
(* The name of a WAN link (ddns): a check, every five minutes or at a button, *)
(* finds the public address, compares it with the result of the last attempt  *)
(* and tells the provider. A configuration that changes drops that result.    *)
(* A check reads the configuration once, and publishes far later.             *)
EXTENDS Naturals, FiniteSets

CONSTANTS
    Hostnames,      \* the names the link may be given
    PublicAddrs,    \* the addresses it may get
    MaxNameEvents,  \* bound on saves, changes of address and checks by hand
    MaxNameFaults   \* bound on failures and restarts

ASSUME NameAssumption ==
    /\ Hostnames # {} /\ PublicAddrs \subseteq Nat \ {0} /\ PublicAddrs # {}
    /\ MaxNameEvents \in Nat /\ MaxNameFaults \in Nat

VARIABLES
    nameRow,     \* ddns_config of the link
    nameState,   \* ddns_state: the address and the outcome of the last attempt
    wanAddr,     \* the public address of the link
    published,   \* what the provider answers for each name
    nameChecks,  \* the checks: the ticker's and the button's
    nameSave,    \* a save that has written its row and not yet dropped the state
    nameExcuse,  \* history: why what was recorded may not be what was published
    nameEvents, nameFaults

nameVars == <<nameRow, nameState, wanAddr, published, nameChecks, nameSave, nameExcuse, nameEvents, nameFaults>>

Checkers == {"ticker", "button"}
NoResult == [ip |-> 0, ok |-> FALSE]
NoCheck == [at |-> "idle", row |-> [on |-> FALSE, host |-> "none"], old |-> NoResult, ip |-> 0, ok |-> FALSE]

NameInit ==
    /\ \E h \in Hostnames : nameRow = [on |-> TRUE, host |-> h]
    /\ nameState = NoResult
    /\ wanAddr \in PublicAddrs
    /\ published = [h \in Hostnames |-> 0]
    /\ nameChecks = [c \in Checkers |-> NoCheck]
    /\ nameSave = FALSE /\ nameExcuse = {}
    /\ nameEvents = 0 /\ nameFaults = 0

NameEvent == nameEvents < MaxNameEvents /\ nameEvents' = nameEvents + 1
NameFault(why) ==
    nameFaults < MaxNameFaults /\ nameFaults' = nameFaults + 1 /\ nameExcuse' = nameExcuse \cup why
NoNameFault == UNCHANGED <<nameFaults, nameExcuse>>
CheckAt(c, at) == nameChecks[c].at = at
CheckGoes(c, check) == nameChecks' = [nameChecks EXCEPT ![c] = check]
NoCheckRuns == \A c \in Checkers : CheckAt(c, "idle")
WorldStays == UNCHANGED <<wanAddr, published>>

\* What was recorded is what the provider answers.
RecordedIsPublished == nameState.ok => published[nameRow.host] = nameState.ip

-----------------------------------------------------------------------------
\* CheckOnce: the configuration first, and the results of the last attempts.
ChecksName(c) ==
    /\ CheckAt(c, "idle")
    /\ IF c = "button" THEN NameEvent ELSE UNCHANGED nameEvents
    /\ nameRow.on
    /\ CheckGoes(c, [NoCheck EXCEPT !.at = "states", !.row = nameRow])
    /\ nameExcuse' = IF NoCheckRuns THEN nameExcuse ELSE nameExcuse \cup {"overlapped"}
    /\ WorldStays /\ UNCHANGED <<nameRow, nameState, nameSave, nameFaults>>

ReadsStates(c) ==
    /\ CheckAt(c, "states")
    /\ CheckGoes(c, [nameChecks[c] EXCEPT !.at = "address", !.old = nameState])
    /\ WorldStays /\ UNCHANGED <<nameRow, nameState, nameSave, nameExcuse, nameEvents, nameFaults>>

\* enderecoPublico: the address of the interface, or what is seen from outside;
\* where nobody answers, the one seen last is recorded with the error.
FindsAddress(c) ==
    LET check == nameChecks[c] IN
    /\ CheckAt(c, "address")
    /\ \/ CheckGoes(c, [check EXCEPT !.at = "compare", !.ip = wanAddr]) /\ NoNameFault
       \/ CheckGoes(c, [check EXCEPT !.at = "record", !.ip = check.old.ip, !.ok = FALSE]) /\ NameFault({})
    /\ WorldStays /\ UNCHANGED <<nameRow, nameState, nameSave, nameEvents>>

\* The provider is not told again of what it took already.
IsUpToDate(check) == check.old.ok /\ check.old.ip = check.ip

SkipsUpdate(c) ==
    /\ CheckAt(c, "compare") /\ IsUpToDate(nameChecks[c])
    /\ CheckGoes(c, NoCheck)
    /\ WorldStays /\ UNCHANGED <<nameRow, nameState, nameSave, nameExcuse, nameEvents, nameFaults>>

\* Update: the provider takes it, refuses it, or its answer is lost.
TellsProvider(c) ==
    LET check == nameChecks[c] IN
    /\ CheckAt(c, "compare") /\ ~IsUpToDate(check)
    /\ \E took, answered \in BOOLEAN :
         /\ published' = IF took THEN [published EXCEPT ![check.row.host] = check.ip] ELSE published
         /\ CheckGoes(c, [check EXCEPT !.at = "record", !.ok = took /\ answered])
         /\ IF took /\ answered THEN NoNameFault ELSE NameFault({})
    /\ UNCHANGED <<nameRow, nameState, nameSave, wanAddr, nameEvents>>

\* Nothing else went on while this check did, or the row it read is there again.
Alone(c) ==
    /\ ~nameSave /\ \A d \in Checkers \ {c} : CheckAt(d, "idle")
    /\ nameChecks[c].row = nameRow /\ published[nameRow.host] = nameChecks[c].ip

\* saveState: an error of the write is ignored.
RecordsResult(c) ==
    LET check == nameChecks[c] IN
    /\ CheckAt(c, "record")
    /\ CheckGoes(c, NoCheck)
    /\ \/ /\ nameState' = [ip |-> check.ip, ok |-> check.ok]
          /\ nameExcuse' = IF check.ok /\ Alone(c) THEN {} ELSE nameExcuse
          /\ UNCHANGED nameFaults
       \/ UNCHANGED nameState /\ NameFault({"unrecorded"})
    /\ WorldStays /\ UNCHANGED <<nameRow, nameSave, nameEvents>>

-----------------------------------------------------------------------------
\* SaveConfig: the row, and then the state of an attempt about another row.
SavesName ==
    /\ ~nameSave /\ NameEvent
    /\ \E row \in [on : BOOLEAN, host : Hostnames] : row # nameRow /\ nameRow' = row
    /\ nameSave' = TRUE
    /\ nameExcuse' = IF NoCheckRuns THEN nameExcuse ELSE nameExcuse \cup {"saved"}
    /\ WorldStays /\ UNCHANGED <<nameState, nameChecks, nameFaults>>

\* Mutant: the result of the last attempt is dropped for a name switched off only.
ClearsStateOfOff ==
    /\ nameSave /\ nameSave' = FALSE
    /\ nameState' = IF nameRow.on THEN nameState ELSE NoResult
    /\ NoNameFault /\ WorldStays /\ UNCHANGED <<nameRow, nameChecks, nameEvents>>

\* ClearState: an error of the write is ignored.
ClearsState ==
    /\ nameSave /\ nameSave' = FALSE
    /\ \/ nameState' = NoResult /\ NoNameFault
       \/ UNCHANGED nameState /\ NameFault({"uncleared"})
    /\ WorldStays /\ UNCHANGED <<nameRow, nameChecks, nameEvents>>

\* The operator's provider gives the link another address.
AddressChanges ==
    /\ NameEvent
    /\ \E a \in PublicAddrs \ {wanAddr} : wanAddr' = a
    /\ UNCHANGED <<nameRow, nameState, published, nameChecks, nameSave, nameExcuse, nameFaults>>

NameRestart ==
    /\ NameFault((IF nameSave THEN {"uncleared"} ELSE {}) \cup (IF NoCheckRuns THEN {} ELSE {"unrecorded"}))
    /\ nameChecks' = [c \in Checkers |-> NoCheck] /\ nameSave' = FALSE
    /\ WorldStays /\ UNCHANGED <<nameRow, nameState, nameEvents>>

NameStep(c) ==
    ReadsStates(c) \/ FindsAddress(c) \/ SkipsUpdate(c) \/ TellsProvider(c) \/ RecordsResult(c)

NameNext ==
    \/ \E c \in Checkers : ChecksName(c) \/ NameStep(c)
    \/ SavesName \/ ClearsState \/ AddressChanges \/ NameRestart

NameSpec == NameInit /\ [][NameNext]_nameVars

-----------------------------------------------------------------------------
\* Type invariant of the name.
NameTypeOK ==
    /\ nameRow \in [on : BOOLEAN, host : Hostnames]
    /\ nameState.ip \in PublicAddrs \cup {0} /\ wanAddr \in PublicAddrs
    /\ published \in [Hostnames -> PublicAddrs \cup {0}]
    /\ \A c \in Checkers : nameChecks[c].at \in {"idle", "states", "address", "compare", "record"}

\* What the panel shows as updated is what the provider answers: between checks
\* and saves, whatever was refused or lost; unless two checks overlapped, a row
\* was saved under one, or a result or its removal was not written.
UpdatedIsPublished == (NoCheckRuns /\ ~nameSave /\ nameExcuse = {}) => RecordedIsPublished

\* The name of a link that keeps its address ends up at it.
NameReachesAddress == <>[](nameRow.on /\ nameExcuse = {} => published[nameRow.host] = wanAddr)
=============================================================================
