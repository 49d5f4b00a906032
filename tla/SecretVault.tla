----------------------------- MODULE SecretVault -----------------------------
(* The credentials at rest (secrets): a table sealed with a key of a file of   *)
(* its own, which the first boot generates, and the move, at each boot before *)
(* the panel is served, of what older versions kept in the settings. When the *)
(* service falls, another process opens the same table to tell of it.         *)
EXTENDS Integers, FiniteSets

CONSTANTS
    SecretNames,    \* the credentials
    MaxVaultEdits,  \* bound on what the admins set and delete
    MaxVaultFaults  \* bound on failures, falls and losses of the key

ASSUME VaultAssumption == MaxVaultEdits \in Nat /\ MaxVaultFaults \in Nat

VARIABLES
    keyFile,   \* the key in the file: none, one cut short, or which one
    keysMade,  \* how many keys were generated
    twoKeys,   \* history: two processes generated a key side by side
    sealed,    \* the table of secrets: what each holds, and the key it was sealed with
    plain,     \* the rows older versions left in the settings
    opener,    \* the processes that load the key: the panel and the notice of its fall
    toMove,    \* what the panel has yet to move, before it serves
    lastGiven, \* history: the last value somebody gave each credential
    brought,   \* history: the credentials a restore brought an old row of
    vaultEdits, vaultFaults

vaultVars == <<keyFile, keysMade, twoKeys, sealed, plain, opener, toMove, lastGiven, brought, vaultEdits, vaultFaults>>

NoKey == 0
ShortKey == -1
NoSecret == [val |-> 0, key |-> NoKey]
OldValue == 1
Openers == {"panel", "notice"}
Closed == [at |-> "closed", key |-> NoKey]

VaultInit ==
    /\ keyFile = NoKey /\ keysMade = 0 /\ twoKeys = FALSE
    /\ sealed = [n \in SecretNames |-> NoSecret]
    /\ plain \in [SecretNames -> {0, OldValue}] /\ lastGiven = plain
    /\ opener = [p \in Openers |-> Closed] /\ toMove = {}
    /\ brought = {}
    /\ vaultEdits = 0 /\ vaultFaults = 0

VaultEdit == vaultEdits < MaxVaultEdits /\ vaultEdits' = vaultEdits + 1 /\ UNCHANGED vaultFaults
VaultFault == vaultFaults < MaxVaultFaults /\ vaultFaults' = vaultFaults + 1 /\ UNCHANGED vaultEdits
NoVaultEvent == UNCHANGED <<vaultEdits, vaultFaults>>
KeyStays == UNCHANGED <<keyFile, keysMade, twoKeys>>
SecretsStay == UNCHANGED <<sealed, plain, lastGiven, brought>>
OpenerIs(p, at, key) == opener' = [opener EXCEPT ![p] = [at |-> at, key |-> key]]

Seal(n, val) == sealed' = [sealed EXCEPT ![n] = [val |-> val, key |-> opener["panel"].key]]
Panel(at) == opener["panel"].at = at
Moved(n) == sealed[n] = [val |-> plain[n], key |-> opener["panel"].key]

-----------------------------------------------------------------------------
\* The panel starts; the notice starts when it falls, and may still be under
\* way when it is started again.
VaultBoots ==
    /\ \/ Panel("closed") /\ OpenerIs("panel", "checks", NoKey) /\ toMove' = SecretNames /\ NoVaultEvent
       \/ /\ VaultFault /\ ~Panel("closed") /\ toMove' = {}
          /\ \E notice \in {opener["notice"], [Closed EXCEPT !.at = "checks"]} :
               opener' = [panel |-> Closed, notice |-> notice]
    /\ KeyStays /\ SecretsStay

\* CheckNotOrphaned: secrets without their key are not a first boot.
ChecksKey(p) ==
    /\ opener[p].at = "checks"
    /\ IF keyFile = NoKey /\ \E n \in SecretNames : sealed[n] # NoSecret
         THEN OpenerIs(p, "closed", NoKey) ELSE OpenerIs(p, "loads", NoKey)
    /\ NoVaultEvent /\ KeyStays /\ SecretsStay /\ UNCHANGED toMove

\* LoadOrGenerateKey: a file of the wrong size refuses, and for one that is not
\* there a key is generated and the file created, empty at first.
LoadsKey(p) ==
    /\ opener[p].at = "loads"
    /\ \/ keyFile = ShortKey /\ OpenerIs(p, "closed", NoKey) /\ UNCHANGED keysMade
       \/ keyFile = NoKey /\ keysMade' = keysMade + 1 /\ OpenerIs(p, "creates", keysMade')
       \/ keyFile \notin {NoKey, ShortKey} /\ OpenerIs(p, "has", keyFile) /\ UNCHANGED keysMade
    /\ NoVaultEvent /\ SecretsStay /\ UNCHANGED <<keyFile, twoKeys, toMove>>

CreatesFile(p) ==
    /\ opener[p].at = "creates"
    /\ keyFile' = ShortKey /\ OpenerIs(p, "writes", opener[p].key)
    /\ twoKeys' = (twoKeys \/ \E q \in Openers \ {p} : opener[q].key # NoKey)
    /\ NoVaultEvent /\ SecretsStay /\ UNCHANGED <<keysMade, toMove>>

WritesKey(p) ==
    /\ opener[p].at = "writes"
    /\ keyFile' = opener[p].key /\ OpenerIs(p, "has", opener[p].key)
    /\ NoVaultEvent /\ SecretsStay /\ UNCHANGED <<keysMade, twoKeys, toMove>>

\* The notice reads how to tell of the fall, and ends.
NoticeEnds ==
    /\ opener["notice"].at = "has" /\ OpenerIs("notice", "closed", NoKey)
    /\ NoVaultEvent /\ KeyStays /\ SecretsStay /\ UNCHANGED toMove

-----------------------------------------------------------------------------
\* migrateOne: the row is sealed first, and an error ends the boot.
MovesSecret(n) ==
    /\ Panel("has") /\ n \in toMove /\ plain[n] # 0 /\ ~Moved(n)
    /\ \/ Seal(n, plain[n]) /\ UNCHANGED opener /\ NoVaultEvent
       \/ UNCHANGED sealed /\ OpenerIs("panel", "closed", NoKey) /\ VaultFault
    /\ KeyStays /\ UNCHANGED <<plain, toMove, lastGiven, brought>>

\* Mutant: the old row goes whether its value was sealed or not.
RemovesUnsealedRow(n) ==
    /\ Panel("has") /\ n \in toMove
    /\ plain' = [plain EXCEPT ![n] = 0] /\ toMove' = toMove \ {n} /\ UNCHANGED opener /\ NoVaultEvent
    /\ KeyStays /\ UNCHANGED <<sealed, lastGiven, brought>>

\* It is deleted afterwards; where that fails, the next boot does both again.
RemovesOldRow(n) ==
    /\ Panel("has") /\ n \in toMove /\ (plain[n] = 0 \/ Moved(n))
    /\ \/ plain' = [plain EXCEPT ![n] = 0] /\ toMove' = toMove \ {n} /\ UNCHANGED opener /\ NoVaultEvent
       \/ OpenerIs("panel", "closed", NoKey) /\ VaultFault /\ UNCHANGED <<plain, toMove>>
    /\ KeyStays /\ UNCHANGED <<sealed, lastGiven, brought>>

\* The panel is served when there is nothing left to move.
ServesPanel ==
    /\ Panel("has") /\ toMove = {}
    /\ OpenerIs("panel", "serves", opener["panel"].key)
    /\ NoVaultEvent /\ KeyStays /\ SecretsStay /\ UNCHANGED toMove

-----------------------------------------------------------------------------
\* Set and Delete; a write that fails leaves the row as it was.
SetsSecret(n) ==
    /\ Panel("serves") /\ VaultEdit
    /\ Seal(n, OldValue + vaultEdits') /\ lastGiven' = [lastGiven EXCEPT ![n] = OldValue + vaultEdits']
    /\ KeyStays /\ UNCHANGED <<plain, opener, toMove, brought>>

DeletesSecret(n) ==
    /\ Panel("serves") /\ VaultEdit
    /\ sealed' = [sealed EXCEPT ![n] = NoSecret] /\ lastGiven' = [lastGiven EXCEPT ![n] = 0]
    /\ KeyStays /\ UNCHANGED <<plain, opener, toMove, brought>>

\* A restore writes every setting of its file; one that an older version made
\* brings back a row that the next boot moves.
BringsOldRow(n) ==
    /\ Panel("serves") /\ VaultEdit
    /\ plain' = [plain EXCEPT ![n] = OldValue] /\ brought' = brought \cup {n}
    /\ KeyStays /\ UNCHANGED <<sealed, opener, toMove, lastGiven>>

\* The file of the key is lost, though not while it is being opened, or the
\* original is put back.
Opening == {"checks", "loads", "creates", "writes"}
KeyIsLost ==
    /\ \A p \in Openers : opener[p].at \notin Opening
    /\ \/ VaultFault /\ keyFile' = NoKey
       \/ /\ NoVaultEvent /\ keyFile = NoKey
          /\ \E n \in SecretNames : sealed[n] # NoSecret /\ keyFile' = sealed[n].key
    /\ SecretsStay /\ UNCHANGED <<keysMade, twoKeys, opener, toMove>>

VaultNext ==
    \/ VaultBoots \/ NoticeEnds \/ ServesPanel \/ KeyIsLost
    \/ \E p \in Openers : ChecksKey(p) \/ LoadsKey(p) \/ CreatesFile(p) \/ WritesKey(p)
    \/ \E n \in SecretNames : \/ MovesSecret(n) \/ RemovesOldRow(n)
                              \/ SetsSecret(n) \/ DeletesSecret(n) \/ BringsOldRow(n)

VaultSpec == VaultInit /\ [][VaultNext]_vaultVars

-----------------------------------------------------------------------------
\* Type invariant of the credentials.
VaultTypeOK ==
    /\ keyFile \in {NoKey, ShortKey} \cup 1..keysMade
    /\ \A n \in SecretNames : sealed[n].key \in 0..keysMade /\ plain[n] \in {0, OldValue}
    /\ \A p \in Openers : opener[p].at \in Opening \cup {"closed", "has", "serves"}
    /\ twoKeys \in BOOLEAN /\ toMove \subseteq SecretNames /\ brought \subseteq SecretNames

\* The panel opens every secret there is: one that cannot be opened would pass
\* for one nobody configured. The first key of all may be made twice, by the
\* service and by the notice of its fall.
SecretsOpen ==
    Panel("serves") =>
      \A n \in SecretNames : sealed[n] # NoSecret => (sealed[n].key = opener["panel"].key \/ twoKeys)

\* What was last given to a credential is never lost, in the settings or in the
\* table, whatever step of the move fails; unless a restore brought an old row.
SecretsAreKept ==
    \A n \in SecretNames \ brought : lastGiven[n] # 0 => lastGiven[n] \in {sealed[n].val, plain[n]}

\* The panel serves no credential from an unknown state: each is in the table
\* only, and one that was deleted does not come back.
ServesFromVault ==
    Panel("serves") => \A n \in SecretNames \ brought : plain[n] = 0 /\ sealed[n].val = lastGiven[n]
=============================================================================
