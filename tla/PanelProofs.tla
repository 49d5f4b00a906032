----------------------------- MODULE PanelProofs -----------------------------
(***************************************************************************)
(* What the panel's services guarantee for every set of credentials,       *)
(* requests, captures, versions, hosts, groups and rules, and every bound. *)
(*                                                                         *)
(* Each part has an inductive invariant of its own.  PanelSpec follows one *)
(* part at a time, so that a step of the panel is a step of that part, or  *)
(* leaves it alone (FollowsPart).                                          *)
(***************************************************************************)
EXTENDS MCPanel, TunnelAdoptionProofs

-----------------------------------------------------------------------------
(* The credentials *)

\* Who has a key, and who has it in the file or writes it there.
KeyHolders == {"creates", "writes", "has", "serves"}
KeyUsers   == {"writes", "has", "serves"}

VaultShape ==
    /\ keysMade \in Nat
    /\ keyFile \in {NoKey, ShortKey} \cup 1 .. keysMade
    /\ sealed \in [SecretNames -> [val : Nat, key : 0 .. keysMade]]
    /\ \A n \in SecretNames : sealed[n] # NoSecret => sealed[n].key # NoKey
    /\ plain \in [SecretNames -> {0, OldValue}]
    /\ opener \in [Openers -> [at : Opening \cup {"closed", "has", "serves"}, key : 0 .. keysMade]]
    /\ \A p \in Openers : opener[p].at \in KeyHolders <=> opener[p].key # NoKey
    /\ opener["notice"].at # "serves"
    /\ twoKeys \in BOOLEAN /\ toMove \subseteq SecretNames /\ brought \subseteq SecretNames
    /\ lastGiven \in [SecretNames -> Nat]
    /\ vaultEdits \in Nat

HasKeyFile == keyFile \notin {NoKey, ShortKey}
NothingSealed == \A n \in SecretNames : sealed[n] = NoSecret
SealedWith(key) == \A n \in SecretNames : sealed[n] # NoSecret => sealed[n].key = key

\* There is one key: in the file, in memory and on what is sealed.
OneKey ==
    /\ \A n \in SecretNames : sealed[n] # NoSecret => SealedWith(sealed[n].key)
    /\ HasKeyFile => SealedWith(keyFile)
    /\ \A p \in Openers : opener[p].at \in KeyUsers =>
          /\ \A q \in Openers : opener[q].at \in KeyUsers => opener[q].key = opener[p].key
          /\ HasKeyFile => opener[p].key = keyFile
          /\ SealedWith(opener[p].key)

\* A key is generated only while nothing is sealed and nobody has another.
FirstKey ==
    /\ \A p \in Openers : /\ opener[p].at = "loads" /\ keyFile = NoKey => NothingSealed
                          /\ opener[p].at = "creates" => NothingSealed /\ keyFile = NoKey
                          /\ opener[p].at = "writes" => keyFile = ShortKey
    /\ opener["notice"].at \in Opening /\ opener["panel"].at \in KeyUsers => keyFile # NoKey
    /\ ~ (opener["notice"].at = "writes" /\ opener["panel"].at = "writes")

KeyInv == ~ twoKeys => OneKey /\ FirstKey

\* Where the last value of each credential is.
MoveInv ==
    \A n \in SecretNames \ brought :
        /\ plain[n] # 0 => lastGiven[n] = plain[n]
        /\ plain[n] = 0 => lastGiven[n] = sealed[n].val
        /\ ~ Panel("closed") /\ n \notin toMove => plain[n] = 0
        /\ Panel("serves") => n \notin toMove

VaultInv == VaultShape /\ KeyInv /\ MoveInv

LEMMA VaultStarts == VaultInit => VaultInv
<1> SUFFICES ASSUME VaultInit PROVE VaultInv
  OBVIOUS
<1> USE DEF VaultInit
<1>1. VaultShape
  <2>1. sealed \in [SecretNames -> [val : Nat, key : 0 .. keysMade]]
    BY DEF NoSecret, NoKey
  <2>2. \A n \in SecretNames : sealed[n] = NoSecret
    OBVIOUS
  <2>3. opener \in [Openers -> [at : Opening \cup {"closed", "has", "serves"}, key : 0 .. keysMade]]
    BY DEF Closed, NoKey
  <2>4. "notice" \in Openers /\ \A p \in Openers : opener[p] = Closed
    BY DEF Openers
  <2>5. lastGiven \in [SecretNames -> Nat] /\ plain \in [SecretNames -> {0, OldValue}]
    BY DEF OldValue
  <2>6. \A p \in Openers : opener[p].at = "closed" /\ opener[p].key = NoKey
    BY <2>4 DEF Closed
  <2>7. "closed" \notin KeyHolders
    BY DEF KeyHolders
  <2> QED  BY <2>1, <2>2, <2>3, <2>4, <2>5, <2>6, <2>7 DEF VaultShape
<1>2. KeyInv
  BY DEF VaultInit, KeyInv, OneKey, FirstKey, SealedWith, HasKeyFile, NothingSealed, NoSecret,
         Openers, Closed, KeyUsers, Opening, NoKey
<1>3. MoveInv
  BY DEF VaultInit, MoveInv, NoSecret, Panel, Openers, Closed
<1> QED  BY <1>1, <1>2, <1>3 DEF VaultInv

\* One process goes on, the other stays where it is.
LEMMA OpenerMoves ==
    ASSUME VaultShape, NEW p \in Openers, NEW at, NEW key, OpenerIs(p, at, key)
    PROVE  /\ opener'[p] = [at |-> at, key |-> key]
           /\ opener'[p].at = at /\ opener'[p].key = key
           /\ \A q \in Openers \ {p} : opener'[q] = opener[q]
BY DEF VaultShape, OpenerIs

LEMMA LaterValue == \A edits \in Nat : OldValue + edits \in Nat
BY DEF OldValue

LEMMA PanelIsOpener == "panel" \in Openers /\ "notice" \in Openers
BY DEF Openers

\* What VaultShape asks of a step, process by process.
LEMMA OpenerShape ==
    ASSUME VaultShape, keysMade' \in Nat, keysMade <= keysMade',
           NEW p \in Openers, NEW at, NEW key, OpenerIs(p, at, key),
           at \in Opening \cup {"closed", "has", "serves"}, key \in 0 .. keysMade',
           at \in KeyHolders <=> key # NoKey,
           p = "notice" => at # "serves"
    PROVE  /\ opener' \in [Openers -> [at : Opening \cup {"closed", "has", "serves"}, key : 0 .. keysMade']]
           /\ \A q \in Openers : opener'[q].at \in KeyHolders <=> opener'[q].key # NoKey
           /\ opener'["notice"].at # "serves"
<1>1. \A q \in Openers \ {p} : opener'[q] = opener[q]
  BY OpenerMoves
<1>2. opener'[p].at = at /\ opener'[p].key = key
  BY DEF VaultShape, OpenerIs
<1>3. 0 .. keysMade \subseteq 0 .. keysMade'
  <2>1. keysMade \in Nat
    BY DEF VaultShape
  <2> QED  BY <2>1
<1>4. opener' = [opener EXCEPT ![p] = [at |-> at, key |-> key]]
  BY DEF OpenerIs
<1>5. opener' \in [Openers -> [at : Opening \cup {"closed", "has", "serves"}, key : 0 .. keysMade']]
  BY <1>3, <1>4 DEF VaultShape
<1>6. \A q \in Openers : opener'[q].at \in KeyHolders <=> opener'[q].key # NoKey
  BY <1>1, <1>2 DEF VaultShape
<1>7. opener'["notice"].at # "serves"
  BY <1>1, <1>2, PanelIsOpener DEF VaultShape
<1> QED  BY <1>5, <1>6, <1>7

LEMMA ShapeStep ==
    ASSUME VaultShape, [VaultNext]_vaultVars
    PROVE  VaultShape'
<1> DEFINE Ats == Opening \cup {"closed", "has", "serves"}
           RestStays == UNCHANGED <<keysMade, keyFile, sealed, plain, twoKeys, toMove, brought,
                                    lastGiven, vaultEdits>>
           OpenersFit == /\ opener' \in [Openers -> [at : Ats, key : 0 .. keysMade']]
                         /\ \A q \in Openers : opener'[q].at \in KeyHolders <=> opener'[q].key # NoKey
                         /\ opener'["notice"].at # "serves"
<1>1. keysMade \in Nat /\ vaultEdits \in Nat /\ NoKey \in 0 .. keysMade /\ 0 \in Nat
  BY DEF VaultShape, NoKey
<1>2. /\ "closed" \notin KeyHolders /\ "checks" \notin KeyHolders /\ "loads" \notin KeyHolders
      /\ {"creates", "writes", "has", "serves"} \subseteq KeyHolders
      /\ {"closed", "checks", "loads", "creates", "writes", "has", "serves"} = Ats
  BY DEF KeyHolders, Opening
<1>3. \A p \in Openers : opener[p].key \in 0 .. keysMade /\ opener[p].at \in Ats
  BY DEF VaultShape
<1>4. ASSUME RestStays, OpenersFit PROVE VaultShape'
  BY <1>4 DEF VaultShape
<1>5. ASSUME RestStays, NEW p \in Openers, NEW at \in {"closed", "checks", "loads"},
             OpenerIs(p, at, NoKey)
      PROVE  VaultShape'
  BY <1>1, <1>2, <1>4, <1>5, OpenerShape
<1>6. CASE VaultBoots
  <2>1. CASE OpenerIs("panel", "checks", NoKey) /\ toMove' = SecretNames /\ NoVaultEvent
    <3>1. OpenersFit
      BY <1>1, <1>2, <1>6, <2>1, OpenerShape, PanelIsOpener DEF VaultBoots, KeyStays
    <3> QED  BY <1>6, <2>1, <3>1 DEF VaultShape, VaultBoots, KeyStays, SecretsStay, NoVaultEvent
  <2>2. CASE /\ VaultFault /\ toMove' = {}
             /\ \E notice \in {opener["notice"], [Closed EXCEPT !.at = "checks"]} :
                  opener' = [panel |-> Closed, notice |-> notice]
    <3>1. PICK notice \in {opener["notice"], [Closed EXCEPT !.at = "checks"]} :
            opener' = [panel |-> Closed, notice |-> notice]
      BY <2>2
    <3>2. opener' \in [Openers -> {Closed, notice}] /\ opener'["panel"] = Closed /\ opener'["notice"] = notice
      BY <3>1 DEF Openers
    <3>3. /\ notice \in [at : Ats, key : 0 .. keysMade] /\ notice.at # "serves"
          /\ notice.at \in KeyHolders <=> notice.key # NoKey
      BY <1>1, <1>2, <3>1, PanelIsOpener DEF VaultShape, Closed
    <3>4. Closed \in [at : Ats, key : 0 .. keysMade] /\ Closed.at = "closed" /\ Closed.key = NoKey
      BY <1>1, <1>2 DEF Closed
    <3>5. OpenersFit
      <4>1. keysMade' = keysMade
        BY <1>6 DEF VaultBoots, KeyStays
      <4>2. opener' \in [Openers -> [at : Ats, key : 0 .. keysMade]]
        BY <3>2, <3>3, <3>4
      <4>3. \A q \in Openers : opener'[q].at \in KeyHolders <=> opener'[q].key # NoKey
        BY <1>2, <3>2, <3>3, <3>4 DEF Openers
      <4> QED  BY <3>2, <3>3, <4>1, <4>2, <4>3
    <3> QED  BY <1>6, <2>2, <3>5 DEF VaultShape, VaultBoots, KeyStays, SecretsStay, VaultFault
  <2> QED  BY <1>6, <2>1, <2>2 DEF VaultBoots
<1>7. ASSUME NEW p \in Openers, ChecksKey(p) PROVE VaultShape'
  BY <1>5, <1>7 DEF ChecksKey, NoVaultEvent, KeyStays, SecretsStay
<1>8. ASSUME NEW p \in Openers, LoadsKey(p) PROVE VaultShape'
  <2>1. CASE keyFile = ShortKey /\ OpenerIs(p, "closed", NoKey) /\ UNCHANGED keysMade
    BY <1>5, <1>8, <2>1 DEF LoadsKey, NoVaultEvent, SecretsStay
  <2>2. CASE keysMade' = keysMade + 1 /\ OpenerIs(p, "creates", keysMade')
    <3>1. keysMade' \in Nat /\ keysMade <= keysMade' /\ keysMade' \in 0 .. keysMade' /\ keysMade' # NoKey
      BY <1>1, <2>2 DEF NoKey
    <3>2. OpenersFit
      BY <1>2, <2>2, <3>1, OpenerShape
    <3>3. sealed \in [SecretNames -> [val : Nat, key : 0 .. keysMade']]
      <4>1. 0 .. keysMade \subseteq 0 .. keysMade'
        BY <1>1, <3>1
      <4> QED  BY <4>1 DEF VaultShape
    <3>4. keyFile \in {NoKey, ShortKey} \cup 1 .. keysMade'
      BY <1>1, <3>1 DEF VaultShape
    <3> QED
      BY <1>8, <3>1, <3>2, <3>3, <3>4 DEF VaultShape, LoadsKey, NoVaultEvent, SecretsStay
  <2>3. CASE keyFile \notin {NoKey, ShortKey} /\ OpenerIs(p, "has", keyFile) /\ UNCHANGED keysMade
    <3>1. keyFile \in 0 .. keysMade /\ keyFile # NoKey
      BY <1>1, <2>3 DEF VaultShape
    <3>2. OpenersFit
      BY <1>1, <1>2, <2>3, <3>1, OpenerShape
    <3> QED  BY <1>4, <1>8, <2>3, <3>2 DEF LoadsKey, NoVaultEvent, SecretsStay
  <2> QED  BY <1>8, <2>1, <2>2, <2>3 DEF LoadsKey
<1>9. ASSUME NEW p \in Openers, CreatesFile(p) \/ WritesKey(p) PROVE VaultShape'
  <2>1. opener[p].key # NoKey
    BY <1>2, <1>9 DEF CreatesFile, WritesKey, VaultShape
  <2>2. \E at \in {"writes", "has"} : OpenerIs(p, at, opener[p].key)
    BY <1>9 DEF CreatesFile, WritesKey
  <2>3. keysMade' = keysMade
    BY <1>9 DEF CreatesFile, WritesKey
  <2>4. OpenersFit
    BY <1>1, <1>2, <1>3, <2>1, <2>2, <2>3, OpenerShape
  <2>5. keyFile' \in {NoKey, ShortKey} \cup 1 .. keysMade /\ twoKeys' \in BOOLEAN
    <3>1. twoKeys' \in BOOLEAN
      BY <1>9, Zenon DEF CreatesFile, WritesKey, VaultShape
    <3>2. keyFile' \in {ShortKey, opener[p].key}
      BY <1>9 DEF CreatesFile, WritesKey
    <3>3. opener[p].key \in 1 .. keysMade
      BY <1>1, <1>3, <2>1 DEF NoKey
    <3> QED  BY <3>1, <3>2, <3>3
  <2> QED
    BY <1>9, <2>3, <2>4, <2>5 DEF VaultShape, CreatesFile, WritesKey, NoVaultEvent, SecretsStay
<1>10. CASE NoticeEnds
  BY <1>5, <1>10, PanelIsOpener DEF NoticeEnds, NoVaultEvent, KeyStays, SecretsStay
<1>11. ASSUME NEW n \in SecretNames, MovesSecret(n) \/ RemovesOldRow(n) \/ SetsSecret(n)
                                     \/ DeletesSecret(n) \/ BringsOldRow(n)
       PROVE  VaultShape'
  <2>1. OpenersFit /\ UNCHANGED <<keyFile, keysMade, twoKeys>>
    <3>1. UNCHANGED <<keyFile, keysMade, twoKeys>> /\ (opener' = opener \/ OpenerIs("panel", "closed", NoKey))
      BY <1>11 DEF MovesSecret, RemovesOldRow, SetsSecret, DeletesSecret, BringsOldRow, KeyStays
    <3>2. CASE opener' = opener
      BY <3>1, <3>2 DEF VaultShape
    <3> QED  BY <1>1, <1>2, <3>1, <3>2, OpenerShape, PanelIsOpener
  <2>2. vaultEdits' \in Nat
    BY <1>1, <1>11 DEF MovesSecret, RemovesOldRow, SetsSecret, DeletesSecret, BringsOldRow,
                       VaultEdit, VaultFault, NoVaultEvent
  <2>3. opener["panel"].at \in {"has", "serves"}
    BY <1>11 DEF MovesSecret, RemovesOldRow, SetsSecret, DeletesSecret, BringsOldRow, Panel
  <2>4. opener["panel"].key \in 0 .. keysMade /\ opener["panel"].key # NoKey
    BY <1>2, <2>3, PanelIsOpener DEF VaultShape
  <2>5. /\ sealed' \in [SecretNames -> [val : Nat, key : 0 .. keysMade]]
        /\ \A m \in SecretNames : sealed'[m] # NoSecret => sealed'[m].key # NoKey
    <3>1. ASSUME NEW val \in Nat, Seal(n, val)
          PROVE  /\ sealed' \in [SecretNames -> [val : Nat, key : 0 .. keysMade]]
                 /\ \A m \in SecretNames : sealed'[m] # NoSecret => sealed'[m].key # NoKey
      BY <2>4, <3>1 DEF Seal, VaultShape
    <3>2. OldValue + vaultEdits' \in Nat /\ plain[n] \in Nat
      <4>1. plain[n] \in Nat
        BY DEF OldValue, VaultShape
      <4> QED  BY <2>2, <4>1, LaterValue
    <3>3. CASE sealed' = [sealed EXCEPT ![n] = NoSecret]
      BY <1>1, <3>3 DEF VaultShape, NoSecret
    <3>4. CASE sealed' = sealed
      BY <3>4 DEF VaultShape
    <3> QED
      BY <1>11, <3>1, <3>2, <3>3, <3>4
      DEF MovesSecret, RemovesOldRow, SetsSecret, DeletesSecret, BringsOldRow
  <2>6. /\ plain' \in [SecretNames -> {0, OldValue}] /\ lastGiven' \in [SecretNames -> Nat]
        /\ toMove' \subseteq SecretNames /\ brought' \subseteq SecretNames
    <3>1. OldValue + vaultEdits' \in Nat
      BY <2>2, LaterValue
    <3> QED
      BY <1>1, <1>11, <3>1
      DEF VaultShape, MovesSecret, RemovesOldRow, SetsSecret, DeletesSecret, BringsOldRow
  <2> QED  BY <2>1, <2>2, <2>5, <2>6 DEF VaultShape
<1>12. CASE ServesPanel
  <2>1. opener["panel"].key # NoKey
    BY <1>2, <1>12, PanelIsOpener DEF ServesPanel, Panel, VaultShape
  <2>2. OpenersFit
    BY <1>1, <1>2, <1>3, <1>12, <2>1, OpenerShape, PanelIsOpener DEF ServesPanel, KeyStays
  <2> QED  BY <1>4, <1>12, <2>2 DEF ServesPanel, NoVaultEvent, KeyStays, SecretsStay
<1>13. CASE KeyIsLost
  <2>1. keyFile' \in {NoKey} \cup {sealed[n].key : n \in {m \in SecretNames : sealed[m] # NoSecret}}
    BY <1>13 DEF KeyIsLost
  <2>2. keyFile' \in {NoKey, ShortKey} \cup 1 .. keysMade
    BY <1>1, <2>1 DEF VaultShape, NoKey
  <2> QED  BY <1>13, <2>2 DEF VaultShape, KeyIsLost, SecretsStay, VaultFault, NoVaultEvent
<1>14. CASE UNCHANGED vaultVars
  BY <1>14 DEF vaultVars, VaultShape
<1> QED
  BY <1>6, <1>7, <1>8, <1>9, <1>10, <1>11, <1>12, <1>13, <1>14 DEF VaultNext

LEMMA KeyStep ==
    ASSUME VaultShape, VaultShape', KeyInv, [VaultNext]_vaultVars
    PROVE  KeyInv'
<1> SUFFICES ASSUME ~ twoKeys' PROVE OneKey' /\ FirstKey'
  BY DEF KeyInv
<1>1. ~ twoKeys /\ OneKey /\ FirstKey
  <2>1. twoKeys \in BOOLEAN
    BY DEF VaultShape
  <2>2. twoKeys => twoKeys'
    BY <2>1
    DEF VaultNext, vaultVars, VaultBoots, NoticeEnds, ServesPanel, KeyIsLost, ChecksKey, LoadsKey,
        CreatesFile, WritesKey, MovesSecret, RemovesOldRow, SetsSecret, DeletesSecret,
        BringsOldRow, KeyStays
  <2> QED  BY <2>1, <2>2 DEF KeyInv
<1>2. "panel" \in Openers /\ "notice" \in Openers /\ \A p \in Openers : p \in {"panel", "notice"}
  BY DEF Openers
<1>3. /\ {"closed", "checks", "loads", "creates"} \cap KeyUsers = {}
      /\ {"writes", "has", "serves"} = KeyUsers
      /\ {"checks", "loads", "creates", "writes"} = Opening
  BY DEF KeyUsers, Opening
\* The process that goes on has no key in use afterwards, or the one it had.
<1>4. ASSUME UNCHANGED <<keyFile, sealed>>, NEW p \in Openers, NEW at, NEW key,
             OpenerIs(p, at, key),
             \/ at = "closed"
             \/ at = "loads" /\ opener[p].at = "checks" /\ (keyFile = NoKey => NothingSealed)
             \/ at \in {"has", "serves"} /\ opener[p].at = "has" /\ key = opener[p].key
             \/ at = "creates" /\ opener[p].at = "loads" /\ keyFile = NoKey
      PROVE  OneKey' /\ FirstKey'
  <2>1. opener'[p].at = at /\ opener'[p].key = key /\ \A q \in Openers \ {p} : opener'[q] = opener[q]
    <3>1. OpenerIs(p, at, key)
      BY <1>4
    <3> QED  BY <3>1, OpenerMoves, Zenon
  <2>2. at \in KeyUsers => opener[p].at \in KeyUsers /\ key = opener[p].key
    BY <1>3, <1>4
  <2>3. OneKey'
    BY <1>1, <1>4, <2>1, <2>2 DEF OneKey, SealedWith, HasKeyFile
  <2>4. \A q \in Openers :
          /\ opener'[q].at = "loads" /\ keyFile = NoKey => NothingSealed
          /\ opener'[q].at = "creates" => NothingSealed /\ keyFile = NoKey
          /\ opener'[q].at = "writes" => opener[q].at = "writes"
    BY <1>1, <1>4, <2>1 DEF FirstKey
  <2>5. \A q \in Openers : /\ opener'[q].at \in Opening => opener[q].at \in Opening
                           /\ opener'[q].at \in KeyUsers => opener[q].at \in KeyUsers
    BY <1>3, <1>4, <2>1, <2>2
  <2>6. FirstKey'
    BY <1>1, <1>2, <1>4, <2>4, <2>5 DEF FirstKey, NothingSealed
  <2> QED  BY <2>3, <2>6
\* The panel seals with the key it has, or what was sealed goes.
<1>5. ASSUME UNCHANGED <<keyFile, opener>>, opener["panel"].at \in {"has", "serves"},
             \A n \in SecretNames : \/ sealed'[n] = sealed[n] \/ sealed'[n] = NoSecret
                                    \/ sealed'[n].key = opener["panel"].key
      PROVE  OneKey' /\ FirstKey'
  <2>1. SealedWith(opener["panel"].key)
    BY <1>1, <1>2, <1>3, <1>5 DEF OneKey
  <2>2. \A n \in SecretNames : sealed'[n] # NoSecret => sealed'[n].key = opener["panel"].key
    BY <1>5, <2>1 DEF SealedWith
  <2>3. OneKey'
    BY <1>1, <1>2, <1>3, <1>5, <2>2 DEF OneKey, SealedWith, HasKeyFile
  <2>4. \A p \in Openers : opener[p].at # "creates" /\ ~ (opener[p].at = "loads" /\ keyFile = NoKey)
    BY <1>1, <1>2, <1>3, <1>5 DEF FirstKey
  <2>5. FirstKey'
    BY <1>1, <1>5, <2>4 DEF FirstKey
  <2> QED  BY <2>3, <2>5
<1>6. ASSUME UNCHANGED <<keyFile, opener, sealed>> PROVE OneKey' /\ FirstKey'
  BY <1>1, <1>6 DEF OneKey, FirstKey, SealedWith, HasKeyFile, NothingSealed
<1>7. CASE VaultBoots
  <2>1. UNCHANGED <<keyFile, sealed>>
    BY <1>7 DEF VaultBoots, KeyStays, SecretsStay
  <2>2. \A p \in Openers : \/ opener'[p] = opener[p]
                           \/ opener'[p].at \in {"closed", "checks"}
    <3>1. CASE OpenerIs("panel", "checks", NoKey)
      BY <1>2, <3>1, OpenerMoves
    <3>2. CASE \E notice \in {opener["notice"], [Closed EXCEPT !.at = "checks"]} :
                 opener' = [panel |-> Closed, notice |-> notice]
      BY <1>2, <3>2 DEF Closed
    <3> QED  BY <1>7, <3>1, <3>2 DEF VaultBoots
  <2>3. OneKey'
    BY <1>1, <1>3, <2>1, <2>2 DEF OneKey, SealedWith, HasKeyFile
  <2>4. opener'["panel"].at \notin KeyUsers
    <3>1. CASE OpenerIs("panel", "checks", NoKey)
      BY <1>2, <1>3, <3>1, OpenerMoves
    <3>2. CASE \E notice \in {opener["notice"], [Closed EXCEPT !.at = "checks"]} :
                 opener' = [panel |-> Closed, notice |-> notice]
      BY <1>3, <3>2 DEF Closed
    <3> QED  BY <1>7, <3>1, <3>2 DEF VaultBoots
  <2>5. FirstKey'
    BY <1>1, <1>2, <1>3, <2>1, <2>2, <2>4 DEF FirstKey, NothingSealed
  <2> QED  BY <2>3, <2>5
<1>8. ASSUME NEW p \in Openers, ChecksKey(p) PROVE OneKey' /\ FirstKey'
  <2>1. UNCHANGED <<keyFile, sealed>>
    BY <1>8 DEF ChecksKey, KeyStays, SecretsStay
  <2>2. OpenerIs(p, "closed", NoKey) \/ (OpenerIs(p, "loads", NoKey) /\ (keyFile = NoKey => NothingSealed))
    BY <1>8 DEF ChecksKey, NothingSealed
  <2> QED  BY <1>4, <1>8, <2>1, <2>2 DEF ChecksKey
<1>9. ASSUME NEW p \in Openers, LoadsKey(p) PROVE OneKey' /\ FirstKey'
  <2>1. UNCHANGED <<keyFile, sealed>> /\ opener[p].at = "loads"
    BY <1>9 DEF LoadsKey, SecretsStay
  <2>2. CASE OpenerIs(p, "closed", NoKey) \/ (keyFile = NoKey /\ OpenerIs(p, "creates", keysMade'))
    BY <1>4, <2>1, <2>2
  <2>3. CASE HasKeyFile /\ OpenerIs(p, "has", keyFile)
    <3>1. /\ opener'[p].at = "has" /\ opener'[p].key = keyFile
          /\ \A q \in Openers \ {p} : opener'[q] = opener[q]
      BY <2>3, OpenerMoves
    <3>2. OneKey'
      BY <1>1, <2>1, <2>3, <3>1 DEF OneKey, SealedWith, HasKeyFile
    <3>3. FirstKey'
      BY <1>1, <1>2, <1>3, <2>1, <2>3, <3>1 DEF FirstKey, NothingSealed, HasKeyFile
    <3> QED  BY <3>2, <3>3
  <2> QED  BY <1>9, <2>2, <2>3 DEF LoadsKey, HasKeyFile
<1>10. ASSUME NEW p \in Openers, CreatesFile(p) PROVE OneKey' /\ FirstKey'
  <2>1. /\ opener[p].at = "creates" /\ keyFile' = ShortKey /\ sealed' = sealed
        /\ opener'[p].at = "writes" /\ opener'[p].key = opener[p].key
        /\ \A q \in Openers \ {p} : opener'[q] = opener[q] /\ opener[q].key = NoKey
    BY <1>10, OpenerMoves DEF CreatesFile, SecretsStay
  <2>2. \A q \in Openers \ {p} : opener[q].at \notin KeyUsers /\ opener[q].at # "creates"
    BY <2>1 DEF VaultShape, KeyHolders, KeyUsers
  <2>3. NothingSealed
    BY <1>1, <2>1 DEF FirstKey
  <2>4. OneKey'
    BY <1>3, <2>1, <2>2, <2>3 DEF OneKey, SealedWith, HasKeyFile, NothingSealed
  <2>5. FirstKey'
    BY <1>1, <1>2, <1>3, <2>1, <2>2 DEF FirstKey, NoKey, ShortKey
  <2> QED  BY <2>4, <2>5
<1>11. ASSUME NEW p \in Openers, WritesKey(p) PROVE OneKey' /\ FirstKey'
  <2>1. /\ opener[p].at = "writes" /\ keyFile' = opener[p].key /\ sealed' = sealed
        /\ opener'[p].at = "has" /\ opener'[p].key = opener[p].key
        /\ \A q \in Openers \ {p} : opener'[q] = opener[q]
    BY <1>11, OpenerMoves DEF WritesKey, SecretsStay
  <2>2. keyFile = ShortKey /\ keyFile # NoKey /\ opener[p].key # NoKey
    BY <1>1, <2>1 DEF FirstKey, NoKey, ShortKey, VaultShape, KeyHolders
  <2>3. \A q \in Openers \ {p} : opener[q].at \notin {"writes", "creates"}
    BY <1>1, <1>2, <2>1, <2>2 DEF FirstKey
  <2>4. OneKey'
    BY <1>1, <1>3, <2>1 DEF OneKey, SealedWith, HasKeyFile
  <2>5. FirstKey'
    BY <1>1, <1>2, <1>3, <2>1, <2>2, <2>3 DEF FirstKey
  <2> QED  BY <2>4, <2>5
<1>12. CASE NoticeEnds
  BY <1>2, <1>4, <1>12 DEF NoticeEnds, KeyStays, SecretsStay
<1>13. CASE ServesPanel
  BY <1>2, <1>4, <1>13 DEF ServesPanel, KeyStays, SecretsStay, Panel
<1>14. ASSUME NEW n \in SecretNames, MovesSecret(n) \/ RemovesOldRow(n) \/ SetsSecret(n)
                                     \/ DeletesSecret(n) \/ BringsOldRow(n)
       PROVE  OneKey' /\ FirstKey'
  <2>1. keyFile' = keyFile /\ opener["panel"].at \in {"has", "serves"}
    BY <1>14 DEF MovesSecret, RemovesOldRow, SetsSecret, DeletesSecret, BringsOldRow, KeyStays, Panel
  <2>2. CASE sealed' = sealed /\ OpenerIs("panel", "closed", NoKey)
    BY <1>2, <1>4, <2>1, <2>2
  <2>3. CASE sealed' = sealed /\ opener' = opener
    BY <1>6, <2>1, <2>3
  <2>4. CASE opener' = opener /\ ((\E val : Seal(n, val)) \/ sealed' = [sealed EXCEPT ![n] = NoSecret])
    <3>1. \A m \in SecretNames : \/ sealed'[m] = sealed[m] \/ sealed'[m] = NoSecret
                                 \/ sealed'[m].key = opener["panel"].key
      BY <2>4 DEF Seal, VaultShape
    <3> QED  BY <1>5, <2>1, <2>4, <3>1
  <2> QED
    BY <1>14, <2>2, <2>3, <2>4
    DEF MovesSecret, RemovesOldRow, SetsSecret, DeletesSecret, BringsOldRow
<1>15. CASE KeyIsLost
  <2>1. /\ UNCHANGED <<sealed, opener>> /\ \A p \in Openers : opener[p].at \notin Opening
        /\ \/ keyFile' = NoKey
           \/ \E n \in SecretNames : sealed[n] # NoSecret /\ keyFile' = sealed[n].key
    BY <1>15 DEF KeyIsLost, SecretsStay
  <2>2. OneKey'
    BY <1>1, <2>1 DEF OneKey, SealedWith, HasKeyFile
  <2>3. FirstKey'
    BY <1>2, <1>3, <2>1 DEF FirstKey
  <2> QED  BY <2>2, <2>3
<1>16. CASE UNCHANGED vaultVars
  BY <1>6, <1>16 DEF vaultVars
<1> QED
  BY <1>7, <1>8, <1>9, <1>10, <1>11, <1>12, <1>13, <1>14, <1>15, <1>16 DEF VaultNext

LEMMA MoveStep ==
    ASSUME VaultShape, VaultShape', MoveInv, [VaultNext]_vaultVars
    PROVE  MoveInv'
<1>1. "panel" \in Openers /\ \A p \in Openers : p # "panel" => p = "notice"
  BY DEF Openers
\* The panel stays, or is closed, or goes on with the move still to do.
<1>2. ASSUME UNCHANGED <<sealed, plain, lastGiven, brought>>,
             \/ opener'["panel"].at = "closed"
             \/ opener'["panel"].at = opener["panel"].at /\ toMove' = toMove
             \/ opener'["panel"].at # "serves" /\ ~ Panel("closed") /\ toMove' = toMove
             \/ opener'["panel"].at # "serves" /\ toMove' = SecretNames
             \/ ~ Panel("closed") /\ toMove' = toMove /\ toMove = {}
      PROVE  MoveInv'
  BY <1>2 DEF MoveInv, Panel
<1>3. CASE VaultBoots
  <2>1. UNCHANGED <<sealed, plain, lastGiven, brought>>
    BY <1>3 DEF VaultBoots, SecretsStay
  <2>2. CASE OpenerIs("panel", "checks", NoKey) /\ toMove' = SecretNames
    <3>1. opener'["panel"].at = "checks"
      BY <1>1, <2>2, OpenerMoves
    <3> QED  BY <1>2, <2>1, <2>2, <3>1
  <2>3. CASE \E notice : opener' = [panel |-> Closed, notice |-> notice]
    BY <1>2, <2>1, <2>3 DEF Closed
  <2> QED  BY <1>3, <2>2, <2>3 DEF VaultBoots
<1>4. ASSUME NEW p \in Openers,
             ChecksKey(p) \/ LoadsKey(p) \/ CreatesFile(p) \/ WritesKey(p)
      PROVE  MoveInv'
  <2>1. /\ UNCHANGED <<sealed, plain, lastGiven, brought, toMove>>
        /\ opener[p].at \in {"checks", "loads", "creates", "writes"}
        /\ \E at \in {"closed", "loads", "creates", "writes", "has"} : \E key : OpenerIs(p, at, key)
    BY <1>4 DEF ChecksKey, LoadsKey, CreatesFile, WritesKey, SecretsStay
  <2>2. CASE p = "panel"
    <3>1. opener'["panel"].at # "serves" /\ ~ Panel("closed")
      BY <1>1, <2>1, <2>2, OpenerMoves DEF Panel
    <3> QED  BY <1>2, <2>1, <3>1
  <2>3. CASE p # "panel"
    <3>1. opener'["panel"] = opener["panel"]
      BY <1>1, <2>1, <2>3, OpenerMoves
    <3> QED  BY <1>2, <2>1, <3>1
  <2> QED  BY <2>2, <2>3
<1>5. CASE NoticeEnds
  <2>1. opener'["panel"] = opener["panel"]
    BY <1>1, <1>5, OpenerMoves, PanelIsOpener DEF NoticeEnds
  <2> QED  BY <1>2, <1>5, <2>1 DEF NoticeEnds, SecretsStay
<1>6. CASE ServesPanel
  <2>1. ~ Panel("closed") /\ toMove = {} /\ toMove' = toMove
    BY <1>6 DEF ServesPanel, Panel
  <2> QED  BY <1>2, <1>6, <2>1 DEF ServesPanel, SecretsStay
<1>7. ASSUME NEW n \in SecretNames, MovesSecret(n) PROVE MoveInv'
  <2>1. UNCHANGED <<plain, toMove, lastGiven, brought>> /\ plain[n] # 0
    BY <1>7 DEF MovesSecret
  <2>2. CASE opener' = opener /\ Seal(n, plain[n])
    BY <2>1, <2>2 DEF MoveInv, Seal, Panel, VaultShape
  <2>3. CASE sealed' = sealed /\ OpenerIs("panel", "closed", NoKey)
    <3>1. opener'["panel"].at = "closed"
      BY <1>1, <2>3, OpenerMoves
    <3> QED  BY <1>2, <2>1, <2>3, <3>1
  <2> QED  BY <1>7, <2>2, <2>3 DEF MovesSecret
<1>8. ASSUME NEW n \in SecretNames, RemovesOldRow(n) PROVE MoveInv'
  <2>1. UNCHANGED <<sealed, lastGiven, brought>> /\ opener["panel"].at = "has"
        /\ (plain[n] = 0 \/ Moved(n))
    BY <1>8 DEF RemovesOldRow, Panel
  <2>2. CASE plain' = [plain EXCEPT ![n] = 0] /\ toMove' = toMove \ {n} /\ opener' = opener
    <3>1. plain'[n] = 0 /\ \A m \in SecretNames \ {n} : plain'[m] = plain[m]
      BY <2>2 DEF VaultShape
    <3>2. Moved(n) => sealed[n].val = plain[n]
      BY DEF Moved
    <3> QED  BY <2>1, <2>2, <3>1, <3>2 DEF MoveInv, Panel
  <2>3. CASE OpenerIs("panel", "closed", NoKey) /\ UNCHANGED <<plain, toMove>>
    <3>1. opener'["panel"].at = "closed"
      BY <1>1, <2>3, OpenerMoves
    <3> QED  BY <1>2, <2>1, <2>3, <3>1
  <2> QED  BY <1>8, <2>2, <2>3 DEF RemovesOldRow
<1>9. ASSUME NEW n \in SecretNames, SetsSecret(n) \/ DeletesSecret(n) \/ BringsOldRow(n)
      PROVE  MoveInv'
  <2>1. Panel("serves") /\ UNCHANGED <<opener, toMove>> /\ ~ Panel("closed")
    BY <1>9 DEF SetsSecret, DeletesSecret, BringsOldRow, Panel
  <2>2. \A m \in SecretNames \ brought : plain[m] = 0
    BY <2>1 DEF MoveInv
  <2>3. CASE SetsSecret(n)
    <3>1. sealed'[n].val = lastGiven'[n]
      BY <2>3 DEF SetsSecret, Seal, VaultShape
    <3>2. \A m \in SecretNames \ {n} : sealed'[m] = sealed[m] /\ lastGiven'[m] = lastGiven[m]
      BY <2>3 DEF SetsSecret, Seal, VaultShape
    <3> QED  BY <2>1, <2>2, <2>3, <3>1, <3>2 DEF MoveInv, Panel, SetsSecret
  <2>4. CASE DeletesSecret(n)
    <3>1. sealed'[n].val = 0 /\ lastGiven'[n] = 0
      BY <2>4 DEF DeletesSecret, NoSecret, VaultShape
    <3>2. \A m \in SecretNames \ {n} : sealed'[m] = sealed[m] /\ lastGiven'[m] = lastGiven[m]
      BY <2>4 DEF DeletesSecret, VaultShape
    <3> QED  BY <2>1, <2>2, <2>4, <3>1, <3>2 DEF MoveInv, Panel, DeletesSecret
  <2>5. CASE BringsOldRow(n)
    <3>1. /\ brought' = brought \cup {n} /\ \A m \in SecretNames \ {n} : plain'[m] = plain[m]
          /\ UNCHANGED <<sealed, lastGiven>>
      BY <2>5 DEF BringsOldRow, VaultShape
    <3> QED  BY <2>1, <2>2, <3>1 DEF MoveInv, Panel
  <2> QED  BY <1>9, <2>3, <2>4, <2>5
<1>10. CASE KeyIsLost \/ UNCHANGED vaultVars
  BY <1>2, <1>10 DEF KeyIsLost, SecretsStay, vaultVars
<1> QED
  BY <1>3, <1>4, <1>5, <1>6, <1>7, <1>8, <1>9, <1>10 DEF VaultNext

LEMMA VaultStep ==
    ASSUME VaultInv, [VaultNext]_vaultVars
    PROVE  VaultInv'
BY ShapeStep, KeyStep, MoveStep DEF VaultInv

LEMMA VaultHolds == VaultInv => SecretsAreKept /\ SecretsOpen /\ ServesFromVault
<1> SUFFICES ASSUME VaultInv PROVE SecretsAreKept /\ SecretsOpen /\ ServesFromVault
  OBVIOUS
<1>1. VaultShape /\ KeyInv /\ MoveInv
  BY DEF VaultInv
<1>2. SecretsAreKept
  BY <1>1 DEF SecretsAreKept, MoveInv
<1>3. SecretsOpen
  BY <1>1, PanelIsOpener DEF SecretsOpen, KeyInv, OneKey, SealedWith, Panel, KeyUsers, VaultShape
<1>4. ServesFromVault
  BY <1>1 DEF ServesFromVault, MoveInv, Panel
<1> QED  BY <1>2, <1>3, <1>4
-----------------------------------------------------------------------------
(* The update *)

Stages == InFlight \cup {"none", "refused", "done", "shown", "cut"}
\* Where a call is once its package was given to the transient unit.
SinceUnit == {"waiting", "asking", "failed", "shown", "done", "cut"}

Calls == [at : Stages, v : 0 .. MaxVersion, deb : BOOLEAN, sums : BOOLEAN, intact : BOOLEAN, late : BOOLEAN]

UpdateShape ==
    /\ updates \in [UpdateCalls -> Calls]
    /\ release \in [v : Versions, deb : BOOLEAN, sums : BOOLEAN]
    /\ installed \in [v : Versions, intact : BOOLEAN] /\ current \in Versions
    /\ unit \subseteq UpdateCalls /\ \A c, d \in unit : c = d
    /\ spool \subseteq UpdateCalls /\ entered \subseteq UpdateCalls /\ excused \subseteq UpdateCalls
    /\ stopping \in BOOLEAN /\ updateAlert \in BOOLEAN

\* What reaches the unit was verified, and the unit outlives who waits for it.
UnitInv ==
    /\ installed.intact
    /\ stopping => unit \cap entered # {}
    /\ \A c \in UpdateCalls :
         /\ updates[c].at \in {"verified", "waiting", "asking"} => updates[c].intact
         /\ c \in unit => updates[c].intact
         /\ c \in unit \/ updates[c].at \in {"read", "downloaded", "verified"} => updates[c].v \in Versions
         /\ c \in unit \cup entered => updates[c].at \in SinceUnit
         /\ c \in unit \ entered => updates[c].at # "asking"

\* What is told of a call whose package went in, or did not.
ToldInv ==
    /\ entered # {} => \E d \in entered : installed.v = updates[d].v
    /\ entered = {} => installed.v = 1
    /\ \A c \in UpdateCalls :
         /\ updates[c].at = "shown" => updateAlert \/ c \in excused
         /\ updates[c].at = "done" => updates[c].v = 1 \/ \E d \in entered : updates[c].v = updates[d].v
         /\ updates[c].at \in {"failed", "shown"} =>
              /\ c \in unit \ entered => updates[c].late
              /\ c \in entered => updates[c].late \/ \E d \in entered : updates[d].v # updates[c].v

\* A download is in the spool while its call needs it, or was cut.
SpoolInv == \A c \in spool : updates[c].at \in {"downloaded", "verified", "waiting", "asking", "cut"}

UpdateInv == UpdateShape /\ UnitInv /\ ToldInv /\ SpoolInv


LEMMA UpdateStarts == UpdateInit => UpdateInv
<1> SUFFICES ASSUME UpdateInit PROVE UpdateInv
  OBVIOUS
<1> USE DEF UpdateInit
<1>1. 1 \in Versions /\ 0 \in 0 .. MaxVersion
  BY UpdateAssumption DEF Versions
<1>2. NoUpdate \in Calls
  BY <1>1 DEF NoUpdate, Stages, Calls
<1>3. \A c \in UpdateCalls : updates[c].at = "none"
  BY DEF NoUpdate
<1>4. UpdateShape
  BY <1>1, <1>2 DEF UpdateShape, AllUp
<1>5. UnitInv /\ ToldInv /\ SpoolInv
  BY <1>3 DEF UnitInv, ToldInv, SpoolInv
<1> QED  BY <1>4, <1>5 DEF UpdateInv

\* One call goes on, the others stay where they are.
LEMMA UpdateMoves ==
    ASSUME UpdateShape, NEW c \in UpdateCalls, NEW u, UpdateIs(c, u),
           u \in Calls
    PROVE  /\ updates' \in [UpdateCalls -> Calls]
           /\ updates'[c] = u
           /\ \A d \in UpdateCalls \ {c} : updates'[d] = updates[d]
BY DEF UpdateShape, UpdateIs, Calls

LEMMA UpdateGoesOn ==
    ASSUME UpdateShape, NEW c \in UpdateCalls, NEW at \in Stages, UpdateGoes(c, at)
    PROVE  /\ updates' \in [UpdateCalls -> Calls]
           /\ updates'[c].at = at /\ updates'[c].v = updates[c].v /\ updates'[c].sums = updates[c].sums
           /\ updates'[c].intact = updates[c].intact /\ updates'[c].late = updates[c].late
           /\ \A d \in UpdateCalls \ {c} : updates'[d] = updates[d]
<1> DEFINE u == [updates[c] EXCEPT !.at = at]
<1>1. /\ u \in Calls
      /\ u.at = at /\ u.v = updates[c].v /\ u.sums = updates[c].sums
      /\ u.intact = updates[c].intact /\ u.late = updates[c].late
  BY DEF UpdateShape, Calls
<1>2. UpdateIs(c, u)
  BY DEF UpdateGoes
<1> HIDE DEF u
<1> QED  BY <1>1, <1>2, UpdateMoves

\* A step of the update keeps its invariant, whoever takes it.
LEMMA UpdateStep ==
    ASSUME UpdateInv, [UpdateNext]_updateVars
    PROVE  UpdateInv'
<1> USE DEF UpdateInv
<1>1. ASSUME NEW c \in UpdateCalls, AsksUpdate(c)
      PROVE  UpdateInv'
  <2>1. PICK at \in {"told", "refused"} : UpdateGoes(c, at)
    BY <1>1 DEF AsksUpdate
  <2>2. updates[c].at = "none" /\ at \in Stages
    BY <1>1, <2>1 DEF AsksUpdate, Stages, InFlight
  <2>3. UpdateShape'
    BY <1>1, <2>1, <2>2, UpdateGoesOn DEF AsksUpdate, UpdateShape, MachineStays, AlertKept
  <2>4. UnitInv' /\ ToldInv' /\ SpoolInv'
    BY <1>1, <2>1, <2>2, UpdateGoesOn
       DEF AsksUpdate, UnitInv, ToldInv, SpoolInv, MachineStays, AlertKept, SinceUnit, UpdateShape
  <2> QED  BY <2>3, <2>4
\* Before the unit, a call fails and leaves nothing.
<1>2. ASSUME NEW c \in UpdateCalls, updates[c].at \notin SinceUnit, Fails(c), MachineStays, AlertKept
      PROVE  UpdateInv'
  <2>1. UpdateGoes(c, "failed") /\ "failed" \in Stages
    BY <1>2 DEF Fails, Stages, InFlight
  <2>2. UpdateShape'
    BY <1>2, <2>1, UpdateGoesOn DEF Fails, UpdateShape, MachineStays, AlertKept
  <2>3. UnitInv' /\ ToldInv' /\ SpoolInv'
    BY <1>2, <2>1, UpdateGoesOn
       DEF Fails, UnitInv, ToldInv, SpoolInv, MachineStays, AlertKept, SinceUnit, UpdateShape
  <2> QED  BY <2>2, <2>3
<1>3. ASSUME NEW c \in UpdateCalls, ReadsRelease(c)
      PROVE  UpdateInv'
  <2>1. updates[c].at = "told" /\ updates[c].at \notin SinceUnit /\ MachineStays /\ AlertKept
    BY <1>3 DEF ReadsRelease, SinceUnit
  <2> DEFINE u == [updates[c] EXCEPT !.at = "read", !.v = release.v, !.sums = release.sums]
  <2>2. CASE UpdateIs(c, u) /\ UNCHANGED spool
    <3>1. /\ u \in Calls
          /\ u.at = "read" /\ u.v = release.v /\ release.v \in Versions
      <4>1. updates[c] \in Calls /\ release.v \in 0 .. MaxVersion /\ release.v \in Versions /\ release.sums \in BOOLEAN
        BY DEF UpdateShape, Versions
      <4>2. "read" \in Stages
        BY DEF Stages, InFlight
      <4> QED  BY <4>1, <4>2 DEF Calls
    <3> HIDE DEF u
    <3>2. UpdateShape'
      BY <2>1, <2>2, <3>1, UpdateMoves DEF UpdateShape, MachineStays, AlertKept
    <3>3. UnitInv' /\ ToldInv' /\ SpoolInv'
      BY <2>1, <2>2, <3>1, UpdateMoves
         DEF UnitInv, ToldInv, SpoolInv, MachineStays, AlertKept, SinceUnit, UpdateShape
    <3> QED  BY <3>2, <3>3
  <2> QED  BY <1>2, <1>3, <2>1, <2>2 DEF ReadsRelease
<1>4. ASSUME NEW c \in UpdateCalls, Downloads(c)
      PROVE  UpdateInv'
  <2>1. updates[c].at = "read" /\ updates[c].at \notin SinceUnit /\ MachineStays /\ AlertKept
    BY <1>4 DEF Downloads, SinceUnit
  <2>2. ASSUME NEW whole \in BOOLEAN, UpdateIs(c, [updates[c] EXCEPT !.at = "downloaded", !.intact = whole]),
               spool' = spool \cup {c}
        PROVE  UpdateInv'
    <3> DEFINE u == [updates[c] EXCEPT !.at = "downloaded", !.intact = whole]
    <3>1. /\ u \in Calls
          /\ u.at = "downloaded" /\ u.v = updates[c].v /\ UpdateIs(c, u)
      <4>1. updates[c] \in Calls
        BY DEF UpdateShape
      <4>2. "downloaded" \in Stages
        BY DEF Stages, InFlight
      <4> QED  BY <2>2, <4>1, <4>2 DEF Calls
    <3> HIDE DEF u
    <3>2. UpdateShape'
      BY <2>1, <2>2, <3>1, UpdateMoves DEF UpdateShape, MachineStays, AlertKept
    <3>3. UnitInv' /\ ToldInv' /\ SpoolInv'
      BY <2>1, <2>2, <3>1, UpdateMoves
         DEF UnitInv, ToldInv, SpoolInv, MachineStays, AlertKept, SinceUnit, UpdateShape
    <3> QED  BY <3>2, <3>3
  <2> QED  BY <1>2, <1>4, <2>1, <2>2 DEF Downloads
<1>5. ASSUME NEW c \in UpdateCalls, Verifies(c)
      PROVE  UpdateInv'
  <2>1. updates[c].at = "downloaded" /\ updates[c].at \notin SinceUnit /\ MachineStays /\ AlertKept
    BY <1>5 DEF Verifies, SinceUnit
  <2>2. CASE updates[c].intact /\ UpdateGoes(c, "verified") /\ UNCHANGED spool
    <3>1. "verified" \in Stages
      BY DEF Stages, InFlight
    <3>2. UpdateShape'
      BY <2>1, <2>2, <3>1, UpdateGoesOn DEF UpdateShape, MachineStays, AlertKept
    <3>3. UnitInv' /\ ToldInv' /\ SpoolInv'
      BY <2>1, <2>2, <3>1, UpdateGoesOn
         DEF UnitInv, ToldInv, SpoolInv, MachineStays, AlertKept, SinceUnit, UpdateShape
    <3> QED  BY <3>2, <3>3
  <2> QED  BY <1>2, <1>5, <2>1, <2>2 DEF Verifies
<1>6. ASSUME NEW c \in UpdateCalls, RunsUnit(c)
      PROVE  UpdateInv'
  <2>1. /\ updates[c].at = "verified" /\ updates[c].intact /\ c \notin unit
        /\ UNCHANGED <<release, installed, entered, current, stopping, spool, updateAlert, excused>>
    BY <1>6 DEF RunsUnit, UnitInv, SinceUnit, AlertKept
  <2>2. CASE unit = {} /\ unit' = {c} /\ UpdateGoes(c, "waiting")
    <3>1. "waiting" \in Stages
      BY DEF Stages, InFlight
    <3>2. UpdateShape'
      BY <2>1, <2>2, <3>1, UpdateGoesOn DEF UpdateShape
    <3>3. UnitInv' /\ ToldInv' /\ SpoolInv'
      BY <2>1, <2>2, <3>1, UpdateGoesOn DEF UnitInv, ToldInv, SpoolInv, SinceUnit, UpdateShape
    <3> QED  BY <3>2, <3>3
  <2>3. CASE UNCHANGED unit /\ UpdateGoes(c, "asking")
    <3>1. "asking" \in Stages
      BY DEF Stages, InFlight
    <3>2. UpdateShape'
      BY <2>1, <2>3, <3>1, UpdateGoesOn DEF UpdateShape
    <3>3. UnitInv' /\ ToldInv' /\ SpoolInv'
      BY <2>1, <2>3, <3>1, UpdateGoesOn DEF UnitInv, ToldInv, SpoolInv, SinceUnit, UpdateShape
    <3> QED  BY <3>2, <3>3
  <2> QED  BY <1>6, <2>2, <2>3 DEF RunsUnit
<1>7. ASSUME NEW c \in UpdateCalls, ClientDies(c)
      PROVE  UpdateInv'
  <2>1. /\ stopping /\ updates[c].at = "waiting" /\ UpdateGoes(c, "asking") /\ "asking" \in Stages
        /\ MachineStays /\ AlertKept /\ UNCHANGED spool
    BY <1>7 DEF ClientDies, Stages, InFlight
  <2>2. UpdateShape'
    BY <2>1, UpdateGoesOn DEF UpdateShape, MachineStays, AlertKept
  <2>3. \A d \in unit : d \in entered
    BY <2>1 DEF UnitInv, UpdateShape
  <2>4. UnitInv' /\ ToldInv' /\ SpoolInv'
    BY <2>1, <2>3, UpdateGoesOn
       DEF UnitInv, ToldInv, SpoolInv, MachineStays, AlertKept, SinceUnit, UpdateShape
  <2> QED  BY <2>2, <2>4
\* A call that fails late says so, wherever its package is.
<1>8. ASSUME NEW c \in UpdateCalls, updates[c].at \in {"read", "downloaded", "verified", "waiting", "asking"},
             UpdateIs(c, [updates[c] EXCEPT !.at = "failed", !.late = TRUE]), spool' = spool \ {c},
             MachineStays, AlertKept
      PROVE  UpdateInv'
  <2> DEFINE u == [updates[c] EXCEPT !.at = "failed", !.late = TRUE]
  <2>1. /\ u \in Calls /\ UpdateIs(c, u)
        /\ u.at = "failed" /\ u.late /\ u.v = updates[c].v /\ u.intact = updates[c].intact
    <3>1. updates[c] \in Calls
      BY DEF UpdateShape
    <3>2. "failed" \in Stages
      BY DEF Stages, InFlight
    <3> QED  BY <1>8, <3>1, <3>2 DEF Calls
  <2> HIDE DEF u
  <2>2. UpdateShape'
    BY <1>8, <2>1, UpdateMoves DEF UpdateShape, MachineStays, AlertKept
  <2>3. UnitInv' /\ ToldInv' /\ SpoolInv'
    BY <1>8, <2>1, UpdateMoves
       DEF UnitInv, ToldInv, SpoolInv, MachineStays, AlertKept, SinceUnit, UpdateShape
  <2> QED  BY <2>2, <2>3
<1>9. ASSUME NEW c \in UpdateCalls, AsksDpkg(c)
      PROVE  UpdateInv'
  <2>1. updates[c].at = "asking" /\ MachineStays /\ AlertKept /\ spool' = spool \ {c}
    BY <1>9 DEF AsksDpkg, Fails
  <2>2. CASE installed.v = updates[c].v /\ UpdateGoes(c, "done")
    <3>1. "done" \in Stages
      BY DEF Stages
    <3>2. UpdateShape'
      BY <2>1, <2>2, <3>1, UpdateGoesOn DEF UpdateShape, MachineStays, AlertKept
    <3>3. UnitInv' /\ ToldInv' /\ SpoolInv'
      BY <2>1, <2>2, <3>1, UpdateGoesOn
         DEF UnitInv, ToldInv, SpoolInv, MachineStays, AlertKept, SinceUnit, UpdateShape
    <3> QED  BY <3>2, <3>3
  <2>3. CASE installed.v # updates[c].v /\ UpdateGoes(c, "failed")
    <3>1. "failed" \in Stages
      BY DEF Stages, InFlight
    <3>2. UpdateShape'
      BY <2>1, <2>3, <3>1, UpdateGoesOn DEF UpdateShape, MachineStays, AlertKept
    <3>3. UnitInv' /\ ToldInv' /\ SpoolInv'
      BY <2>1, <2>3, <3>1, UpdateGoesOn
         DEF UnitInv, ToldInv, SpoolInv, MachineStays, AlertKept, SinceUnit, UpdateShape
    <3> QED  BY <3>2, <3>3
  <2>4. CASE UpdateIs(c, [updates[c] EXCEPT !.at = "failed", !.late = TRUE])
    BY <1>8, <2>1, <2>4
  <2> QED  BY <1>9, <2>2, <2>3, <2>4 DEF AsksDpkg, Fails
<1>10. ASSUME NEW c \in UpdateCalls, TimesOut(c)
       PROVE  UpdateInv'
  BY <1>8, <1>10 DEF TimesOut
<1>11. ASSUME NEW c \in UpdateCalls, TellsFailure(c)
       PROVE  UpdateInv'
  <2>1. /\ updates[c].at = "failed" /\ UpdateGoes(c, "shown") /\ "shown" \in Stages
        /\ MachineStays /\ UNCHANGED spool
        /\ \/ updateAlert' = TRUE /\ UNCHANGED excused
           \/ excused' = excused \cup {c} /\ UNCHANGED updateAlert
    BY <1>11 DEF TellsFailure, Stages
  <2>2. UpdateShape'
    BY <2>1, UpdateGoesOn DEF UpdateShape, MachineStays
  <2>3. UnitInv' /\ SpoolInv'
    BY <2>1, UpdateGoesOn DEF UnitInv, SpoolInv, MachineStays, SinceUnit, UpdateShape
  <2>4. ToldInv'
    BY <2>1, UpdateGoesOn DEF ToldInv, MachineStays, UpdateShape
  <2> QED  BY <2>2, <2>3, <2>4
<1>12. CASE ReleaseMoves
  <2>1. release' \in [v : Versions, deb : BOOLEAN, sums : BOOLEAN]
    <3>1. release \in [v : Versions, deb : BOOLEAN, sums : BOOLEAN]
      BY DEF UpdateShape
    <3>2. release.v \in 1 .. MaxVersion /\ release.deb \in BOOLEAN /\ release.sums \in BOOLEAN
      BY <3>1 DEF Versions
    <3>3. release.v < MaxVersion => release.v + 1 \in Versions
      BY <3>2, UpdateAssumption DEF Versions
    <3>4. release.v > 1 => release.v - 1 \in Versions
      BY <3>2, UpdateAssumption DEF Versions
    <3>5. CASE release.v < MaxVersion /\ release' = [v |-> release.v + 1, deb |-> FALSE, sums |-> FALSE]
      BY <3>3, <3>5
    <3>6. CASE release.v > 1 /\ release' = AllUp(release.v - 1)
      BY <3>4, <3>6 DEF AllUp
    <3>7. CASE release' = [release EXCEPT !.deb = TRUE] \/ release' = [release EXCEPT !.sums = TRUE]
      BY <3>1, <3>7
    <3> QED  BY <1>12, <3>5, <3>6, <3>7 DEF ReleaseMoves
  <2>2. UNCHANGED <<installed, entered, current, stopping, unit, updates, spool, updateAlert, excused>>
    BY <1>12 DEF ReleaseMoves, AlertKept
  <2> QED  BY <2>1, <2>2 DEF UpdateShape, UnitInv, ToldInv, SpoolInv
<1>13. CASE DpkgFails
  <2>1. PICK c \in unit :
          updates' = [updates EXCEPT ![c].at = IF @ = "waiting" THEN "asking" ELSE @]
    BY <1>13 DEF DpkgFails
  <2>2. c \in UpdateCalls /\ ~ stopping /\ unit' = {}
        /\ UNCHANGED <<release, installed, entered, current, stopping, spool, updateAlert, excused>>
    BY <1>13, <2>1 DEF DpkgFails, UpdateShape, AlertKept
  <2> DEFINE at == IF updates[c].at = "waiting" THEN "asking" ELSE updates[c].at
  <2>3. UpdateGoes(c, at)
    BY <2>1 DEF UpdateGoes, UpdateIs
  <2>4. at \in Stages /\ updates[c].intact
    <3>1. updates[c].at \in Stages
      BY <2>2 DEF UpdateShape, Calls
    <3>2. "asking" \in Stages
      BY DEF Stages, InFlight
    <3> QED  BY <2>1, <2>2, <3>1, <3>2 DEF UnitInv
  <2>5. UpdateShape'
    BY <2>2, <2>3, <2>4, UpdateGoesOn DEF UpdateShape
  <2>6. UnitInv' /\ ToldInv' /\ SpoolInv'
    BY <2>2, <2>3, <2>4, UpdateGoesOn DEF UnitInv, ToldInv, SpoolInv, SinceUnit, UpdateShape
  <2> QED  BY <2>5, <2>6
<1>14. CASE DpkgInstalls
  <2>1. PICK c \in unit : /\ installed' = [v |-> updates[c].v, intact |-> updates[c].intact]
                          /\ entered' = entered \cup {c}
    BY <1>14 DEF DpkgInstalls
  <2>2. /\ c \in UpdateCalls /\ c \notin entered /\ ~ stopping
        /\ UNCHANGED <<release, current, stopping, unit, updates, spool, updateAlert, excused>>
    BY <1>14, <2>1 DEF DpkgInstalls, UpdateShape, AlertKept
  <2>3. installed' \in [v : Versions, intact : BOOLEAN] /\ installed'.v = updates[c].v /\ installed'.intact
    <3>1. updates[c] \in Calls /\ updates[c].intact
      BY <2>2, <2>1 DEF UpdateShape, UnitInv
    <3>2. updates[c].v \in Versions
      BY <2>2, <2>1 DEF UnitInv
    <3> QED  BY <2>1, <3>1, <3>2
  <2>4. UpdateShape'
    BY <2>1, <2>2, <2>3 DEF UpdateShape
  <2>5. UnitInv' /\ SpoolInv'
    BY <2>1, <2>2, <2>3 DEF UnitInv, SpoolInv, UpdateShape
  <2>6. ToldInv'
    BY <2>1, <2>2, <2>3 DEF ToldInv, UpdateShape
  <2> QED  BY <2>4, <2>5, <2>6
<1>15. CASE PackageRestarts
  <2>1. /\ unit \cap entered # {}
        /\ AlertKept /\ UNCHANGED <<release, installed, entered, current>>
    BY <1>15 DEF PackageRestarts
  <2>2. CASE stopping' = TRUE /\ UNCHANGED <<unit, updates, spool>>
    BY <2>1, <2>2 DEF UpdateShape, UnitInv, ToldInv, SpoolInv, AlertKept
  <2>3. ASSUME unit' = {}, UNCHANGED stopping, ~ stopping, NEW c \in unit,
               IF updates[c].at = "waiting" THEN UpdateGoes(c, "done") /\ spool' = spool \ {c}
               ELSE UNCHANGED <<updates, spool>>
        PROVE  UpdateInv'
    <3>1. c \in UpdateCalls /\ c \in entered
      BY <2>1 DEF UpdateShape
    <3>2. CASE UNCHANGED <<updates, spool>>
      BY <2>1, <2>3, <3>2 DEF UpdateShape, UnitInv, ToldInv, SpoolInv, AlertKept
    <3>3. CASE updates[c].at = "waiting" /\ UpdateGoes(c, "done") /\ spool' = spool \ {c}
      <4>1. "done" \in Stages
        BY DEF Stages
      <4>2. UpdateShape'
        BY <2>1, <2>3, <3>1, <3>3, <4>1, UpdateGoesOn DEF UpdateShape, AlertKept
      <4>3. UnitInv' /\ ToldInv' /\ SpoolInv'
        BY <2>1, <2>3, <3>1, <3>3, <4>1, UpdateGoesOn
           DEF UnitInv, ToldInv, SpoolInv, SinceUnit, UpdateShape, AlertKept
      <4> QED  BY <4>2, <4>3
    <3> QED  BY <2>3, <3>2, <3>3
  <2> QED  BY <1>15, <2>2, <2>3 DEF PackageRestarts
<1>16. CASE DismissesAlert
  <2>1. /\ updateAlert' = FALSE /\ excused' = excused \cup {c \in UpdateCalls : updates[c].at = "shown"}
        /\ UNCHANGED <<release, installed, entered, current, stopping, unit, updates, spool>>
    BY <1>16 DEF DismissesAlert, MachineStays
  <2>2. UpdateShape' /\ UnitInv' /\ SpoolInv'
    BY <2>1 DEF UpdateShape, UnitInv, SpoolInv
  <2>3. ToldInv'
    BY <2>1 DEF ToldInv
  <2> QED  BY <2>2, <2>3
<1>17. CASE ServiceRestarts
  <2> DEFINE cut == {c \in UpdateCalls : updates[c].at \in InFlight}
  <2>1. /\ stopping' = FALSE /\ current' = installed.v /\ unit' \in {{}, unit}
        /\ updates' = [c \in UpdateCalls |-> IF c \in cut THEN [updates[c] EXCEPT !.at = "cut"] ELSE updates[c]]
        /\ excused' = excused \cup cut
        /\ UNCHANGED <<release, installed, entered, spool, updateAlert>>
    BY <1>17 DEF ServiceRestarts
  <2>2. \A c \in UpdateCalls : /\ updates'[c] \in Calls
                               /\ updates'[c].v = updates[c].v /\ updates'[c].intact = updates[c].intact
                               /\ updates'[c].late = updates[c].late
                               /\ updates'[c].at = IF c \in cut THEN "cut" ELSE updates[c].at
    <3>1. \A c \in UpdateCalls : updates[c] \in Calls
      BY DEF UpdateShape
    <3>2. "cut" \in Stages
      BY DEF Stages
    <3> QED  BY <2>1, <3>1, <3>2 DEF Calls
  <2>3. UpdateShape'
    <3>1. updates' \in [UpdateCalls -> Calls]
      BY <2>1, <2>2
    <3>2. current' \in Versions
      BY <2>1 DEF UpdateShape
    <3> QED  BY <2>1, <3>1, <3>2 DEF UpdateShape
  <2>4. \A c \in cut : updates[c].at \notin {"none", "refused", "shown", "done", "cut"}
    BY DEF InFlight
  <2>5. \A c \in UpdateCalls \ cut : updates[c].at \in {"none", "refused", "shown", "done", "cut"}
    BY DEF InFlight, UpdateShape, Calls, Stages
  <2>6. UnitInv'
    BY <2>1, <2>2, <2>4, <2>5 DEF UnitInv, SinceUnit, UpdateShape
  <2>7. ToldInv'
    BY <2>1, <2>2, <2>4, <2>5 DEF ToldInv, UpdateShape
  <2>8. SpoolInv'
    BY <2>1, <2>2, <2>4, <2>5 DEF SpoolInv, UpdateShape
  <2> QED  BY <2>3, <2>6, <2>7, <2>8
<1>18. CASE UNCHANGED updateVars
  BY <1>18 DEF updateVars, UpdateShape, UnitInv, ToldInv, SpoolInv
<1> QED
  BY <1>1, <1>3, <1>4, <1>5, <1>6, <1>7, <1>9, <1>10, <1>11, <1>12, <1>13, <1>14, <1>15, <1>16, <1>17, <1>18
     DEF UpdateNext

LEMMA UpdateHolds == UpdateInv => OnlyVerifiedGoesIn /\ UpdateIsTold /\ SpoolIsEmptied
<1> SUFFICES ASSUME UpdateInv PROVE OnlyVerifiedGoesIn /\ UpdateIsTold /\ SpoolIsEmptied
  OBVIOUS
<1>1. UpdateShape /\ UnitInv /\ ToldInv /\ SpoolInv
  BY DEF UpdateInv
<1>2. OnlyVerifiedGoesIn
  BY <1>1 DEF OnlyVerifiedGoesIn, UnitInv
<1>3. UpdateIsTold
  BY <1>1 DEF UpdateIsTold, ToldInv
<1>4. SpoolIsEmptied
  BY <1>1 DEF SpoolIsEmptied, SpoolInv, InFlight
<1> QED  BY <1>2, <1>3, <1>4

-----------------------------------------------------------------------------
(* The captures *)

CaptureStages == {"none", "asked", "refused"} \cup UnderWay \cup Over

Shots == [at : CaptureStages, file : 0 .. CaptureSeconds, keep : BOOLEAN, stopped : BOOLEAN, hasFile : BOOLEAN]

CaptureShape ==
    /\ captures \in [CaptureAsks -> Shots]
    /\ activeCapture \subseteq CaptureAsks /\ \A r, d \in activeCapture : r = d
    /\ second \in 1 .. CaptureSeconds
    /\ pcaps \subseteq 1 .. CaptureSeconds /\ expired \subseteq pcaps /\ strays \subseteq 1 .. CaptureSeconds

\* A capture has a file once it starts, and offers it once it was read.
OfferInv ==
    \A r \in CaptureAsks :
        /\ captures[r].at \in {"none", "asked", "refused"} => captures[r].file = 0 /\ ~ captures[r].hasFile
        /\ captures[r].at \in UnderWay => captures[r].file # 0
        /\ captures[r].hasFile => /\ captures[r].keep /\ captures[r].file # 0
                                  /\ captures[r].at \in {"read", "done", "aborted"}

\* The file that a capture still needs is there, and is not about to be swept.
Needs(r) == captures[r].at \in {"captured", "read"} \/ (r \in activeCapture /\ captures[r].hasFile)

ThereInv ==
    \A r \in CaptureAsks :
        ~ Shared(r) => /\ Needs(r) => captures[r].file \in pcaps
                       /\ captures[r].at \in {"captured", "read"} => captures[r].file \notin expired

\* Each file was asked for, is being read, or was left behind.
AskedFor(f) == \E r \in CaptureAsks :
    captures[r].file = f /\ (captures[r].keep \/ captures[r].at \in {"captured", "read"})

AskedInv == \A f \in pcaps : f \in strays \/ AskedFor(f)

CaptureInv == CaptureShape /\ OfferInv /\ ThereInv /\ AskedInv

LEMMA CaptureStarts == CaptureInit => CaptureInv
<1> SUFFICES ASSUME CaptureInit PROVE CaptureInv
  OBVIOUS
<1>1. /\ \A r \in CaptureAsks : captures[r].at = "none" /\ captures[r].file = 0 /\ ~ captures[r].hasFile
      /\ pcaps = {} /\ activeCapture = {}
  BY DEF CaptureInit, NoCapture
<1>2. CaptureShape
  <2>1. NoCapture \in Shots
    BY CaptureAssumption DEF NoCapture, CaptureStages, Shots
  <2>2. 1 \in 1 .. CaptureSeconds
    BY CaptureAssumption
  <2> QED  BY <2>1, <2>2 DEF CaptureInit, CaptureShape
<1>3. OfferInv /\ ThereInv /\ AskedInv
  BY <1>1 DEF OfferInv, ThereInv, AskedInv, Needs, UnderWay
<1> QED  BY <1>2, <1>3 DEF CaptureInv

\* One request goes on, the others stay where they are.
LEMMA CaptureMoves ==
    ASSUME CaptureShape, NEW r \in CaptureAsks, NEW c \in Shots, Becomes(r, c)
    PROVE  /\ captures' \in [CaptureAsks -> Shots]
           /\ captures'[r] = c
           /\ \A d \in CaptureAsks \ {r} : captures'[d] = captures[d]
BY DEF CaptureShape, Becomes

\* What a request becomes, field by field.
LEMMA ShotFields ==
    ASSUME NEW c \in Shots, NEW at \in CaptureStages
    PROVE  /\ [c EXCEPT !.at = at] \in Shots
           /\ [c EXCEPT !.at = at].at = at /\ [c EXCEPT !.at = at].file = c.file
           /\ [c EXCEPT !.at = at].keep = c.keep /\ [c EXCEPT !.at = at].stopped = c.stopped
           /\ [c EXCEPT !.at = at].hasFile = c.hasFile
BY DEF Shots

\* A file that is needed by more than one request stays so: requests keep the
\* name they have.
NamesStay == \A r \in CaptureAsks : /\ captures[r].at # "none" => captures'[r].at # "none"
                                    /\ captures[r].file # 0 => captures'[r].file = captures[r].file

LEMMA SharedStays ==
    ASSUME NEW d \in CaptureAsks, NamesStay, captures[d].file # 0, Shared(d)
    PROVE  Shared(d)'
BY DEF Shared, NamesStay

LEMMA CaptureStep ==
    ASSUME CaptureInv, [CaptureNext]_captureVars
    PROVE  CaptureInv'
<1> USE DEF CaptureInv
<1>1. ASSUME NEW r \in CaptureAsks, AsksCapture(r)
      PROVE  CaptureInv'
  <2>1. PICK keep \in BOOLEAN : Becomes(r, [NoCapture EXCEPT !.at = "asked", !.keep = keep])
    BY <1>1 DEF AsksCapture
  <2> DEFINE c == [NoCapture EXCEPT !.at = "asked", !.keep = keep]
  <2>2. /\ c \in Shots /\ c.at = "asked" /\ c.file = 0 /\ ~ c.hasFile
        /\ captures[r].at = "none" /\ captures[r].file = 0 /\ captures[r] \in Shots
        /\ UNCHANGED <<activeCapture, second, pcaps, expired, strays>>
    BY <1>1, CaptureAssumption DEF AsksCapture, NoCapture, Shots, CaptureStages, DiskStays, OfferInv, CaptureShape
  <2>3. Becomes(r, c)
    BY <2>1
  <2> HIDE DEF c
  <2>4. CaptureShape'
    BY <2>2, <2>3, CaptureMoves DEF CaptureShape
  <2>5. NamesStay
    BY <2>2, <2>3, CaptureMoves DEF NamesStay
  <2>6. OfferInv'
    BY <2>2, <2>3, CaptureMoves DEF OfferInv, UnderWay
  <2>7. ThereInv'
    <3> SUFFICES ASSUME NEW d \in CaptureAsks, (~ Shared(d))'
                 PROVE  (/\ Needs(d) => captures[d].file \in pcaps
                         /\ captures[d].at \in {"captured", "read"} => captures[d].file \notin expired)'
      BY DEF ThereInv
    <3> QED  BY <2>2, <2>3, <2>5, CaptureMoves, SharedStays DEF ThereInv, OfferInv, Needs, UnderWay
  <2>8. AskedInv'
    BY <2>2, <2>3, CaptureMoves DEF AskedInv, AskedFor, CaptureShape
  <2> QED  BY <2>4, <2>6, <2>7, <2>8
<1>2. ASSUME NEW r \in CaptureAsks, RefusesFilter(r)
      PROVE  CaptureInv'
  <2> DEFINE c == [NoCapture EXCEPT !.at = "refused"]
  <2>1. NoCapture \in Shots /\ second \in 0 .. CaptureSeconds /\ second # 0 /\ "refused" \in CaptureStages
    BY <1>2, CaptureAssumption DEF CaptureShape, CaptureStages, UnderWay, Over, NoCapture, Shots
  <2>2. c \in Shots /\ c.at = "refused" /\ c.file = 0 /\ ~ c.hasFile
    BY <2>1 DEF Shots, NoCapture
  <2>3. /\ captures[r].at = "asked" /\ captures[r].file = 0 /\ ~ captures[r].hasFile
        /\ UNCHANGED <<activeCapture, second, pcaps, expired, strays>>
    BY <1>2 DEF OfferInv, UnderWay, RefusesFilter, DiskStays
  <2>4. Becomes(r, c)
    BY <1>2 DEF RefusesFilter
  <2> HIDE DEF c
  <2>5. CaptureShape'
    BY <2>2, <2>3, <2>4, CaptureMoves DEF CaptureShape
  <2>6. NamesStay
    BY <2>2, <2>3, <2>4, CaptureMoves DEF NamesStay
  <2>7. OfferInv'
    BY <2>2, <2>3, <2>4, CaptureMoves DEF OfferInv, UnderWay
  <2>8. ThereInv'
    <3> SUFFICES ASSUME NEW d \in CaptureAsks, (~ Shared(d))'
                 PROVE  (/\ Needs(d) => captures[d].file \in pcaps
                         /\ captures[d].at \in {"captured", "read"} => captures[d].file \notin expired)'
      BY DEF ThereInv
    <3> QED  BY <2>2, <2>3, <2>4, <2>6, CaptureMoves, SharedStays
             DEF ThereInv, OfferInv, Needs, UnderWay
  <2>9. AskedInv'
    BY <2>2, <2>3, <2>4, CaptureMoves DEF AskedInv, AskedFor, CaptureShape
  <2> QED  BY <2>5, <2>7, <2>8, <2>9
<1>3. ASSUME NEW r \in CaptureAsks, StartsCapture(r)
      PROVE  CaptureInv'
  <2> DEFINE c == [captures[r] EXCEPT !.at = "running", !.file = second]
  <2>1. captures[r] \in Shots /\ second \in 0 .. CaptureSeconds /\ second # 0 /\ "running" \in CaptureStages
    BY <1>3, CaptureAssumption DEF CaptureShape, CaptureStages, UnderWay, Over
  <2>2. c \in Shots /\ c.at = "running" /\ c.file = second /\ second # 0 /\ c.hasFile = captures[r].hasFile
    BY <2>1 DEF Shots
  <2>3. /\ captures[r].at = "asked" /\ captures[r].file = 0 /\ ~ captures[r].hasFile
        /\ activeCapture' = {r} /\ UNCHANGED <<second, pcaps, expired, strays>>
    BY <1>3 DEF OfferInv, UnderWay, StartsCapture, DiskStays
  <2>4. Becomes(r, c)
    BY <1>3 DEF StartsCapture
  <2> HIDE DEF c
  <2>5. CaptureShape'
    BY <2>2, <2>3, <2>4, CaptureMoves DEF CaptureShape
  <2>6. NamesStay
    BY <2>2, <2>3, <2>4, CaptureMoves DEF NamesStay
  <2>7. OfferInv'
    BY <2>2, <2>3, <2>4, CaptureMoves DEF OfferInv, UnderWay
  <2>8. ThereInv'
    <3> SUFFICES ASSUME NEW d \in CaptureAsks, (~ Shared(d))'
                 PROVE  (/\ Needs(d) => captures[d].file \in pcaps
                         /\ captures[d].at \in {"captured", "read"} => captures[d].file \notin expired)'
      BY DEF ThereInv
    <3> QED  BY <2>2, <2>3, <2>4, <2>6, CaptureMoves, SharedStays
             DEF ThereInv, OfferInv, Needs, UnderWay
  <2>9. AskedInv'
    BY <2>2, <2>3, <2>4, CaptureMoves DEF AskedInv, AskedFor, CaptureShape
  <2> QED  BY <2>5, <2>7, <2>8, <2>9
\* The file is there when tcpdump ends, or it is not, or it was not to be kept.
<1>4. ASSUME NEW r \in CaptureAsks, captures[r].at = "running", Becomes(r, [captures[r] EXCEPT !.at = "captured"]),
             pcaps' = pcaps \cup {captures[r].file}, expired' = expired \ {captures[r].file},
             UNCHANGED <<activeCapture, second, strays>>
      PROVE  CaptureInv'
  <2> DEFINE c == [captures[r] EXCEPT !.at = "captured"]
  <2>1. captures[r] \in Shots /\ second \in 0 .. CaptureSeconds /\ second # 0 /\ "captured" \in CaptureStages
    BY <1>4, CaptureAssumption DEF CaptureShape, CaptureStages, UnderWay, Over
  <2>2. c \in Shots /\ c.at = "captured" /\ c.file = captures[r].file /\ c.keep = captures[r].keep
        /\ c.hasFile = captures[r].hasFile
    BY <2>1 DEF Shots
  <2>3. /\ captures[r].at = "running" /\ captures[r].file # 0 /\ ~ captures[r].hasFile
        /\ pcaps' = pcaps \cup {captures[r].file} /\ expired' = expired \ {captures[r].file}
        /\ UNCHANGED <<activeCapture, second, strays>>
    BY <1>4 DEF OfferInv, UnderWay, Becomes
  <2>4. Becomes(r, c)
    BY <1>4 DEF Becomes
  <2> HIDE DEF c
  <2>5. CaptureShape'
    <3>1. captures[r].file \in 1 .. CaptureSeconds
      BY <2>1, <2>3, CaptureAssumption DEF Shots
    <3>2. captures' \in [CaptureAsks -> Shots]
      BY <2>2, <2>4, CaptureMoves
    <3> QED  BY <2>3, <3>1, <3>2 DEF CaptureShape
  <2>6. NamesStay
    BY <2>2, <2>3, <2>4, CaptureMoves DEF NamesStay
  <2>7. OfferInv'
    BY <2>2, <2>3, <2>4, CaptureMoves DEF OfferInv, UnderWay
  <2>8. ThereInv'
    <3> SUFFICES ASSUME NEW d \in CaptureAsks, (~ Shared(d))'
                 PROVE  (/\ Needs(d) => captures[d].file \in pcaps
                         /\ captures[d].at \in {"captured", "read"} => captures[d].file \notin expired)'
      BY DEF ThereInv
    <3> QED  BY <2>2, <2>3, <2>4, <2>6, CaptureMoves, SharedStays
             DEF ThereInv, OfferInv, Needs, UnderWay
  <2>9. AskedInv'
    BY <2>2, <2>3, <2>4, CaptureMoves DEF AskedInv, AskedFor, CaptureShape
  <2> QED  BY <2>5, <2>7, <2>8, <2>9
<1>5. ASSUME NEW r \in CaptureAsks, captures[r].at \in {"running", "read"}, NEW at \in Over, Becomes(r, [captures[r] EXCEPT !.at = at]),
             pcaps' = pcaps \ {captures[r].file}, expired' = expired \ {captures[r].file},
             ~ captures[r].hasFile, UNCHANGED <<activeCapture, second, strays>>
      PROVE  CaptureInv'
  <2> DEFINE c == [captures[r] EXCEPT !.at = at]
  <2>1. captures[r] \in Shots /\ second \in 0 .. CaptureSeconds /\ second # 0 /\ at \in CaptureStages
    BY <1>5, CaptureAssumption DEF CaptureShape, CaptureStages, UnderWay, Over
  <2>2. c \in Shots /\ c.at = at /\ c.file = captures[r].file /\ c.keep = captures[r].keep
        /\ c.hasFile = captures[r].hasFile
    BY <2>1 DEF Shots
  <2>3. /\ captures[r].at \in {"running", "read"} /\ captures[r].file # 0 /\ ~ captures[r].hasFile
        /\ pcaps' = pcaps \ {captures[r].file} /\ expired' = expired \ {captures[r].file}
        /\ at \in {"done", "aborted", "error"} /\ UNCHANGED <<activeCapture, second, strays>>
    BY <1>5 DEF OfferInv, UnderWay, Becomes, Over
  <2>4. Becomes(r, c)
    BY <1>5 DEF Becomes
  <2> HIDE DEF c
  <2>5. CaptureShape'
    BY <2>2, <2>3, <2>4, CaptureMoves DEF CaptureShape
  <2>6. NamesStay
    BY <2>2, <2>3, <2>4, CaptureMoves DEF NamesStay
  <2>7. OfferInv'
    BY <2>2, <2>3, <2>4, CaptureMoves DEF OfferInv, UnderWay
  <2>8. ThereInv'
    <3> SUFFICES ASSUME NEW d \in CaptureAsks, (~ Shared(d))'
                 PROVE  (/\ Needs(d) => captures[d].file \in pcaps
                         /\ captures[d].at \in {"captured", "read"} => captures[d].file \notin expired)'
      BY DEF ThereInv
    <3>1. d # r => captures'[d].file # captures[r].file
      BY <2>2, <2>3, <2>4, CaptureMoves DEF Shared
    <3> QED  BY <2>2, <2>3, <2>4, <2>6, <3>1, CaptureMoves, SharedStays
             DEF ThereInv, OfferInv, Needs, UnderWay
  <2>9. AskedInv'
    BY <2>2, <2>3, <2>4, CaptureMoves DEF AskedInv, AskedFor, CaptureShape
  <2> QED  BY <2>5, <2>7, <2>8, <2>9
<1>6. ASSUME NEW r \in CaptureAsks, CaptureCloses(r)
      PROVE  CaptureInv'
  <2>1. captures[r].at = "running" /\ ~ captures[r].hasFile /\ "error" \in Over
    BY <1>6 DEF CaptureCloses, OfferInv, Over
  <2> QED  BY <1>4, <1>5, <1>6, <2>1 DEF CaptureCloses
<1>7. ASSUME NEW r \in CaptureAsks, captures[r].at = "captured",
             Becomes(r, [captures[r] EXCEPT !.at = "read", !.hasFile = captures[r].keep]),
             UNCHANGED <<activeCapture, second, pcaps, expired, strays>>
      PROVE  CaptureInv'
  <2> DEFINE c == [captures[r] EXCEPT !.at = "read", !.hasFile = captures[r].keep]
  <2>1. captures[r] \in Shots /\ second \in 0 .. CaptureSeconds /\ second # 0 /\ "read" \in CaptureStages
    BY <1>7, CaptureAssumption DEF CaptureShape, CaptureStages, UnderWay, Over
  <2>2. c \in Shots /\ c.at = "read" /\ c.file = captures[r].file /\ c.keep = captures[r].keep
        /\ c.hasFile = captures[r].keep
    BY <2>1 DEF Shots
  <2>3. /\ captures[r].at = "captured" /\ captures[r].file # 0
        /\ UNCHANGED <<activeCapture, second, pcaps, expired, strays>>
    BY <1>7 DEF OfferInv, UnderWay, Becomes
  <2>4. Becomes(r, c)
    BY <1>7 DEF Becomes
  <2> HIDE DEF c
  <2>5. CaptureShape'
    BY <2>2, <2>3, <2>4, CaptureMoves DEF CaptureShape
  <2>6. NamesStay
    BY <2>2, <2>3, <2>4, CaptureMoves DEF NamesStay
  <2>7. OfferInv'
    BY <2>2, <2>3, <2>4, CaptureMoves DEF OfferInv, UnderWay
  <2>8. ThereInv'
    <3> SUFFICES ASSUME NEW d \in CaptureAsks, (~ Shared(d))'
                 PROVE  (/\ Needs(d) => captures[d].file \in pcaps
                         /\ captures[d].at \in {"captured", "read"} => captures[d].file \notin expired)'
      BY DEF ThereInv
    <3> QED  BY <2>2, <2>3, <2>4, <2>6, CaptureMoves, SharedStays
             DEF ThereInv, OfferInv, Needs, UnderWay
  <2>9. AskedInv'
    BY <2>2, <2>3, <2>4, CaptureMoves DEF AskedInv, AskedFor, CaptureShape
  <2> QED  BY <2>5, <2>7, <2>8, <2>9
<1>8. ASSUME NEW r \in CaptureAsks, captures[r].at = "captured", Becomes(r, [captures[r] EXCEPT !.at = "error"]),
             strays' = strays \cup {captures[r].file}, UNCHANGED <<activeCapture, second, pcaps, expired>>
      PROVE  CaptureInv'
  <2> DEFINE c == [captures[r] EXCEPT !.at = "error"]
  <2>1. captures[r] \in Shots /\ second \in 0 .. CaptureSeconds /\ second # 0 /\ "error" \in CaptureStages
    BY <1>8, CaptureAssumption DEF CaptureShape, CaptureStages, UnderWay, Over
  <2>2. c \in Shots /\ c.at = "error" /\ c.file = captures[r].file /\ c.keep = captures[r].keep
        /\ c.hasFile = captures[r].hasFile
    BY <2>1 DEF Shots
  <2>3. /\ captures[r].at = "captured" /\ captures[r].file # 0 /\ ~ captures[r].hasFile
        /\ strays' = strays \cup {captures[r].file} /\ UNCHANGED <<activeCapture, second, pcaps, expired>>
    BY <1>8 DEF OfferInv, UnderWay, Becomes
  <2>4. Becomes(r, c)
    BY <1>8 DEF Becomes
  <2> HIDE DEF c
  <2>5. CaptureShape'
    <3>1. captures[r].file \in 1 .. CaptureSeconds
      BY <2>1, <2>3, CaptureAssumption DEF Shots
    <3>2. captures' \in [CaptureAsks -> Shots]
      BY <2>2, <2>4, CaptureMoves
    <3> QED  BY <2>3, <3>1, <3>2 DEF CaptureShape
  <2>6. NamesStay
    BY <2>2, <2>3, <2>4, CaptureMoves DEF NamesStay
  <2>7. OfferInv'
    BY <2>2, <2>3, <2>4, CaptureMoves DEF OfferInv, UnderWay
  <2>8. ThereInv'
    <3> SUFFICES ASSUME NEW d \in CaptureAsks, (~ Shared(d))'
                 PROVE  (/\ Needs(d) => captures[d].file \in pcaps
                         /\ captures[d].at \in {"captured", "read"} => captures[d].file \notin expired)'
      BY DEF ThereInv
    <3> QED  BY <2>2, <2>3, <2>4, <2>6, CaptureMoves, SharedStays
             DEF ThereInv, OfferInv, Needs, UnderWay
  <2>9. AskedInv'
    BY <2>2, <2>3, <2>4, CaptureMoves DEF AskedInv, AskedFor, CaptureShape
  <2> QED  BY <2>5, <2>7, <2>8, <2>9
<1>9. ASSUME NEW r \in CaptureAsks, ReadsBack(r)
      PROVE  CaptureInv'
  BY <1>7, <1>8, <1>9 DEF ReadsBack
<1>10. ASSUME NEW r \in CaptureAsks, captures[r].at = "read", captures[r].keep, NEW at \in {"done", "aborted"},
             Becomes(r, [captures[r] EXCEPT !.at = at]), UNCHANGED <<activeCapture, second, pcaps, expired, strays>>
      PROVE  CaptureInv'
  <2> DEFINE c == [captures[r] EXCEPT !.at = at]
  <2>1. captures[r] \in Shots /\ second \in 0 .. CaptureSeconds /\ second # 0 /\ at \in CaptureStages
    BY <1>10, CaptureAssumption DEF CaptureShape, CaptureStages, UnderWay, Over
  <2>2. c \in Shots /\ c.at = at /\ c.file = captures[r].file /\ c.keep = captures[r].keep
        /\ c.hasFile = captures[r].hasFile
    BY <2>1 DEF Shots
  <2>3. /\ captures[r].at = "read" /\ captures[r].file # 0 /\ captures[r].keep
        /\ at \in {"done", "aborted"}
        /\ UNCHANGED <<activeCapture, second, pcaps, expired, strays>>
    BY <1>10 DEF OfferInv, UnderWay, Becomes
  <2>4. Becomes(r, c)
    BY <1>10 DEF Becomes
  <2> HIDE DEF c
  <2>5. CaptureShape'
    BY <2>2, <2>3, <2>4, CaptureMoves DEF CaptureShape
  <2>6. NamesStay
    BY <2>2, <2>3, <2>4, CaptureMoves DEF NamesStay
  <2>7. OfferInv'
    <3>1. captures'[r] = c /\ \A d \in CaptureAsks \ {r} : captures'[d] = captures[d]
      BY <2>2, <2>4, CaptureMoves
    <3>2. c.at \notin {"none", "asked", "refused"} /\ c.at \notin UnderWay
          /\ c.keep /\ c.file # 0 /\ c.at \in {"read", "done", "aborted"}
      BY <2>2, <2>3 DEF UnderWay
    <3> QED  BY <3>1, <3>2 DEF OfferInv
  <2>8. ThereInv'
    <3> SUFFICES ASSUME NEW d \in CaptureAsks, (~ Shared(d))'
                 PROVE  (/\ Needs(d) => captures[d].file \in pcaps
                         /\ captures[d].at \in {"captured", "read"} => captures[d].file \notin expired)'
      BY DEF ThereInv
    <3> QED  BY <2>2, <2>3, <2>4, <2>6, CaptureMoves, SharedStays
             DEF ThereInv, OfferInv, Needs, UnderWay
  <2>9. AskedInv'
    <3> SUFFICES ASSUME NEW f \in pcaps, AskedFor(f) PROVE AskedFor(f)'
      BY <2>3 DEF AskedInv
    <3>1. captures'[r] = c /\ \A d \in CaptureAsks \ {r} : captures'[d] = captures[d]
      BY <2>2, <2>4, CaptureMoves
    <3>2. PICK d \in CaptureAsks :
            captures[d].file = f /\ (captures[d].keep \/ captures[d].at \in {"captured", "read"})
      BY DEF AskedFor
    <3>3. captures'[d].file = f /\ (captures'[d].keep \/ captures'[d].at \in {"captured", "read"})
      BY <2>2, <2>3, <3>1, <3>2
    <3> QED  BY <3>3 DEF AskedFor
  <2> QED  BY <2>5, <2>7, <2>8, <2>9
<1>11. ASSUME NEW r \in CaptureAsks, FinishesCapture(r)
       PROVE  CaptureInv'
  <2> DEFINE at == IF captures[r].stopped THEN "aborted" ELSE "done"
  <2>1. captures[r].at = "read" /\ Becomes(r, [captures[r] EXCEPT !.at = at])
        /\ UNCHANGED <<activeCapture, second, strays>>
    BY <1>11 DEF FinishesCapture
  <2>2. at \in {"done", "aborted"} /\ at \in Over
    BY DEF Over
  <2> HIDE DEF at
  <2>3. CASE captures[r].keep
    BY <1>10, <1>11, <2>1, <2>2, <2>3 DEF FinishesCapture
  <2>4. CASE ~ captures[r].keep
    <3>1. ~ captures[r].hasFile
      BY <2>4 DEF OfferInv
    <3> QED  BY <1>5, <1>11, <2>1, <2>2, <2>4, <3>1 DEF FinishesCapture
  <2> QED  BY <2>3, <2>4
<1>12. ASSUME NEW r \in CaptureAsks, captures[r].at = "running", Becomes(r, [captures[r] EXCEPT !.stopped = TRUE]),
              UNCHANGED <<activeCapture, second, pcaps, expired, strays>>
      PROVE  CaptureInv'
  <2> DEFINE c == [captures[r] EXCEPT !.stopped = TRUE]
  <2>1. captures[r] \in Shots /\ second \in 0 .. CaptureSeconds /\ second # 0 /\ "running" \in CaptureStages
    BY <1>12, CaptureAssumption DEF CaptureShape, CaptureStages, UnderWay, Over
  <2>2. c \in Shots /\ c.at = captures[r].at /\ c.file = captures[r].file /\ c.keep = captures[r].keep
        /\ c.hasFile = captures[r].hasFile
    BY <2>1 DEF Shots
  <2>3. /\ captures[r].at = "running" /\ captures[r].file # 0 /\ ~ captures[r].hasFile
        /\ UNCHANGED <<activeCapture, second, pcaps, expired, strays>>
    BY <1>12 DEF OfferInv, UnderWay, Becomes
  <2>4. Becomes(r, c)
    BY <1>12 DEF Becomes
  <2> HIDE DEF c
  <2>5. CaptureShape'
    BY <2>2, <2>3, <2>4, CaptureMoves DEF CaptureShape
  <2>6. NamesStay
    BY <2>2, <2>3, <2>4, CaptureMoves DEF NamesStay
  <2>7. OfferInv'
    BY <2>2, <2>3, <2>4, CaptureMoves DEF OfferInv, UnderWay
  <2>8. ThereInv'
    <3> SUFFICES ASSUME NEW d \in CaptureAsks, (~ Shared(d))'
                 PROVE  (/\ Needs(d) => captures[d].file \in pcaps
                         /\ captures[d].at \in {"captured", "read"} => captures[d].file \notin expired)'
      BY DEF ThereInv
    <3> QED  BY <2>2, <2>3, <2>4, <2>6, CaptureMoves, SharedStays
             DEF ThereInv, OfferInv, Needs, UnderWay
  <2>9. AskedInv'
    BY <2>2, <2>3, <2>4, CaptureMoves DEF AskedInv, AskedFor, CaptureShape
  <2> QED  BY <2>5, <2>7, <2>8, <2>9
<1>13. CASE StopsCapture
  BY <1>12, <1>13 DEF StopsCapture, CaptureShape, DiskStays
<1>14. CASE Sweeps
  <2>1. PICK gone \in SUBSET expired :
          /\ pcaps' = pcaps \ gone /\ expired' = expired \ gone /\ strays' = strays \ gone
          /\ captures' = NotOffered(gone)
    BY <1>14 DEF Sweeps
  <2>2. UNCHANGED <<activeCapture, second>>
    BY <1>14 DEF Sweeps
  <2>3. \A r \in CaptureAsks :
          /\ captures'[r] \in Shots /\ captures'[r].at = captures[r].at
          /\ captures'[r].file = captures[r].file /\ captures'[r].keep = captures[r].keep
          /\ captures'[r].hasFile => captures[r].hasFile
          /\ r \in activeCapture /\ captures[r].file \in gone => ~ captures'[r].hasFile
    <3>1. \A r \in CaptureAsks : captures[r] \in Shots
      BY DEF CaptureShape
    <3> QED  BY <2>1, <3>1 DEF NotOffered, Shots
  <2>4. captures' \in [CaptureAsks -> Shots]
    BY <2>1, <2>3 DEF NotOffered
  <2>5. CaptureShape'
    BY <2>1, <2>2, <2>4 DEF CaptureShape
  <2>6. NamesStay
    BY <2>3 DEF NamesStay
  <2>7. OfferInv'
    BY <2>3 DEF OfferInv
  <2>8. ThereInv'
    <3> SUFFICES ASSUME NEW d \in CaptureAsks, (~ Shared(d))'
                 PROVE  (/\ Needs(d) => captures[d].file \in pcaps
                         /\ captures[d].at \in {"captured", "read"} => captures[d].file \notin expired)'
      BY DEF ThereInv
    <3>1. captures[d].at \in {"captured", "read"} => captures[d].file \notin gone
      BY <2>1, <2>6, SharedStays DEF ThereInv, OfferInv, UnderWay
    <3> QED  BY <2>1, <2>2, <2>3, <2>6, <3>1, SharedStays DEF ThereInv, OfferInv, Needs, UnderWay
  <2>9. AskedInv'
    BY <2>1, <2>3 DEF AskedInv, AskedFor
  <2> QED  BY <2>5, <2>7, <2>8, <2>9
<1>15. CASE HourPasses
  <2>1. PICK f \in pcaps : /\ \A r \in CaptureAsks : captures[r].file = f => captures[r].at \notin UnderWay
                           /\ expired' = expired \cup {f}
    BY <1>15 DEF HourPasses
  <2>2. UNCHANGED <<captures, activeCapture, second, pcaps, strays>>
    BY <1>15 DEF HourPasses
  <2>3. CaptureShape' /\ OfferInv' /\ AskedInv'
    BY <2>1, <2>2 DEF CaptureShape, OfferInv, AskedInv, AskedFor
  <2>4. ThereInv'
    BY <2>1, <2>2 DEF ThereInv, Needs, Shared, UnderWay
  <2> QED  BY <2>3, <2>4
<1>16. CASE SecondPasses
  <2>1. UNCHANGED <<captures, activeCapture, pcaps, expired, strays>>
    BY <1>16 DEF SecondPasses, DiskStays
  <2>2. second' \in 1 .. CaptureSeconds
    BY <1>16, CaptureAssumption DEF SecondPasses, CaptureShape
  <2> QED  BY <2>1, <2>2 DEF CaptureShape, OfferInv, ThereInv, AskedInv, AskedFor, Needs, Shared
<1>17. CASE CaptureRestart
  <2>1. PICK left \in SUBSET {captures[r].file : r \in {d \in CaptureAsks : captures[d].at = "running"}} :
          pcaps' = (pcaps \ expired) \cup left
    BY <1>17 DEF CaptureRestart
  <2>2. /\ captures' = [r \in CaptureAsks |->
                     IF captures[r].at \in {"asked"} \cup UnderWay THEN [NoCapture EXCEPT !.at = "error"]
                     ELSE [captures[r] EXCEPT !.hasFile = FALSE, !.keep = FALSE]]
        /\ expired' = {} /\ strays' = pcaps' /\ activeCapture' = {} /\ UNCHANGED second
    BY <1>17 DEF CaptureRestart
  <2>3. left \subseteq 1 .. CaptureSeconds
    <3>1. \A r \in CaptureAsks : captures[r].at = "running" => captures[r].file \in 1 .. CaptureSeconds
      <4>1. \A r \in CaptureAsks : captures[r].file \in 0 .. CaptureSeconds
        BY DEF CaptureShape, Shots
      <4> QED  BY <4>1, CaptureAssumption DEF OfferInv, UnderWay
    <3> QED  BY <2>1, <3>1
  <2>4. \A r \in CaptureAsks :
          /\ captures'[r] \in Shots /\ ~ captures'[r].hasFile
          /\ captures'[r].at \notin UnderWay
          /\ captures'[r].at \in {"none", "asked", "refused"} => captures'[r].file = 0
    <3>1. \A r \in CaptureAsks : captures[r] \in Shots
      BY DEF CaptureShape
    <3>2. [NoCapture EXCEPT !.at = "error"] \in Shots /\ [NoCapture EXCEPT !.at = "error"].at = "error"
          /\ ~ [NoCapture EXCEPT !.at = "error"].hasFile
      <4>1. 0 \in 0 .. CaptureSeconds /\ "error" \in CaptureStages /\ "none" \in CaptureStages
        BY CaptureAssumption DEF CaptureStages, Over
      <4>2. NoCapture \in Shots /\ ~ NoCapture.hasFile
        BY <4>1 DEF NoCapture, Shots
      <4> QED  BY <4>1, <4>2, ShotFields
    <3>3. ASSUME NEW r \in CaptureAsks
          PROVE  LET c == [captures[r] EXCEPT !.hasFile = FALSE, !.keep = FALSE]
                 IN  c \in Shots /\ ~ c.hasFile /\ c.at = captures[r].at /\ c.file = captures[r].file
      BY <3>1 DEF Shots
    <3> QED  BY <2>2, <3>2, <3>3 DEF OfferInv, UnderWay
  <2>5. CaptureShape'
    <3>1. captures' \in [CaptureAsks -> Shots]
      BY <2>2, <2>4
    <3> QED  BY <2>1, <2>2, <2>3, <3>1 DEF CaptureShape
  <2>6. OfferInv' /\ ThereInv' /\ AskedInv'
    BY <2>2, <2>4 DEF OfferInv, ThereInv, AskedInv, Needs, UnderWay
  <2> QED  BY <2>5, <2>6
<1>18. CASE UNCHANGED captureVars
  BY <1>18 DEF captureVars, CaptureShape, OfferInv, ThereInv, AskedInv, AskedFor, Needs, Shared
<1> QED
  BY <1>1, <1>2, <1>3, <1>6, <1>9, <1>11, <1>13, <1>14, <1>15, <1>16, <1>17, <1>18 DEF CaptureNext

LEMMA CaptureHolds == CaptureInv => OfferedIsThere /\ TemporaryGoes
<1> SUFFICES ASSUME CaptureInv PROVE OfferedIsThere /\ TemporaryGoes
  OBVIOUS
<1>1. CaptureShape /\ OfferInv /\ ThereInv /\ AskedInv
  BY DEF CaptureInv
<1>2. OfferedIsThere
  BY <1>1 DEF OfferedIsThere, ThereInv, Needs, CaptureShape
<1>3. TemporaryGoes
  BY <1>1 DEF TemporaryGoes, AskedInv, AskedFor, UnderWay
<1> QED  BY <1>2, <1>3

-----------------------------------------------------------------------------
(* The merge of a revert: tables in order *)

LEMMA GreatestOf ==
    ASSUME NEW S, IsFiniteSet(S), S # {}, S \subseteq Nat
    PROVE  Max(S) \in S
<1>1. \E x \in S : \A y \in S : x >= y
  <2>1. PICK x \in S : \A y \in S : y <= x
    BY FiniteMax
  <2>2. \A y \in S : x >= y
    BY <2>1
  <2> QED  BY <2>2
<1> QED  BY <1>1 DEF Max

\* A row with a place, or none.
Placed(rows, S) == \A i \in S : rows[i] # Absent => rows[i].pos \in Nat

LEMMA NextPositionIs ==
    ASSUME NEW S, IsFiniteSet(S), NEW rows, DOMAIN rows = S, Placed(rows, S)
    PROVE  NextPosition(rows) \in Nat
<1> DEFINE f == [i \in Present(rows) |-> rows[i].pos + 1]
           ends == {rows[i].pos + 1 : i \in Present(rows)}
<1>1. IsFiniteSet(Present(rows)) /\ Present(rows) \subseteq S
  BY FS_Subset DEF Present
<1>2. ends = {f[i] : i \in Present(rows)}
  OBVIOUS
<1>3. IsFiniteSet(ends)
  <2>1. f \in Surjection(Present(rows), ends)
    BY DEF Surjection
  <2> QED  BY <1>1, <2>1, FS_Surjection
<1>4. IsFiniteSet({0} \cup ends) /\ {0} \cup ends # {} /\ {0} \cup ends \subseteq Nat
  <2>1. IsFiniteSet({0} \cup ends)
    BY <1>3, FS_AddElement
  <2> QED  BY <2>1 DEF Present, Placed
<1> HIDE DEF ends
<1>5. Max({0} \cup ends) \in {0} \cup ends
  BY <1>4, GreatestOf
<1>6. NextPosition(rows) = Max({0} \cup ends)
  BY DEF NextPosition, ends
<1> QED  BY <1>4, <1>5, <1>6

\* How many rows come before one.
LEMMA RankIs ==
    ASSUME NEW S, IsFiniteSet(S), NEW rows, DOMAIN rows = S, NEW i \in S
    PROVE  Rank(rows, i) \in Nat
<1>1. IsFiniteSet({j \in Present(rows) : Before(rows, j, i)})
  BY FS_Subset DEF Present
<1> QED  BY <1>1, FS_CardinalityType DEF Rank

LEMMA RankRises ==
    ASSUME NEW S \in SUBSET Nat, IsFiniteSet(S), NEW rows, DOMAIN rows = S, Placed(rows, S),
           NEW i \in Present(rows), NEW j \in Present(rows), Before(rows, i, j)
    PROVE  Rank(rows, i) < Rank(rows, j)
<1> DEFINE P(k) == {h \in Present(rows) : Before(rows, h, k)}
<1>1. i \in S /\ j \in S /\ \A h \in Present(rows) : h \in Nat /\ rows[h].pos \in Nat
  BY DEF Present, Placed
<1>2. P(i) \subseteq P(j)
  <2>1. \A h \in Present(rows) : Before(rows, h, i) => Before(rows, h, j)
    BY <1>1 DEF Before
  <2> QED  BY <2>1
<1>3. i \in P(j) /\ i \notin P(i)
  BY <1>1 DEF Before
<1>4. IsFiniteSet(P(j))
  BY FS_Subset DEF Present
<1>5. P(i) # P(j)
  BY <1>3
<1> HIDE DEF P
<1>6. Cardinality(P(i)) < Cardinality(P(j))
  <2>1. IsFiniteSet(P(i)) /\ Cardinality(P(i)) <= Cardinality(P(j)) /\ Cardinality(P(i)) # Cardinality(P(j))
    BY <1>2, <1>4, <1>5, FS_Subset
  <2>2. Cardinality(P(i)) \in Nat /\ Cardinality(P(j)) \in Nat
    BY <1>4, <2>1, FS_CardinalityType
  <2> QED  BY <2>1, <2>2
<1> QED  BY <1>6 DEF Rank, P

\* Renumbering keeps the rows, but for their places, and their order.
LEMMA RenumberIs ==
    ASSUME NEW S \in SUBSET Nat, IsFiniteSet(S), NEW rows, DOMAIN rows = S, Placed(rows, S),
           NEW i \in Present(rows), NEW j \in Present(rows), i # j,
           NEW after, DOMAIN after = S, after[i].pos = Rank(rows, i), after[j].pos = Rank(rows, j)
    PROVE  Before(after, i, j) <=> Before(rows, i, j)
<1>1. /\ i \in Nat /\ j \in Nat /\ rows[i].pos \in Nat /\ rows[j].pos \in Nat
      /\ Rank(rows, i) \in Nat /\ Rank(rows, j) \in Nat
  BY RankIs DEF Present, Placed
<1>2. Before(rows, i, j) \/ Before(rows, j, i)
  BY <1>1 DEF Before
<1>3. CASE Before(rows, i, j)
  BY <1>1, <1>3, RankRises DEF Before
<1>4. CASE Before(rows, j, i)
  <2>1. Rank(rows, j) < Rank(rows, i)
    BY <1>4, RankRises
  <2>2. ~ Before(rows, i, j)
    BY <1>1, <1>4 DEF Before
  <2> QED  BY <1>1, <2>1, <2>2 DEF Before
<1> QED  BY <1>2, <1>3, <1>4

-----------------------------------------------------------------------------
(* The merge of a revert: what a target restores *)

GroupTable == [GroupIds -> Group \cup {Absent}]
RuleTable  == [RuleIds -> Rule \cup {Absent}]

LEMMA TableIs ==
    ASSUME NEW t
    PROVE  /\ t \in Tables => t.groups \in GroupTable /\ t.rules \in RuleTable
           /\ t \in Tables => DOMAIN t.groups = GroupIds /\ DOMAIN t.rules = RuleIds
           /\ t \in Tables => Placed(t.groups, GroupIds) /\ Placed(t.rules, RuleIds)
BY DEF Tables, GroupTable, RuleTable, Placed, Group, Rule

\* The same row, wherever it stands.
SameGroup(x, y) == (x = Absent <=> y = Absent) /\ (x # Absent => x.scope = y.scope /\ x.at = y.at)
SameRule(x, y)  == (x = Absent <=> y = Absent) /\ (x # Absent => x.group = y.group /\ x.at = y.at)

SameGroupOrder(t, b, g, h) == Before(t.groups, g, h) <=> Before(b.groups, g, h)
SameRuleOrder(t, b, r, s)  == Before(t.rules, r, s) <=> Before(b.rules, r, s)

\* What is merged from the snapshot b, the outcome a of the window and the
\* tables c of now: rows kept from c, the others and their order from b.
Restores(t, b, a, c) ==
    /\ \A g \in GroupIds : SameGroup(t.groups[g], IF KeepGroup(b, a, c, g) THEN c.groups[g] ELSE b.groups[g])
    /\ \A r \in RuleIds : ~ KeepRule(b, a, c, r) => SameRule(t.rules[r], b.rules[r])
    /\ \A r \in RuleIds : KeepRule(b, a, c, r) =>
          \/ SameRule(t.rules[r], c.rules[r])
          \/ t.rules[r] = Absent /\ c.rules[r] # Absent /\ t.groups[c.rules[r].group] = Absent
    /\ \A g, h \in GroupIds :
          g # h /\ ~ KeepGroup(b, a, c, g) /\ ~ KeepGroup(b, a, c, h)
            /\ b.groups[g] # Absent /\ b.groups[h] # Absent => SameGroupOrder(t, b, g, h)
    /\ \A r, s \in RuleIds :
          r # s /\ ~ KeepRule(b, a, c, r) /\ ~ KeepRule(b, a, c, s)
            /\ b.rules[r] # Absent /\ b.rules[s] # Absent => SameRuleOrder(t, b, r, s)

LEMMA RenumberedGroups ==
    ASSUME NEW rows \in GroupTable
    PROVE  /\ Renumber(rows) \in GroupTable
           /\ \A g \in GroupIds : SameGroup(Renumber(rows)[g], rows[g])
           /\ \A g \in Present(rows) : Renumber(rows)[g].pos = Rank(rows, g)
<1>1. DOMAIN rows = GroupIds
  BY DEF GroupTable
<1>2. ASSUME NEW g \in GroupIds, rows[g] # Absent
      PROVE  /\ [rows[g] EXCEPT !.pos = Rank(rows, g)] \in Group
             /\ [rows[g] EXCEPT !.pos = Rank(rows, g)].scope = rows[g].scope
             /\ [rows[g] EXCEPT !.pos = Rank(rows, g)].at = rows[g].at
             /\ [rows[g] EXCEPT !.pos = Rank(rows, g)].pos = Rank(rows, g)
  <2>1. Rank(rows, g) \in Nat
    BY <1>1, RankIs, MergeAssumption
  <2>2. rows[g] \in Group
    BY <1>2 DEF GroupTable
  <2> QED  BY <2>1, <2>2 DEF Group
<1>3. \A g \in GroupIds : /\ rows[g] = Absent => Renumber(rows)[g] = Absent
                          /\ rows[g] # Absent => Renumber(rows)[g] = [rows[g] EXCEPT !.pos = Rank(rows, g)]
  BY <1>1 DEF Renumber
<1>4. \A g \in GroupIds : rows[g] # Absent => Renumber(rows)[g] \in Group /\ Renumber(rows)[g] # Absent
  BY <1>2, <1>3, AbsentAssumption
<1>5. Renumber(rows) \in GroupTable
  <2>1. Renumber(rows) = [i \in GroupIds |-> Renumber(rows)[i]]
    BY <1>1 DEF Renumber
  <2>2. \A g \in GroupIds : Renumber(rows)[g] \in Group \cup {Absent}
    BY <1>3, <1>4
  <2> QED  BY <2>1, <2>2 DEF GroupTable
<1>6. \A g \in GroupIds : SameGroup(Renumber(rows)[g], rows[g])
  BY <1>2, <1>3, <1>4 DEF SameGroup
<1> QED  BY <1>1, <1>2, <1>3, <1>5, <1>6 DEF Present

LEMMA RenumberedRules ==
    ASSUME NEW rows \in RuleTable
    PROVE  /\ Renumber(rows) \in RuleTable
           /\ \A r \in RuleIds : SameRule(Renumber(rows)[r], rows[r])
           /\ \A r \in Present(rows) : Renumber(rows)[r].pos = Rank(rows, r)
<1>1. DOMAIN rows = RuleIds
  BY DEF RuleTable
<1>2. ASSUME NEW r \in RuleIds, rows[r] # Absent
      PROVE  /\ [rows[r] EXCEPT !.pos = Rank(rows, r)] \in Rule
             /\ [rows[r] EXCEPT !.pos = Rank(rows, r)].group = rows[r].group
             /\ [rows[r] EXCEPT !.pos = Rank(rows, r)].at = rows[r].at
             /\ [rows[r] EXCEPT !.pos = Rank(rows, r)].pos = Rank(rows, r)
  <2>1. Rank(rows, r) \in Nat
    BY <1>1, RankIs, MergeAssumption
  <2>2. rows[r] \in Rule
    BY <1>2 DEF RuleTable
  <2> QED  BY <2>1, <2>2 DEF Rule
<1>3. \A r \in RuleIds : /\ rows[r] = Absent => Renumber(rows)[r] = Absent
                         /\ rows[r] # Absent => Renumber(rows)[r] = [rows[r] EXCEPT !.pos = Rank(rows, r)]
  BY <1>1 DEF Renumber
<1>4. \A r \in RuleIds : rows[r] # Absent => Renumber(rows)[r] \in Rule /\ Renumber(rows)[r] # Absent
  BY <1>2, <1>3, AbsentAssumption
<1>5. Renumber(rows) \in RuleTable
  <2>1. Renumber(rows) = [i \in RuleIds |-> Renumber(rows)[i]]
    BY <1>1 DEF Renumber
  <2>2. \A r \in RuleIds : Renumber(rows)[r] \in Rule \cup {Absent}
    BY <1>3, <1>4
  <2> QED  BY <2>1, <2>2 DEF RuleTable
<1>6. \A r \in RuleIds : SameRule(Renumber(rows)[r], rows[r])
  BY <1>2, <1>3, <1>4 DEF SameRule
<1> QED  BY <1>1, <1>2, <1>3, <1>5, <1>6 DEF Present

\* The target of one revert restores what it was computed from.
LEMMA TargetRestores ==
    ASSUME NEW b \in Tables, NEW a \in Tables, NEW c \in Tables
    PROVE  RevertTarget(b, a, c) \in Tables /\ Restores(RevertTarget(b, a, c), b, a, c)
<1>1. CASE ~ Merged(b, a, c)
  <2>1. RevertTarget(b, a, c) = b
    BY <1>1 DEF RevertTarget
  <2>2. \A g \in GroupIds : ~ KeepGroup(b, a, c, g)
    BY <1>1 DEF Merged
  <2>3. \A r \in RuleIds : ~ KeepRule(b, a, c, r)
    BY <1>1 DEF Merged
  <2> QED  BY <2>1, <2>2, <2>3 DEF Restores, SameGroup, SameRule, SameGroupOrder, SameRuleOrder
<1>2. CASE Merged(b, a, c)
  <2> DEFINE G == MergedGroups(b, a, c)
             R == MergedRules(b, a, c)
             t == [groups |-> Renumber(G), rules |-> Renumber(R)]
  <2>1. RevertTarget(b, a, c) = t
    BY <1>2 DEF RevertTarget
  <2>2. G \in GroupTable /\ \A g \in GroupIds : G[g] = IF KeepGroup(b, a, c, g) THEN c.groups[g] ELSE b.groups[g]
    BY TableIs DEF MergedGroups, GroupTable
  <2>3. \A r \in RuleIds : R[r] = IF ~ KeepRule(b, a, c, r) THEN b.rules[r]
                                  ELSE IF c.rules[r] # Absent /\ G[c.rules[r].group] = Absent THEN Absent
                                  ELSE c.rules[r]
    BY DEF MergedRules
  <2>4. R \in RuleTable
    <3>1. \A r \in RuleIds : R[r] \in Rule \cup {Absent}
      BY <2>3, TableIs DEF RuleTable
    <3>2. R = [r \in RuleIds |-> R[r]]
      BY DEF MergedRules
    <3> HIDE DEF R
    <3> QED  BY <3>1, <3>2 DEF RuleTable
  <2> HIDE DEF G, R
  <2>5. t \in Tables /\ t.groups = Renumber(G) /\ t.rules = Renumber(R)
    <3>1. Renumber(G) \in GroupTable /\ Renumber(R) \in RuleTable
      BY <2>2, <2>4, RenumberedGroups, RenumberedRules
    <3> QED  BY <3>1 DEF Tables, GroupTable, RuleTable
  <2> HIDE DEF t
  <2>6. \A g \in GroupIds : SameGroup(t.groups[g], G[g])
    BY <2>2, <2>5, RenumberedGroups
  <2>7. \A r \in RuleIds : SameRule(t.rules[r], R[r])
    BY <2>4, <2>5, RenumberedRules
  <2>8. \A r \in RuleIds : ~ KeepRule(b, a, c, r) => SameRule(t.rules[r], b.rules[r])
    BY <2>3, <2>7
  <2>9. ASSUME NEW r \in RuleIds, KeepRule(b, a, c, r)
        PROVE  \/ SameRule(t.rules[r], c.rules[r])
               \/ t.rules[r] = Absent /\ c.rules[r] # Absent /\ t.groups[c.rules[r].group] = Absent
    <3>1. CASE c.rules[r] # Absent /\ G[c.rules[r].group] = Absent
      <4>1. c.rules[r].group \in GroupIds
        BY <3>1, TableIs DEF RuleTable, Rule
      <4>2. t.groups[c.rules[r].group] = Absent
        BY <2>6, <3>1, <4>1 DEF SameGroup
      <4>3. t.rules[r] = Absent
        BY <2>3, <2>7, <2>9, <3>1 DEF SameRule
      <4> QED  BY <3>1, <4>2, <4>3
    <3>2. CASE ~ (c.rules[r] # Absent /\ G[c.rules[r].group] = Absent)
      BY <2>3, <2>7, <2>9, <3>2
    <3> QED  BY <3>1, <3>2
  <2>10. ASSUME NEW g \in GroupIds, NEW h \in GroupIds, g # h,
                ~ KeepGroup(b, a, c, g), ~ KeepGroup(b, a, c, h), b.groups[g] # Absent, b.groups[h] # Absent
         PROVE  SameGroupOrder(t, b, g, h)
    <3>1. /\ G[g] = b.groups[g] /\ G[h] = b.groups[h] /\ DOMAIN G = GroupIds /\ Placed(G, GroupIds)
          /\ DOMAIN t.groups = GroupIds
      BY <2>2, <2>5, <2>10, TableIs DEF GroupTable, Placed, Group
    <3>2. g \in Present(G) /\ h \in Present(G)
      BY <2>10, <3>1 DEF Present
    <3>3. t.groups[g].pos = Rank(G, g) /\ t.groups[h].pos = Rank(G, h)
      BY <2>2, <2>5, <3>2, RenumberedGroups
    <3>4. Before(t.groups, g, h) <=> Before(G, g, h)
      BY <2>10, <3>1, <3>2, <3>3, RenumberIs, MergeAssumption
    <3>5. Before(G, g, h) <=> Before(b.groups, g, h)
      BY <3>1 DEF Before
    <3> QED  BY <3>4, <3>5 DEF SameGroupOrder
  <2>11. ASSUME NEW r \in RuleIds, NEW s \in RuleIds, r # s,
                ~ KeepRule(b, a, c, r), ~ KeepRule(b, a, c, s), b.rules[r] # Absent, b.rules[s] # Absent
         PROVE  SameRuleOrder(t, b, r, s)
    <3>1. /\ R[r] = b.rules[r] /\ R[s] = b.rules[s] /\ DOMAIN R = RuleIds /\ Placed(R, RuleIds)
          /\ DOMAIN t.rules = RuleIds
      BY <2>3, <2>4, <2>5, <2>11, TableIs DEF RuleTable, Placed, Rule
    <3>2. r \in Present(R) /\ s \in Present(R)
      BY <2>11, <3>1 DEF Present
    <3>3. t.rules[r].pos = Rank(R, r) /\ t.rules[s].pos = Rank(R, s)
      BY <2>4, <2>5, <3>2, RenumberedRules
    <3>4. Before(t.rules, r, s) <=> Before(R, r, s)
      BY <2>11, <3>1, <3>2, <3>3, RenumberIs, MergeAssumption
    <3>5. Before(R, r, s) <=> Before(b.rules, r, s)
      BY <3>1 DEF Before
    <3> QED  BY <3>4, <3>5 DEF SameRuleOrder
  <2> QED  BY <2>1, <2>2, <2>5, <2>6, <2>8, <2>9, <2>10, <2>11 DEF Restores
<1> QED  BY <1>1, <1>2

\* What decides about the input chain is not changed by a revert that restores.
LEMMA TouchesAgain ==
    ASSUME NEW b \in Tables, NEW a \in Tables, NEW c \in Tables, NEW t \in Tables, Restores(t, b, a, c)
    PROVE  /\ \A g \in GroupIds : KeepGroup(t, a, c, g) <=> KeepGroup(b, a, c, g)
           /\ \A r \in RuleIds : KeepRule(t, a, c, r) => KeepRule(b, a, c, r)
           /\ \A g \in GroupIds : GroupTouchesInput(t, g) <=> GroupTouchesInput(b, g)
           /\ \A r \in RuleIds : RuleTouchesInput(b, r) => RuleTouchesInput(t, r)
<1>1. ASSUME NEW g \in GroupIds
      PROVE  /\ KeepGroup(t, a, c, g) <=> KeepGroup(b, a, c, g)
             /\ GroupTouchesInput(t, g) <=> GroupTouchesInput(b, g)
  <2>1. CASE KeepGroup(b, a, c, g)
    <3>1. SameGroup(t.groups[g], c.groups[g])
      BY <2>1 DEF Restores
    <3> QED  BY <2>1, <3>1 DEF KeepGroup, GroupTouchesInput, SameGroup
  <2>2. CASE ~ KeepGroup(b, a, c, g)
    <3>1. SameGroup(t.groups[g], b.groups[g])
      BY <2>2 DEF Restores
    <3> QED  BY <2>2, <3>1 DEF KeepGroup, GroupTouchesInput, SameGroup
  <2> QED  BY <2>1, <2>2
<1>2. ASSUME NEW r \in RuleIds, RuleTouchesInput(b, r)
      PROVE  RuleTouchesInput(t, r)
  <2>1. ~ KeepRule(b, a, c, r)
    BY <1>2 DEF KeepRule
  <2>2. SameRule(t.rules[r], b.rules[r])
    BY <2>1 DEF Restores
  <2>3. b.rules[r] # Absent /\ b.rules[r].group \in GroupIds /\ GroupTouchesInput(b, b.rules[r].group)
    BY <1>2, TableIs DEF RuleTouchesInput, RuleTable, Rule
  <2>4. t.rules[r] # Absent /\ t.rules[r].group = b.rules[r].group
    BY <2>2, <2>3 DEF SameRule
  <2> QED  BY <1>1, <2>3, <2>4 DEF RuleTouchesInput
<1>3. ASSUME NEW r \in RuleIds, KeepRule(t, a, c, r)
      PROVE  KeepRule(b, a, c, r)
  BY <1>2, <1>3 DEF KeepRule
<1> QED  BY <1>1, <1>2, <1>3

\* A second attempt restores what the first one did.
LEMMA TargetRestoresAgain ==
    ASSUME NEW b \in Tables, NEW a \in Tables, NEW c \in Tables, NEW t \in Tables, Restores(t, b, a, c)
    PROVE  RevertTarget(t, a, c) \in Tables /\ Restores(RevertTarget(t, a, c), b, a, c)
<1> DEFINE u == RevertTarget(t, a, c)
<1>1. u \in Tables /\ Restores(u, t, a, c)
  BY TargetRestores
<1> HIDE DEF u
<1>2. /\ \A g \in GroupIds : KeepGroup(t, a, c, g) <=> KeepGroup(b, a, c, g)
      /\ \A r \in RuleIds : KeepRule(t, a, c, r) => KeepRule(b, a, c, r)
  BY TouchesAgain
<1>3. ASSUME NEW g \in GroupIds
      PROVE  SameGroup(u.groups[g], IF KeepGroup(b, a, c, g) THEN c.groups[g] ELSE b.groups[g])
  <2>1. CASE KeepGroup(b, a, c, g)
    BY <1>1, <1>2, <2>1 DEF Restores
  <2>2. CASE ~ KeepGroup(b, a, c, g)
    <3>1. SameGroup(u.groups[g], t.groups[g]) /\ SameGroup(t.groups[g], b.groups[g])
      BY <1>1, <1>2, <2>2 DEF Restores
    <3> QED  BY <2>2, <3>1 DEF SameGroup
  <2> QED  BY <2>1, <2>2
<1>4. ASSUME NEW r \in RuleIds, ~ KeepRule(b, a, c, r)
      PROVE  SameRule(u.rules[r], b.rules[r])
  <2>1. SameRule(u.rules[r], t.rules[r]) /\ SameRule(t.rules[r], b.rules[r])
    BY <1>1, <1>2, <1>4 DEF Restores
  <2> QED  BY <2>1 DEF SameRule
<1>5. ASSUME NEW g \in GroupIds
      PROVE  t.groups[g] = Absent <=> u.groups[g] = Absent
  <2>1. SameGroup(t.groups[g], IF KeepGroup(b, a, c, g) THEN c.groups[g] ELSE b.groups[g])
    BY DEF Restores
  <2> QED  BY <1>3, <2>1 DEF SameGroup
<1>6. ASSUME NEW r \in RuleIds, KeepRule(b, a, c, r)
      PROVE  \/ SameRule(u.rules[r], c.rules[r])
             \/ u.rules[r] = Absent /\ c.rules[r] # Absent /\ u.groups[c.rules[r].group] = Absent
  <2>1. CASE KeepRule(t, a, c, r)
    BY <1>1, <2>1 DEF Restores
  <2>2. CASE ~ KeepRule(t, a, c, r)
    <3>1. SameRule(u.rules[r], t.rules[r])
      BY <1>1, <2>2 DEF Restores
    <3>2. CASE SameRule(t.rules[r], c.rules[r])
      BY <3>1, <3>2 DEF SameRule
    <3>3. CASE t.rules[r] = Absent /\ c.rules[r] # Absent /\ t.groups[c.rules[r].group] = Absent
      <4>1. c.rules[r].group \in GroupIds
        BY <3>3, TableIs DEF RuleTable, Rule
      <4> QED  BY <1>5, <3>1, <3>3, <4>1 DEF SameRule
    <3> QED  BY <1>6, <3>2, <3>3 DEF Restores
  <2> QED  BY <2>1, <2>2
<1>7. ASSUME NEW g \in GroupIds, NEW h \in GroupIds, g # h,
             ~ KeepGroup(b, a, c, g), ~ KeepGroup(b, a, c, h), b.groups[g] # Absent, b.groups[h] # Absent
      PROVE  SameGroupOrder(u, b, g, h)
  <2>1. SameGroupOrder(t, b, g, h)
    BY <1>7 DEF Restores
  <2>2. t.groups[g] # Absent /\ t.groups[h] # Absent
    BY <1>7 DEF Restores, SameGroup
  <2>3. SameGroupOrder(u, t, g, h)
    BY <1>1, <1>2, <1>7, <2>2 DEF Restores
  <2> QED  BY <2>1, <2>3 DEF SameGroupOrder
<1>8. ASSUME NEW r \in RuleIds, NEW s \in RuleIds, r # s,
             ~ KeepRule(b, a, c, r), ~ KeepRule(b, a, c, s), b.rules[r] # Absent, b.rules[s] # Absent
      PROVE  SameRuleOrder(u, b, r, s)
  <2>1. SameRuleOrder(t, b, r, s)
    BY <1>8 DEF Restores
  <2>2. t.rules[r] # Absent /\ t.rules[s] # Absent
    BY <1>8 DEF Restores, SameRule
  <2>3. SameRuleOrder(u, t, r, s)
    BY <1>1, <1>2, <1>8, <2>2 DEF Restores
  <2> QED  BY <2>1, <2>3 DEF SameRuleOrder
<1>9. Restores(u, b, a, c)
  BY <1>3, <1>4, <1>6, <1>7, <1>8 DEF Restores
<1> QED  BY <1>1, <1>9 DEF u

-----------------------------------------------------------------------------
(* The merge of a revert: who wrote what *)

MergeShape ==
    /\ base \in Tables /\ snapshot \in Tables /\ applied \in Tables /\ db \in Tables
    /\ count \in Nat /\ stage \in {"armed", "written", "target", "again"}
    /\ stage = "armed" => count = 0 /\ others = {} /\ db = base /\ applied = base
    /\ stage # "armed" => count >= 1
    /\ stage \in {"armed", "written"} => snapshot = base

\* What the window left was written at the first mutation, what others wrote later.
WrittenLater ==
    /\ \A g \in GroupIds : applied.groups[g] # Absent => applied.groups[g].at <= 1
    /\ \A r \in RuleIds : applied.rules[r] # Absent => applied.rules[r].at <= 1
    /\ \A g \in GroupIds : <<"group", g>> \in others /\ db.groups[g] # Absent => db.groups[g].at >= 2
    /\ \A r \in RuleIds : <<"rule", r>> \in others /\ db.rules[r] # Absent => db.rules[r].at >= 2

\* What the window took away nobody wrote afterwards.
GoneStays ==
    /\ \A g \in GroupIds : applied.groups[g] = Absent /\ base.groups[g] # Absent
                             => db.groups[g] = Absent /\ <<"group", g>> \notin others
    /\ \A r \in RuleIds : applied.rules[r] = Absent /\ base.rules[r] # Absent
                             => db.rules[r] = Absent /\ <<"rule", r>> \notin others

\* What nobody else wrote is as the window left it, where that was recorded.
UntouchedIsApplied ==
    applied # base =>
      /\ \A g \in GroupIds : <<"group", g>> \notin others => db.groups[g] = applied.groups[g]
      /\ \A r \in RuleIds : <<"rule", r>> \notin others => db.rules[r] = applied.rules[r]

TargetIsMerged == stage \in {"target", "again"} => Restores(snapshot, base, applied, db)

MergeInv == MergeShape /\ WrittenLater /\ GoneStays /\ UntouchedIsApplied /\ TargetIsMerged

LEMMA MergeHolds == MergeInv => InputChainComesBack /\ OthersSurvive /\ WindowIsUndone
<1> SUFFICES ASSUME MergeInv, Reverted
             PROVE  InputChainComesBack /\ OthersSurvive /\ WindowIsUndone
  BY DEF InputChainComesBack, OthersSurvive, WindowIsUndone
<1>1. /\ Restores(Target, base, applied, db) /\ Target \in Tables
      /\ base \in Tables /\ applied \in Tables /\ db \in Tables
  BY DEF Reverted, MergeInv, TargetIsMerged, MergeShape, Target
<1>2. InputChainComesBack
  <2>1. /\ \A g \in GroupIds : GroupTouchesInput(Target, g) <=> GroupTouchesInput(base, g)
        /\ \A r \in RuleIds : RuleTouchesInput(base, r) => RuleTouchesInput(Target, r)
    BY <1>1, TouchesAgain
  <2>2. InputGroups(Target) = InputGroups(base) /\ InputRules(base) \subseteq InputRules(Target)
    BY <2>1 DEF InputGroups, InputRules
  <2>3. \A g \in InputGroups(base) : g \in GroupIds /\ ~ KeepGroup(base, applied, db, g) /\ base.groups[g] # Absent
    BY DEF InputGroups, KeepGroup, GroupTouchesInput
  <2>4. \A r \in InputRules(base) : r \in RuleIds /\ ~ KeepRule(base, applied, db, r) /\ base.rules[r] # Absent
    BY DEF InputRules, KeepRule, RuleTouchesInput
  <2>5. SameOrder(InputGroups(base), base.groups, Target.groups)
    BY <1>1, <2>3 DEF Restores, SameOrder, SameGroupOrder
  <2>6. SameOrder(InputRules(base), base.rules, Target.rules)
    BY <1>1, <2>4 DEF Restores, SameOrder, SameRuleOrder
  <2> QED  BY <2>2, <2>5, <2>6 DEF InputChainComesBack
<1>3. OthersSurvive
  <2>1. ASSUME NEW g \in GroupIds, <<"group", g>> \in others,
               \A t \in {base, applied, db} : ~ GroupTouchesInput(t, g)
        PROVE  IF db.groups[g] = Absent THEN Target.groups[g] = Absent
               ELSE Target.groups[g] # Absent /\ Target.groups[g].at = db.groups[g].at
    <3>1. SameGroup(Target.groups[g], IF KeepGroup(base, applied, db, g) THEN db.groups[g] ELSE base.groups[g])
      BY <1>1 DEF Restores
    <3>2. CASE applied.groups[g] # db.groups[g]
      <4>1. KeepGroup(base, applied, db, g)
        BY <2>1, <3>2 DEF KeepGroup
      <4> QED  BY <3>1, <4>1 DEF SameGroup
    <3>3. CASE applied.groups[g] = db.groups[g]
      <4>1. db.groups[g] = Absent
        <5>1. db.groups[g] # Absent => db.groups[g].at <= 1 /\ db.groups[g].at >= 2 /\ db.groups[g].at \in Nat
          BY <1>1, <2>1, <3>3, TableIs DEF MergeInv, WrittenLater, GroupTable, Group
        <5> QED  BY <5>1
      <4>2. base.groups[g] = Absent
        BY <2>1, <3>3, <4>1 DEF MergeInv, GoneStays
      <4> QED  BY <3>1, <4>1, <4>2 DEF SameGroup
    <3> QED  BY <3>2, <3>3
  <2>2. ASSUME NEW r \in RuleIds, <<"rule", r>> \in others,
               \A t \in {base, applied, db} : ~ RuleTouchesInput(t, r)
        PROVE  \/ Target.rules[r] = Absent
                    /\ (db.rules[r] = Absent \/ Target.groups[db.rules[r].group] = Absent)
               \/ Target.rules[r] # Absent /\ db.rules[r] # Absent
                    /\ Target.rules[r].at = db.rules[r].at
    <3>1. CASE applied.rules[r] # db.rules[r]
      <4>1. KeepRule(base, applied, db, r)
        BY <2>2, <3>1 DEF KeepRule
      <4>2. \/ SameRule(Target.rules[r], db.rules[r])
            \/ Target.rules[r] = Absent /\ db.rules[r] # Absent /\ Target.groups[db.rules[r].group] = Absent
        BY <1>1, <4>1 DEF Restores
      <4> QED  BY <4>2 DEF SameRule
    <3>2. CASE applied.rules[r] = db.rules[r]
      <4>1. db.rules[r] = Absent
        <5>1. db.rules[r] # Absent => db.rules[r].at <= 1 /\ db.rules[r].at >= 2 /\ db.rules[r].at \in Nat
          BY <1>1, <2>2, <3>2, TableIs DEF MergeInv, WrittenLater, RuleTable, Rule
        <5> QED  BY <5>1
      <4>2. base.rules[r] = Absent
        BY <2>2, <3>2, <4>1 DEF MergeInv, GoneStays
      <4>3. ~ KeepRule(base, applied, db, r)
        BY <3>2 DEF KeepRule
      <4>4. SameRule(Target.rules[r], base.rules[r])
        BY <1>1, <4>3 DEF Restores
      <4> QED  BY <4>1, <4>2, <4>4 DEF SameRule
    <3> QED  BY <3>1, <3>2
  <2> QED  BY <2>1, <2>2 DEF OthersSurvive
<1>4. WindowIsUndone
  <2> SUFFICES ASSUME applied # base PROVE WindowIsUndone
    BY DEF WindowIsUndone
  <2>1. ASSUME NEW g \in GroupIds, <<"group", g>> \notin others
        PROVE  SameGroup(Target.groups[g], base.groups[g])
    <3>1. ~ KeepGroup(base, applied, db, g)
      BY <2>1 DEF MergeInv, UntouchedIsApplied, KeepGroup
    <3> QED  BY <1>1, <3>1 DEF Restores
  <2>2. ASSUME NEW r \in RuleIds, <<"rule", r>> \notin others
        PROVE  SameRule(Target.rules[r], base.rules[r])
    <3>1. ~ KeepRule(base, applied, db, r)
      BY <2>2 DEF MergeInv, UntouchedIsApplied, KeepRule
    <3> QED  BY <1>1, <3>1 DEF Restores
  <2> QED  BY <2>1, <2>2 DEF WindowIsUndone, SameGroup, SameRule
<1> QED  BY <1>2, <1>3, <1>4

\* What a mutation leaves: a table, whose new versions are of now and whose new
\* rows were never there.
Fits(o) ==
    /\ o.groups \in GroupTable /\ o.rules \in RuleTable
    /\ \A g \in GroupIds : o.groups[g] # db.groups[g] /\ o.groups[g] # Absent => o.groups[g].at = count + 1
    /\ \A r \in RuleIds : o.rules[r] # db.rules[r] /\ o.rules[r] # Absent => o.rules[r].at = count + 1
    /\ \A g \in GroupIds : db.groups[g] = Absent /\ o.groups[g] # Absent => snapshot.groups[g] = Absent
    /\ \A r \in RuleIds : db.rules[r] = Absent /\ o.rules[r] # Absent => snapshot.rules[r] = Absent

LEMMA FreshIsNew ==
    ASSUME NEW ids \in SUBSET Nat, NEW tables, NEW old \in tables, DOMAIN old = ids, NEW i \in Fresh(ids, tables)
    PROVE  i \in ids /\ old[i] = Absent
<1>1. i \in ids /\ i \in Nat /\ \A j \in Present(old) : j < i
  BY DEF Fresh
<1>2. i \notin Present(old)
  BY <1>1
<1> QED  BY <1>1, <1>2 DEF Present

LEMMA FreshIs ==
    ASSUME MergeShape
    PROVE  /\ \A g \in Fresh(GroupIds, {snapshot.groups, applied.groups, db.groups}) :
                g \in GroupIds /\ snapshot.groups[g] = Absent
           /\ \A r \in Fresh(RuleIds, {snapshot.rules, applied.rules, db.rules}) :
                r \in RuleIds /\ snapshot.rules[r] = Absent
<1>1. /\ DOMAIN snapshot.groups = GroupIds /\ DOMAIN snapshot.rules = RuleIds
      /\ GroupIds \in SUBSET Nat /\ RuleIds \in SUBSET Nat
  BY TableIs, MergeAssumption DEF MergeShape
<1>2. \A g \in Fresh(GroupIds, {snapshot.groups, applied.groups, db.groups}) :
         g \in GroupIds /\ snapshot.groups[g] = Absent
  <2> DEFINE tables == {snapshot.groups, applied.groups, db.groups}
  <2>1. snapshot.groups \in tables
    OBVIOUS
  <2> HIDE DEF tables
  <2>2. \A g \in Fresh(GroupIds, tables) : g \in GroupIds /\ snapshot.groups[g] = Absent
    BY <1>1, <2>1, FreshIsNew
  <2> QED  BY <2>2 DEF tables
<1>3. \A r \in Fresh(RuleIds, {snapshot.rules, applied.rules, db.rules}) :
         r \in RuleIds /\ snapshot.rules[r] = Absent
  <2> DEFINE tables == {snapshot.rules, applied.rules, db.rules}
  <2>1. snapshot.rules \in tables
    OBVIOUS
  <2> HIDE DEF tables
  <2>2. \A r \in Fresh(RuleIds, tables) : r \in RuleIds /\ snapshot.rules[r] = Absent
    BY <1>1, <2>1, FreshIsNew
  <2> QED  BY <2>2 DEF tables
<1> QED  BY <1>2, <1>3

LEMMA GroupsFit ==
    ASSUME MergeShape, NEW kinds, NEW o,
           o \in NewGroups(db) \/ o \in EditedGroups(db, kinds) \/ o \in DeletedGroups(db) \/ o \in ReorderedGroups(db)
    PROVE  Fits(o)
<1>1. /\ db.groups \in GroupTable /\ db.rules \in RuleTable /\ count + 1 \in Nat
      /\ DOMAIN db.groups = GroupIds /\ Placed(db.groups, GroupIds)
      /\ Present(db.groups) = {g \in GroupIds : db.groups[g] # Absent}
  BY TableIs DEF MergeShape, Present
<1>2. CASE o \in NewGroups(db)
  <2>1. PICK e \in Fresh(GroupIds, {snapshot.groups, applied.groups, db.groups}) \X Scopes :
          o = Outcome([db.groups EXCEPT ![e[1]] = [scope |-> e[2], pos |-> NextPosition(db.groups), at |-> count + 1]],
                      db.rules, e[2] = "input")
    BY <1>2 DEF NewGroups
  <2>1a. PICK g, s : g = e[1] /\ s = e[2]
    OBVIOUS
  <2>1b. g \in Fresh(GroupIds, {snapshot.groups, applied.groups, db.groups}) /\ s \in Scopes
    BY <2>1, <2>1a
  <2>2. g \in GroupIds /\ snapshot.groups[g] = Absent
    BY <2>1b, FreshIs
  <2>3. PICK row : row = [scope |-> s, pos |-> NextPosition(db.groups), at |-> count + 1]
    OBVIOUS
  <2>4. row \in Group /\ row.at = count + 1
    BY <1>1, <2>1b, <2>3, NextPositionIs, MergeAssumption DEF Group
  <2>5. o.groups = [db.groups EXCEPT ![g] = row] /\ o.rules = db.rules
    BY <2>1, <2>1a, <2>3 DEF Outcome
  <2> QED  BY <1>1, <2>2, <2>4, <2>5 DEF Fits, GroupTable
<1>3. CASE o \in EditedGroups(db, kinds)
  <2>1. PICK e \in Present(db.groups) \X Scopes :
          o = Outcome([db.groups EXCEPT ![e[1]].scope = e[2], ![e[1]].at = count + 1], db.rules,
                      "input" \in {e[2], db.groups[e[1]].scope})
    BY <1>3 DEF EditedGroups
  <2>2. e[1] \in GroupIds /\ e[2] \in Scopes /\ db.groups[e[1]] \in Group
    BY <1>1, <2>1 DEF GroupTable
  <2>3. PICK row : row = [db.groups[e[1]] EXCEPT !.scope = e[2], !.at = count + 1]
    OBVIOUS
  <2>4. row \in Group /\ row.at = count + 1
    BY <1>1, <2>2, <2>3 DEF Group
  <2>5. o.groups = [db.groups EXCEPT ![e[1]] = row] /\ o.rules = db.rules
    BY <2>1, <2>3 DEF Outcome
  <2>6. db.groups[e[1]] # Absent
    BY <2>2, AbsentAssumption
  <2> QED  BY <1>1, <2>2, <2>4, <2>5, <2>6 DEF Fits, GroupTable
<1>4. CASE o \in DeletedGroups(db)
  <2>1. PICK g \in Present(db.groups) :
          o = Outcome([db.groups EXCEPT ![g] = Absent],
                      [r \in RuleIds |-> IF db.rules[r] # Absent /\ db.rules[r].group = g THEN Absent ELSE db.rules[r]],
                      db.groups[g].scope = "input")
    BY <1>4 DEF DeletedGroups
  <2>2. /\ o.groups = [db.groups EXCEPT ![g] = Absent] /\ o.rules \in [RuleIds -> Rule \cup {Absent}]
        /\ \A r \in RuleIds : o.rules[r] \in {Absent, db.rules[r]}
    BY <1>1, <2>1 DEF Outcome, RuleTable
  <2>3. o.groups \in GroupTable /\ o.rules \in RuleTable
    BY <1>1, <2>2 DEF GroupTable, RuleTable
  <2>4. \A h \in GroupIds : o.groups[h] \in {Absent, db.groups[h]}
    BY <1>1, <2>2 DEF GroupTable
  <2> QED  BY <1>1, <2>2, <2>3, <2>4 DEF Fits
<1>5. CASE o \in ReorderedGroups(db)
  <2>1. PICK order \in Orders(db.groups) :
          o = Outcome(Reordered(db.groups, order), db.rules,
                      \E g \in Present(db.groups) : GroupTouchesInput(db, g) /\ order[g] # Rank(db.groups, g))
    BY <1>5 DEF ReorderedGroups
  <2>2. \A g \in Present(db.groups) : order[g] \in Nat
    <3>1. order \in [Present(db.groups) -> 0 .. Cardinality(Present(db.groups)) - 1]
      BY DEF Orders
    <3>2. Cardinality(Present(db.groups)) \in Nat
      BY <1>1, FS_Subset, FS_CardinalityType, MergeAssumption
    <3> QED  BY <3>1, <3>2
  <2>3. /\ o.rules = db.rules
        /\ o.groups = [g \in GroupIds |-> IF db.groups[g] = Absent THEN Absent
                                          ELSE [db.groups[g] EXCEPT !.pos = order[g], !.at = count + 1]]
    BY <1>1, <2>1 DEF Outcome, Reordered
  <2>4. ASSUME NEW g \in GroupIds, db.groups[g] # Absent
        PROVE  /\ [db.groups[g] EXCEPT !.pos = order[g], !.at = count + 1] \in Group
               /\ [db.groups[g] EXCEPT !.pos = order[g], !.at = count + 1].at = count + 1
    <3>1. db.groups[g] \in Group /\ order[g] \in Nat
      BY <1>1, <2>2, <2>4 DEF GroupTable
    <3> QED  BY <1>1, <3>1 DEF Group
  <2>5. \A g \in GroupIds : /\ o.groups[g] \in Group \cup {Absent}
                            /\ db.groups[g] = Absent => o.groups[g] = Absent
                            /\ db.groups[g] # Absent => o.groups[g].at = count + 1
    BY <2>3, <2>4
  <2>6. o.groups \in GroupTable
    BY <2>3, <2>5 DEF GroupTable
  <2> QED  BY <1>1, <2>3, <2>5, <2>6 DEF Fits
<1> QED  BY <1>2, <1>3, <1>4, <1>5

LEMMA RulesFit ==
    ASSUME MergeShape, NEW kinds, NEW o,
           o \in NewRules(db) \/ o \in EditedRules(db, kinds) \/ o \in DeletedRules(db) \/ o \in ReorderedRules(db)
    PROVE  Fits(o)
<1>1. /\ db.groups \in GroupTable /\ db.rules \in RuleTable /\ count + 1 \in Nat
      /\ DOMAIN db.rules = RuleIds /\ Placed(db.rules, RuleIds) /\ DOMAIN db.groups = GroupIds
      /\ Present(db.rules) = {r \in RuleIds : db.rules[r] # Absent} /\ Present(db.groups) \subseteq GroupIds
  BY TableIs DEF MergeShape, Present
<1>2. CASE o \in NewRules(db)
  <2>1. PICK e \in Fresh(RuleIds, {snapshot.rules, applied.rules, db.rules}) \X (Present(db.groups) \ {System}) :
          o = Outcome(db.groups,
                      [db.rules EXCEPT ![e[1]] = [group |-> e[2], pos |-> NextPosition(db.rules), at |-> count + 1]],
                      GroupTouchesInput(db, e[2]))
    BY <1>2 DEF NewRules
  <2>1a. PICK r, g : r = e[1] /\ g = e[2]
    OBVIOUS
  <2>1b. r \in Fresh(RuleIds, {snapshot.rules, applied.rules, db.rules}) /\ g \in Present(db.groups)
    BY <2>1, <2>1a
  <2>2. r \in RuleIds /\ snapshot.rules[r] = Absent
    BY <2>1b, FreshIs
  <2>3. PICK row : row = [group |-> g, pos |-> NextPosition(db.rules), at |-> count + 1]
    OBVIOUS
  <2>4. row \in Rule /\ row.at = count + 1
    BY <1>1, <2>1b, <2>3, NextPositionIs, MergeAssumption DEF Rule
  <2>5. o.rules = [db.rules EXCEPT ![r] = row] /\ o.groups = db.groups
    BY <2>1, <2>1a, <2>3 DEF Outcome
  <2> QED  BY <1>1, <2>2, <2>4, <2>5 DEF Fits, RuleTable
<1>3. CASE o \in EditedRules(db, kinds)
  <2>1. PICK e \in Present(db.rules) \X Present(db.groups) :
          o = Outcome(db.groups, [db.rules EXCEPT ![e[1]].group = e[2], ![e[1]].at = count + 1],
                      RuleTouchesInput(db, e[1]) \/ GroupTouchesInput(db, e[2]))
    BY <1>3 DEF EditedRules
  <2>2. e[1] \in RuleIds /\ e[2] \in GroupIds /\ db.rules[e[1]] \in Rule
    BY <1>1, <2>1 DEF RuleTable
  <2>3. PICK row : row = [db.rules[e[1]] EXCEPT !.group = e[2], !.at = count + 1]
    OBVIOUS
  <2>4. row \in Rule /\ row.at = count + 1
    BY <1>1, <2>2, <2>3 DEF Rule
  <2>5. o.rules = [db.rules EXCEPT ![e[1]] = row] /\ o.groups = db.groups
    BY <2>1, <2>3 DEF Outcome
  <2>6. db.rules[e[1]] # Absent
    BY <2>2, AbsentAssumption
  <2> QED  BY <1>1, <2>2, <2>4, <2>5, <2>6 DEF Fits, RuleTable
<1>4. CASE o \in DeletedRules(db)
  <2>1. PICK r \in Present(db.rules) :
          o = Outcome(db.groups, [db.rules EXCEPT ![r] = Absent], RuleTouchesInput(db, r))
    BY <1>4 DEF DeletedRules
  <2>2. o.rules = [db.rules EXCEPT ![r] = Absent] /\ o.groups = db.groups
    BY <2>1 DEF Outcome
  <2> QED  BY <1>1, <2>1, <2>2 DEF Fits, RuleTable
<1>5. CASE o \in ReorderedRules(db)
  <2>1. PICK order \in Orders(db.rules) :
          o = Outcome(db.groups, Reordered(db.rules, order),
                      \E r \in Present(db.rules) : RuleTouchesInput(db, r) /\ order[r] # Rank(db.rules, r))
    BY <1>5 DEF ReorderedRules
  <2>2. \A r \in Present(db.rules) : order[r] \in Nat
    <3>1. order \in [Present(db.rules) -> 0 .. Cardinality(Present(db.rules)) - 1]
      BY DEF Orders
    <3>2. Cardinality(Present(db.rules)) \in Nat
      BY <1>1, FS_Subset, FS_CardinalityType, MergeAssumption
    <3> QED  BY <3>1, <3>2
  <2>3. /\ o.groups = db.groups
        /\ o.rules = [r \in RuleIds |-> IF db.rules[r] = Absent THEN Absent
                                        ELSE [db.rules[r] EXCEPT !.pos = order[r], !.at = count + 1]]
    BY <1>1, <2>1 DEF Outcome, Reordered
  <2>4. ASSUME NEW r \in RuleIds, db.rules[r] # Absent
        PROVE  /\ [db.rules[r] EXCEPT !.pos = order[r], !.at = count + 1] \in Rule
               /\ [db.rules[r] EXCEPT !.pos = order[r], !.at = count + 1].at = count + 1
    <3>1. db.rules[r] \in Rule /\ order[r] \in Nat
      BY <1>1, <2>2, <2>4 DEF RuleTable
    <3> QED  BY <1>1, <3>1 DEF Rule
  <2>5. \A r \in RuleIds : /\ o.rules[r] \in Rule \cup {Absent}
                           /\ db.rules[r] = Absent => o.rules[r] = Absent
                           /\ db.rules[r] # Absent => o.rules[r].at = count + 1
    BY <2>3, <2>4
  <2>6. o.rules \in RuleTable
    BY <2>3, <2>5 DEF RuleTable
  <2> QED  BY <1>1, <2>3, <2>5, <2>6 DEF Fits
<1> QED  BY <1>2, <1>3, <1>4, <1>5

LEMMA OutcomesFit ==
    ASSUME MergeShape, NEW kinds, NEW o \in Outcomes(db, kinds)
    PROVE  Fits(o)
<1>1. \/ o \in NewGroups(db) \/ o \in EditedGroups(db, kinds) \/ o \in DeletedGroups(db) \/ o \in ReorderedGroups(db)
      \/ o \in NewRules(db) \/ o \in EditedRules(db, kinds) \/ o \in DeletedRules(db) \/ o \in ReorderedRules(db)
  BY DEF Outcomes
<1> QED  BY <1>1, GroupsFit, RulesFit

\* What a mutation writes is newer than what the window left, and nobody gives
\* again the id of a row that was there before the window.
LEMMA MutationLeaves ==
    ASSUME MergeShape, NEW kinds, NEW o \in Outcomes(db, kinds), db' = [groups |-> o.groups, rules |-> o.rules]
    PROVE  /\ db' \in Tables
           /\ \A g \in GroupIds : db'.groups[g] # db.groups[g] /\ db'.groups[g] # Absent => db'.groups[g].at = count + 1
           /\ \A r \in RuleIds : db'.rules[r] # db.rules[r] /\ db'.rules[r] # Absent => db'.rules[r].at = count + 1
           /\ \A g \in GroupIds : db.groups[g] = Absent /\ db'.groups[g] # Absent => snapshot.groups[g] = Absent
           /\ \A r \in RuleIds : db.rules[r] = Absent /\ db'.rules[r] # Absent => snapshot.rules[r] = Absent
<1>1. Fits(o)
  BY OutcomesFit
<1>2. db'.groups = o.groups /\ db'.rules = o.rules
  OBVIOUS
<1>3. db' \in Tables
  BY <1>1 DEF Fits, GroupTable, RuleTable, Tables
<1> QED  BY <1>1, <1>2, <1>3 DEF Fits

LEMMA MergeStarts == Init => MergeInv
<1> SUFFICES ASSUME Init
             PROVE  MergeInv
  OBVIOUS
<1>1. /\ db.groups \in [GroupIds -> [scope : Scopes, pos : 0 .. MaxPosition, at : {0}] \cup {Absent}]
      /\ db.rules \in [RuleIds -> [group : GroupIds, pos : 0 .. MaxPosition, at : {0}] \cup {Absent}]
      /\ db = [groups |-> db.groups, rules |-> db.rules]
  BY DEF Init, InitTables
<1>2. /\ \A g \in GroupIds : db.groups[g] \in Group \cup {Absent} /\ (db.groups[g] # Absent => db.groups[g].at = 0)
      /\ \A r \in RuleIds : db.rules[r] \in Rule \cup {Absent} /\ (db.rules[r] # Absent => db.rules[r].at = 0)
  BY <1>1, MergeAssumption DEF Group, Rule
<1>3. db \in Tables
  <2>1. db.groups \in [GroupIds -> Group \cup {Absent}] /\ db.rules \in [RuleIds -> Rule \cup {Absent}]
    BY <1>1, <1>2
  <2> QED  BY <1>1, <2>1 DEF Tables
<1>4. MergeShape
  BY <1>3 DEF Init, MergeShape
<1>5. WrittenLater
  BY <1>2 DEF Init, WrittenLater
<1> QED  BY <1>4, <1>5 DEF Init, MergeInv, GoneStays, UntouchedIsApplied, TargetIsMerged

LEMMA MergeStep ==
    ASSUME MergeInv, [Next]_vars
    PROVE  MergeInv'
<1> USE DEF MergeInv
<1>1. CASE WindowMutation
  <2>1. PICK o \in Outcomes(db, WindowKinds) : db' = [groups |-> o.groups, rules |-> o.rules]
    BY <1>1 DEF WindowMutation
  <2>2. /\ stage = "armed" /\ count = 0 /\ others = {} /\ db = base /\ snapshot = base /\ applied = base
        /\ applied' \in {db', base} /\ count' = 1 /\ stage' = "written"
        /\ snapshot' = base /\ base' = base /\ others' = {}
    BY <1>1 DEF WindowMutation, MergeShape
  <2>3. /\ db' \in Tables
        /\ \A g \in GroupIds : db'.groups[g] # db.groups[g] /\ db'.groups[g] # Absent => db'.groups[g].at = 1
        /\ \A r \in RuleIds : db'.rules[r] # db.rules[r] /\ db'.rules[r] # Absent => db'.rules[r].at = 1
    BY <2>1, <2>2, MutationLeaves
  <2>4. /\ \A g \in GroupIds : base.groups[g] # Absent => base.groups[g].at <= 1
        /\ \A r \in RuleIds : base.rules[r] # Absent => base.rules[r].at <= 1
    BY <2>2 DEF WrittenLater
  <2>5. MergeShape'
    BY <2>2, <2>3 DEF MergeShape
  <2>6. WrittenLater'
    <3>1. /\ \A g \in GroupIds : db'.groups[g] # Absent => db'.groups[g].at <= 1
          /\ \A r \in RuleIds : db'.rules[r] # Absent => db'.rules[r].at <= 1
      BY <2>2, <2>3, <2>4
    <3> QED  BY <2>2, <2>4, <3>1 DEF WrittenLater
  <2>7. GoneStays' /\ UntouchedIsApplied' /\ TargetIsMerged'
    BY <2>2 DEF GoneStays, UntouchedIsApplied, TargetIsMerged
  <2> QED  BY <2>5, <2>6, <2>7
<1>2. CASE OtherMutation
  <2>1. PICK o \in Outcomes(db, OtherKinds) : db' = [groups |-> o.groups, rules |-> o.rules]
    BY <1>2 DEF OtherMutation
  <2>2. /\ stage = "written" /\ count \in Nat /\ count >= 1 /\ count' = count + 1 /\ stage' = "written"
        /\ snapshot = base /\ snapshot' = snapshot /\ base' = base /\ applied' = applied
        /\ others' = others \cup Written(db, db')
    BY <1>2 DEF OtherMutation, MergeShape
  <2>3. /\ db' \in Tables
        /\ \A g \in GroupIds : db'.groups[g] # db.groups[g] /\ db'.groups[g] # Absent => db'.groups[g].at = count + 1
        /\ \A r \in RuleIds : db'.rules[r] # db.rules[r] /\ db'.rules[r] # Absent => db'.rules[r].at = count + 1
        /\ \A g \in GroupIds : db.groups[g] = Absent /\ db'.groups[g] # Absent => base.groups[g] = Absent
        /\ \A r \in RuleIds : db.rules[r] = Absent /\ db'.rules[r] # Absent => base.rules[r] = Absent
    BY <2>1, <2>2, MutationLeaves
  <2>4. /\ \A g \in GroupIds : <<"group", g>> \in others' <=>
              <<"group", g>> \in others \/ db'.groups[g] # db.groups[g]
        /\ \A r \in RuleIds : <<"rule", r>> \in others' <=>
              <<"rule", r>> \in others \/ db'.rules[r] # db.rules[r]
    BY <2>2 DEF Written
  <2>5. MergeShape'
    BY <2>2, <2>3 DEF MergeShape
  <2>6. WrittenLater'
    <3>1. \A g \in GroupIds : <<"group", g>> \in others' /\ db'.groups[g] # Absent => db'.groups[g].at >= 2
      BY <2>2, <2>3, <2>4 DEF WrittenLater
    <3>2. \A r \in RuleIds : <<"rule", r>> \in others' /\ db'.rules[r] # Absent => db'.rules[r].at >= 2
      BY <2>2, <2>3, <2>4 DEF WrittenLater
    <3> QED  BY <2>2, <3>1, <3>2 DEF WrittenLater
  <2>7. GoneStays'
    BY <2>2, <2>3, <2>4 DEF GoneStays
  <2>8. UntouchedIsApplied'
    BY <2>2, <2>4 DEF UntouchedIsApplied
  <2>9. TargetIsMerged'
    BY <2>2 DEF TargetIsMerged
  <2> QED  BY <2>5, <2>6, <2>7, <2>8, <2>9
<1>3. ASSUME stage' \in {"target", "again"}, snapshot' = RevertTarget(snapshot, applied, db),
             UNCHANGED <<applied, db, base, others, count>>, stage # "armed",
             RevertTarget(snapshot, applied, db) \in Tables,
             Restores(RevertTarget(snapshot, applied, db), base, applied, db)
      PROVE  MergeInv'
  <2>1. MergeShape'
    BY <1>3 DEF MergeShape
  <2>2. WrittenLater' /\ GoneStays' /\ UntouchedIsApplied'
    BY <1>3 DEF WrittenLater, GoneStays, UntouchedIsApplied
  <2>3. TargetIsMerged'
    BY <1>3 DEF TargetIsMerged
  <2> QED  BY <2>1, <2>2, <2>3
<1>4. CASE PrepareRevert
  <2>1. snapshot = base /\ base \in Tables /\ applied \in Tables /\ db \in Tables
    BY <1>4 DEF PrepareRevert, MergeShape
  <2> QED  BY <1>3, <1>4, <2>1, TargetRestores DEF PrepareRevert
<1>5. CASE PrepareAgain
  <2>1. /\ Restores(snapshot, base, applied, db) /\ snapshot \in Tables
        /\ base \in Tables /\ applied \in Tables /\ db \in Tables
    BY <1>5 DEF PrepareAgain, MergeShape, TargetIsMerged
  <2> QED  BY <1>3, <1>5, <2>1, TargetRestoresAgain DEF PrepareAgain
<1>6. CASE UNCHANGED vars
  BY <1>6 DEF vars, MergeShape, WrittenLater, GoneStays, UntouchedIsApplied, TargetIsMerged
<1> QED  BY <1>1, <1>2, <1>4, <1>5, <1>6 DEF Next

-----------------------------------------------------------------------------
(* The backup and its restores *)

Runs == [ran : BOOLEAN, ok : BOOLEAN, due : BOOLEAN]
Confs == [schedule : BOOLEAN, lastRun : Runs, rest : SUBSET Entries]
SendStages == {"idle", "wait", "read", "seal", "left", "recorded"}
Sendings == [at : SendStages, prev : Runs, key : {"none", "ours"}, got : SUBSET Confs, ok : BOOLEAN,
             before : SUBSET Entries]
Files == [key : {"none", "ours", "theirs"}, settings : Confs, lists : SUBSET Entries, before : SUBSET Entries]
Tries == [count : Nat, locked : BOOLEAN]
Restorings == [at : {"idle", "asked", "trying", "applying"}, user : RestoreUsers \cup {"nobody"},
               file : SUBSET Files, right : BOOLEAN]

BackupShape ==
    /\ conf \in Confs /\ savedLists \subseteq Entries /\ passphrase \in {"none", "ours"}
    /\ lgbak \subseteq Files /\ backupAlert \in BOOLEAN
    /\ sending \in [Senders -> Sendings]
    /\ restoreTries \in [RestoreUsers -> Tries]
    /\ restoring \in [RestoreCalls -> Restorings]
    /\ \A c \in RestoreCalls : restoring[c].at # "idle" => restoring[c].user \in RestoreUsers
    /\ wrongTries \in [RestoreUsers -> Nat]

\* What was tried since the count was cleared is what was counted, and nobody
\* tries under a lock: the calls of a user take turns.
InTurn(c) == restoring[c].at \in {"trying", "applying"}

LimitInv ==
    /\ \A u \in RestoreUsers :
         /\ restoreTries[u].locked => restoreTries[u].count = 0 /\ wrongTries[u] <= MaxRestoreAttempts
         /\ ~ restoreTries[u].locked => /\ wrongTries[u] = restoreTries[u].count
                                        /\ restoreTries[u].count < MaxRestoreAttempts
    /\ \A c \in RestoreCalls : restoring[c].at = "trying" => ~ restoreTries[restoring[c].user].locked
    /\ \A c, d \in RestoreCalls : InTurn(c) /\ InTurn(d) /\ restoring[c].user = restoring[d].user => c = d

\* The run that holds mu, and what it knows of the run before it.
Runners == Senders \ {"download"}
Running(s) == sending[s].at \in {"read", "seal", "left", "recorded"}

AlertInv ==
    /\ \A s, t \in Runners : Running(s) /\ Running(t) => s = t
    /\ alertMishap = {} =>
         /\ (\A s \in Runners : sending[s].at # "recorded") => backupAlert = LastRunFailed
         /\ \A s \in Runners :
              /\ sending[s].at \in {"read", "seal", "left"} => /\ sending[s].prev.ran = conf.lastRun.ran
                                                               /\ sending[s].prev.ok = conf.lastRun.ok
              /\ sending[s].at = "recorded" => /\ conf.lastRun.ran /\ conf.lastRun.ok = sending[s].ok
                                               /\ backupAlert = (sending[s].prev.ran /\ ~ sending[s].prev.ok)

\* What was saved when a backup was asked for is saved still, and read.
HoldInv ==
    /\ BackupHoldsWhatWasSaved
    /\ \A s \in Senders :
         /\ sending[s].at \in {"wait", "read"} => sending[s].before \subseteq SavedByNow
         /\ sending[s].at = "seal" => \A t \in sending[s].got : sending[s].before \subseteq t.rest \cup savedLists

\* A download is no run: it waits for nobody and leaves no result.
DownloadInv == sending["download"].at \in {"idle", "read", "seal"}

BackupInv == BackupShape /\ LimitInv /\ AlertInv /\ HoldInv /\ DownloadInv

LEMMA NeverRanIs == NeverRan \in Runs /\ NotSending \in Sendings /\ \A ok \in BOOLEAN : Ran(ok) \in Runs
BY DEF NeverRan, Ran, NotSending, Runs, Sendings, SendStages

LEMMA BackupStarts == BackupInit => BackupInv
<1> SUFFICES ASSUME BackupInit
             PROVE  BackupInv
  OBVIOUS
<1>1. conf \in Confs /\ savedLists \subseteq Entries
  BY NeverRanIs DEF BackupInit, Confs, Entries
<1>2. lgbak \subseteq Files /\ BackupHoldsWhatWasSaved
  <2>1. PICK ok \in BOOLEAN :
          lgbak = {BackupFile("theirs", [schedule |-> TRUE, lastRun |-> Ran(ok), rest |-> {"away"}], {"away"}, {})}
    BY DEF BackupInit
  <2>2. [schedule |-> TRUE, lastRun |-> Ran(ok), rest |-> {"away"}] \in Confs
    BY NeverRanIs DEF Confs, Entries
  <2>3. BackupFile("theirs", [schedule |-> TRUE, lastRun |-> Ran(ok), rest |-> {"away"}], {"away"}, {}) \in Files
    BY <2>2 DEF BackupFile, Files, Entries
  <2> QED  BY <2>1, <2>3 DEF BackupFile, BackupHoldsWhatWasSaved
<1>3. BackupShape
  <2>1. sending \in [Senders -> Sendings]
    BY NeverRanIs DEF BackupInit
  <2>2. restoreTries \in [RestoreUsers -> Tries] /\ wrongTries \in [RestoreUsers -> Nat]
    BY DEF BackupInit, NoTries, Tries
  <2>3. restoring \in [RestoreCalls -> Restorings] /\ \A c \in RestoreCalls : restoring[c].at = "idle"
    BY DEF BackupInit, NotRestoring, Restorings
  <2> QED  BY <1>1, <1>2, <2>1, <2>2, <2>3 DEF BackupInit, BackupShape
<1>4. LimitInv
  BY BackupAssumption DEF BackupInit, LimitInv, NoTries, NotRestoring, InTurn
<1>5. AlertInv
  BY DEF BackupInit, AlertInv, NotSending, Running, LastRunFailed, NeverRan, Runners
<1>6. HoldInv
  BY <1>2 DEF BackupInit, HoldInv, NotSending
<1>7. DownloadInv
  BY DEF BackupInit, DownloadInv, NotSending, Senders
<1> QED  BY <1>3, <1>4, <1>5, <1>6, <1>7 DEF BackupInv

LEMMA BackupHolds == BackupInv => BackupHoldsWhatWasSaved /\ BackupFailureIsShown /\ TriesAreBounded
<1> SUFFICES ASSUME BackupInv
             PROVE  BackupHoldsWhatWasSaved /\ BackupFailureIsShown /\ TriesAreBounded
  OBVIOUS
<1>1. BackupHoldsWhatWasSaved
  BY DEF BackupInv, HoldInv
<1>2. BackupFailureIsShown
  BY DEF BackupInv, AlertInv, BackupFailureIsShown, NoRun, Runners
<1>3. TriesAreBounded
  BY BackupAssumption DEF BackupInv, LimitInv, BackupShape, Tries, TriesAreBounded
<1> QED  BY <1>1, <1>2, <1>3

\* One backup goes on, the others stay where they are.
LEMMA SendMoves ==
    ASSUME BackupShape, NEW s \in Senders, NEW x \in Sendings, sending' = [sending EXCEPT ![s] = x]
    PROVE  /\ sending' \in [Senders -> Sendings]
           /\ sending'[s] = x
           /\ \A t \in Senders \ {s} : sending'[t] = sending[t]
BY DEF BackupShape

\* What each step makes of the backup it is about.
LEMMA SendGoes ==
    ASSUME BackupShape, NEW s \in Senders
    PROVE  /\ StartsBackup(s) => \E x \in Sendings :
                /\ sending' = [sending EXCEPT ![s] = x] /\ sending[s].at = "idle"
                /\ x.at = (IF s = "download" THEN "read" ELSE "wait") /\ x.before = SavedByNow
           /\ ReadsLastRun(s) => \E x \in Sendings :
                /\ sending' = [sending EXCEPT ![s] = x] /\ sending[s].at = "wait" /\ NoRun
                /\ x.at = "read" /\ x.before = sending[s].before /\ x.prev = conf.lastRun
           /\ ReadsSettings(s) => \E x \in Sendings :
                /\ sending' = [sending EXCEPT ![s] = x] /\ sending[s].at = "read"
                /\ \/ x.at = "seal" /\ x.before = sending[s].before /\ x.prev = sending[s].prev /\ x.got = {conf}
                   \/ s = "download" /\ x.at = "idle"
                   \/ s # "download" /\ x.at = "left" /\ x.prev = sending[s].prev
           /\ Leaves(s) => \E x \in Sendings :
                /\ sending' = [sending EXCEPT ![s] = x] /\ sending[s].at = "seal"
                /\ \/ s = "download" /\ x.at = "idle"
                   \/ s # "download" /\ x.at = "left" /\ x.prev = sending[s].prev
           /\ RecordsRun(s) => \E x \in Sendings :
                /\ sending' = [sending EXCEPT ![s] = x] /\ sending[s].at = "left"
                /\ x.at = "recorded" /\ x.prev = sending[s].prev /\ x.ok = sending[s].ok
           /\ TellsRun(s) => \E x \in Sendings :
                /\ sending' = [sending EXCEPT ![s] = x] /\ sending[s].at = "recorded" /\ x.at = "idle"
<1> DEFINE y == sending[s]
<1>1. /\ y \in Sendings /\ conf \in Confs /\ conf.lastRun \in Runs /\ SavedByNow \in SUBSET Entries
      /\ passphrase \in {"none", "ours"} /\ NotSending \in Sendings
  BY NeverRanIs DEF BackupShape, SavedByNow, Confs
<1>2. ASSUME StartsBackup(s)
      PROVE  \E x \in Sendings : /\ sending' = [sending EXCEPT ![s] = x] /\ sending[s].at = "idle"
                                 /\ x.at = (IF s = "download" THEN "read" ELSE "wait") /\ x.before = SavedByNow
  <2> DEFINE x == [y EXCEPT !.at = IF s = "download" THEN "read" ELSE "wait", !.before = SavedByNow]
  <2>1. x \in Sendings /\ x.at = (IF s = "download" THEN "read" ELSE "wait") /\ x.before = SavedByNow
    BY <1>1 DEF Sendings, SendStages
  <2>2. sending' = [sending EXCEPT ![s] = x] /\ sending[s].at = "idle"
    BY <1>2 DEF StartsBackup
  <2> QED  BY <2>1, <2>2
<1>3. ASSUME ReadsLastRun(s)
      PROVE  \E x \in Sendings : /\ sending' = [sending EXCEPT ![s] = x] /\ sending[s].at = "wait" /\ NoRun
                                 /\ x.at = "read" /\ x.before = sending[s].before /\ x.prev = conf.lastRun
  <2> DEFINE x == [y EXCEPT !.at = "read", !.prev = conf.lastRun]
  <2>1. x \in Sendings /\ x.at = "read" /\ x.before = y.before /\ x.prev = conf.lastRun
    BY <1>1 DEF Sendings, SendStages
  <2>2. sending' = [sending EXCEPT ![s] = x] /\ sending[s].at = "wait" /\ NoRun
    BY <1>3 DEF ReadsLastRun, MuIsFree
  <2> QED  BY <2>1, <2>2
<1>4. ASSUME NEW ok \in BOOLEAN, EndsSnapshot(s, ok)
      PROVE  \E x \in Sendings : /\ sending' = [sending EXCEPT ![s] = x]
                                 /\ \/ s = "download" /\ x.at = "idle"
                                    \/ s # "download" /\ x.at = "left" /\ x.prev = sending[s].prev
  <2> DEFINE x == IF s = "download" THEN NotSending ELSE [NotSending EXCEPT !.at = "left", !.prev = y.prev, !.ok = ok]
  <2>1. x \in Sendings /\ (s = "download" => x.at = "idle") /\ (s # "download" => x.at = "left" /\ x.prev = y.prev)
    BY <1>1 DEF Sendings, SendStages, NotSending
  <2>2. sending' = [sending EXCEPT ![s] = x]
    BY <1>4 DEF EndsSnapshot
  <2> QED  BY <2>1, <2>2
<1>5. ASSUME ReadsSettings(s)
      PROVE  \E x \in Sendings :
                /\ sending' = [sending EXCEPT ![s] = x] /\ sending[s].at = "read"
                /\ \/ x.at = "seal" /\ x.before = sending[s].before /\ x.prev = sending[s].prev /\ x.got = {conf}
                   \/ s = "download" /\ x.at = "idle"
                   \/ s # "download" /\ x.at = "left" /\ x.prev = sending[s].prev
  <2>1. sending[s].at = "read"
    BY <1>5 DEF ReadsSettings
  <2>2. CASE sending' = [sending EXCEPT ![s].at = "seal", ![s].key = passphrase, ![s].got = {conf}]
    <3> DEFINE x == [y EXCEPT !.at = "seal", !.key = passphrase, !.got = {conf}]
    <3>1. x \in Sendings /\ x.at = "seal" /\ x.before = y.before /\ x.prev = y.prev /\ x.got = {conf}
      BY <1>1 DEF Sendings, SendStages
    <3>2. sending' = [sending EXCEPT ![s] = x]
      BY <2>2
    <3> QED  BY <2>1, <3>1, <3>2
  <2> QED  BY <1>4, <1>5, <2>1, <2>2 DEF ReadsSettings
<1>6. ASSUME Leaves(s)
      PROVE  \E x \in Sendings :
                /\ sending' = [sending EXCEPT ![s] = x] /\ sending[s].at = "seal"
                /\ \/ s = "download" /\ x.at = "idle"
                   \/ s # "download" /\ x.at = "left" /\ x.prev = sending[s].prev
  BY <1>4, <1>6 DEF Leaves
<1>7. ASSUME RecordsRun(s)
      PROVE  \E x \in Sendings : /\ sending' = [sending EXCEPT ![s] = x] /\ sending[s].at = "left"
                                 /\ x.at = "recorded" /\ x.prev = sending[s].prev /\ x.ok = sending[s].ok
  <2> DEFINE x == [y EXCEPT !.at = "recorded"]
  <2>1. x \in Sendings /\ x.at = "recorded" /\ x.prev = y.prev /\ x.ok = y.ok
    BY <1>1 DEF Sendings, SendStages
  <2>2. sending' = [sending EXCEPT ![s] = x] /\ sending[s].at = "left"
    BY <1>7 DEF RecordsRun
  <2> QED  BY <2>1, <2>2
<1>8. ASSUME TellsRun(s)
      PROVE  \E x \in Sendings : sending' = [sending EXCEPT ![s] = x] /\ sending[s].at = "recorded" /\ x.at = "idle"
  <2>1. sending' = [sending EXCEPT ![s] = NotSending] /\ sending[s].at = "recorded"
    BY <1>8 DEF TellsRun
  <2> QED  BY <1>1, <2>1 DEF NotSending
<1> QED  BY <1>2, <1>3, <1>5, <1>6, <1>7, <1>8

\* A restore goes on, the others stay.
LEMMA RestoreMoves ==
    ASSUME BackupShape, NEW c \in RestoreCalls, NEW x \in Restorings, restoring' = [restoring EXCEPT ![c] = x],
           x.at # "idle" => x.user \in RestoreUsers
    PROVE  /\ restoring' \in [RestoreCalls -> Restorings] /\ restoring'[c] = x
           /\ \A d \in RestoreCalls \ {c} : restoring'[d] = restoring[d]
           /\ \A d \in RestoreCalls : restoring'[d].at # "idle" => restoring'[d].user \in RestoreUsers
BY DEF BackupShape

\* What each step makes of the restore it is about.
LEMMA RestoreGoes ==
    ASSUME BackupShape, NEW c \in RestoreCalls
    PROVE  /\ AsksRestore(c) => \E x \in Restorings :
                /\ restoring' = [restoring EXCEPT ![c] = x] /\ restoring[c].at = "idle"
                /\ x.at = "asked" /\ x.user \in RestoreUsers
           /\ TakesRestoreTurn(c) => \E x \in Restorings :
                /\ restoring' = [restoring EXCEPT ![c] = x] /\ restoring[c].at = "asked" /\ HasTurn(c)
                /\ \/ x.at = "idle"
                   \/ x.at = "trying" /\ x.user = restoring[c].user /\ ~ restoreTries[x.user].locked
           /\ Decrypts(c) => \E x \in Restorings :
                /\ restoring' = [restoring EXCEPT ![c] = x] /\ restoring[c].at = "trying"
                /\ \/ x.at = "idle"
                   \/ x.at = "applying" /\ x.user = restoring[c].user
           /\ RefusesRestore(c) \/ AppliesRestore(c) => \E x \in Restorings :
                /\ restoring' = [restoring EXCEPT ![c] = x] /\ restoring[c].at = "applying" /\ x.at = "idle"
<1> DEFINE y == restoring[c]
<1>1. y \in Restorings /\ NotRestoring \in Restorings /\ NotRestoring.at = "idle"
  BY DEF BackupShape, NotRestoring, Restorings
<1>2. ASSUME AsksRestore(c)
      PROVE  \E x \in Restorings : /\ restoring' = [restoring EXCEPT ![c] = x] /\ restoring[c].at = "idle"
                                   /\ x.at = "asked" /\ x.user \in RestoreUsers
  <2>1. PICK u \in RestoreUsers, f \in lgbak, right \in BOOLEAN :
          restoring' = [restoring EXCEPT ![c] = [at |-> "asked", user |-> u, file |-> {f}, right |-> right]]
    BY <1>2 DEF AsksRestore
  <2>2. [at |-> "asked", user |-> u, file |-> {f}, right |-> right] \in Restorings
    BY DEF BackupShape, Restorings
  <2> QED  BY <1>2, <2>1, <2>2 DEF AsksRestore
<1>3. \A at \in {"trying", "applying"} :
         [y EXCEPT !.at = at] \in Restorings /\ [y EXCEPT !.at = at].at = at /\ [y EXCEPT !.at = at].user = y.user
  BY <1>1 DEF Restorings
<1>4. ASSUME TakesRestoreTurn(c)
      PROVE  \E x \in Restorings :
                /\ restoring' = [restoring EXCEPT ![c] = x] /\ restoring[c].at = "asked" /\ HasTurn(c)
                /\ \/ x.at = "idle"
                   \/ x.at = "trying" /\ x.user = restoring[c].user /\ ~ restoreTries[x.user].locked
  <2>1. restoring[c].at = "asked" /\ HasTurn(c)
    BY <1>4 DEF TakesRestoreTurn
  <2>2. CASE restoreTries[y.user].locked
    <3>1. restoring' = [restoring EXCEPT ![c] = NotRestoring]
      BY <1>4, <2>2 DEF TakesRestoreTurn
    <3> QED  BY <1>1, <2>1, <3>1
  <2>3. CASE ~ restoreTries[y.user].locked
    <3>1. restoring' = [restoring EXCEPT ![c] = [y EXCEPT !.at = "trying"]]
      BY <1>4, <2>3 DEF TakesRestoreTurn
    <3> QED  BY <1>3, <2>1, <2>3, <3>1
  <2> QED  BY <2>2, <2>3
<1>5. ASSUME Decrypts(c)
      PROVE  \E x \in Restorings : /\ restoring' = [restoring EXCEPT ![c] = x] /\ restoring[c].at = "trying"
                                   /\ \/ x.at = "idle"
                                      \/ x.at = "applying" /\ x.user = restoring[c].user
  <2>1. \/ restoring' = [restoring EXCEPT ![c] = [y EXCEPT !.at = "applying"]]
        \/ restoring' = [restoring EXCEPT ![c] = NotRestoring]
    BY <1>5 DEF Decrypts
  <2> QED  BY <1>1, <1>3, <1>5, <2>1 DEF Decrypts
<1>6. ASSUME RefusesRestore(c) \/ AppliesRestore(c)
      PROVE  \E x \in Restorings : /\ restoring' = [restoring EXCEPT ![c] = x] /\ restoring[c].at = "applying"
                                   /\ x.at = "idle"
  BY <1>1, <1>6 DEF RefusesRestore, AppliesRestore
<1> QED  BY <1>2, <1>4, <1>5, <1>6

\* The settings keep their shape, what is saved grows only, and the last run
\* changes with its record and with a restore only.
LEMMA ConfGoes ==
    ASSUME BackupShape, BackupNext
    PROVE  /\ conf' \in Confs /\ savedLists' \subseteq Entries /\ passphrase' \in {"none", "ours"}
           /\ conf.rest \subseteq conf'.rest /\ savedLists \subseteq savedLists'
<1>1. /\ conf \in Confs /\ conf.rest \subseteq Entries /\ conf.schedule \in BOOLEAN
      /\ conf.lastRun \in Runs /\ savedLists \subseteq Entries /\ passphrase \in {"none", "ours"}
  BY DEF BackupShape, Confs
<1>2. ASSUME NEW s \in Senders, RecordsRun(s)
      PROVE  /\ conf' \in Confs /\ savedLists' \subseteq Entries /\ passphrase' \in {"none", "ours"}
             /\ conf.rest \subseteq conf'.rest /\ savedLists \subseteq savedLists'
  <2>1. Ran(sending[s].ok) \in Runs
    BY NeverRanIs DEF BackupShape, Sendings
  <2>2. [conf EXCEPT !.lastRun = Ran(sending[s].ok)] \in Confs
        /\ [conf EXCEPT !.lastRun = Ran(sending[s].ok)].rest = conf.rest
    BY <1>1, <2>1 DEF Confs
  <2>3. conf' = [conf EXCEPT !.lastRun = Ran(sending[s].ok)] \/ conf' = conf
    BY <1>2 DEF RecordsRun
  <2> QED  BY <1>1, <1>2, <2>2, <2>3 DEF RecordsRun
<1>3. ASSUME NEW c \in RestoreCalls, AppliesRestore(c)
      PROVE  /\ conf' \in Confs /\ savedLists' \subseteq Entries /\ passphrase' \in {"none", "ours"}
             /\ conf.rest \subseteq conf'.rest /\ savedLists \subseteq savedLists'
  <2>1. PICK f \in restoring[c].file : /\ conf' = [f.settings EXCEPT !.rest = conf.rest \cup f.settings.rest]
                                       /\ savedLists' = savedLists \cup f.lists
    BY <1>3 DEF AppliesRestore
  <2>2. f \in Files
    BY DEF BackupShape, Restorings
  <2>3. f.settings \in Confs /\ f.settings.rest \subseteq Entries /\ f.lists \subseteq Entries
    BY <2>2 DEF Files, Confs
  <2>4. conf' \in Confs /\ conf'.rest = conf.rest \cup f.settings.rest
    BY <1>1, <2>1, <2>3 DEF Confs
  <2> QED  BY <1>1, <1>3, <2>1, <2>3, <2>4 DEF AppliesRestore
<1>4. ASSUME AdminSaves
      PROVE  /\ conf' \in Confs /\ savedLists' \subseteq Entries /\ passphrase' \in {"none", "ours"}
             /\ conf.rest \subseteq conf'.rest /\ savedLists \subseteq savedLists'
  <2>1. /\ [conf EXCEPT !.schedule = ~@] \in Confs /\ [conf EXCEPT !.schedule = ~@].rest = conf.rest
        /\ [conf EXCEPT !.rest = @ \cup {"later"}] \in Confs
        /\ [conf EXCEPT !.rest = @ \cup {"later"}].rest = conf.rest \cup {"later"}
    BY <1>1 DEF Confs, Entries
  <2>2. "later" \in Entries
    BY DEF Entries
  <2> QED  BY <1>1, <1>4, <2>1, <2>2 DEF AdminSaves
<1>5. ASSUME IntervalPasses
      PROVE  /\ conf' \in Confs /\ savedLists' \subseteq Entries /\ passphrase' \in {"none", "ours"}
             /\ conf.rest \subseteq conf'.rest /\ savedLists \subseteq savedLists'
  <2>1. [conf.lastRun EXCEPT !.due = TRUE] \in Runs
    BY <1>1 DEF Runs
  <2>2. conf' = [conf EXCEPT !.lastRun = [conf.lastRun EXCEPT !.due = TRUE]]
    BY <1>5 DEF IntervalPasses
  <2>3. conf' \in Confs /\ conf'.rest = conf.rest
    BY <1>1, <2>1, <2>2 DEF Confs
  <2> QED  BY <1>1, <1>5, <2>3 DEF IntervalPasses
<1>6. CASE UNCHANGED <<conf, savedLists, passphrase>>
  BY <1>1, <1>6
<1> QED  BY <1>2, <1>3, <1>4, <1>5, <1>6
         DEF BackupNext, StartsBackup, ReadsLastRun, ReadsSettings, Leaves, TellsRun, AsksRestore, TakesRestoreTurn,
             Decrypts, RefusesRestore, LockPasses, BackupRestart, ConfStays

LEMMA BackupShapeStep ==
    ASSUME BackupInv, BackupNext
    PROVE  BackupShape'
<1>1. BackupShape
  BY DEF BackupInv
<1>2. conf' \in Confs /\ savedLists' \subseteq Entries /\ passphrase' \in {"none", "ours"}
  BY <1>1, ConfGoes
<1>3. lgbak' \subseteq Files
  <2>1. ASSUME NEW s \in Senders, Leaves(s)
        PROVE  lgbak' \subseteq Files
    <3>1. /\ sending[s].got \subseteq Confs /\ sending[s].key \in {"none", "ours"} /\ sending[s].before \subseteq Entries
          /\ lgbak \subseteq Files /\ savedLists \subseteq Entries
      BY <1>1 DEF BackupShape, Sendings
    <3>2. \A settings \in sending[s].got : BackupFile(sending[s].key, settings, savedLists, sending[s].before) \in Files
      BY <3>1 DEF BackupFile, Files
    <3>3. lgbak' = lgbak \/ \E f \in Files : lgbak' = {g \in lgbak : g.key = "theirs"} \cup {f}
      BY <2>1, <3>2 DEF Leaves
    <3> QED  BY <3>1, <3>3
  <2>2. CASE UNCHANGED lgbak
    BY <1>1, <2>2 DEF BackupShape
  <2> QED  BY <2>1, <2>2
           DEF BackupNext, StartsBackup, ReadsLastRun, ReadsSettings, RecordsRun, TellsRun, AsksRestore,
               TakesRestoreTurn, Decrypts, RefusesRestore, AppliesRestore, LockPasses, AdminSaves, IntervalPasses,
               BackupRestart
<1>4. backupAlert' \in BOOLEAN
  <2>1. ASSUME NEW s \in Senders, TellsRun(s)
        PROVE  backupAlert' \in BOOLEAN
    <3>1. sending[s].ok \in BOOLEAN /\ backupAlert \in BOOLEAN
      BY <1>1 DEF BackupShape, Sendings
    <3> QED  BY <2>1, <3>1 DEF TellsRun
  <2>2. CASE backupAlert' \in {backupAlert, FALSE}
    BY <1>1, <2>2 DEF BackupShape
  <2> QED  BY <2>1, <2>2
           DEF BackupNext, StartsBackup, ReadsLastRun, ReadsSettings, Leaves, RecordsRun, AsksRestore,
               TakesRestoreTurn, Decrypts, RefusesRestore, AppliesRestore, LockPasses, AdminSaves, IntervalPasses,
               BackupRestart, AlertStays
<1>5. sending' \in [Senders -> Sendings]
  <2>1. ASSUME NEW s \in Senders,
               StartsBackup(s) \/ ReadsLastRun(s) \/ ReadsSettings(s) \/ Leaves(s) \/ RecordsRun(s) \/ TellsRun(s)
        PROVE  sending' \in [Senders -> Sendings]
    <3>1. PICK x \in Sendings : sending' = [sending EXCEPT ![s] = x]
      BY <1>1, <2>1, SendGoes
    <3> QED  BY <1>1, <3>1, SendMoves
  <2>2. CASE sending' = sending \/ sending' = [s \in Senders |-> NotSending]
    BY <1>1, <2>2, NeverRanIs DEF BackupShape
  <2> QED  BY <2>1, <2>2
           DEF BackupNext, AsksRestore, TakesRestoreTurn, Decrypts, RefusesRestore, AppliesRestore, LockPasses,
               AdminSaves, IntervalPasses, BackupRestart
<1>6. /\ restoring' \in [RestoreCalls -> Restorings]
      /\ \A c \in RestoreCalls : restoring'[c].at # "idle" => restoring'[c].user \in RestoreUsers
  <2>1. ASSUME NEW c \in RestoreCalls,
               AsksRestore(c) \/ TakesRestoreTurn(c) \/ Decrypts(c) \/ RefusesRestore(c) \/ AppliesRestore(c)
        PROVE  /\ restoring' \in [RestoreCalls -> Restorings]
               /\ \A d \in RestoreCalls : restoring'[d].at # "idle" => restoring'[d].user \in RestoreUsers
    <3>1. restoring[c].at # "idle" => restoring[c].user \in RestoreUsers
      BY <1>1 DEF BackupShape
    <3>2. PICK x \in Restorings : /\ restoring' = [restoring EXCEPT ![c] = x]
                                  /\ x.at # "idle" => x.user \in RestoreUsers
      BY <1>1, <2>1, <3>1, RestoreGoes
    <3> QED  BY <1>1, <3>2, RestoreMoves
  <2>2. CASE restoring' = restoring \/ restoring' = [c \in RestoreCalls |-> NotRestoring]
    <3>1. NotRestoring \in Restorings /\ NotRestoring.at = "idle"
      BY DEF NotRestoring, Restorings
    <3>2. CASE restoring' = restoring
      BY <1>1, <3>2 DEF BackupShape
    <3>3. CASE restoring' = [c \in RestoreCalls |-> NotRestoring]
      BY <3>1, <3>3
    <3> QED  BY <2>2, <3>2, <3>3
  <2> QED  BY <2>1, <2>2
           DEF BackupNext, StartsBackup, ReadsLastRun, ReadsSettings, Leaves, RecordsRun, TellsRun, LockPasses,
               AdminSaves, IntervalPasses, BackupRestart, LimiterStays
<1>7. restoreTries' \in [RestoreUsers -> Tries] /\ wrongTries' \in [RestoreUsers -> Nat]
  <2>1. ASSUME NEW c \in RestoreCalls, Decrypts(c)
        PROVE  restoreTries' \in [RestoreUsers -> Tries] /\ wrongTries' \in [RestoreUsers -> Nat]
    <3>1. restoring[c].user \in RestoreUsers /\ restoreTries[restoring[c].user] \in Tries
      BY <1>1, <2>1 DEF BackupShape, Decrypts
    <3>2. Counted(restoreTries[restoring[c].user]) \in Tries /\ [count |-> 0, locked |-> FALSE] \in Tries
      BY <3>1 DEF Counted, Tries
    <3> QED  BY <1>1, <2>1, <3>1, <3>2 DEF BackupShape, Decrypts
  <2>2. ASSUME NEW u \in RestoreUsers, LockPasses(u)
        PROVE  restoreTries' \in [RestoreUsers -> Tries] /\ wrongTries' \in [RestoreUsers -> Nat]
    <3>1. [restoreTries[u] EXCEPT !.locked = FALSE] \in Tries
      BY <1>1 DEF BackupShape, Tries
    <3>2. restoreTries' = [restoreTries EXCEPT ![u] = [restoreTries[u] EXCEPT !.locked = FALSE]]
      BY <2>2 DEF LockPasses
    <3> QED  BY <1>1, <2>2, <3>1, <3>2 DEF BackupShape, LockPasses
  <2>3. CASE UNCHANGED <<restoreTries, wrongTries>>
    BY <1>1, <2>3 DEF BackupShape
  <2>4. CASE BackupRestart
    BY <2>4 DEF BackupRestart, NoTries, Tries
  <2> QED  BY <2>1, <2>2, <2>3, <2>4
           DEF BackupNext, StartsBackup, ReadsLastRun, ReadsSettings, Leaves, RecordsRun, TellsRun, AsksRestore,
               TakesRestoreTurn, RefusesRestore, AppliesRestore, AdminSaves, IntervalPasses, LimiterStays
<1> QED  BY <1>2, <1>3, <1>4, <1>5, <1>6, <1>7 DEF BackupShape

LEMMA LimitStep ==
    ASSUME BackupInv, BackupNext
    PROVE  LimitInv'
<1>1. BackupShape /\ LimitInv
  BY DEF BackupInv
<1>2. ASSUME NEW c \in RestoreCalls, AsksRestore(c)
      PROVE  LimitInv'
  <2>1. PICK x \in Restorings : restoring' = [restoring EXCEPT ![c] = x] /\ x.at = "asked" /\ x.user \in RestoreUsers
    BY <1>1, <1>2, RestoreGoes
  <2>2. UNCHANGED <<restoreTries, wrongTries>>
    BY <1>2 DEF AsksRestore
  <2> QED  BY <1>1, <2>1, <2>2, RestoreMoves DEF LimitInv, InTurn
<1>3. ASSUME NEW c \in RestoreCalls, TakesRestoreTurn(c)
      PROVE  LimitInv'
  <2>1. PICK x \in Restorings :
          /\ restoring' = [restoring EXCEPT ![c] = x] /\ restoring[c].at = "asked" /\ HasTurn(c)
          /\ \/ x.at = "idle"
             \/ x.at = "trying" /\ x.user = restoring[c].user /\ ~ restoreTries[x.user].locked
    BY <1>1, <1>3, RestoreGoes
  <2>2. x.at # "idle" => x.user \in RestoreUsers
    BY <1>1, <2>1 DEF BackupShape
  <2>3. /\ restoring'[c] = x /\ \A d \in RestoreCalls \ {c} : restoring'[d] = restoring[d]
    BY <1>1, <2>1, <2>2, RestoreMoves
  <2>4. UNCHANGED <<restoreTries, wrongTries>>
    BY <1>3 DEF TakesRestoreTurn
  <2> QED  BY <1>1, <2>1, <2>3, <2>4 DEF LimitInv, InTurn, HasTurn
<1>4. ASSUME NEW c \in RestoreCalls, Decrypts(c)
      PROVE  LimitInv'
  <2> DEFINE u == restoring[c].user
             a == restoreTries[u]
  <2>1. PICK x \in Restorings :
          /\ restoring' = [restoring EXCEPT ![c] = x] /\ restoring[c].at = "trying"
          /\ \/ x.at = "idle"
             \/ x.at = "applying" /\ x.user = restoring[c].user
    BY <1>1, <1>4, RestoreGoes
  <2>2. u \in RestoreUsers /\ a \in Tries /\ ~ a.locked /\ wrongTries[u] = a.count /\ a.count < MaxRestoreAttempts
    BY <1>1, <2>1 DEF BackupShape, LimitInv
  <2>3. /\ restoring'[c] = x /\ \A d \in RestoreCalls \ {c} : restoring'[d] = restoring[d]
    BY <1>1, <2>1, <2>2, RestoreMoves
  <2>4. PICK b \in Tries, n \in Nat :
          /\ restoreTries' = [restoreTries EXCEPT ![u] = b] /\ wrongTries' = [wrongTries EXCEPT ![u] = n]
          /\ b.locked => b.count = 0 /\ n <= MaxRestoreAttempts
          /\ ~ b.locked => n = b.count /\ b.count < MaxRestoreAttempts
    <3>1. CASE Opens(c)
      <4> DEFINE cleared == [count |-> 0, locked |-> FALSE]
      <4>1. restoreTries' = [restoreTries EXCEPT ![u] = cleared] /\ wrongTries' = [wrongTries EXCEPT ![u] = 0]
        BY <1>4, <3>1 DEF Decrypts
      <4>2. cleared \in Tries /\ ~ cleared.locked /\ cleared.count = 0
        BY DEF Tries
      <4> HIDE DEF cleared
      <4> USE <4>2
      <4> WITNESS cleared \in Tries, 0 \in Nat
      <4> QED  BY <4>1, <4>2, BackupAssumption
    <3>2. CASE ~ Opens(c)
      <4>1. restoreTries' = [restoreTries EXCEPT ![u] = Counted(a)] /\ wrongTries' = [wrongTries EXCEPT ![u] = wrongTries[u] + 1]
        BY <1>4, <3>2 DEF Decrypts
      <4>2. /\ Counted(a) \in Tries
            /\ Counted(a).locked => Counted(a).count = 0 /\ a.count + 1 <= MaxRestoreAttempts
            /\ ~ Counted(a).locked => Counted(a).count = a.count + 1 /\ a.count + 1 < MaxRestoreAttempts
        BY <2>2, BackupAssumption DEF Counted, Tries
      <4>3. a.count + 1 \in Nat
        BY <2>2 DEF Tries
      <4> QED  BY <2>2, <4>1, <4>2, <4>3
    <3> QED  BY <3>1, <3>2
  <2>5. /\ restoreTries'[u] = b /\ wrongTries'[u] = n
        /\ \A v \in RestoreUsers \ {u} : restoreTries'[v] = restoreTries[v] /\ wrongTries'[v] = wrongTries[v]
    BY <1>1, <2>2, <2>4 DEF BackupShape
  <2>6. \A d \in RestoreCalls : restoring'[d].at = "trying" => d # c /\ restoring[d].user \in RestoreUsers \ {u}
    BY <1>1, <2>1, <2>3 DEF LimitInv, InTurn, BackupShape
  <2>7. \A d \in RestoreCalls : InTurn(d)' => InTurn(d) /\ restoring'[d].user = restoring[d].user
    BY <2>1, <2>3 DEF InTurn
  <2> QED  BY <1>1, <2>3, <2>4, <2>5, <2>6, <2>7 DEF LimitInv
<1>5. ASSUME NEW c \in RestoreCalls, RefusesRestore(c) \/ AppliesRestore(c)
      PROVE  LimitInv'
  <2>1. PICK x \in Restorings : restoring' = [restoring EXCEPT ![c] = x] /\ x.at = "idle"
    BY <1>1, <1>5, RestoreGoes
  <2>2. UNCHANGED <<restoreTries, wrongTries>>
    BY <1>5 DEF RefusesRestore, AppliesRestore
  <2> QED  BY <1>1, <2>1, <2>2, RestoreMoves DEF LimitInv, InTurn
<1>6. ASSUME NEW u \in RestoreUsers, LockPasses(u)
      PROVE  LimitInv'
  <2>1. /\ restoreTries[u].count = 0 /\ restoreTries[u].locked /\ restoreTries[u] \in Tries
        /\ restoreTries' = [restoreTries EXCEPT ![u] = [restoreTries[u] EXCEPT !.locked = FALSE]]
        /\ wrongTries' = [wrongTries EXCEPT ![u] = 0] /\ restoring' = restoring
    BY <1>1, <1>6 DEF LockPasses, LimitInv, BackupShape
  <2>2. /\ restoreTries'[u].count = 0 /\ ~ restoreTries'[u].locked /\ wrongTries'[u] = 0
        /\ \A v \in RestoreUsers \ {u} : restoreTries'[v] = restoreTries[v] /\ wrongTries'[v] = wrongTries[v]
    BY <1>1, <2>1 DEF BackupShape, Tries
  <2> QED  BY <1>1, <2>1, <2>2, BackupAssumption DEF LimitInv, InTurn
<1>7. CASE BackupRestart
  BY <1>7, BackupAssumption DEF BackupRestart, LimitInv, NoTries, NotRestoring, InTurn
<1>8. CASE UNCHANGED <<restoreTries, restoring, wrongTries>>
  BY <1>1, <1>8 DEF LimitInv, InTurn
<1> QED  BY <1>2, <1>3, <1>4, <1>5, <1>6, <1>7, <1>8
         DEF BackupNext, StartsBackup, ReadsLastRun, ReadsSettings, Leaves, RecordsRun, TellsRun, AdminSaves,
             IntervalPasses, LimiterStays

\* What a step that no run takes keeps of the alert.
LEMMA AlertKeeps ==
    ASSUME AlertInv, sending' = sending, backupAlert' = backupAlert, alertMishap' = alertMishap,
           conf'.lastRun.ran = conf.lastRun.ran, conf'.lastRun.ok = conf.lastRun.ok
    PROVE  AlertInv'
BY DEF AlertInv, LastRunFailed, Running

LEMMA AlertStep ==
    ASSUME BackupInv, BackupNext
    PROVE  AlertInv'
<1>1. BackupShape /\ AlertInv /\ DownloadInv
  BY DEF BackupInv
<1>2. ASSUME NEW s \in Senders, StartsBackup(s)
      PROVE  AlertInv'
  <2>1. PICK x \in Sendings : /\ sending' = [sending EXCEPT ![s] = x] /\ sending[s].at = "idle"
                              /\ x.at = (IF s = "download" THEN "read" ELSE "wait")
    BY <1>1, <1>2, SendGoes
  <2>2. sending'[s] = x /\ \A t \in Senders \ {s} : sending'[t] = sending[t]
    BY <1>1, <2>1, SendMoves
  <2>3. \A t \in Runners : \/ t = s /\ sending'[t].at = "wait" /\ sending[t].at = "idle"
                           \/ sending'[t] = sending[t]
    BY <2>1, <2>2 DEF Runners
  <2>4. UNCHANGED <<conf, backupAlert, alertMishap>>
    BY <1>2 DEF StartsBackup, ConfStays, AlertStays
  <2> QED  BY <1>1, <2>3, <2>4 DEF AlertInv, Running, LastRunFailed
<1>3. ASSUME NEW s \in Senders, ReadsLastRun(s)
      PROVE  AlertInv'
  <2>1. PICK x \in Sendings : /\ sending' = [sending EXCEPT ![s] = x] /\ NoRun
                              /\ x.at = "read" /\ x.prev = conf.lastRun
    BY <1>1, <1>3, SendGoes
  <2>2. sending'[s] = x /\ \A t \in Senders \ {s} : sending'[t] = sending[t]
    BY <1>1, <2>1, SendMoves
  <2>3. UNCHANGED <<conf, backupAlert, alertMishap>>
    BY <1>3 DEF ReadsLastRun, ConfStays, AlertStays
  <2> QED  BY <1>1, <2>1, <2>2, <2>3 DEF AlertInv, Running, LastRunFailed, NoRun, Runners
<1>4. ASSUME NEW s \in Senders, ReadsSettings(s) \/ Leaves(s)
      PROVE  AlertInv'
  <2>1. PICK x \in Sendings :
          /\ sending' = [sending EXCEPT ![s] = x] /\ sending[s].at \in {"read", "seal"}
          /\ s \in Runners => x.at \in {"seal", "left"} /\ x.prev = sending[s].prev
    BY <1>1, <1>4, SendGoes DEF Runners
  <2>2. sending'[s] = x /\ \A t \in Senders \ {s} : sending'[t] = sending[t]
    BY <1>1, <2>1, SendMoves
  <2>3. \A t \in Runners : \/ /\ t = s /\ sending'[t].at \in {"seal", "left"} /\ sending[t].at \in {"read", "seal"}
                              /\ sending'[t].prev = sending[t].prev
                           \/ sending'[t] = sending[t]
    BY <2>1, <2>2 DEF Runners
  <2>4. UNCHANGED <<conf, backupAlert, alertMishap>>
    BY <1>4 DEF ReadsSettings, Leaves, ConfStays, AlertStays
  <2> QED  BY <1>1, <2>3, <2>4 DEF AlertInv, Running, LastRunFailed
<1>5. ASSUME NEW s \in Senders, RecordsRun(s)
      PROVE  AlertInv'
  <2>1. PICK x \in Sendings :
          /\ sending' = [sending EXCEPT ![s] = x] /\ sending[s].at = "left"
          /\ x.at = "recorded" /\ x.prev = sending[s].prev /\ x.ok = sending[s].ok
    BY <1>1, <1>5, SendGoes
  <2>2. sending'[s] = x /\ \A t \in Senders \ {s} : sending'[t] = sending[t]
    BY <1>1, <2>1, SendMoves
  <2>3. \A t \in Runners : Running(t)' <=> Running(t)
    BY <2>1, <2>2 DEF Running, Runners
  <2>4. backupAlert' = backupAlert
    BY <1>5 DEF RecordsRun
  <2>5. CASE alertMishap' # {}
    BY <1>1, <2>3, <2>5 DEF AlertInv
  <2>6. CASE alertMishap' = {}
    <3>1. conf' = [conf EXCEPT !.lastRun = Ran(sending[s].ok)] /\ alertMishap = {}
      BY <1>5, <2>6 DEF RecordsRun
    <3>2. conf'.lastRun.ran /\ conf'.lastRun.ok = sending[s].ok
      BY <1>1, <3>1 DEF BackupShape, Confs, Ran
    <3>3. CASE s \in Runners
      <4>1. \A t \in Runners \ {s} : ~ Running(t)
        BY <1>1, <2>1, <3>3 DEF AlertInv, Running
      <4>2. /\ backupAlert = LastRunFailed
            /\ sending[s].prev.ran = conf.lastRun.ran /\ sending[s].prev.ok = conf.lastRun.ok
        BY <1>1, <2>1, <3>1, <3>3, <4>1 DEF AlertInv, Running
      <4>3. \A t \in Runners \ {s} : ~ Running(t)'
        BY <2>3, <4>1
      <4>4. \A t \in Runners \ {s} : sending'[t].at \notin {"read", "seal", "left", "recorded"}
        BY <4>3 DEF Running
      <4>5. \A t1, t2 \in Runners : Running(t1)' /\ Running(t2)' => t1 = t2
        BY <4>3
      <4>6. /\ sending'[s].at = "recorded" /\ sending'[s].ok = sending[s].ok
            /\ sending'[s].prev = sending[s].prev
        BY <2>1, <2>2
      <4>7. backupAlert' = (sending'[s].prev.ran /\ ~ sending'[s].prev.ok)
        BY <2>4, <4>2, <4>6 DEF LastRunFailed
      <4>8. \A t \in Runners : t = s \/ sending'[t].at \notin {"read", "seal", "left", "recorded"}
        BY <4>4
      <4> QED  BY <3>2, <3>3, <4>5, <4>6, <4>7, <4>8 DEF AlertInv
    <3>4. CASE s \notin Runners
      <4>1. s = "download"
        BY <3>4 DEF Runners
      <4> QED  BY <1>1, <2>1, <4>1 DEF DownloadInv
    <3> QED  BY <3>3, <3>4
  <2> QED  BY <2>5, <2>6
<1>6. ASSUME NEW s \in Senders, TellsRun(s)
      PROVE  AlertInv'
  <2>1. PICK x \in Sendings : sending' = [sending EXCEPT ![s] = x] /\ sending[s].at = "recorded" /\ x.at = "idle"
    BY <1>1, <1>6, SendGoes
  <2>2. sending'[s] = x /\ \A t \in Senders \ {s} : sending'[t] = sending[t]
    BY <1>1, <2>1, SendMoves
  <2>3. CASE s \notin Runners
    <3>1. \A t \in Runners : sending'[t] = sending[t]
      BY <2>2, <2>3 DEF Runners
    <3>2. s = "download"
      BY <2>3 DEF Runners
    <3> QED  BY <1>1, <2>1, <3>2 DEF DownloadInv
  <2>4. CASE s \in Runners
    <3>1. \A t \in Runners : ~ Running(t)'
      BY <1>1, <2>1, <2>2, <2>4 DEF AlertInv, Running, Runners
    <3>2. \A t \in Runners : sending'[t].at \notin {"read", "seal", "left", "recorded"}
      BY <3>1 DEF Running
    <3>3. alertMishap' = {} => backupAlert' = LastRunFailed'
      <4>1. conf' = conf
        BY <1>6 DEF TellsRun, ConfStays
      <4>2. CASE backupAlert' = LastRunFailed
        BY <4>1, <4>2 DEF LastRunFailed
      <4>3. CASE alertMishap' = {} /\ backupAlert' # LastRunFailed
        <5>1. /\ backupAlert' = IF ~ sending[s].prev.ran \/ sending[s].prev.ok # sending[s].ok THEN ~ sending[s].ok
                                ELSE backupAlert
              /\ alertMishap = {}
          BY <1>6, <4>3 DEF TellsRun
        <5>2. /\ conf.lastRun.ran /\ conf.lastRun.ok = sending[s].ok
              /\ backupAlert = (sending[s].prev.ran /\ ~ sending[s].prev.ok)
          BY <1>1, <2>1, <2>4, <5>1 DEF AlertInv
        <5>3. sending[s].ok \in BOOLEAN /\ sending[s].prev.ok \in BOOLEAN /\ sending[s].prev.ran \in BOOLEAN
          BY <1>1 DEF BackupShape, Sendings, Runs
        <5> QED  BY <4>3, <5>1, <5>2, <5>3 DEF LastRunFailed
      <4> QED  BY <4>2, <4>3
    <3> QED  BY <3>1, <3>2, <3>3 DEF AlertInv
  <2> QED  BY <2>3, <2>4
<1>7. ASSUME NEW c \in RestoreCalls, AppliesRestore(c)
      PROVE  AlertInv'
  <2>1. PICK f \in restoring[c].file :
          /\ conf' = [f.settings EXCEPT !.rest = conf.rest \cup f.settings.rest]
          /\ alertMishap' = IF NoRun /\ backupAlert = (f.settings.lastRun.ran /\ ~ f.settings.lastRun.ok) THEN alertMishap
                            ELSE alertMishap \cup {"imported"}
    BY <1>7 DEF AppliesRestore
  <2>2. f.settings \in Confs
    BY <1>1 DEF BackupShape, Restorings, Files
  <2>3. conf'.lastRun = f.settings.lastRun
    BY <2>1, <2>2 DEF Confs
  <2>4. sending' = sending /\ backupAlert' = backupAlert
    BY <1>7 DEF AppliesRestore
  <2>5. alertMishap' = {} => NoRun /\ backupAlert = LastRunFailed'
    BY <2>1, <2>3 DEF LastRunFailed
  <2> QED  BY <1>1, <2>4, <2>5 DEF AlertInv, NoRun, Running, Runners
<1>8. CASE IntervalPasses
  <2>1. conf.lastRun \in Runs /\ conf' = [conf EXCEPT !.lastRun = [conf.lastRun EXCEPT !.due = TRUE]] /\ conf \in Confs
    BY <1>1, <1>8 DEF IntervalPasses, BackupShape, Confs
  <2>2. conf'.lastRun.ran = conf.lastRun.ran /\ conf'.lastRun.ok = conf.lastRun.ok
    BY <2>1 DEF Confs, Runs
  <2> QED  BY <1>1, <1>8, <2>2, AlertKeeps DEF IntervalPasses, AlertStays
<1>9. CASE AdminSaves
  <2>1. conf \in Confs
    BY <1>1 DEF BackupShape
  <2>2. conf'.lastRun = conf.lastRun
    BY <1>9, <2>1 DEF AdminSaves, Confs
  <2> QED  BY <1>1, <1>9, <2>2, AlertKeeps DEF AdminSaves, AlertStays
<1>10. CASE BackupRestart
  BY <1>10 DEF BackupRestart, AlertInv, NotSending, Running, LastRunFailed, ConfStays, Runners
<1>11. CASE UNCHANGED <<conf, sending, backupAlert, alertMishap>>
  BY <1>1, <1>11, AlertKeeps
<1> QED  BY <1>2, <1>3, <1>4, <1>5, <1>6, <1>7, <1>8, <1>9, <1>10, <1>11
         DEF BackupNext, AsksRestore, TakesRestoreTurn, Decrypts, RefusesRestore, LockPasses, ConfStays, AlertStays

LEMMA HoldStep ==
    ASSUME BackupInv, BackupNext
    PROVE  HoldInv'
<1>1. BackupShape /\ HoldInv
  BY DEF BackupInv
<1>2. /\ conf.rest \subseteq conf'.rest /\ savedLists \subseteq savedLists' /\ SavedByNow \subseteq SavedByNow'
  BY <1>1, ConfGoes DEF SavedByNow
<1>3. ASSUME NEW s \in Senders, NEW x, sending'[s] = x, \A t \in Senders \ {s} : sending'[t] = sending[t],
             x.at \in {"wait", "read"} => x.before \subseteq SavedByNow,
             x.at = "seal" => \A t \in x.got : x.before \subseteq t.rest \cup savedLists
      PROVE  \A t \in Senders :
                /\ sending'[t].at \in {"wait", "read"} => sending'[t].before \subseteq SavedByNow'
                /\ sending'[t].at = "seal" => \A g \in sending'[t].got : sending'[t].before \subseteq g.rest \cup savedLists'
  BY <1>1, <1>2, <1>3 DEF HoldInv
<1>4. ASSUME NEW s \in Senders,
             StartsBackup(s) \/ ReadsLastRun(s) \/ ReadsSettings(s) \/ RecordsRun(s) \/ TellsRun(s) \/ Leaves(s)
      PROVE  \A t \in Senders :
                /\ sending'[t].at \in {"wait", "read"} => sending'[t].before \subseteq SavedByNow'
                /\ sending'[t].at = "seal" => \A g \in sending'[t].got : sending'[t].before \subseteq g.rest \cup savedLists'
  <2>1. /\ sending[s].at \in {"wait", "read"} => sending[s].before \subseteq conf.rest \cup savedLists
        /\ SavedByNow = conf.rest \cup savedLists
    BY <1>1 DEF HoldInv, SavedByNow
  <2>2. PICK x \in Sendings :
          /\ sending' = [sending EXCEPT ![s] = x]
          /\ x.at \in {"wait", "read"} => x.before \subseteq SavedByNow
          /\ x.at = "seal" => x.got = {conf} /\ x.before \subseteq conf.rest \cup savedLists
    <3>1. CASE StartsBackup(s)
      BY <1>1, <3>1, SendGoes
    <3>2. CASE ReadsLastRun(s)
      BY <1>1, <2>1, <3>2, SendGoes
    <3>3. CASE ReadsSettings(s)
      BY <1>1, <2>1, <3>3, SendGoes
    <3>4. CASE RecordsRun(s) \/ TellsRun(s) \/ Leaves(s)
      BY <1>1, <3>4, SendGoes
    <3> QED  BY <1>4, <3>1, <3>2, <3>3, <3>4
  <2>3. sending'[s] = x /\ \A t \in Senders \ {s} : sending'[t] = sending[t]
    BY <1>1, <2>2, SendMoves
  <2>4. x.at = "seal" => \A t \in x.got : x.before \subseteq t.rest \cup savedLists
    BY <2>2
  <2> QED  BY <1>3, <2>2, <2>3, <2>4
<1>5. \A t \in Senders :
         /\ sending'[t].at \in {"wait", "read"} => sending'[t].before \subseteq SavedByNow'
         /\ sending'[t].at = "seal" => \A g \in sending'[t].got : sending'[t].before \subseteq g.rest \cup savedLists'
  <2>1. CASE sending' = sending
    BY <1>1, <1>2, <2>1 DEF HoldInv
  <2>2. CASE BackupRestart
    BY <2>2 DEF BackupRestart, NotSending
  <2> QED  BY <1>4, <2>1, <2>2
           DEF BackupNext, AsksRestore, TakesRestoreTurn, Decrypts, RefusesRestore, AppliesRestore, LockPasses,
               AdminSaves, IntervalPasses
<1>6. BackupHoldsWhatWasSaved'
  <2>1. ASSUME NEW s \in Senders, Leaves(s)
        PROVE  BackupHoldsWhatWasSaved'
    <3>1. sending[s].at = "seal"
      BY <2>1 DEF Leaves
    <3>2. \A t \in sending[s].got : sending[s].before \subseteq t.rest \cup savedLists
      BY <1>1, <3>1 DEF HoldInv
    <3>3. CASE lgbak' = lgbak
      BY <1>1, <3>3 DEF HoldInv, BackupHoldsWhatWasSaved
    <3>4. CASE lgbak' # lgbak
      <4>1. PICK t \in sending[s].got :
              lgbak' = {f \in lgbak : f.key = "theirs"} \cup {BackupFile(sending[s].key, t, savedLists, sending[s].before)}
        BY <2>1, <3>4 DEF Leaves
      <4>2. PICK g : g = BackupFile(sending[s].key, t, savedLists, sending[s].before)
        OBVIOUS
      <4>3. g.before \subseteq g.settings.rest \cup g.lists
        BY <3>2, <4>2 DEF BackupFile
      <4> QED  BY <1>1, <4>1, <4>2, <4>3 DEF HoldInv, BackupHoldsWhatWasSaved
    <3> QED  BY <3>3, <3>4
  <2>2. CASE lgbak' = lgbak
    BY <1>1, <2>2 DEF HoldInv, BackupHoldsWhatWasSaved
  <2> QED  BY <2>1, <2>2
           DEF BackupNext, StartsBackup, ReadsLastRun, ReadsSettings, RecordsRun, TellsRun, AsksRestore,
               TakesRestoreTurn, Decrypts, RefusesRestore, AppliesRestore, LockPasses, AdminSaves, IntervalPasses,
               BackupRestart
<1> QED  BY <1>5, <1>6 DEF HoldInv

LEMMA DownloadStep ==
    ASSUME BackupInv, BackupNext
    PROVE  DownloadInv'
<1>1. BackupShape /\ DownloadInv
  BY DEF BackupInv
<1>2. ASSUME NEW s \in Senders,
             StartsBackup(s) \/ ReadsLastRun(s) \/ ReadsSettings(s) \/ Leaves(s) \/ RecordsRun(s) \/ TellsRun(s)
      PROVE  DownloadInv'
  <2>1. PICK x \in Sendings : /\ sending' = [sending EXCEPT ![s] = x]
                              /\ s = "download" => x.at \in {"idle", "read", "seal"}
    BY <1>1, <1>2, SendGoes DEF DownloadInv
  <2> QED  BY <1>1, <2>1, SendMoves DEF DownloadInv, Senders
<1>3. CASE UNCHANGED sending
  BY <1>1, <1>3 DEF DownloadInv
<1>4. CASE BackupRestart
  BY <1>4 DEF BackupRestart, DownloadInv, NotSending, Senders
<1> QED  BY <1>2, <1>3, <1>4
         DEF BackupNext, AsksRestore, TakesRestoreTurn, Decrypts, RefusesRestore, AppliesRestore, LockPasses,
             AdminSaves, IntervalPasses

LEMMA BackupStep ==
    ASSUME BackupInv, [BackupNext]_backupVars
    PROVE  BackupInv'
<1>1. CASE BackupNext
  BY <1>1, BackupShapeStep, LimitStep, AlertStep, HoldStep, DownloadStep DEF BackupInv
<1>2. CASE UNCHANGED backupVars
  <2>1. UNCHANGED <<conf, savedLists, passphrase, lgbak, sending, backupAlert, restoreTries, restoring, wrongTries, alertMishap>>
    BY <1>2 DEF backupVars
  <2> QED  BY <2>1 DEF BackupInv, BackupShape, LimitInv, InTurn, AlertInv, Running, LastRunFailed, HoldInv,
                      BackupHoldsWhatWasSaved, SavedByNow, DownloadInv
<1> QED  BY <1>1, <1>2

-----------------------------------------------------------------------------
(* The accounts *)

People == [is : {"unused", "here", "gone"}, roles : SUBSET RoleIds, version : Nat, hash : Nat]
AnyCode == Codes \cup {NoCode, InUse}
SecondFactors == [active : AnyCode, draft : AnyCode]
AccountAsks == [kind : {"update"}, target : AccountIds, roles : {KeptRoles}, reset : {TRUE}]
        \cup [kind : {"update"}, target : AccountIds, roles : SUBSET RoleIds, reset : BOOLEAN]
        \cup [kind : {"create"}, target : AccountIds, roles : SUBSET RoleIds]
        \cup [kind : {"delete"}, target : AccountIds]
        \cup [kind : {"editRole"}, role : RoleIds, grants : SUBSET Permissions]
        \cup [kind : {"dropRole"}, role : OtherRoles]
        \cup OwnChanges \cup {NoAsk}
AskStages == {"idle", "guard", "update", "mayReset", "reset", "create", "delete", "editRole",
              "dropRole", "ownPassword", "setup", "activate", "disable", "clear"}
PanelRequests == [at : AskStages, actor : AccountIds, ask : AccountAsks, seen : AnyCode]

\* A request is where its kind takes it, and holds what it saw there.
AskPlaced(q) ==
    LET at == asked[q].at
        kind == asked[q].ask.kind
    IN /\ at # "idle" => kind # "none"
       /\ at \in {"update", "mayReset", "reset"} => kind = "update"
       /\ at = "update" => asked[q].ask.roles # KeptRoles
       /\ at \in {"create", "delete", "editRole", "dropRole", "setup", "activate", "disable"} => kind = at
       /\ at = "setup" => asked[q].seen = NoCode
       /\ at = "activate" => asked[q].seen # NoCode

AccountShape ==
    /\ account \in [AccountIds -> People]
    /\ roleBook \in [RoleIds -> (SUBSET Permissions) \cup {NoRoleHere}]
    /\ factor \in [AccountIds -> SecondFactors]
    /\ asked \in [AccountRequests -> PanelRequests]
    /\ \A q \in AccountRequests : AskPlaced(q)
    /\ \A t \in tokens : t.user \in AccountIds
    /\ login.user \in AccountIds

SomebodyIsHere == ~ crossed => \E u \in AccountIds : Here(u)

\* A hash is as old as its version, in a row, in a token and in a login that
\* has read a row: the first account is only made anew when nobody is left.
PasswordInv ==
    ~ crossed => /\ \A u \in AccountIds : account[u].version = account[u].hash
                 /\ \A t \in tokens : t.version = t.hash
                 /\ login.version = login.hash

\* Nothing but the draft of the factor in force lies beside it.
DraftInv ==
    ~ redrafted => \A u \in AccountIds :
                     factor[u].draft # NoCode => factor[u].active \in {NoCode, factor[u].draft}

AccountInv == AccountShape /\ SomebodyManages /\ SomebodyIsHere /\ PasswordInv /\ DraftInv

LEMMA GrantsInHas ==
    ASSUME NEW book, NEW roles, NEW p
    PROVE  p \in GrantsIn(book, roles) <=> \E r \in roles : book[r] # NoRoleHere /\ p \in book[r]
BY DEF GrantsIn

\* What each kind of request carries.
LEMMA AskCarries ==
    ASSUME NEW ask \in AccountAsks
    PROVE  /\ ask.kind \in {"none", "update", "create", "delete", "editRole", "dropRole", "ownPassword",
                            "setup", "activate", "disable"}
           /\ ask.kind \in {"update", "create", "delete"} => ask.target \in AccountIds
           /\ ask.kind = "update" => ask.roles = KeptRoles \/ ask.roles \subseteq RoleIds
           /\ ask.kind = "create" => ask.roles \subseteq RoleIds
           /\ ask.kind = "editRole" => ask.role \in RoleIds /\ ask.grants \subseteq Permissions
           /\ ask.kind = "dropRole" => ask.role \in OtherRoles
<1> DEFINE Carries ==
        /\ ask.kind \in {"none", "update", "create", "delete", "editRole", "dropRole", "ownPassword",
                         "setup", "activate", "disable"}
        /\ ask.kind \in {"update", "create", "delete"} => ask.target \in AccountIds
        /\ ask.kind = "update" => ask.roles = KeptRoles \/ ask.roles \subseteq RoleIds
        /\ ask.kind = "create" => ask.roles \subseteq RoleIds
        /\ ask.kind = "editRole" => ask.role \in RoleIds /\ ask.grants \subseteq Permissions
        /\ ask.kind = "dropRole" => ask.role \in OtherRoles
<1>1. ASSUME ask \in [kind : {"update"}, target : AccountIds, roles : {KeptRoles}, reset : {TRUE}]
      PROVE  Carries
  BY <1>1
<1>2. ASSUME ask \in [kind : {"update"}, target : AccountIds, roles : SUBSET RoleIds, reset : BOOLEAN]
      PROVE  Carries
  BY <1>2
<1>3. ASSUME ask \in [kind : {"create"}, target : AccountIds, roles : SUBSET RoleIds]
      PROVE  Carries
  BY <1>3
<1>4. ASSUME ask \in [kind : {"delete"}, target : AccountIds]
      PROVE  Carries
  BY <1>4
<1>5. ASSUME ask \in [kind : {"editRole"}, role : RoleIds, grants : SUBSET Permissions]
      PROVE  Carries
  BY <1>5
<1>6. ASSUME ask \in [kind : {"dropRole"}, role : OtherRoles]
      PROVE  Carries
  BY <1>6
<1>7. ASSUME ask \in OwnChanges
      PROVE  Carries
  BY <1>7 DEF OwnChanges
<1>8. ASSUME ask = NoAsk
      PROVE  Carries
  BY <1>8 DEF NoAsk
<1> HIDE DEF Carries
<1>9. Carries
  BY <1>1, <1>2, <1>3, <1>4, <1>5, <1>6, <1>7, <1>8 DEF AccountAsks
<1> QED  BY <1>9 DEF Carries

LEMMA NotAskedIs == NotAsked \in PanelRequests
BY AccountAssumption DEF NotAsked, PanelRequests, AskStages, AccountAsks, AnyCode

LEMMA GoesIs ==
    ASSUME AccountShape, NEW q \in AccountRequests, NEW at \in AskStages, Goes(q, at)
    PROVE  /\ asked' \in [AccountRequests -> PanelRequests]
           /\ asked'[q].at = at /\ asked'[q].actor = asked[q].actor
           /\ asked'[q].ask = asked[q].ask /\ asked'[q].seen = asked[q].seen
           /\ \A p \in AccountRequests : p # q => asked'[p] = asked[p]
<1>1. asked[q] \in PanelRequests /\ asked' = [asked EXCEPT ![q] = [asked[q] EXCEPT !.at = at]]
  BY DEF AccountShape, Goes
<1>2. PICK r \in PanelRequests : r = [asked[q] EXCEPT !.at = at]
  BY <1>1 DEF PanelRequests
<1> QED  BY <1>1, <1>2 DEF AccountShape, PanelRequests

LEMMA EndsIs ==
    ASSUME AccountShape, NEW q \in AccountRequests, RequestEnds(q)
    PROVE  asked' \in [AccountRequests -> PanelRequests] /\ \A p \in AccountRequests : AskPlaced(p)'
<1>1. asked' \in [AccountRequests -> PanelRequests] /\ asked'[q].at = "idle"
  BY NotAskedIs DEF AccountShape, RequestEnds, NotAsked
<1>2. \A p \in AccountRequests : p # q => asked'[p] = asked[p]
  BY DEF AccountShape, RequestEnds
<1> QED  BY <1>1, <1>2 DEF AccountShape, AskPlaced

LEMMA AccountStarts == AccountInit => AccountInv
<1> SUFFICES ASSUME AccountInit
             PROVE  AccountInv
  OBVIOUS
<1>1. PICK used \in {{}, AccountIds} :
        account = [u \in AccountIds |-> IF u = DefaultAdmin THEN Person({AdminRole})
                                        ELSE IF u \in used THEN Person(OtherRoles) ELSE NotYet]
  BY DEF AccountInit
<1>2. Person({AdminRole}) \in People /\ Person(OtherRoles) \in People /\ NotYet \in People
  BY DEF Person, NotYet, People, RoleIds
<1>3. account \in [AccountIds -> People]
  BY <1>1, <1>2
<1>4. \A u \in AccountIds : account[u].version = 0 /\ account[u].hash = 0
  BY <1>1 DEF Person, NotYet
<1>5. roleBook \in [RoleIds -> (SUBSET Permissions) \cup {NoRoleHere}]
  BY DEF AccountInit, Permissions
<1>6. factor \in [AccountIds -> SecondFactors] /\ \A u \in AccountIds : factor[u].draft = NoCode
  BY DEF AccountInit, SecondFactors, AnyCode
<1>7. asked \in [AccountRequests -> PanelRequests] /\ \A q \in AccountRequests : asked[q].at = "idle"
  BY NotAskedIs DEF AccountInit, NotAsked
<1>8. tokens = {[user |-> u, version |-> 0, hash |-> 0] : u \in {v \in AccountIds : Here(v)}}
  BY DEF AccountInit
<1>9. \A t \in tokens : t.user \in AccountIds /\ t.version = 0 /\ t.hash = 0
  BY <1>8
<1>10. login.user \in AccountIds /\ login.version = login.hash
  BY AccountAssumption DEF AccountInit, NoLogin
<1>11. AccountShape
  BY <1>3, <1>5, <1>6, <1>7, <1>9, <1>10 DEF AccountShape, AskPlaced
<1>12. account[DefaultAdmin] = Person({AdminRole}) /\ roleBook[AdminRole] = Permissions
  BY <1>1, AccountAssumption DEF AccountInit, RoleIds
<1>13. Here(DefaultAdmin)
  BY <1>12 DEF Here, Person
<1>14. "users.manage" \in GetUserPermissions(DefaultAdmin)
  <2>1. "users.manage" \in roleBook[AdminRole] /\ roleBook[AdminRole] # NoRoleHere
    BY <1>12 DEF Permissions, NoRoleHere
  <2>2. AdminRole \in account[DefaultAdmin].roles
    BY <1>12 DEF Person
  <2> QED  BY <2>1, <2>2, GrantsInHas DEF GetUserPermissions
<1>15. SomebodyManages /\ SomebodyIsHere
  BY <1>13, <1>14, AccountAssumption DEF SomebodyManages, SomebodyIsHere, Manages
<1> QED  BY <1>4, <1>6, <1>9, <1>10, <1>11, <1>15 DEF AccountInv, PasswordInv, DraftInv

\* The steps that change who is who, what a role grants or what counts as crossed.
LEMMA AccountMoves ==
    ASSUME [AccountNext]_accountVars
    PROVE  \/ UNCHANGED <<account, roleBook, shrunk, crossed>>
           \/ AccountRestart
           \/ \E q \in AccountRequests : WritesRoles(q) \/ WritesPassword(q) \/ WritesAccount(q) \/ WritesRole(q)
<1>1. CASE UNCHANGED accountVars
  BY <1>1 DEF accountVars
<1>2. CASE AccountNext
  <2>1. ASSUME NEW q \in AccountRequests, Admitted(q)
        PROVE  UNCHANGED <<account, roleBook, shrunk, crossed>>
    BY <2>1 DEF Admitted
  <2>2. ASSUME NEW q \in AccountRequests, RequestFails(q)
        PROVE  UNCHANGED <<account, roleBook, shrunk, crossed>>
    BY <2>2 DEF RequestFails
  <2>3. ASSUME NEW q \in AccountRequests,
               Guards(q) \/ LooksBeforeReset(q) \/ WritesDraft(q) \/ WritesFactor(q) \/ ClearsDraft(q)
        PROVE  UNCHANGED <<account, roleBook, shrunk, crossed>>
    BY <2>3 DEF Guards, LooksBeforeReset, WritesDraft, WritesFactor, ClearsDraft
  <2>4. ASSUME NEW u \in AccountIds, LoginReads(u) \/ LockExpires(u)
        PROVE  UNCHANGED <<account, roleBook, shrunk, crossed>>
    BY <2>4 DEF LoginReads, LockExpires
  <2>5. ASSUME LoginRefused \/ LoginAccepted
        PROVE  UNCHANGED <<account, roleBook, shrunk, crossed>>
    BY <2>5 DEF LoginRefused, LoginAccepted
  <2> QED  BY <1>2, <2>1, <2>2, <2>3, <2>4, <2>5 DEF AccountNext, RequestStep
<1> QED  BY <1>1, <1>2

LEMMA AsksAreKnown ==
    ASSUME NEW ask \in Updates \cup Creations \cup Deletions \cup RoleEdits \cup RoleDrops \cup OwnChanges
    PROVE  ask \in AccountAsks /\ ask.kind # "none"
<1>1. ask \in Updates => ask \in AccountAsks /\ ask.kind # "none"
  BY DEF Updates, Used, AccountAsks
<1>2. ask \in Creations => ask \in AccountAsks /\ ask.kind # "none"
  BY DEF Creations, AccountAsks
<1>3. ask \in Deletions => ask \in AccountAsks /\ ask.kind # "none"
  BY DEF Deletions, Used, AccountAsks
<1>4. ask \in RoleEdits => ask \in AccountAsks /\ ask.kind # "none"
  <2>1. {{}, {"users.manage"}, Permissions} \subseteq SUBSET Permissions
    BY DEF Permissions
  <2> QED  BY <2>1 DEF RoleEdits, AccountAsks
<1>5. ask \in RoleDrops => ask \in AccountAsks /\ ask.kind # "none"
  BY DEF RoleDrops, AccountAsks
<1>6. ask \in OwnChanges => ask \in AccountAsks /\ ask.kind # "none"
  BY DEF OwnChanges, AccountAsks
<1> QED  BY <1>1, <1>2, <1>3, <1>4, <1>5, <1>6

LEMMA PersonIs ==
    ASSUME NEW roles \in SUBSET RoleIds
    PROVE  Person(roles) \in People
BY DEF Person, People

\* A change of the roles, the password or the state of an account.
LEMMA PersonChanges ==
    ASSUME NEW a \in People, NEW roles \in SUBSET RoleIds
    PROVE  /\ [a EXCEPT !.roles = roles] \in People
           /\ [a EXCEPT !.is = "gone", !.roles = {}] \in People
           /\ [a EXCEPT !.hash = @ + 1, !.version = @ + 1] \in People
<1>1. [a EXCEPT !.roles = roles] \in People
  BY DEF People
<1>2. [a EXCEPT !.is = "gone", !.roles = {}] \in People
  BY DEF People
<1>3. ASSUME NEW h \in Nat, NEW v \in Nat
      PROVE  [a EXCEPT !.hash = h, !.version = v] \in People
  BY DEF People
<1>4. a.hash + 1 \in Nat /\ a.version + 1 \in Nat
  BY DEF People
<1>5. [a EXCEPT !.hash = @ + 1, !.version = @ + 1] \in People
  BY <1>3, <1>4
<1> QED  BY <1>1, <1>2, <1>5

\* The requests keep their shape.
LEMMA AskedStep ==
    ASSUME AccountShape, [AccountNext]_accountVars
    PROVE  asked' \in [AccountRequests -> PanelRequests] /\ \A q \in AccountRequests : AskPlaced(q)'
<1>1. ASSUME UNCHANGED asked
      PROVE  asked' \in [AccountRequests -> PanelRequests] /\ \A q \in AccountRequests : AskPlaced(q)'
  BY <1>1 DEF AccountShape, AskPlaced
<1>2. ASSUME NEW q \in AccountRequests, Admitted(q)
      PROVE  asked' \in [AccountRequests -> PanelRequests] /\ \A p \in AccountRequests : AskPlaced(p)'
  <2>1. PICK t \in tokens :
          \E ask \in Updates \cup Creations \cup Deletions \cup RoleEdits \cup RoleDrops \cup OwnChanges :
            asked' = [asked EXCEPT ![q] = [NotAsked EXCEPT !.at = "guard", !.actor = t.user, !.ask = ask]]
    BY <1>2 DEF Admitted
  <2>2. PICK ask \in Updates \cup Creations \cup Deletions \cup RoleEdits \cup RoleDrops \cup OwnChanges :
          asked' = [asked EXCEPT ![q] = [NotAsked EXCEPT !.at = "guard", !.actor = t.user, !.ask = ask]]
    BY <2>1
  <2>3. ask \in AccountAsks /\ ask.kind # "none"
    BY AsksAreKnown
  <2>4. t.user \in AccountIds /\ "guard" \in AskStages /\ NoCode \in AnyCode
    BY DEF AccountShape, AskStages, AnyCode
  <2>5. PICK r : r = [NotAsked EXCEPT !.at = "guard", !.actor = t.user, !.ask = ask]
    OBVIOUS
  <2>6. r \in PanelRequests /\ r.at = "guard" /\ r.ask = ask
    <3>1. r \in PanelRequests
      BY <2>3, <2>4, <2>5, NotAskedIs DEF PanelRequests
    <3> QED  BY <2>5, <3>1, NotAskedIs DEF PanelRequests
  <2>7. asked' = [asked EXCEPT ![q] = r]
    BY <2>2, <2>5
  <2> QED  BY <2>3, <2>6, <2>7 DEF AccountShape, AskPlaced
<1>3. ASSUME NEW q \in AccountRequests, RequestEnds(q)
      PROVE  asked' \in [AccountRequests -> PanelRequests] /\ \A p \in AccountRequests : AskPlaced(p)'
  BY <1>3, EndsIs
<1>4. ASSUME NEW q \in AccountRequests, Guards(q)
      PROVE  asked' \in [AccountRequests -> PanelRequests] /\ \A p \in AccountRequests : AskPlaced(p)'
  <2> DEFINE actor == asked[q].actor
             ask == asked[q].ask
  <2>1. asked[q] \in PanelRequests /\ asked[q].at = "guard" /\ AskPlaced(q)
    BY <1>4 DEF Guards, AccountShape
  <2>2. ask \in AccountAsks /\ ask.kind # "none" /\ actor \in AccountIds
    BY <2>1 DEF PanelRequests, AskPlaced
  <2>3. CASE RequestEnds(q)
    BY <2>3, <1>3
  <2>4. CASE /\ Allowed(actor, ask)
             /\ asked' = [asked EXCEPT ![q].at = FirstWrite(ask), ![q].seen = Seen(actor, ask)]
    <3>1. factor[actor] \in SecondFactors
      BY <2>2 DEF AccountShape
    <3>2. Seen(actor, ask) \in AnyCode
      BY <2>2, <3>1, AskCarries DEF Seen, SecondFactors, AnyCode
    <3>3. FirstWrite(ask) \in AskStages
      BY <2>2, AskCarries DEF FirstWrite, AskStages
    <3>4. PICK r : r = [asked[q] EXCEPT !.at = FirstWrite(ask), !.seen = Seen(actor, ask)]
      OBVIOUS
    <3>4a. r \in PanelRequests /\ r.at = FirstWrite(ask) /\ r.seen = Seen(actor, ask) /\ r.ask = ask
      <4>1. r \in PanelRequests
        BY <2>1, <3>2, <3>3, <3>4 DEF PanelRequests
      <4> QED  BY <2>1, <3>4, <4>1 DEF PanelRequests
    <3>5. /\ DOMAIN asked' = AccountRequests /\ asked'[q] = r
          /\ \A p \in AccountRequests : p # q => asked'[p] = asked[p]
          /\ asked' = [p \in AccountRequests |-> asked'[p]]
      BY <2>4, <3>4 DEF AccountShape
    <3>6. asked' \in [AccountRequests -> PanelRequests] /\ asked'[q] = r
          /\ \A p \in AccountRequests : p # q => asked'[p] = asked[p]
      <4>1. \A p \in AccountRequests : asked'[p] \in PanelRequests
        BY <3>4a, <3>5 DEF AccountShape
      <4> QED  BY <4>1, <3>5
    <3>7. FirstWrite(ask) = "setup" => ask.kind = "setup" /\ Seen(actor, ask) = NoCode
      BY <2>2, <2>4, AskCarries DEF FirstWrite, Allowed, Seen
    <3>8. FirstWrite(ask) = "activate" => ask.kind = "activate" /\ Seen(actor, ask) # NoCode
      BY <2>2, <2>4, AskCarries DEF FirstWrite, Allowed, Seen
    <3>9. /\ FirstWrite(ask) = "update" => ask.kind = "update" /\ ask.roles # KeptRoles
          /\ FirstWrite(ask) \in {"mayReset", "reset"} => ask.kind = "update"
          /\ FirstWrite(ask) \in {"create", "delete", "editRole", "dropRole", "setup", "activate", "disable"}
             => ask.kind = FirstWrite(ask)
      BY <2>2, AskCarries DEF FirstWrite
    <3>10. AskPlaced(q)'
      BY <2>2, <3>4a, <3>6, <3>7, <3>8, <3>9 DEF AskPlaced
    <3>11. \A p \in AccountRequests : p # q => AskPlaced(p)'
      BY <3>6 DEF AccountShape, AskPlaced
    <3> QED  BY <3>6, <3>10, <3>11
  <2> QED  BY <1>4, <2>3, <2>4 DEF Guards
<1>5. ASSUME NEW q \in AccountRequests, NEW at \in {"mayReset", "reset", "clear"}, Goes(q, at),
             asked[q].ask.kind # "none", at # "clear" => asked[q].ask.kind = "update"
      PROVE  asked' \in [AccountRequests -> PanelRequests] /\ \A p \in AccountRequests : AskPlaced(p)'
  <2>1. at \in AskStages
    BY <1>5 DEF AskStages
  <2> QED  BY <1>5, <2>1, GoesIs DEF AccountShape, AskPlaced
<1>6. ASSUME NEW q \in AccountRequests, RequestStep(q)
      PROVE  asked' \in [AccountRequests -> PanelRequests] /\ \A p \in AccountRequests : AskPlaced(p)'
  <2>1. CASE WritesRoles(q) \/ LooksBeforeReset(q)
    <3>1. asked[q].ask.kind = "update"
      BY <2>1 DEF WritesRoles, LooksBeforeReset, AccountShape, AskPlaced
    <3>2. Goes(q, "mayReset") \/ Goes(q, "reset") \/ RequestEnds(q)
      BY <2>1 DEF WritesRoles, LooksBeforeReset
    <3> QED  BY <3>1, <3>2, <1>3, <1>5
  <2>2. CASE WritesFactor(q)
    <3>1. asked[q].ask.kind # "none" /\ Goes(q, "clear")
      BY <2>2 DEF WritesFactor, AccountShape, AskPlaced
    <3> QED  BY <3>1, <1>5
  <2>3. CASE WritesPassword(q) \/ WritesAccount(q) \/ WritesRole(q) \/ WritesDraft(q) \/ ClearsDraft(q)
    BY <2>3, <1>3 DEF WritesPassword, WritesAccount, WritesRole, WritesDraft, ClearsDraft
  <2> QED  BY <1>4, <1>6, <2>1, <2>2, <2>3 DEF RequestStep
<1>7. ASSUME NEW u \in AccountIds, LoginReads(u) \/ LockExpires(u)
      PROVE  asked' = asked
  BY <1>7 DEF LoginReads, LockExpires
<1>8. ASSUME LoginRefused \/ LoginAccepted
      PROVE  asked' = asked
  BY <1>8 DEF LoginRefused, LoginAccepted
<1>9. ASSUME AccountRestart
      PROVE  asked' \in [AccountRequests -> PanelRequests] /\ \A p \in AccountRequests : AskPlaced(p)'
  BY <1>9, NotAskedIs DEF AccountRestart, AskPlaced, NotAsked
<1>10. ASSUME NEW q \in AccountRequests, RequestFails(q)
       PROVE  asked' \in [AccountRequests -> PanelRequests] /\ \A p \in AccountRequests : AskPlaced(p)'
  BY <1>3, <1>10 DEF RequestFails
<1>11. UNCHANGED accountVars => UNCHANGED asked
  BY DEF accountVars
<1> QED  BY <1>1, <1>2, <1>6, <1>7, <1>8, <1>9, <1>10, <1>11 DEF AccountNext

\* What each write leaves of the accounts and of the roles.
LEMMA AccountsKeepShape ==
    ASSUME AccountShape, [AccountNext]_accountVars
    PROVE  /\ account' \in [AccountIds -> People]
           /\ roleBook' \in [RoleIds -> (SUBSET Permissions) \cup {NoRoleHere}]
<1>1. CASE UNCHANGED <<account, roleBook, shrunk, crossed>>
  BY <1>1 DEF AccountShape
<1>2. CASE AccountRestart
  <2> DEFINE fresh == [Person({}) EXCEPT !.hash = MaxAccountEvents + 1]
             seeded == IF \E u \in AccountIds : Here(u) THEN account ELSE [account EXCEPT ![DefaultAdmin] = fresh]
  <2>1. roleBook' \in [RoleIds -> (SUBSET Permissions) \cup {NoRoleHere}]
    BY <1>2 DEF AccountRestart, AccountShape
  <2>2. Person({}) \in People /\ MaxAccountEvents + 1 \in Nat
    BY PersonIs, AccountAssumption
  <2>3. fresh \in People
    BY <2>2 DEF People
  <2> HIDE DEF fresh
  <2>4. seeded \in [AccountIds -> People] /\ seeded[DefaultAdmin] \in People
    BY <2>3, AccountAssumption DEF AccountShape
  <2>5. account' = IF seeded[DefaultAdmin].is = "here" /\ seeded[DefaultAdmin].roles = {}
                   THEN [seeded EXCEPT ![DefaultAdmin].roles = {AdminRole}] ELSE seeded
    BY <1>2 DEF AccountRestart, fresh
  <2> HIDE DEF seeded
  <2>6. [seeded[DefaultAdmin] EXCEPT !.roles = {AdminRole}] \in People
    BY <2>4, PersonChanges DEF RoleIds
  <2> QED  BY <2>1, <2>4, <2>5, <2>6
<1>3. ASSUME NEW q \in AccountRequests, WritesRoles(q)
      PROVE  account' \in [AccountIds -> People] /\ roleBook' = roleBook
  <2>1. asked[q].ask \in AccountAsks /\ asked[q].ask.kind = "update" /\ asked[q].ask.roles # KeptRoles
    BY <1>3 DEF WritesRoles, AccountShape, AskPlaced, PanelRequests
  <2>2. asked[q].ask.target \in AccountIds /\ asked[q].ask.roles \in SUBSET RoleIds
    BY <2>1, AskCarries
  <2>3. [account[asked[q].ask.target] EXCEPT !.roles = asked[q].ask.roles] \in People
    BY <2>2, PersonChanges DEF AccountShape
  <2> QED  BY <1>3, <2>3 DEF WritesRoles, AccountShape
<1>4. ASSUME NEW q \in AccountRequests, WritesPassword(q)
      PROVE  account' \in [AccountIds -> People] /\ roleBook' = roleBook
  <2>1. PICK id : /\ id = IF asked[q].at = "reset" THEN asked[q].ask.target ELSE asked[q].actor
                  /\ account' = IF Here(id) THEN Rehashed(id) ELSE account
    BY <1>4 DEF WritesPassword
  <2>2. id \in AccountIds
    BY <2>1, AskCarries DEF AccountShape, AskPlaced, PanelRequests
  <2>3. PICK new : new = [account[id] EXCEPT !.hash = @ + 1, !.version = @ + 1]
    OBVIOUS
  <2>4. new \in People
    <3>1. account[id] \in People
      BY <2>2 DEF AccountShape
    <3> QED  BY <2>3, <3>1, PersonChanges
  <2>5. Rehashed(id) = [account EXCEPT ![id] = new]
    BY <2>2, <2>3 DEF Rehashed, AccountShape
  <2>6. account' \in [AccountIds -> People]
    BY <2>1, <2>2, <2>4, <2>5 DEF AccountShape
  <2>7. roleBook' = roleBook
    BY <1>4 DEF WritesPassword
  <2> QED  BY <2>6, <2>7
<1>5. ASSUME NEW q \in AccountRequests, WritesAccount(q)
      PROVE  account' \in [AccountIds -> People] /\ roleBook' = roleBook
  <2>1. asked[q].ask \in AccountAsks /\ asked[q].ask.kind = asked[q].at /\ asked[q].ask.kind \in {"create", "delete"}
    BY <1>5 DEF WritesAccount, AccountShape, AskPlaced, PanelRequests
  <2>2. /\ asked[q].ask.target \in AccountIds
        /\ asked[q].at = "create" => asked[q].ask.roles \in SUBSET RoleIds
    BY <2>1, AskCarries
  <2>3. CASE account' = account
    BY <1>5, <2>3 DEF WritesAccount, AccountShape
  <2>4. CASE asked[q].at = "create" /\ account' = [account EXCEPT ![asked[q].ask.target] = Person(asked[q].ask.roles)]
    BY <1>5, <2>2, <2>4, PersonIs DEF WritesAccount, AccountShape
  <2>5. CASE account' = [account EXCEPT ![asked[q].ask.target].is = "gone", ![asked[q].ask.target].roles = {}]
    <3>1. [account[asked[q].ask.target] EXCEPT !.is = "gone", !.roles = {}] \in People
      BY <2>2, PersonChanges DEF AccountShape
    <3>2. account' = [account EXCEPT ![asked[q].ask.target] = [account[asked[q].ask.target] EXCEPT !.is = "gone", !.roles = {}]]
      BY <2>2, <2>5 DEF AccountShape
    <3> QED  BY <1>5, <2>2, <3>1, <3>2 DEF WritesAccount, AccountShape
  <2> QED  BY <1>5, <2>3, <2>4, <2>5 DEF WritesAccount
<1>6. ASSUME NEW q \in AccountRequests, WritesRole(q)
      PROVE  /\ account' \in [AccountIds -> People]
             /\ roleBook' \in [RoleIds -> (SUBSET Permissions) \cup {NoRoleHere}]
  <2>1. asked[q].ask \in AccountAsks /\ asked[q].ask.kind = asked[q].at
        /\ asked[q].ask.kind \in {"editRole", "dropRole"}
    BY <1>6 DEF WritesRole, AccountShape, AskPlaced, PanelRequests
  <2>2. asked[q].at = "editRole" => asked[q].ask.grants \subseteq Permissions
    BY <2>1, AskCarries
  <2>3. \A u \in AccountIds : [account[u] EXCEPT !.roles = @ \ {asked[q].ask.role}] \in People
    <3> TAKE u \in AccountIds
    <3>1. account[u] \in People /\ account[u].roles \ {asked[q].ask.role} \in SUBSET RoleIds
      BY DEF AccountShape, People
    <3> QED  BY <3>1, PersonChanges
  <2>4. CASE asked[q].at = "editRole"
    BY <1>6, <2>2, <2>4 DEF WritesRole, AccountShape
  <2>5. CASE asked[q].at = "dropRole"
    BY <1>6, <2>3, <2>5 DEF WritesRole, AccountShape
  <2> QED  BY <1>6, <2>4, <2>5 DEF WritesRole
<1> QED  BY <1>1, <1>2, <1>3, <1>4, <1>5, <1>6, AccountMoves DEF AccountShape

\* Who writes a second factor, and what of it.
LEMMA FactorMoves ==
    ASSUME [AccountNext]_accountVars
    PROVE  \/ UNCHANGED <<factor, redrafted>>
           \/ \E q \in AccountRequests : WritesDraft(q) \/ WritesFactor(q) \/ ClearsDraft(q)
<1>1. CASE UNCHANGED accountVars
  BY <1>1 DEF accountVars
<1>2. CASE AccountNext
  <2>1. ASSUME NEW q \in AccountRequests, Admitted(q) \/ RequestFails(q)
        PROVE  UNCHANGED <<factor, redrafted>>
    BY <2>1 DEF Admitted, RequestFails
  <2>2. ASSUME NEW q \in AccountRequests,
               Guards(q) \/ LooksBeforeReset(q) \/ WritesPassword(q)
        PROVE  UNCHANGED <<factor, redrafted>>
    BY <2>2 DEF Guards, LooksBeforeReset, WritesPassword
  <2>3. ASSUME NEW q \in AccountRequests, WritesRoles(q) \/ WritesAccount(q) \/ WritesRole(q)
        PROVE  UNCHANGED <<factor, redrafted>>
    BY <2>3 DEF WritesRoles, WritesAccount, WritesRole
  <2>4. ASSUME NEW u \in AccountIds, LoginReads(u) \/ LockExpires(u)
        PROVE  UNCHANGED <<factor, redrafted>>
    BY <2>4 DEF LoginReads, LockExpires
  <2>5. ASSUME LoginRefused \/ LoginAccepted \/ AccountRestart
        PROVE  UNCHANGED <<factor, redrafted>>
    BY <2>5 DEF LoginRefused, LoginAccepted, AccountRestart
  <2> QED  BY <1>2, <2>1, <2>2, <2>3, <2>4, <2>5 DEF AccountNext, RequestStep
<1> QED  BY <1>1, <1>2

\* What a write does to the second factor it is about, and to no other.
LEMMA FactorWritten ==
    ASSUME AccountShape, NEW q \in AccountRequests,
           WritesDraft(q) \/ WritesFactor(q) \/ ClearsDraft(q)
    PROVE  LET u == asked[q].actor IN
           /\ u \in AccountIds
           /\ factor' \in [AccountIds -> SecondFactors]
           /\ \A v \in AccountIds : v # u => factor'[v] = factor[v]
           /\ WritesDraft(q) => factor'[u].active = factor[u].active
           /\ ClearsDraft(q) => factor'[u].active = factor[u].active /\ factor'[u].draft \in {NoCode, factor[u].draft}
           /\ WritesFactor(q) => /\ factor'[u].draft = factor[u].draft
                                 /\ factor'[u].active = IF asked[q].at = "activate" THEN asked[q].seen ELSE NoCode
<1> DEFINE u == asked[q].actor
<1>1. u \in AccountIds /\ asked[q].seen \in AnyCode /\ factor[u] \in SecondFactors
  BY DEF AccountShape, PanelRequests
<1>2. \A code \in AnyCode : /\ [factor[u] EXCEPT !.draft = code] \in SecondFactors
                            /\ [factor[u] EXCEPT !.active = code] \in SecondFactors
  BY <1>1 DEF SecondFactors
<1>3. CASE WritesDraft(q)
  <2>1. PICK code \in AnyCode : factor' = [factor EXCEPT ![u].draft = code]
    BY <1>3 DEF WritesDraft, Drafted, AnyCode
  <2>2. factor' = [factor EXCEPT ![u] = [factor[u] EXCEPT !.draft = code]]
    BY <1>1, <2>1 DEF AccountShape
  <2>3. asked[q].at = "setup"
    BY <1>3 DEF WritesDraft
  <2> QED  BY <1>1, <1>2, <2>2, <2>3 DEF AccountShape, SecondFactors, WritesFactor, ClearsDraft
<1>4. CASE WritesFactor(q)
  <2>1. PICK code \in AnyCode : code = IF asked[q].at = "activate" THEN asked[q].seen ELSE NoCode
    BY <1>1 DEF AnyCode
  <2>2. factor' = [factor EXCEPT ![u] = [factor[u] EXCEPT !.active = code]]
    BY <1>1, <1>4, <2>1 DEF AccountShape, WritesFactor
  <2>3. asked[q].at \in {"activate", "disable"}
    BY <1>4 DEF WritesFactor
  <2> QED  BY <1>1, <1>2, <2>1, <2>2, <2>3 DEF AccountShape, SecondFactors, WritesDraft, ClearsDraft
<1>5. CASE ClearsDraft(q)
  <2>1. PICK code \in AnyCode : /\ factor' = [factor EXCEPT ![u] = [factor[u] EXCEPT !.draft = code]]
                                /\ code \in {NoCode, factor[u].draft}
    <3>1. CASE factor' = [factor EXCEPT ![u].draft = NoCode]
      BY <1>1, <3>1 DEF AccountShape, AnyCode
    <3>2. CASE factor' = factor
      <4>1. factor[u].draft \in AnyCode
        BY <1>1 DEF SecondFactors
      <4>2. [factor[u] EXCEPT !.draft = factor[u].draft] = factor[u]
        BY <1>1 DEF SecondFactors
      <4> QED  BY <3>2, <4>1, <4>2 DEF AccountShape
    <3> QED  BY <1>5, <3>1, <3>2 DEF ClearsDraft
  <2>2. asked[q].at = "clear"
    BY <1>5 DEF ClearsDraft
  <2> QED  BY <1>1, <1>2, <2>1, <2>2 DEF AccountShape, SecondFactors, WritesDraft, WritesFactor
<1> QED  BY <1>3, <1>4, <1>5

\* Who logs in: a token is of the row its login read.
LEMMA LoginStep ==
    ASSUME AccountShape, [AccountNext]_accountVars
    PROVE  /\ \A t \in tokens' : t.user \in AccountIds
           /\ login'.user \in AccountIds
           /\ \/ tokens' = tokens
              \/ tokens' = tokens \cup {[user |-> login.user, version |-> login.version, hash |-> login.hash]}
           /\ \/ login' = login
              \/ login'.version = login'.hash
              \/ \E u \in AccountIds : login'.version = account[u].version /\ login'.hash = account[u].hash
<1>1. CASE UNCHANGED <<tokens, login>>
  BY <1>1 DEF AccountShape
<1>2. ASSUME NEW u \in AccountIds, LoginReads(u)
      PROVE  /\ tokens' = tokens /\ login'.user = u
             /\ login'.version = account[u].version /\ login'.hash = account[u].hash
  BY <1>2 DEF LoginReads
<1>3. CASE LoginRefused
  <2>1. tokens' = tokens /\ login' = NoLogin
    BY <1>3 DEF LoginRefused
  <2> QED  BY <2>1, AccountAssumption DEF NoLogin, AccountShape
<1>4. CASE LoginAccepted
  <2>1. tokens' = tokens \cup {[user |-> login.user, version |-> login.version, hash |-> login.hash]}
        /\ login' = NoLogin
    BY <1>4 DEF LoginAccepted
  <2> QED  BY <2>1, AccountAssumption DEF NoLogin, AccountShape
<1>5. CASE AccountRestart
  <2>1. tokens' = tokens /\ login' = NoLogin
    BY <1>5 DEF AccountRestart
  <2> QED  BY <2>1, AccountAssumption DEF NoLogin, AccountShape
<1>6. ASSUME NEW u \in AccountIds, LockExpires(u)
      PROVE  UNCHANGED <<tokens, login>>
  BY <1>6 DEF LockExpires
<1>7. ASSUME NEW q \in AccountRequests, Admitted(q) \/ RequestFails(q)
      PROVE  UNCHANGED <<tokens, login>>
  BY <1>7 DEF Admitted, RequestFails, Keeps
<1>8. ASSUME NEW q \in AccountRequests, Guards(q) \/ WritesRoles(q) \/ LooksBeforeReset(q) \/ WritesPassword(q)
      PROVE  UNCHANGED <<tokens, login>>
  BY <1>8 DEF Guards, WritesRoles, LooksBeforeReset, WritesPassword, Keeps
<1>9. ASSUME NEW q \in AccountRequests,
             WritesAccount(q) \/ WritesRole(q) \/ WritesDraft(q) \/ WritesFactor(q) \/ ClearsDraft(q)
      PROVE  UNCHANGED <<tokens, login>>
  BY <1>9 DEF WritesAccount, WritesRole, WritesDraft, WritesFactor, ClearsDraft, Keeps
<1>10. UNCHANGED accountVars => UNCHANGED <<tokens, login>>
  BY DEF accountVars
<1>11. ASSUME NEW u \in AccountIds, LoginReads(u)
       PROVE  /\ \A t \in tokens' : t.user \in AccountIds
              /\ login'.user \in AccountIds
              /\ tokens' = tokens
              /\ \E v \in AccountIds : login'.version = account[v].version /\ login'.hash = account[v].hash
  BY <1>2, <1>11 DEF AccountShape
<1> QED
  BY <1>1, <1>3, <1>4, <1>5, <1>6, <1>7, <1>8, <1>9, <1>10, <1>11 DEF AccountNext, RequestStep

LEMMA AccountShapeStep ==
    ASSUME AccountShape, [AccountNext]_accountVars
    PROVE  AccountShape'
<1>1. factor' \in [AccountIds -> SecondFactors]
  BY FactorMoves, FactorWritten DEF AccountShape
<1> QED  BY <1>1, AskedStep, AccountsKeepShape, LoginStep DEF AccountShape

\* What was crossed or shrunk once counts for good.
LEMMA HistoryStays ==
    ASSUME [AccountNext]_accountVars
    PROVE  (crossed => crossed') /\ (shrunk => shrunk')
<1>1. AccountRestart => UNCHANGED <<crossed, shrunk>>
  BY DEF AccountRestart
<1>2. ASSUME NEW q \in AccountRequests, WritesRoles(q)
      PROVE  (Outdated(q) \/ crossed' = crossed) /\ shrunk' = shrunk
  BY <1>2 DEF WritesRoles
<1>3. ASSUME NEW q \in AccountRequests, WritesPassword(q)
      PROVE  UNCHANGED <<crossed, shrunk>>
  BY <1>3 DEF WritesPassword
<1>4. ASSUME NEW q \in AccountRequests, WritesAccount(q)
      PROVE  (Outdated(q) \/ crossed' = crossed) /\ shrunk' = shrunk
  BY <1>4 DEF WritesAccount
<1>5. ASSUME NEW q \in AccountRequests, WritesRole(q)
      PROVE  /\ Outdated(q) \/ crossed' = crossed
             /\ shrunk' = shrunk \/ shrunk' = (shrunk \/ "users.manage" \in roleBook[asked[q].ask.role] \ asked[q].ask.grants)
  BY <1>5 DEF WritesRole
<1>6. ASSUME NEW q \in AccountRequests, Outdated(q) \/ crossed' = crossed
      PROVE  crossed => crossed'
  BY <1>6 DEF Outdated
<1>7. ASSUME NEW q \in AccountRequests, WritesRoles(q) \/ WritesPassword(q) \/ WritesAccount(q) \/ WritesRole(q)
      PROVE  crossed => crossed'
  BY <1>2, <1>3, <1>4, <1>5, <1>6, <1>7
<1>8. ASSUME NEW q \in AccountRequests, WritesRoles(q) \/ WritesPassword(q) \/ WritesAccount(q) \/ WritesRole(q)
      PROVE  shrunk => shrunk'
  <2>1. shrunk' = shrunk \/ shrunk' = (shrunk \/ "users.manage" \in roleBook[asked[q].ask.role] \ asked[q].ask.grants)
    BY <1>2, <1>3, <1>4, <1>5, <1>8
  <2> QED  BY <2>1
<1> QED  BY <1>1, <1>7, <1>8, AccountMoves

\* Nobody's account goes while it is the last one, or the change was crossed.
LEMMA HereStep ==
    ASSUME AccountShape, SomebodyIsHere, [AccountNext]_accountVars
    PROVE  SomebodyIsHere'
<1> SUFFICES ASSUME ~ crossed'
             PROVE  \E u \in AccountIds : Here(u)'
  BY DEF SomebodyIsHere
<1>1. ~ crossed /\ \E u \in AccountIds : Here(u)
  <2>1. crossed => crossed'
    BY HistoryStays
  <2> QED  BY <2>1 DEF SomebodyIsHere
<1>2. PICK w \in AccountIds : Here(w)
  BY <1>1
<1>3. CASE UNCHANGED <<account, roleBook, shrunk, crossed>>
  BY <1>2, <1>3 DEF Here
<1>4. CASE AccountRestart
  <2>1. account' = IF account[DefaultAdmin].is = "here" /\ account[DefaultAdmin].roles = {}
                   THEN [account EXCEPT ![DefaultAdmin].roles = {AdminRole}] ELSE account
    BY <1>2, <1>4 DEF AccountRestart
  <2> QED  BY <1>2, <2>1 DEF Here, AccountShape, People
<1>5. ASSUME NEW q \in AccountRequests, WritesRoles(q)
      PROVE  \E u \in AccountIds : Here(u)'
  BY <1>2, <1>5 DEF WritesRoles, Here, AccountShape, People
<1>6. ASSUME NEW q \in AccountRequests, WritesPassword(q)
      PROVE  \E u \in AccountIds : Here(u)'
  <2>1. PICK id : account' = IF Here(id) THEN Rehashed(id) ELSE account
    BY <1>6 DEF WritesPassword
  <2>2. \A u \in AccountIds : account[u] \in People
    BY DEF AccountShape
  <2>3. Rehashed(id)[w].is = account[w].is
    BY <1>2, <2>2 DEF Rehashed, AccountShape, People
  <2> QED  BY <1>2, <2>1, <2>3 DEF Here
<1>7. ASSUME NEW q \in AccountRequests, WritesAccount(q)
      PROVE  \E u \in AccountIds : Here(u)'
  <2>1. CASE asked[q].at = "create"
    <3>1. account' = account \/ (/\ account[asked[q].ask.target].is = "unused"
                                 /\ account' = [account EXCEPT ![asked[q].ask.target] = Person(asked[q].ask.roles)])
      BY <1>7, <2>1 DEF WritesAccount
    <3> QED  BY <1>2, <3>1 DEF Here, AccountShape, Person
  <2>2. CASE asked[q].at = "delete"
    <3>1. Allowed(asked[q].actor, asked[q].ask) /\ asked[q].ask.kind = "delete"
      BY <1>7, <2>2 DEF WritesAccount, Outdated, AccountShape, AskPlaced
    <3>2. SomeoneStays(asked[q].ask.target, {})
      BY <3>1 DEF Allowed
    <3>3. PICK u \in AccountIds : /\ Here(u)
                                  /\ "users.manage" \in GrantsIn(roleBook, IF u = asked[q].ask.target THEN {}
                                                                           ELSE account[u].roles)
      BY <3>2 DEF SomeoneStays
    <3>4. u # asked[q].ask.target
      BY <3>3, GrantsInHas
    <3>5. account' = [account EXCEPT ![asked[q].ask.target].is = "gone", ![asked[q].ask.target].roles = {}]
      BY <1>7, <2>2 DEF WritesAccount
    <3> QED  BY <3>3, <3>4, <3>5 DEF Here, AccountShape
  <2> QED  BY <1>7, <2>1, <2>2 DEF WritesAccount
<1>8. ASSUME NEW q \in AccountRequests, WritesRole(q)
      PROVE  \E u \in AccountIds : Here(u)'
  <2>1. account' = account \/ account' = [u \in AccountIds |-> [account[u] EXCEPT !.roles = @ \ {asked[q].ask.role}]]
    BY <1>8 DEF WritesRole
  <2>2. \A u \in AccountIds : account[u] \in People
    BY DEF AccountShape
  <2>3. account'[w].is = account[w].is
    BY <1>2, <2>1, <2>2 DEF People
  <2> QED  BY <1>2, <2>3 DEF Here
<1> QED  BY <1>3, <1>4, <1>5, <1>6, <1>7, <1>8, AccountMoves

LEMMA DraftStep ==
    ASSUME AccountShape, DraftInv, [AccountNext]_accountVars
    PROVE  DraftInv' /\ FactorIsNotReplaced
<1>1. CASE UNCHANGED <<factor, redrafted>>
  BY <1>1 DEF DraftInv, FactorIsNotReplaced
<1>2. ASSUME NEW q \in AccountRequests, WritesDraft(q)
      PROVE  DraftInv' /\ FactorIsNotReplaced
  <2> DEFINE u == asked[q].actor
  <2>1. /\ \A v \in AccountIds : factor'[v].active = factor[v].active
        /\ \A v \in AccountIds : v # u => factor'[v] = factor[v]
    BY <1>2, FactorWritten
  <2>2. /\ redrafted' = (redrafted \/ factor[u].active # asked[q].seen)
        /\ asked[q].seen = NoCode
    BY <1>2 DEF WritesDraft, AccountShape, AskPlaced
  <2> QED  BY <2>1, <2>2 DEF DraftInv, FactorIsNotReplaced
<1>3. ASSUME NEW q \in AccountRequests, WritesFactor(q)
      PROVE  DraftInv' /\ FactorIsNotReplaced
  <2> DEFINE u == asked[q].actor
  <2>1. /\ u \in AccountIds
        /\ \A v \in AccountIds : v # u => factor'[v] = factor[v]
        /\ factor'[u].draft = factor[u].draft
        /\ factor'[u].active = IF asked[q].at = "activate" THEN asked[q].seen ELSE NoCode
    BY <1>3, FactorWritten
  <2>2. /\ redrafted' = (redrafted \/ (asked[q].at = "activate" /\ factor[u].draft # asked[q].seen))
        /\ asked[q].at = "activate" => asked[q].seen # NoCode
    BY <1>3 DEF WritesFactor, AccountShape, AskPlaced
  <2> QED  BY <2>1, <2>2 DEF DraftInv, FactorIsNotReplaced
<1>4. ASSUME NEW q \in AccountRequests, ClearsDraft(q)
      PROVE  DraftInv' /\ FactorIsNotReplaced
  <2> DEFINE u == asked[q].actor
  <2>1. /\ \A v \in AccountIds : v # u => factor'[v] = factor[v]
        /\ factor'[u].active = factor[u].active /\ factor'[u].draft \in {NoCode, factor[u].draft}
    BY <1>4, FactorWritten
  <2>2. redrafted' = redrafted
    BY <1>4 DEF ClearsDraft
  <2> QED  BY <2>1, <2>2 DEF DraftInv, FactorIsNotReplaced
<1> QED  BY <1>1, <1>2, <1>3, <1>4, FactorMoves

LEMMA PasswordStep ==
    ASSUME AccountShape, SomebodyIsHere, PasswordInv, [AccountNext]_accountVars
    PROVE  PasswordInv'
<1> SUFFICES ASSUME ~ crossed'
             PROVE  /\ \A u \in AccountIds : account'[u].version = account'[u].hash
                    /\ \A t \in tokens' : t.version = t.hash
                    /\ login'.version = login'.hash
  BY DEF PasswordInv
<1>1. ~ crossed
  BY HistoryStays
<1>2. /\ \A u \in AccountIds : account[u].version = account[u].hash
      /\ \A t \in tokens : t.version = t.hash
      /\ login.version = login.hash
  BY <1>1 DEF PasswordInv
<1>3. (\A t \in tokens' : t.version = t.hash) /\ login'.version = login'.hash
  BY <1>2, LoginStep
<1>4. \A u \in AccountIds : account[u] \in People
  BY DEF AccountShape
<1>5. CASE UNCHANGED <<account, roleBook, shrunk, crossed>>
  BY <1>2, <1>3, <1>5
<1>6. CASE AccountRestart
  <2>1. account' = IF account[DefaultAdmin].is = "here" /\ account[DefaultAdmin].roles = {}
                   THEN [account EXCEPT ![DefaultAdmin].roles = {AdminRole}] ELSE account
    BY <1>1, <1>6 DEF AccountRestart, SomebodyIsHere
  <2> QED  BY <1>2, <1>3, <1>4, <2>1 DEF AccountShape, People
<1>7. ASSUME NEW q \in AccountRequests, WritesRoles(q)
      PROVE  \A u \in AccountIds : account'[u].version = account'[u].hash
  <2>1. account' = account \/ account' = [account EXCEPT ![asked[q].ask.target].roles = asked[q].ask.roles]
    BY <1>7 DEF WritesRoles
  <2> QED  BY <1>2, <1>4, <2>1 DEF AccountShape, People
<1>8. ASSUME NEW q \in AccountRequests, WritesPassword(q)
      PROVE  \A u \in AccountIds : account'[u].version = account'[u].hash
  <2>1. PICK id : account' = IF Here(id) THEN Rehashed(id) ELSE account
    BY <1>8 DEF WritesPassword
  <2>2. ASSUME NEW u \in AccountIds
        PROVE  Rehashed(id)[u].version = Rehashed(id)[u].hash
    <3>1. CASE u = id
      <4>1. Rehashed(id)[u] = [account[u] EXCEPT !.hash = @ + 1, !.version = @ + 1]
        BY <3>1 DEF Rehashed, AccountShape
      <4>2. account[u] \in People /\ account[u].version = account[u].hash
        BY <1>2, <1>4
      <4> QED  BY <4>1, <4>2 DEF People
    <3>2. CASE u # id
      BY <1>2, <3>2 DEF Rehashed, AccountShape
    <3> QED  BY <3>1, <3>2
  <2> QED  BY <1>2, <2>1, <2>2
<1>9. ASSUME NEW q \in AccountRequests, WritesAccount(q)
      PROVE  \A u \in AccountIds : account'[u].version = account'[u].hash
  <2>1. \/ account' = account
        \/ account' = [account EXCEPT ![asked[q].ask.target] = Person(asked[q].ask.roles)]
        \/ account' = [account EXCEPT ![asked[q].ask.target].is = "gone", ![asked[q].ask.target].roles = {}]
    BY <1>9 DEF WritesAccount
  <2>2. CASE account' = [account EXCEPT ![asked[q].ask.target] = Person(asked[q].ask.roles)]
    BY <1>2, <2>2 DEF AccountShape, Person
  <2>3. CASE account' = [account EXCEPT ![asked[q].ask.target].is = "gone", ![asked[q].ask.target].roles = {}]
    BY <1>2, <1>4, <2>3 DEF AccountShape, People
  <2> QED  BY <1>2, <2>1, <2>2, <2>3
<1>10. ASSUME NEW q \in AccountRequests, WritesRole(q)
       PROVE  \A u \in AccountIds : account'[u].version = account'[u].hash
  <2>1. account' = account \/ account' = [u \in AccountIds |-> [account[u] EXCEPT !.roles = @ \ {asked[q].ask.role}]]
    BY <1>10 DEF WritesRole
  <2> QED  BY <1>2, <1>4, <2>1 DEF People
<1> QED  BY <1>3, <1>5, <1>6, <1>7, <1>8, <1>9, <1>10, AccountMoves

\* An account that may administer: it is there, and a role of it says so.
LEMMA ManagesIs ==
    ASSUME NEW u
    PROVE  Manages(u) <=> /\ Here(u)
                          /\ \E r \in account[u].roles : roleBook[r] # NoRoleHere /\ "users.manage" \in roleBook[r]
BY GrantsInHas DEF Manages, GetUserPermissions

\* Each change leaves somebody who may administer, or was crossed or took the
\* permission from a role.
LEMMA ManageStep ==
    ASSUME AccountShape, SomebodyManages, [AccountNext]_accountVars
    PROVE  SomebodyManages'
<1> DEFINE Grants(r) == roleBook[r] # NoRoleHere /\ "users.manage" \in roleBook[r]
<1> SUFFICES ASSUME ~ shrunk', ~ crossed'
             PROVE  \E u \in AccountIds :
                      Here(u)' /\ \E r \in account'[u].roles : Grants(r)'
  <2>1. \A u \in AccountIds :
          Manages(u)' <=> Here(u)' /\ \E r \in account'[u].roles : Grants(r)'
    BY GrantsInHas DEF Manages, GetUserPermissions
  <2> QED  BY <2>1 DEF SomebodyManages
<1>1. ~ crossed /\ ~ shrunk
  BY HistoryStays
<1>2. PICK w \in AccountIds : Here(w) /\ \E r \in account[w].roles : Grants(r)
  BY <1>1, ManagesIs DEF SomebodyManages
<1>3. PICK s \in account[w].roles : Grants(s)
  BY <1>2
<1>4. \A u \in AccountIds : account[u] \in People
  BY DEF AccountShape
<1>5. s \in RoleIds
  BY <1>3, <1>4 DEF People
<1>6. CASE UNCHANGED <<account, roleBook, shrunk, crossed>>
  BY <1>2, <1>6 DEF Here
<1>7. CASE AccountRestart
  <2>1. account' = IF account[DefaultAdmin].is = "here" /\ account[DefaultAdmin].roles = {}
                   THEN [account EXCEPT ![DefaultAdmin].roles = {AdminRole}] ELSE account
    BY <1>2, <1>7 DEF AccountRestart
  <2>2. account'[w] = account[w]
    BY <1>3, <2>1 DEF AccountShape
  <2>3. roleBook' = [roleBook EXCEPT ![AdminRole] = Permissions]
    BY <1>7 DEF AccountRestart
  <2>4. Grants(s)'
    BY <1>3, <1>5, <2>3 DEF AccountShape, Permissions, NoRoleHere
  <2> QED  BY <1>2, <1>3, <2>2, <2>4 DEF Here
<1>8. ASSUME NEW q \in AccountRequests, WritesRoles(q)
      PROVE  \E u \in AccountIds : Here(u)' /\ \E r \in account'[u].roles : Grants(r)'
  <2> DEFINE ask == asked[q].ask
  <2>1. roleBook' = roleBook
    BY <1>8 DEF WritesRoles
  <2>2. CASE account' = account
    BY <1>2, <2>1, <2>2 DEF Here
  <2>3. CASE account' # account
    <3>1. /\ account' = [account EXCEPT ![ask.target].roles = ask.roles]
          /\ Allowed(asked[q].actor, ask) /\ ask.kind = "update" /\ ask.roles # KeptRoles
      BY <1>8, <2>3 DEF WritesRoles, Outdated, AccountShape, AskPlaced
    <3>2. SomeoneStays(ask.target, ask.roles)
      BY <3>1 DEF Allowed
    <3>3. PICK u \in AccountIds : /\ Here(u)
                                  /\ "users.manage" \in GrantsIn(roleBook, IF u = ask.target THEN ask.roles
                                                                           ELSE account[u].roles)
      BY <3>2 DEF SomeoneStays
    <3>4. \E r \in (IF u = ask.target THEN ask.roles ELSE account[u].roles) : Grants(r)
      BY <3>3, GrantsInHas
    <3>5. account'[u].is = account[u].is
          /\ account'[u].roles = IF u = ask.target THEN ask.roles ELSE account[u].roles
      BY <1>4, <3>1 DEF AccountShape, People
    <3> QED  BY <2>1, <3>3, <3>4, <3>5 DEF Here
  <2> QED  BY <2>2, <2>3
<1>9. ASSUME NEW q \in AccountRequests, WritesPassword(q)
      PROVE  \E u \in AccountIds : Here(u)' /\ \E r \in account'[u].roles : Grants(r)'
  <2>1. PICK id : account' = IF Here(id) THEN Rehashed(id) ELSE account
    BY <1>9 DEF WritesPassword
  <2>2. Rehashed(id)[w].is = account[w].is /\ Rehashed(id)[w].roles = account[w].roles
    BY <1>4 DEF Rehashed, AccountShape, People
  <2>3. roleBook' = roleBook
    BY <1>9 DEF WritesPassword
  <2> QED  BY <1>2, <2>1, <2>2, <2>3 DEF Here
<1>10. ASSUME NEW q \in AccountRequests, WritesAccount(q)
       PROVE  \E u \in AccountIds : Here(u)' /\ \E r \in account'[u].roles : Grants(r)'
  <2> DEFINE ask == asked[q].ask
  <2>1. roleBook' = roleBook
    BY <1>10 DEF WritesAccount
  <2>2. CASE asked[q].at = "create"
    <3>1. account' = account \/ (/\ account[ask.target].is = "unused"
                                 /\ account' = [account EXCEPT ![ask.target] = Person(ask.roles)])
      BY <1>10, <2>2 DEF WritesAccount
    <3>2. account'[w] = account[w]
      BY <1>2, <3>1 DEF Here, AccountShape
    <3> QED  BY <1>2, <2>1, <3>2 DEF Here
  <2>3. CASE asked[q].at = "delete"
    <3>1. Allowed(asked[q].actor, ask) /\ ask.kind = "delete"
      BY <1>10, <2>3 DEF WritesAccount, Outdated, AccountShape, AskPlaced
    <3>2. SomeoneStays(ask.target, {})
      BY <3>1 DEF Allowed
    <3>3. PICK u \in AccountIds : /\ Here(u)
                                  /\ "users.manage" \in GrantsIn(roleBook, IF u = ask.target THEN {}
                                                                           ELSE account[u].roles)
      BY <3>2 DEF SomeoneStays
    <3>4. u # ask.target /\ \E r \in account[u].roles : Grants(r)
      BY <3>3, GrantsInHas
    <3>5. account' = [account EXCEPT ![ask.target].is = "gone", ![ask.target].roles = {}]
      BY <1>10, <2>3 DEF WritesAccount
    <3>6. account'[u] = account[u]
      BY <3>4, <3>5 DEF AccountShape
    <3> QED  BY <2>1, <3>3, <3>4, <3>6 DEF Here
  <2> QED  BY <1>10, <2>2, <2>3 DEF WritesAccount
<1>11. ASSUME NEW q \in AccountRequests, WritesRole(q)
       PROVE  \E u \in AccountIds : Here(u)' /\ \E r \in account'[u].roles : Grants(r)'
  <2> DEFINE ask == asked[q].ask
  <2>1. ask \in AccountAsks /\ ask.kind = asked[q].at /\ ask.kind \in {"editRole", "dropRole"}
    BY <1>11 DEF WritesRole, AccountShape, AskPlaced, PanelRequests
  <2>2. CASE asked[q].at = "editRole"
    <3>1. account' = account
      BY <1>11, <2>2 DEF WritesRole
    <3>2. ask.grants \subseteq Permissions
      BY <2>1, <2>2, AskCarries
    <3>3. Grants(s)'
      <4>1. CASE roleBook' = roleBook
        BY <1>3, <4>1
      <4>2. CASE roleBook' = [roleBook EXCEPT ![ask.role] = ask.grants]
                 /\ shrunk' = (shrunk \/ "users.manage" \in roleBook[ask.role] \ ask.grants)
        <5>1. s = ask.role => roleBook'[s] = ask.grants /\ "users.manage" \in ask.grants
          BY <1>3, <1>5, <4>2 DEF AccountShape
        <5>2. ask.grants # NoRoleHere
          BY <3>2 DEF Permissions, NoRoleHere
        <5>3. s # ask.role => roleBook'[s] = roleBook[s]
          BY <4>2 DEF AccountShape
        <5> QED  BY <1>3, <5>1, <5>2, <5>3
      <4> QED  BY <1>11, <2>2, <4>1, <4>2 DEF WritesRole
    <3> QED  BY <1>2, <1>3, <3>1, <3>3 DEF Here
  <2>3. CASE asked[q].at = "dropRole"
    <3>1. /\ roleBook' = [roleBook EXCEPT ![ask.role] = NoRoleHere]
          /\ account' = [u \in AccountIds |-> [account[u] EXCEPT !.roles = @ \ {ask.role}]]
          /\ Allowed(asked[q].actor, ask) /\ ask.kind = "dropRole"
      BY <1>11, <2>1, <2>3 DEF WritesRole, Outdated
    <3>2. \A u \in AccountIds : Here(u) => ask.role \notin account[u].roles
      BY <3>1 DEF Allowed
    <3>3. s # ask.role
      BY <1>2, <1>3, <3>2
    <3>4. account'[w].is = account[w].is /\ s \in account'[w].roles
      BY <1>3, <1>4, <3>1, <3>3 DEF People
    <3>5. roleBook'[s] = roleBook[s]
      BY <3>1, <3>3 DEF AccountShape
    <3> QED  BY <1>2, <1>3, <3>4, <3>5 DEF Here
  <2> QED  BY <2>1, <2>2, <2>3
<1> QED  BY <1>6, <1>7, <1>8, <1>9, <1>10, <1>11, AccountMoves

LEMMA AccountStep ==
    ASSUME AccountInv, [AccountNext]_accountVars
    PROVE  AccountInv' /\ FactorIsNotReplaced
BY AccountShapeStep, HereStep, PasswordStep, ManageStep, DraftStep DEF AccountInv

LEMMA AccountHolds == AccountInv => SomebodyManages /\ TokensAreOfThePassword
<1> SUFFICES ASSUME AccountInv, ~ crossed
             PROVE  \A t \in tokens : Accepted(t) => t.hash = account[t.user].hash
  BY DEF AccountInv, TokensAreOfThePassword
<1> QED  BY DEF AccountInv, AccountShape, PasswordInv, Accepted

-----------------------------------------------------------------------------
(* The elements of the table *)

ElementTables == [macs : SUBSET LanHosts, ips : SUBSET LanAddrs, listed : SUBSET Listed, dnat : SUBSET Forwards,
           contained : SUBSET {"source"}]
HostRows == [blocked : BOOLEAN, ip : LanAddrs \cup {0}]
ElementStages == {"idle", "row", "mac", "ip", "element", "dnat", "persist", "write", "save", "copy",
                  "check", "restore", "reconcile"}
ElementAsks == [at : ElementStages, op : {"none", "add", "del"}, on : SUBSET (LanHosts \cup Listed \cup Forwards),
                list : SUBSET Forwards, read : ElementTables]

OfHost(c) == elementCalls[c].at \in {"row", "mac", "ip"}
OfForward(c) == elementCalls[c].on \cap Forwards # {}

CallFits(c) ==
    /\ OfHost(c) => \E h \in LanHosts : elementCalls[c].on = {h} /\ elementCalls[c].op \in {"add", "del"}
    /\ elementCalls[c].at \in {"dnat", "save"} => elementCalls[c].on # {} /\ elementCalls[c].on \subseteq Forwards
    /\ elementCalls[c].at = "element" => elementCalls[c].on \subseteq Listed
    /\ elementCalls[c].at \in {"idle", "check", "restore", "reconcile"} => elementCalls[c].on = {}
    /\ \/ elementCalls[c].on \subseteq LanHosts \/ elementCalls[c].on \subseteq Listed
       \/ elementCalls[c].on \subseteq Forwards

ElementShape ==
    /\ elements \in ElementTables /\ tableFile \in ElementTables /\ tableCopy \in ElementTables /\ dumps \subseteq ElementTables
    /\ hostRows \in [LanHosts -> HostRows]
    /\ forwardRows \subseteq Forwards /\ windowOpen \in BOOLEAN
    /\ elementCalls \in [ElementCalls -> ElementAsks]
    /\ \A c \in ElementCalls : CallFits(c)

SameElements(s, t) == s.macs = t.macs /\ s.ips = t.ips /\ s.listed = t.listed /\ s.dnat = t.dnat

\* While no two calls cross, the file is behind the kernel only between the
\* change of an element and the write that follows it.
FileInv ==
    /\ tableFile.contained = {}
    /\ \A c \in ElementCalls : At(c, "write") => elementCalls[c].read.contained = {}
    /\ "crossed" \notin fileLost =>
         /\ \A c, d \in ElementCalls : ~ At(c, "idle") /\ ~ At(d, "idle") => c = d
         /\ \A c \in ElementCalls : At(c, "write") => SameElements(elementCalls[c].read, elements)
         /\ (fileLost = {} /\ \A c \in ElementCalls : elementCalls[c].at \notin {"persist", "write", "reconcile"})
            => SameElements(tableFile, elements)

\* One call at a time for a host, which writes the flag before it acts.
OnePerHost ==
    \A c, d \in ElementCalls : c # d => elementCalls[c].on \cap elementCalls[d].on \cap LanHosts = {}
FlagFollows ==
    \A c \in ElementCalls : elementCalls[c].at \in {"mac", "ip"} =>
      \A h \in elementCalls[c].on : hostRows[h].blocked = (elementCalls[c].op = "add")

\* A blocked host is in the set, or the call that puts it there is under way.
BlockInv ==
    blockLost = {} =>
      /\ OnePerHost /\ FlagFollows
      /\ \A h \in BlockedHosts :
           h \in elements.macs \/ \E c \in ElementCalls : At(c, "mac") /\ h \in elementCalls[c].on

\* What is in a set belongs to a blocked host, or the call that takes it away
\* is under way.
FreeInv ==
    freeLost = {} =>
      /\ OnePerHost /\ FlagFollows
      /\ \A h \in elements.macs :
           h \in BlockedHosts \/ \E c \in ElementCalls : At(c, "mac") /\ h \in elementCalls[c].on
      /\ \A a \in elements.ips : \E h \in LanHosts :
           /\ hostRows[h].ip = a
           /\ h \in BlockedHosts \/ \E c \in ElementCalls : elementCalls[c].at \in {"mac", "ip"} /\ h \in elementCalls[c].on

\* The chain has the forwards of the setting, or the list that is about to be
\* saved there.
DnatInv ==
    dnatLost = {} =>
      /\ \A c, d \in ElementCalls : OfForward(c) /\ OfForward(d) => c = d
      /\ \A c \in ElementCalls : OfForward(c) /\ elementCalls[c].at \in {"persist", "write", "save"} =>
           elements.dnat = elementCalls[c].list
      /\ (\A c \in ElementCalls : OfForward(c) => elementCalls[c].at \notin {"persist", "write", "save"}) =>
           elements.dnat = forwardRows

ElementInv == ElementShape /\ FileInv /\ BlockInv /\ FreeInv /\ DnatInv

LEMMA NoElementsIs == NoElements \in ElementTables /\ NoElementCall \in ElementAsks
BY DEF NoElements, ElementTables, NoElementCall, ElementAsks, ElementStages

LEMMA ElementStarts == ElementInit => ElementInv
<1> SUFFICES ASSUME ElementInit
             PROVE  ElementInv
  OBVIOUS
<1>1. /\ elements = NoElements /\ tableFile = NoElements /\ tableCopy = NoElements /\ forwardRows = {}
      /\ dumps = {} /\ windowOpen = FALSE /\ elementCalls = [c \in ElementCalls |-> NoElementCall]
  BY DEF ElementInit
<1>2. hostRows \in [LanHosts -> HostRows] /\ BlockedHosts = {}
  <2>1. PICK a \in LanAddrs \cup {0} : hostRows = [h \in LanHosts |-> [blocked |-> FALSE, ip |-> a]]
    BY ElementAssumption DEF ElementInit
  <2> QED  BY <2>1 DEF HostRows, BlockedHosts
<1>3. \A c \in ElementCalls : elementCalls[c].at = "idle" /\ elementCalls[c].on = {}
  BY <1>1 DEF NoElementCall
<1>4. ElementShape
  BY <1>1, <1>2, <1>3, NoElementsIs DEF ElementShape, CallFits, OfHost
<1>5. FileInv
  BY <1>1, <1>3 DEF FileInv, At, SameElements, NoElements
<1>6. BlockInv /\ FreeInv
  BY <1>1, <1>2, <1>3 DEF BlockInv, FreeInv, OnePerHost, FlagFollows, NoElements
<1>7. DnatInv
  BY <1>1, <1>3 DEF DnatInv, OfForward, NoElements
<1> QED  BY <1>4, <1>5, <1>6, <1>7 DEF ElementInv

LEMMA ElementHolds ==
    ElementInv => /\ BlockedIsEnforced /\ UnblockedIsFree /\ FileKeepsElements
                  /\ ContainedStaysOut /\ ForwardsFollowRows
<1> SUFFICES ASSUME ElementInv
             PROVE  /\ BlockedIsEnforced /\ UnblockedIsFree /\ FileKeepsElements
                    /\ ContainedStaysOut /\ ForwardsFollowRows
  OBVIOUS
<1>1. BlockedIsEnforced
  BY DEF ElementInv, BlockInv, BlockedIsEnforced, CallsIdle, At
<1>2. UnblockedIsFree
  <2> SUFFICES ASSUME CallsIdle, freeLost = {}
               PROVE  /\ elements.macs \subseteq BlockedHosts
                      /\ elements.ips \subseteq {hostRows[h].ip : h \in BlockedHosts}
    BY DEF UnblockedIsFree
  <2>1. \A c \in ElementCalls : elementCalls[c].at = "idle"
    BY DEF CallsIdle
  <2>2. \A a \in elements.ips : \E h \in LanHosts : hostRows[h].ip = a /\ h \in BlockedHosts
    BY <2>1 DEF ElementInv, FreeInv
  <2> QED  BY <2>1, <2>2 DEF ElementInv, FreeInv, At
<1>3. FileKeepsElements
  <2> SUFFICES ASSUME CallsIdle, fileLost = {}
               PROVE  tableFile = [elements EXCEPT !.contained = tableFile.contained]
    BY DEF FileKeepsElements
  <2>1. SameElements(tableFile, elements)
    BY DEF ElementInv, FileInv, CallsIdle
  <2>2. elements \in ElementTables /\ tableFile \in ElementTables
    BY DEF ElementInv, ElementShape
  <2>3. PICK t : t = [elements EXCEPT !.contained = tableFile.contained]
    OBVIOUS
  <2>4. t \in ElementTables
    BY <2>2, <2>3 DEF ElementTables
  <2>5. t.macs = elements.macs /\ t.ips = elements.ips /\ t.listed = elements.listed /\ t.dnat = elements.dnat
        /\ t.contained = tableFile.contained
    BY <2>2, <2>3, <2>4 DEF ElementTables
  <2>6. t = tableFile
    BY <2>1, <2>2, <2>4, <2>5 DEF ElementTables, SameElements
  <2> QED  BY <2>3, <2>6
<1>4. ContainedStaysOut
  BY DEF ElementInv, FileInv, ContainedStaysOut
<1>5. ForwardsFollowRows
  BY DEF ElementInv, DnatInv, ForwardsFollowRows, CallsIdle
<1> QED  BY <1>1, <1>2, <1>3, <1>4, <1>5

LEMMA CallGoes ==
    ASSUME ElementShape, NEW c \in ElementCalls, NEW a \in ElementStages, GoesTo(c, a)
    PROVE  /\ elementCalls' \in [ElementCalls -> ElementAsks]
           /\ elementCalls'[c].at = a /\ elementCalls'[c].op = elementCalls[c].op
           /\ elementCalls'[c].on = elementCalls[c].on /\ elementCalls'[c].list = elementCalls[c].list
           /\ elementCalls'[c].read = elementCalls[c].read
           /\ \A d \in ElementCalls : d # c => elementCalls'[d] = elementCalls[d]
<1>1. elementCalls[c] \in ElementAsks
  BY DEF ElementShape
<1>2. PICK r : r = [elementCalls[c] EXCEPT !.at = a]
  OBVIOUS
<1>3. r \in ElementAsks
  BY <1>1, <1>2 DEF ElementAsks
<1>4. elementCalls' = [elementCalls EXCEPT ![c] = r]
  BY <1>2 DEF GoesTo, ElementShape
<1>5. r.at = a /\ r.op = elementCalls[c].op /\ r.on = elementCalls[c].on /\ r.list = elementCalls[c].list
      /\ r.read = elementCalls[c].read
  BY <1>1, <1>2, <1>3 DEF ElementAsks
<1> QED  BY <1>3, <1>4, <1>5 DEF ElementShape

LEMMA CallGone ==
    ASSUME ElementShape, NEW c \in ElementCalls, CallEnds(c)
    PROVE  /\ elementCalls' \in [ElementCalls -> ElementAsks]
           /\ elementCalls'[c].at = "idle" /\ elementCalls'[c].on = {}
           /\ \A d \in ElementCalls : d # c => elementCalls'[d] = elementCalls[d]
BY NoElementsIs DEF ElementShape, CallEnds, NoElementCall

\* Where a call goes after the file: to the copy, to the setting, or away.
LEMMA CallAfter ==
    ASSUME ElementShape, NEW c \in ElementCalls, NEW ok \in BOOLEAN, AfterPersist(c, ok)
    PROVE  \/ GoesTo(c, "copy") /\ ~ OfForward(c)
           \/ GoesTo(c, "save") /\ ok /\ elementCalls[c].on # {} /\ elementCalls[c].on \subseteq Forwards
           \/ CallEnds(c) /\ ~ ok /\ (OfForward(c) => elementCalls[c].on \subseteq Forwards)
BY ElementAssumption DEF AfterPersist, ElementShape, CallFits, OfForward

LEMMA PutIs ==
    ASSUME NEW c, NEW S, NEW s \in SUBSET S, NEW x \in SUBSET S
    PROVE  Put(c, s, x) \in SUBSET S
BY DEF Put

LEMMA TableChanges ==
    ASSUME NEW t \in ElementTables, NEW macs \in SUBSET LanHosts, NEW ips \in SUBSET LanAddrs,
           NEW listed \in SUBSET Listed, NEW dnat \in SUBSET Forwards, NEW contained \in SUBSET {"source"}
    PROVE  /\ [t EXCEPT !.macs = macs] \in ElementTables /\ [t EXCEPT !.ips = ips] \in ElementTables
           /\ [t EXCEPT !.listed = listed] \in ElementTables /\ [t EXCEPT !.dnat = dnat] \in ElementTables
           /\ [t EXCEPT !.contained = contained] \in ElementTables
BY DEF ElementTables

LEMMA SanitizedIs ==
    ASSUME NEW t \in ElementTables
    PROVE  Sanitized(t) \in ElementTables /\ Sanitized(t).contained = {} /\ SameElements(Sanitized(t), t)
<1>1. Sanitized(t) \in ElementTables
  BY DEF Sanitized, ElementTables
<1> QED  BY <1>1 DEF Sanitized, ElementTables, SameElements

\* A call that moves fits where it goes; the others stay as they are.
LEMMA ShapeOfCall ==
    ASSUME ElementShape, NEW c \in ElementCalls, elementCalls' \in [ElementCalls -> ElementAsks], CallFits(c)',
           \A d \in ElementCalls : d # c => elementCalls'[d] = elementCalls[d]
    PROVE  \A d \in ElementCalls : CallFits(d)'
<1> SUFFICES ASSUME NEW d \in ElementCalls, d # c
             PROVE  CallFits(d)'
  OBVIOUS
<1>1. CallFits(d) /\ elementCalls'[d] = elementCalls[d]
  BY DEF ElementShape
<1> QED  BY <1>1 DEF CallFits, OfHost

\* A move that asks nothing new of what the call is on.
LEMMA ShapeOfMove ==
    ASSUME ElementShape, NEW c \in ElementCalls,
           \/ elementCalls[c].at \notin {"idle", "check", "restore"} /\ (GoesTo(c, "copy") \/ GoesTo(c, "persist"))
           \/ elementCalls[c].at = "row" /\ GoesTo(c, "mac")
           \/ elementCalls[c].at = "mac" /\ GoesTo(c, "ip")
           \/ elementCalls[c].at = "check" /\ GoesTo(c, "restore")
           \/ elementCalls[c].at = "restore" /\ GoesTo(c, "reconcile")
           \/ elementCalls[c].on # {} /\ elementCalls[c].on \subseteq Forwards /\ GoesTo(c, "save")
           \/ CallEnds(c)
    PROVE  elementCalls' \in [ElementCalls -> ElementAsks] /\ \A d \in ElementCalls : CallFits(d)'
<1>1. CallFits(c)
  BY DEF ElementShape
<1>2. {"copy", "persist", "mac", "ip", "restore", "reconcile", "save"} \subseteq ElementStages
  BY DEF ElementStages
<1>3. CASE CallEnds(c)
  <2>1. CallFits(c)'
    BY <1>3, CallGone DEF CallFits, OfHost
  <2> QED  BY <1>3, <2>1, CallGone, ShapeOfCall
<1>4. ASSUME NEW a \in {"copy", "persist", "mac", "ip", "restore", "reconcile", "save"}, GoesTo(c, a),
             CallFits(c)'
      PROVE  elementCalls' \in [ElementCalls -> ElementAsks] /\ \A d \in ElementCalls : CallFits(d)'
  BY <1>2, <1>4, CallGoes, ShapeOfCall
<1>5. ASSUME NEW a \in {"copy", "persist"}, GoesTo(c, a)
      PROVE  elementCalls' \in [ElementCalls -> ElementAsks] /\ \A d \in ElementCalls : CallFits(d)'
  <2>1. CallFits(c)'
    BY <1>1, <1>2, <1>5, CallGoes DEF CallFits, OfHost
  <2> QED  BY <1>4, <1>5, <2>1
<1>6. CASE \/ elementCalls[c].at = "row" /\ GoesTo(c, "mac")
           \/ elementCalls[c].at = "mac" /\ GoesTo(c, "ip")
  <2>1. CallFits(c)'
    BY <1>1, <1>2, <1>6, CallGoes DEF CallFits, OfHost
  <2> QED  BY <1>4, <1>6, <2>1
<1>7. CASE \/ elementCalls[c].at = "check" /\ GoesTo(c, "restore")
           \/ elementCalls[c].at = "restore" /\ GoesTo(c, "reconcile")
  <2>1. CallFits(c)'
    BY <1>1, <1>2, <1>7, CallGoes DEF CallFits, OfHost
  <2> QED  BY <1>4, <1>7, <2>1
<1>8. CASE elementCalls[c].on # {} /\ elementCalls[c].on \subseteq Forwards /\ GoesTo(c, "save")
  <2>1. CallFits(c)'
    BY <1>1, <1>2, <1>8, CallGoes DEF CallFits, OfHost
  <2> QED  BY <1>4, <1>8, <2>1
<1> QED  BY <1>3, <1>5, <1>6, <1>7, <1>8

\* What a command leaves: a table with one of its parts changed.
LEMMA MacCommand ==
    ASSUME ElementShape, NEW c \in ElementCalls, SetsMac(c)
    PROVE  /\ elements' \in ElementTables
           /\ elements'.ips = elements.ips /\ elements'.listed = elements.listed /\ elements'.dnat = elements.dnat
           /\ \/ elements' = elements
              \/ elements'.macs = Put(c, elements.macs, elementCalls[c].on)
<1>1. elements \in ElementTables /\ elementCalls[c].on \in SUBSET LanHosts
  BY DEF SetsMac, At, ElementShape, CallFits, OfHost
<1>2. PICK macs \in SUBSET LanHosts : macs = Put(c, elements.macs, elementCalls[c].on)
  BY <1>1, PutIs DEF ElementTables
<1>3. elements' = elements \/ elements' = [elements EXCEPT !.macs = macs]
  BY <1>2 DEF SetsMac
<1>4. elements' \in ElementTables
  BY <1>1, <1>3 DEF ElementTables
<1> QED  BY <1>1, <1>2, <1>3, <1>4 DEF ElementTables

LEMMA IpCommand ==
    ASSUME ElementShape, NEW c \in ElementCalls, SetsIp(c)
    PROVE  /\ elements' \in ElementTables
           /\ elements'.macs = elements.macs /\ elements'.listed = elements.listed /\ elements'.dnat = elements.dnat
           /\ \/ elements' = elements /\ GoesTo(c, "copy")
              \/ elements'.ips = Put(c, elements.ips, SeenAt(c)) /\ GoesTo(c, "persist")
<1>1. elements \in ElementTables /\ elementCalls[c].on \in SUBSET LanHosts
  BY DEF SetsIp, At, ElementShape, CallFits, OfHost
<1>2. SeenAt(c) \in SUBSET LanAddrs
  BY <1>1 DEF SeenAt, ElementShape, HostRows
<1>3. PICK ips \in SUBSET LanAddrs : ips = Put(c, elements.ips, SeenAt(c))
  BY <1>1, <1>2, PutIs DEF ElementTables
<1>4. \/ elements' = elements /\ GoesTo(c, "copy")
      \/ elements' = [elements EXCEPT !.ips = ips] /\ GoesTo(c, "persist")
  BY <1>3 DEF SetsIp, KernelStays
<1>5. elements' \in ElementTables
  BY <1>1, <1>4 DEF ElementTables
<1> QED  BY <1>1, <1>3, <1>4, <1>5 DEF ElementTables

LEMMA ListCommand ==
    ASSUME ElementShape, NEW c \in ElementCalls, SetsElement(c)
    PROVE  /\ elements' \in ElementTables
           /\ elements'.macs = elements.macs /\ elements'.ips = elements.ips /\ elements'.dnat = elements.dnat
           /\ GoesTo(c, "persist") \/ (elements' = elements /\ CallEnds(c))
<1>1. elements \in ElementTables /\ elementCalls[c].on \in SUBSET Listed
  BY DEF SetsElement, At, ElementShape, CallFits
<1>2. PICK listed \in SUBSET Listed : listed = Put(c, elements.listed, elementCalls[c].on)
  BY <1>1, PutIs DEF ElementTables
<1>3. \/ elements' = elements /\ CallEnds(c)
      \/ elements' = [elements EXCEPT !.listed = listed] /\ GoesTo(c, "persist")
  BY <1>2 DEF SetsElement
<1>4. elements' \in ElementTables
  BY <1>1, <1>3 DEF ElementTables
<1> QED  BY <1>1, <1>2, <1>3, <1>4 DEF ElementTables

LEMMA ForwardCommand ==
    ASSUME ElementShape, NEW c \in ElementCalls, SetsForwards(c)
    PROVE  /\ elements' \in ElementTables
           /\ elements'.macs = elements.macs /\ elements'.ips = elements.ips /\ elements'.listed = elements.listed
           /\ \/ elements' = elements /\ CallEnds(c)
              \/ elements'.dnat = elementCalls[c].list /\ GoesTo(c, "persist")
<1>1. elements \in ElementTables /\ elementCalls[c].list \in SUBSET Forwards
  BY DEF ElementShape, ElementAsks
<1>2. \/ elements' = elements /\ CallEnds(c)
      \/ elements' = [elements EXCEPT !.dnat = elementCalls[c].list] /\ GoesTo(c, "persist")
  BY DEF SetsForwards
<1>3. elements' \in ElementTables
  BY <1>1, <1>2 DEF ElementTables
<1> QED  BY <1>1, <1>2, <1>3 DEF ElementTables

\* What a request asks: for a host, for a listed destination or for a forward.
LEMMA AskIs ==
    ASSUME ElementShape, NEW c \in ElementCalls, AsksElement(c)
    PROVE  /\ elementCalls' \in [ElementCalls -> ElementAsks]
           /\ \A d \in ElementCalls : d # c => elementCalls'[d] = elementCalls[d]
           /\ \A d \in ElementCalls : CallFits(d)'
           /\ elementCalls'[c].at \in {"row", "element", "dnat"}
           /\ \E x \in LanHosts \cup Listed \cup Forwards :
                LET busy == UNION {elementCalls[d].on : d \in ElementCalls} IN
                /\ elementCalls'[c].on = {x}
                /\ blockLost' = blockLost \cup Because("crossed", x \in LanHosts /\ x \in busy)
                /\ freeLost' = freeLost \cup Because("crossed", x \in LanHosts /\ x \in busy)
                /\ dnatLost' = dnatLost \cup Because("crossed", x \in Forwards /\ busy \cap Forwards # {})
<1> DEFINE busy == UNION {elementCalls[d].on : d \in ElementCalls}
<1>1. PICK op \in {"add", "del"}, x \in LanHosts \cup Listed \cup Forwards :
        LET wish == [NoElementCall EXCEPT !.op = op, !.on = {x}]
            list == IF op = "add" THEN forwardRows \cup {x} ELSE forwardRows \ {x}
        IN /\ elementCalls' = [elementCalls EXCEPT ![c] =
                CASE x \in LanHosts -> [wish EXCEPT !.at = "row"]
                  [] x \in Listed -> [wish EXCEPT !.at = "element"]
                  [] OTHER -> [wish EXCEPT !.at = "dnat", !.list = list]]
           /\ blockLost' = blockLost \cup Because("crossed", x \in LanHosts /\ x \in busy)
           /\ freeLost' = freeLost \cup Because("crossed", x \in LanHosts /\ x \in busy)
           /\ dnatLost' = dnatLost \cup Because("crossed", x \in Forwards /\ busy \cap Forwards # {})
  BY DEF AsksElement
<1>2. PICK wish : wish = [NoElementCall EXCEPT !.op = op, !.on = {x}]
  OBVIOUS
<1>3. wish \in ElementAsks
  BY <1>2, NoElementsIs DEF ElementAsks
<1>4. wish.op = op /\ wish.on = {x}
  BY <1>2, NoElementsIs DEF ElementAsks
<1>5. PICK list : list = IF op = "add" THEN forwardRows \cup {x} ELSE forwardRows \ {x}
  OBVIOUS
<1>6. PICK new : /\ elementCalls' = [elementCalls EXCEPT ![c] = new]
                 /\ \/ x \in LanHosts /\ new = [wish EXCEPT !.at = "row"]
                    \/ x \notin LanHosts /\ x \in Listed /\ new = [wish EXCEPT !.at = "element"]
                    \/ x \notin LanHosts /\ x \notin Listed /\ new = [wish EXCEPT !.at = "dnat", !.list = list]
  <2>1. CASE x \in LanHosts
    BY <1>1, <1>2, <2>1, ElementAssumption
  <2>2. CASE x \notin LanHosts /\ x \in Listed
    BY <1>1, <1>2, <2>2, ElementAssumption
  <2>3. CASE x \notin LanHosts /\ x \notin Listed
    BY <1>1, <1>2, <1>5, <2>3
  <2> QED  BY <2>1, <2>2, <2>3
<1>7. /\ new \in ElementAsks
      /\ \/ x \in LanHosts /\ new.at = "row"
         \/ x \in Listed /\ new.at = "element"
         \/ x \in Forwards /\ new.at = "dnat"
      /\ new.on = {x} /\ new.op = op
  <2>1. CASE x \in LanHosts /\ new = [wish EXCEPT !.at = "row"]
    <3>1. new \in ElementAsks
      BY <1>3, <2>1 DEF ElementAsks, ElementStages
    <3> QED  BY <1>3, <1>4, <2>1, <3>1 DEF ElementAsks
  <2>2. CASE x \in Listed /\ new = [wish EXCEPT !.at = "element"]
    <3>1. new \in ElementAsks
      BY <1>3, <2>2 DEF ElementAsks, ElementStages
    <3> QED  BY <1>3, <1>4, <2>2, <3>1 DEF ElementAsks
  <2>3. CASE x \notin LanHosts /\ x \notin Listed /\ new = [wish EXCEPT !.at = "dnat", !.list = list]
    <3>1. list \in SUBSET Forwards
      BY <1>5, <2>3 DEF ElementShape
    <3>2. new \in ElementAsks
      BY <1>3, <2>3, <3>1 DEF ElementAsks, ElementStages
    <3> QED  BY <1>3, <1>4, <2>3, <3>2 DEF ElementAsks
  <2> QED  BY <1>6, <2>1, <2>2, <2>3
<1>8. /\ elementCalls' \in [ElementCalls -> ElementAsks] /\ elementCalls'[c] = new
      /\ \A d \in ElementCalls : d # c => elementCalls'[d] = elementCalls[d]
  BY <1>6, <1>7 DEF ElementShape
<1>9. CallFits(c)'
  BY <1>7, <1>8 DEF CallFits, OfHost
<1> QED  BY <1>1, <1>7, <1>8, <1>9, ShapeOfCall

\* The steps that change the calls, one by one; the others leave them alone.
LEMMA CallsKeepShape ==
    ASSUME ElementShape, [ElementNext]_elementVars
    PROVE  elementCalls' \in [ElementCalls -> ElementAsks] /\ \A d \in ElementCalls : CallFits(d)'
<1> DEFINE Goal == elementCalls' \in [ElementCalls -> ElementAsks] /\ \A d \in ElementCalls : CallFits(d)'
<1>1. ASSUME UNCHANGED elementCalls
      PROVE  Goal
  BY <1>1 DEF ElementShape, CallFits, OfHost
<1>2. ASSUME NEW c \in ElementCalls, NEW ok \in BOOLEAN, AfterPersist(c, ok),
             elementCalls[c].at \in {"persist", "write"}
      PROVE  Goal
  BY <1>2, CallAfter, ShapeOfMove
<1>3. ASSUME NEW c \in ElementCalls, AsksElement(c)
      PROVE  Goal
  BY <1>3, AskIs
<1>4. ASSUME NEW c \in ElementCalls, WritesFlag(c) \/ SetsMac(c) \/ Copies(c) \/ ChecksWindow(c) \/ RefusesDump(c)
      PROVE  Goal
  <2>1. \/ CallEnds(c)
        \/ elementCalls[c].at = "row" /\ GoesTo(c, "mac")
        \/ elementCalls[c].at = "mac" /\ GoesTo(c, "ip")
        \/ elementCalls[c].at = "check" /\ GoesTo(c, "restore")
    BY <1>4 DEF WritesFlag, SetsMac, Copies, ChecksWindow, RefusesDump, At
  <2> QED  BY <2>1, ShapeOfMove
<1>5. ASSUME NEW c \in ElementCalls, SetsIp(c) \/ SetsElement(c) \/ SetsForwards(c) \/ SavesForwards(c)
      PROVE  Goal
  <2>1. elementCalls[c].at \in {"ip", "element", "dnat", "save"}
    BY <1>5 DEF SetsIp, SetsElement, SetsForwards, SavesForwards, At
  <2>2. GoesTo(c, "copy") \/ GoesTo(c, "persist") \/ CallEnds(c)
    BY <1>5 DEF SetsIp, SetsElement, SetsForwards, SavesForwards
  <2> QED  BY <2>1, <2>2, ShapeOfMove
<1>6. ASSUME NEW c \in ElementCalls, RestoresDump(c) \/ ReconcilesDump(c)
      PROVE  Goal
  <2>1. \/ elementCalls[c].at = "restore" /\ GoesTo(c, "reconcile")
        \/ elementCalls[c].at = "reconcile" /\ (GoesTo(c, "copy") \/ GoesTo(c, "persist"))
    BY <1>6 DEF RestoresDump, ReconcilesDump, At
  <2> QED  BY <2>1, ShapeOfMove
<1>7. ASSUME NEW c \in ElementCalls, PersistReads(c)
      PROVE  Goal
  <2>1. elementCalls[c].at = "persist" /\ CallFits(c) /\ elementCalls[c] \in ElementAsks
    BY <1>7 DEF PersistReads, At, ElementShape
  <2>2. CASE elementCalls' = [elementCalls EXCEPT ![c] = [@ EXCEPT !.at = "write", !.read = Sanitized(elements)]]
    <3>1. PICK t : t = Sanitized(elements)
      OBVIOUS
    <3>2. t \in ElementTables
      BY <3>1, SanitizedIs DEF ElementShape
    <3>3. PICK r : r = [elementCalls[c] EXCEPT !.at = "write", !.read = t]
      OBVIOUS
    <3>4. r \in ElementAsks
      BY <2>1, <3>2, <3>3 DEF ElementAsks, ElementStages
    <3>5. r.at = "write" /\ r.on = elementCalls[c].on
      BY <2>1, <3>3, <3>4 DEF ElementAsks
    <3>6. elementCalls' = [elementCalls EXCEPT ![c] = r]
      BY <2>2, <3>1, <3>3 DEF ElementShape
    <3>7. /\ elementCalls' \in [ElementCalls -> ElementAsks] /\ elementCalls'[c] = r
          /\ \A d \in ElementCalls : d # c => elementCalls'[d] = elementCalls[d]
      BY <3>4, <3>6 DEF ElementShape
    <3>8. CallFits(c)'
      BY <2>1, <3>5, <3>7 DEF CallFits, OfHost
    <3> QED  BY <3>7, <3>8, ShapeOfCall
  <2>3. CASE AfterPersist(c, TRUE) \/ AfterPersist(c, FALSE)
    BY <1>2, <2>1, <2>3
  <2> QED  BY <1>7, <2>2, <2>3 DEF PersistReads, PersistFails
<1>8. ASSUME NEW c \in ElementCalls, PersistWrites(c)
      PROVE  Goal
  <2>1. elementCalls[c].at = "write" /\ (AfterPersist(c, TRUE) \/ AfterPersist(c, FALSE))
    BY <1>8 DEF PersistWrites, PersistFails, At
  <2> QED  BY <1>2, <2>1
<1>9. ASSUME NEW c \in ElementCalls, AsksRollback(c)
      PROVE  Goal
  <2>1. PICK d \in dumps : elementCalls' = [elementCalls EXCEPT ![c] = [NoElementCall EXCEPT !.at = "check", !.read = d]]
    BY <1>9 DEF AsksRollback
  <2>2. PICK r : r = [NoElementCall EXCEPT !.at = "check", !.read = d]
    OBVIOUS
  <2>3. r \in ElementAsks
    BY <2>2, NoElementsIs DEF ElementShape, ElementAsks, ElementStages
  <2>4. r.at = "check" /\ r.on = {}
    BY <2>2 DEF NoElementCall
  <2>5. /\ elementCalls' \in [ElementCalls -> ElementAsks] /\ elementCalls'[c] = r
        /\ \A e \in ElementCalls : e # c => elementCalls'[e] = elementCalls[e]
    BY <2>1, <2>2, <2>3 DEF ElementShape
  <2>6. CallFits(c)'
    BY <2>4, <2>5 DEF CallFits, OfHost
  <2> QED  BY <2>5, <2>6, ShapeOfCall
<1>10. ASSUME Sighted \/ Contained \/ TakesDump \/ WindowOpens \/ WindowEnds
       PROVE  UNCHANGED elementCalls
  BY <1>10 DEF Sighted, Contained, TakesDump, WindowOpens, WindowEnds
<1>11. ASSUME ElementRestart
       PROVE  Goal
  <2>1. elementCalls' = [c \in ElementCalls |-> NoElementCall]
    BY <1>11 DEF ElementRestart
  <2> QED  BY <2>1, NoElementsIs DEF CallFits, OfHost, NoElementCall
<1>12. UNCHANGED elementVars => UNCHANGED elementCalls
  BY DEF elementVars
<1> HIDE DEF Goal
<1>13. Goal
  BY <1>1, <1>3, <1>4, <1>5, <1>6, <1>7, <1>8, <1>9, <1>10, <1>11, <1>12 DEF ElementNext
<1> QED  BY <1>13 DEF Goal

\* Who changes the kernel, and who the file, the copy, the dumps and the rows.
LEMMA ElementsMove ==
    ASSUME [ElementNext]_elementVars
    PROVE  \/ UNCHANGED elements
           \/ ElementRestart \/ Contained
           \/ \E c \in ElementCalls : SetsMac(c) \/ SetsIp(c) \/ SetsElement(c) \/ SetsForwards(c) \/ RestoresDump(c)
<1>1. ASSUME NEW c \in ElementCalls,
             \/ AsksElement(c) \/ WritesFlag(c) \/ PersistReads(c) \/ PersistWrites(c) \/ SavesForwards(c)
      PROVE  UNCHANGED elements
  BY <1>1 DEF AsksElement, WritesFlag, PersistReads, PersistWrites, SavesForwards, KernelStays
<1>2. ASSUME NEW c \in ElementCalls,
             Copies(c) \/ AsksRollback(c) \/ ChecksWindow(c) \/ RefusesDump(c) \/ ReconcilesDump(c)
      PROVE  UNCHANGED elements
  BY <1>2 DEF Copies, AsksRollback, ChecksWindow, RefusesDump, ReconcilesDump, KernelStays
<1>3. ASSUME Sighted \/ TakesDump \/ WindowOpens \/ WindowEnds
      PROVE  UNCHANGED elements
  BY <1>3 DEF Sighted, TakesDump, WindowOpens, WindowEnds, KernelStays
<1>4. UNCHANGED elementVars => UNCHANGED elements
  BY DEF elementVars
<1> QED  BY <1>1, <1>2, <1>3, <1>4 DEF ElementNext

LEMMA KeptMoves ==
    ASSUME [ElementNext]_elementVars
    PROVE  /\ tableFile' = tableFile \/ WindowEnds \/ ElementRestart \/ \E c \in ElementCalls : PersistWrites(c)
           /\ tableCopy' = tableCopy \/ tableCopy' = elements
           /\ dumps' = dumps \/ dumps' = {elements}
           /\ hostRows' = hostRows \/ Sighted \/ \E c \in ElementCalls : WritesFlag(c)
           /\ forwardRows' = forwardRows \/ \E c \in ElementCalls : forwardRows' = elementCalls[c].list
           /\ windowOpen' \in {windowOpen, TRUE, FALSE}
<1> DEFINE Goal == /\ tableFile' = tableFile \/ WindowEnds \/ ElementRestart \/ \E c \in ElementCalls : PersistWrites(c)
                   /\ tableCopy' = tableCopy \/ tableCopy' = elements
                   /\ dumps' = dumps \/ dumps' = {elements}
                   /\ hostRows' = hostRows \/ Sighted \/ \E c \in ElementCalls : WritesFlag(c)
                   /\ forwardRows' = forwardRows \/ \E c \in ElementCalls : forwardRows' = elementCalls[c].list
                   /\ windowOpen' \in {windowOpen, TRUE, FALSE}
<1>1. ASSUME NEW c \in ElementCalls,
             \/ AsksElement(c) \/ SetsMac(c) \/ SetsIp(c) \/ SetsElement(c) \/ SetsForwards(c) \/ PersistReads(c)
      PROVE  Goal
  BY <1>1 DEF AsksElement, SetsMac, SetsIp, SetsElement, SetsForwards, PersistReads, Kept, ElementRows
<1>2. ASSUME NEW c \in ElementCalls, WritesFlag(c) \/ PersistWrites(c) \/ SavesForwards(c) \/ Copies(c)
      PROVE  Goal
  BY <1>2 DEF WritesFlag, PersistWrites, SavesForwards, Copies, Kept, ElementRows
<1>3. ASSUME NEW c \in ElementCalls,
             AsksRollback(c) \/ ChecksWindow(c) \/ RefusesDump(c) \/ RestoresDump(c) \/ ReconcilesDump(c)
      PROVE  Goal
  BY <1>3 DEF AsksRollback, ChecksWindow, RefusesDump, RestoresDump, ReconcilesDump, Kept, ElementRows
<1>4. ASSUME Sighted \/ Contained \/ TakesDump \/ WindowOpens \/ WindowEnds
      PROVE  Goal
  BY <1>4 DEF Sighted, Contained, TakesDump, WindowOpens, WindowEnds, Kept, ElementRows
<1>5. ElementRestart => Goal
  BY DEF ElementRestart, ElementRows
<1>6. UNCHANGED elementVars => Goal
  BY DEF elementVars
<1> HIDE DEF Goal
<1>7. Goal
  BY <1>1, <1>2, <1>3, <1>4, <1>5, <1>6 DEF ElementNext
<1> QED  BY <1>7 DEF Goal

LEMMA WithBlocksIs ==
    ASSUME ElementShape, NEW t \in ElementTables
    PROVE  /\ WithBlocks(t) \in ElementTables
           /\ WithBlocks(t).macs = t.macs \cup BlockedHosts /\ WithBlocks(t).ips = t.ips
           /\ WithBlocks(t).listed = t.listed /\ WithBlocks(t).dnat = t.dnat
<1>1. PICK macs \in SUBSET LanHosts : macs = t.macs \cup BlockedHosts
  BY DEF ElementTables, BlockedHosts
<1>2. WithBlocks(t) = [t EXCEPT !.macs = macs]
  BY <1>1 DEF WithBlocks
<1>3. WithBlocks(t) \in ElementTables
  BY <1>1, <1>2 DEF ElementTables
<1> QED  BY <1>1, <1>2, <1>3 DEF ElementTables

LEMMA ElementShapeStep ==
    ASSUME ElementShape, [ElementNext]_elementVars
    PROVE  ElementShape'
<1>1. elements' \in ElementTables
  <2>1. CASE UNCHANGED elements
    BY <2>1 DEF ElementShape
  <2>2. CASE ElementRestart
    BY <2>2, WithBlocksIs DEF ElementRestart, ElementShape
  <2>3. CASE Contained
    <3>1. PICK s \in SUBSET {"source"} : elements' = [elements EXCEPT !.contained = s]
      BY <2>3 DEF Contained
    <3> QED  BY <3>1 DEF ElementShape, ElementTables
  <2>4. ASSUME NEW c \in ElementCalls, RestoresDump(c)
        PROVE  elements' \in ElementTables
    BY <2>4 DEF RestoresDump, ElementShape, ElementAsks
  <2> QED  BY <2>1, <2>2, <2>3, <2>4, ElementsMove, MacCommand, IpCommand, ListCommand, ForwardCommand
<1>2. tableFile' \in ElementTables
  <2>1. CASE WindowEnds
    BY <2>1, SanitizedIs DEF WindowEnds, ElementShape
  <2>2. CASE ElementRestart
    BY <1>1, <2>2, SanitizedIs DEF ElementRestart
  <2>3. ASSUME NEW c \in ElementCalls, PersistWrites(c)
        PROVE  tableFile' \in ElementTables
    BY <2>3 DEF PersistWrites, ElementShape, ElementAsks
  <2> QED  BY <2>1, <2>2, <2>3, KeptMoves DEF ElementShape
<1>3. tableCopy' \in ElementTables /\ dumps' \subseteq ElementTables /\ windowOpen' \in BOOLEAN
  BY KeptMoves DEF ElementShape
<1>4. forwardRows' \subseteq Forwards
  <2>1. \A c \in ElementCalls : elementCalls[c].list \subseteq Forwards
    BY DEF ElementShape, ElementAsks
  <2>2. forwardRows' = forwardRows \/ \E c \in ElementCalls : forwardRows' = elementCalls[c].list
    BY KeptMoves
  <2> QED  BY <2>1, <2>2 DEF ElementShape
<1>5. hostRows' \in [LanHosts -> HostRows]
  <2>1. CASE Sighted
    <3>1. PICK h \in LanHosts, a \in LanAddrs \ {0} : hostRows' = [hostRows EXCEPT ![h].ip = a]
      BY <2>1 DEF Sighted, Sees
    <3>2. [hostRows[h] EXCEPT !.ip = a] \in HostRows
      BY DEF ElementShape, HostRows
    <3> QED  BY <3>1, <3>2 DEF ElementShape
  <2>2. ASSUME NEW c \in ElementCalls, WritesFlag(c)
        PROVE  hostRows' \in [LanHosts -> HostRows]
    <3>1. CASE hostRows' = hostRows
      BY <3>1 DEF ElementShape
    <3>2. CASE \E h \in elementCalls[c].on : Flags(h, elementCalls[c].op = "add")
      <4>1. PICK h \in elementCalls[c].on : hostRows' = [hostRows EXCEPT ![h].blocked = (elementCalls[c].op = "add")]
        BY <3>2 DEF Flags
      <4>2. h \in LanHosts
        BY <2>2 DEF WritesFlag, At, ElementShape, CallFits, OfHost
      <4>3. PICK on \in BOOLEAN : on = (elementCalls[c].op = "add")
        OBVIOUS
      <4>4. [hostRows[h] EXCEPT !.blocked = on] \in HostRows
        BY <4>2 DEF ElementShape, HostRows
      <4> QED  BY <4>1, <4>2, <4>3, <4>4 DEF ElementShape
    <3> QED  BY <2>2, <3>1, <3>2 DEF WritesFlag
  <2> QED  BY <2>1, <2>2, KeptMoves DEF ElementShape
<1> QED  BY <1>1, <1>2, <1>3, <1>4, <1>5, CallsKeepShape DEF ElementShape

\* A call that is under way, and the only one unless calls crossed, goes on
\* without touching the file: it leaves the file behind only to a write that
\* follows, or for a reason that is kept.
LEMMA FileGoesOn ==
    ASSUME FileInv, NEW c \in ElementCalls, ~ At(c, "idle"),
           \A d \in ElementCalls : d # c => elementCalls'[d] = elementCalls[d],
           elementCalls'[c].at # "write", tableFile' = tableFile,
           "crossed" \in fileLost => "crossed" \in fileLost',
           \/ elementCalls'[c].at \in {"persist", "reconcile"}
           \/ fileLost' # {}
           \/ /\ fileLost = {} /\ SameElements(elements', elements)
              /\ elementCalls[c].at \notin {"persist", "write", "reconcile"}
    PROVE  FileInv'
<1>1. tableFile'.contained = {}
  BY DEF FileInv
<1>2. \A d \in ElementCalls : At(d, "write")' => d # c /\ At(d, "write") /\ elementCalls'[d].read = elementCalls[d].read
  BY DEF At
<1>3. \A d \in ElementCalls : At(d, "write")' => elementCalls'[d].read.contained = {}
  BY <1>2 DEF FileInv
<1> SUFFICES ASSUME "crossed" \notin fileLost'
             PROVE  /\ \A d, e \in ElementCalls : ~ At(d, "idle")' /\ ~ At(e, "idle")' => d = e
                    /\ \A d \in ElementCalls : At(d, "write")' => SameElements(elementCalls[d].read, elements)'
                    /\ (fileLost' = {} /\ \A d \in ElementCalls : elementCalls'[d].at \notin {"persist", "write", "reconcile"})
                       => SameElements(tableFile, elements)'
  BY <1>1, <1>3 DEF FileInv
<1>4. \A d, e \in ElementCalls : ~ At(d, "idle") /\ ~ At(e, "idle") => d = e
  BY DEF FileInv
<1>5. \A d \in ElementCalls : d # c => At(d, "idle") /\ At(d, "idle")'
  BY <1>4 DEF At
<1>6. \A d \in ElementCalls : ~ At(d, "write")'
  BY <1>5 DEF At
<1>7. ASSUME fileLost' = {}, \A d \in ElementCalls : elementCalls'[d].at \notin {"persist", "write", "reconcile"}
      PROVE  SameElements(tableFile', elements')
  <2>1. /\ fileLost = {} /\ SameElements(elements', elements)
        /\ elementCalls[c].at \notin {"persist", "write", "reconcile"}
    BY <1>7
  <2>2. \A d \in ElementCalls : elementCalls[d].at \notin {"persist", "write", "reconcile"}
    BY <1>5, <2>1 DEF At
  <2>3. SameElements(tableFile, elements)
    BY <2>1, <2>2 DEF FileInv
  <2> QED  BY <2>1, <2>3 DEF SameElements
<1> QED  BY <1>5, <1>6, <1>7

\* A call begins: alone, or crossing another.
LEMMA FileBegins ==
    ASSUME FileInv, NEW c \in ElementCalls, At(c, "idle"),
           \A d \in ElementCalls : d # c => elementCalls'[d] = elementCalls[d],
           elementCalls'[c].at # "write", elementCalls'[c].at \notin {"persist", "reconcile"},
           UNCHANGED <<tableFile, elements>>, fileLost' = fileLost \cup Because("crossed", ~ CallsIdle)
    PROVE  FileInv'
<1>1. tableFile'.contained = {}
  BY DEF FileInv
<1>2. \A d \in ElementCalls : At(d, "write")' => d # c /\ At(d, "write") /\ elementCalls'[d].read = elementCalls[d].read
  BY DEF At
<1>3. \A d \in ElementCalls : At(d, "write")' => elementCalls'[d].read.contained = {}
  BY <1>2 DEF FileInv
<1>4. CASE "crossed" \in fileLost'
  BY <1>1, <1>3, <1>4 DEF FileInv
<1>5. CASE "crossed" \notin fileLost'
  <2>1. CallsIdle /\ fileLost' = fileLost
    BY <1>5 DEF Because
  <2>2. \A d \in ElementCalls : At(d, "idle") /\ (d # c => At(d, "idle")')
    BY <2>1 DEF CallsIdle, At
  <2>3. fileLost = {} => SameElements(tableFile, elements)
    BY <2>2 DEF FileInv, At
  <2>4. \A d \in ElementCalls : ~ At(d, "write")'
    BY <2>2 DEF At
  <2>5. fileLost' = {} => SameElements(tableFile, elements)'
    BY <2>1, <2>3 DEF SameElements
  <2> QED  BY <1>1, <1>3, <2>2, <2>4, <2>5 DEF FileInv
<1> QED  BY <1>4, <1>5

LEMMA FileStep ==
    ASSUME ElementShape, FileInv, [ElementNext]_elementVars
    PROVE  FileInv'
<1>1. ASSUME UNCHANGED <<tableFile, elementCalls, fileLost>>, SameElements(elements', elements)
      PROVE  FileInv'
  BY <1>1 DEF FileInv, SameElements, At
<1>2. ASSUME NEW c \in ElementCalls, AsksElement(c)
      PROVE  FileInv'
  <2>1. /\ At(c, "idle") /\ UNCHANGED <<tableFile, elements>>
        /\ fileLost' = fileLost \cup Because("crossed", ~ CallsIdle)
    BY <1>2 DEF AsksElement, Kept
  <2> QED  BY <1>2, <2>1, AskIs, FileBegins
<1>3. ASSUME NEW c \in ElementCalls, AsksRollback(c)
      PROVE  FileInv'
  <2>1. /\ At(c, "idle") /\ UNCHANGED <<tableFile, elements>>
        /\ fileLost' = fileLost \cup Because("crossed", ~ CallsIdle)
    BY <1>3 DEF AsksRollback, Kept, KernelStays
  <2>2. PICK d \in dumps : elementCalls' = [elementCalls EXCEPT ![c] = [NoElementCall EXCEPT !.at = "check", !.read = d]]
    BY <1>3 DEF AsksRollback
  <2>3. elementCalls'[c].at = "check" /\ \A e \in ElementCalls : e # c => elementCalls'[e] = elementCalls[e]
    BY <2>2 DEF ElementShape, NoElementCall
  <2> QED  BY <2>1, <2>3, FileBegins
<1>4. ASSUME NEW c \in ElementCalls, NEW a \in {"mac", "ip", "persist", "copy", "restore", "reconcile", "save"},
             ~ At(c, "idle"), GoesTo(c, a) \/ CallEnds(c), tableFile' = tableFile,
             "crossed" \in fileLost => "crossed" \in fileLost',
             \/ a \in {"persist", "reconcile"} /\ GoesTo(c, a)
             \/ fileLost' # {}
             \/ /\ fileLost = {} /\ SameElements(elements', elements)
                /\ elementCalls[c].at \notin {"persist", "write", "reconcile"}
      PROVE  FileInv'
  <2>1. a \in ElementStages
    BY DEF ElementStages
  <2>2. /\ \A d \in ElementCalls : d # c => elementCalls'[d] = elementCalls[d]
        /\ elementCalls'[c].at \in {a, "idle"} /\ (GoesTo(c, a) => elementCalls'[c].at = a)
    BY <1>4, <2>1, CallGoes, CallGone
  <2> QED  BY <1>4, <2>2, FileGoesOn
<1>5. ASSUME NEW c \in ElementCalls, WritesFlag(c) \/ Copies(c) \/ ChecksWindow(c) \/ RefusesDump(c) \/ SavesForwards(c)
      PROVE  FileInv'
  <2>1. /\ GoesTo(c, "mac") \/ GoesTo(c, "restore") \/ GoesTo(c, "copy") \/ CallEnds(c)
        /\ UNCHANGED <<tableFile, fileLost, elements>>
    BY <1>5 DEF WritesFlag, Copies, ChecksWindow, RefusesDump, SavesForwards, KernelStays, Kept
  <2>2. elementCalls[c].at \in {"row", "copy", "check", "restore", "save"}
    BY <1>5 DEF WritesFlag, Copies, ChecksWindow, RefusesDump, SavesForwards, At
  <2>3. SameElements(elements', elements)
    BY <2>1 DEF SameElements
  <2>4. ~ At(c, "idle")
    BY <2>2 DEF At
  <2> QED  BY <1>4, <2>1, <2>2, <2>3, <2>4
<1>6. ASSUME NEW c \in ElementCalls, SetsMac(c)
      PROVE  FileInv'
  <2>1. GoesTo(c, "ip") /\ tableFile' = tableFile /\ elementCalls[c].at = "mac"
    BY <1>6 DEF SetsMac, Kept, At
  <2>2. fileLost' = fileLost \cup Because("mac", elements' # elements) \/ UNCHANGED <<elements, fileLost>>
    BY <1>6 DEF SetsMac
  <2>3. fileLost' # {} \/ (fileLost = {} /\ SameElements(elements', elements))
    BY <2>2 DEF Because, SameElements
  <2>4. ~ At(c, "idle") /\ ("crossed" \in fileLost => "crossed" \in fileLost')
    BY <2>1, <2>2 DEF At
  <2> QED  BY <1>4, <2>1, <2>3, <2>4
<1>7. ASSUME NEW c \in ElementCalls, SetsIp(c) \/ SetsElement(c) \/ SetsForwards(c)
      PROVE  FileInv'
  <2>1. UNCHANGED <<tableFile, fileLost>> /\ elementCalls[c].at \in {"ip", "element", "dnat"}
    BY <1>7 DEF SetsIp, SetsElement, SetsForwards, Kept, At
  <2>2. \/ GoesTo(c, "persist")
        \/ elements' = elements /\ (GoesTo(c, "copy") \/ CallEnds(c))
    BY <1>7, IpCommand, ListCommand, ForwardCommand
  <2>3. ~ At(c, "idle") /\ (elements' = elements => SameElements(elements', elements))
    BY <2>1 DEF At, SameElements
  <2> QED  BY <1>4, <2>1, <2>2, <2>3
<1>8. ASSUME NEW c \in ElementCalls, NEW ok \in BOOLEAN, AfterPersist(c, ok), ~ At(c, "idle"),
             tableFile' = tableFile, fileLost' # {}, "crossed" \in fileLost => "crossed" \in fileLost'
      PROVE  FileInv'
  <2>1. GoesTo(c, "copy") \/ GoesTo(c, "save") \/ CallEnds(c)
    BY <1>8, CallAfter
  <2> QED  BY <1>4, <1>8, <2>1
<1>9. ASSUME NEW c \in ElementCalls, PersistReads(c)
      PROVE  FileInv'
  <2>1. ~ At(c, "idle") /\ UNCHANGED <<tableFile, elements>>
    BY <1>9 DEF PersistReads, At, Kept
  <2>2. CASE fileLost' = fileLost
             /\ elementCalls' = [elementCalls EXCEPT ![c] = [@ EXCEPT !.at = "write", !.read = Sanitized(elements)]]
    <3>1. PICK t : t = Sanitized(elements)
      OBVIOUS
    <3>2. t \in ElementTables /\ t.contained = {} /\ SameElements(t, elements)
      BY <3>1, SanitizedIs DEF ElementShape
    <3>3. /\ elementCalls'[c].at = "write" /\ elementCalls'[c].read = t
          /\ \A d \in ElementCalls : d # c => elementCalls'[d] = elementCalls[d]
      <4>1. PICK r : r = [elementCalls[c] EXCEPT !.at = "write", !.read = t]
        OBVIOUS
      <4>2. elementCalls[c] \in ElementAsks
        BY DEF ElementShape
      <4>3. r \in ElementAsks
        BY <3>2, <4>1, <4>2 DEF ElementAsks, ElementStages
      <4>4. r.at = "write" /\ r.read = t
        BY <4>1, <4>2, <4>3 DEF ElementAsks
      <4>5. elementCalls' = [elementCalls EXCEPT ![c] = r]
        BY <2>2, <3>1, <4>1
      <4> QED  BY <4>4, <4>5 DEF ElementShape
    <3>4. \A d \in ElementCalls : At(d, "write")' => elementCalls'[d].read.contained = {}
      BY <3>2, <3>3 DEF FileInv, At
    <3>5. ASSUME "crossed" \notin fileLost
          PROVE  /\ \A d, e \in ElementCalls : ~ At(d, "idle")' /\ ~ At(e, "idle")' => d = e
                 /\ \A d \in ElementCalls : At(d, "write")' => SameElements(elementCalls'[d].read, elements)
      <4>1. \A d \in ElementCalls : d # c => At(d, "idle") /\ At(d, "idle")'
        BY <2>1, <3>3, <3>5 DEF FileInv, At
      <4> QED  BY <3>2, <3>3, <4>1 DEF At
    <3>6. elementCalls'[c].at \in {"persist", "write", "reconcile"}
      BY <3>3
    <3> QED  BY <2>1, <2>2, <3>4, <3>5, <3>6 DEF FileInv, SameElements
  <2>3. CASE fileLost' = fileLost \cup {"window"} /\ AfterPersist(c, TRUE)
    BY <1>8, <2>1, <2>3
  <2>4. CASE PersistFails(c)
    BY <1>8, <2>1, <2>4 DEF PersistFails
  <2> QED  BY <1>9, <2>2, <2>3, <2>4 DEF PersistReads
<1>10. ASSUME NEW c \in ElementCalls, PersistWrites(c)
       PROVE  FileInv'
  <2>1. ~ At(c, "idle") /\ At(c, "write") /\ elements' = elements
    BY <1>10 DEF PersistWrites, At
  <2>2. CASE PersistFails(c) /\ tableFile' = tableFile
    BY <1>8, <2>1, <2>2 DEF PersistFails
  <2>3. CASE tableFile' = elementCalls[c].read /\ AfterPersist(c, TRUE) /\ fileLost' = fileLost \cap {"crossed"}
    <3>1. GoesTo(c, "copy") \/ GoesTo(c, "save") \/ CallEnds(c)
      BY <2>3, CallAfter
    <3>2. "copy" \in ElementStages /\ "save" \in ElementStages
      BY DEF ElementStages
    <3>3. /\ elementCalls'[c].at \in {"copy", "save", "idle"}
          /\ \A d \in ElementCalls : d # c => elementCalls'[d] = elementCalls[d]
      BY <3>1, <3>2, CallGoes, CallGone
    <3>4. tableFile'.contained = {}
      BY <2>1, <2>3 DEF FileInv
    <3>5. \A d \in ElementCalls : At(d, "write")' => elementCalls'[d].read.contained = {}
      BY <3>3 DEF FileInv, At
    <3>6. ASSUME "crossed" \notin fileLost'
          PROVE  /\ \A d, e \in ElementCalls : ~ At(d, "idle")' /\ ~ At(e, "idle")' => d = e
                 /\ \A d \in ElementCalls : ~ At(d, "write")'
                 /\ SameElements(tableFile', elements')
      <4>1. "crossed" \notin fileLost
        BY <2>3, <3>6
      <4>2. \A d \in ElementCalls : d # c => At(d, "idle") /\ At(d, "idle")'
        BY <2>1, <3>3, <4>1 DEF FileInv, At
      <4>3. SameElements(elementCalls[c].read, elements)
        BY <2>1, <4>1 DEF FileInv
      <4> QED  BY <2>1, <2>3, <3>3, <4>2, <4>3 DEF At, SameElements
    <3> QED  BY <3>4, <3>5, <3>6 DEF FileInv
  <2> QED  BY <1>10, <2>2, <2>3 DEF PersistWrites
<1>11. ASSUME NEW c \in ElementCalls, RestoresDump(c)
       PROVE  FileInv'
  <2>1. GoesTo(c, "reconcile") /\ UNCHANGED <<tableFile, fileLost>> /\ ~ At(c, "idle")
    BY <1>11 DEF RestoresDump, Kept, At
  <2> QED  BY <1>4, <2>1
<1>12. ASSUME NEW c \in ElementCalls, ReconcilesDump(c)
       PROVE  FileInv'
  <2>1. /\ tableFile' = tableFile /\ ~ At(c, "idle")
        /\ \/ GoesTo(c, "persist") /\ fileLost' = fileLost
           \/ GoesTo(c, "copy") /\ fileLost' = fileLost \cup {"failed"}
    BY <1>12 DEF ReconcilesDump, Kept, At
  <2> QED  BY <1>4, <2>1
<1>13. ASSUME Sighted \/ TakesDump \/ WindowOpens
       PROVE  FileInv'
  <2>1. UNCHANGED <<tableFile, elementCalls, fileLost, elements>>
    BY <1>13 DEF Sighted, TakesDump, WindowOpens, Kept, KernelStays
  <2> QED  BY <1>1, <2>1 DEF SameElements
<1>14. ASSUME Contained
       PROVE  FileInv'
  <2>1. UNCHANGED <<tableFile, elementCalls, fileLost>>
    BY <1>14 DEF Contained, Kept
  <2>2. PICK s : elements' = [elements EXCEPT !.contained = s]
    BY <1>14 DEF Contained
  <2>3. SameElements(elements', elements)
    BY <2>2 DEF SameElements, ElementShape, ElementTables
  <2> QED  BY <1>1, <2>1, <2>3
<1>15. ASSUME WindowEnds
       PROVE  FileInv'
  <2>1. /\ tableFile' = Sanitized(elements) /\ UNCHANGED <<elementCalls, elements>>
        /\ fileLost' = fileLost \cap {"crossed"}
    BY <1>15 DEF WindowEnds, KernelStays
  <2>2. tableFile'.contained = {} /\ SameElements(tableFile', elements')
    BY <2>1, SanitizedIs DEF ElementShape, SameElements
  <2> QED  BY <2>1, <2>2 DEF FileInv, At, SameElements
<1>16. ASSUME ElementRestart
       PROVE  FileInv'
  <2>1. elements' \in ElementTables
    BY <1>16, ElementShapeStep DEF ElementShape
  <2>2. /\ tableFile' = Sanitized(elements') /\ fileLost' = {}
        /\ elementCalls' = [c \in ElementCalls |-> NoElementCall]
    BY <1>16 DEF ElementRestart
  <2>3. tableFile'.contained = {} /\ SameElements(tableFile', elements')
    BY <2>1, <2>2, SanitizedIs
  <2>4. \A c \in ElementCalls : elementCalls'[c].at = "idle"
    BY <2>2 DEF NoElementCall
  <2> QED  BY <2>2, <2>3, <2>4 DEF FileInv, At, SameElements
<1>17. CASE UNCHANGED elementVars
  BY <1>1, <1>17 DEF elementVars, SameElements
<1> QED
  BY <1>2, <1>3, <1>5, <1>6, <1>7, <1>9, <1>10, <1>11, <1>12, <1>13, <1>14, <1>15, <1>16, <1>17 DEF ElementNext

\* How a call moves, as far as a host is concerned.
LEMMA CallsMove ==
    ASSUME ElementShape, [ElementNext]_elementVars, NEW d \in ElementCalls
    PROVE  \/ elementCalls'[d] = elementCalls[d]
           \/ AsksElement(d)
           \/ ElementRestart
           \/ SetsMac(d) /\ elementCalls[d].at = "mac" /\ elementCalls'[d].at = "ip"
              /\ elementCalls'[d].on = elementCalls[d].on /\ elementCalls'[d].op = elementCalls[d].op
           \/ WritesFlag(d) /\ elementCalls[d].at = "row" /\ elementCalls'[d].at \in {"mac", "idle"}
              /\ elementCalls'[d].on \subseteq elementCalls[d].on
              /\ (elementCalls'[d].at = "mac" => elementCalls'[d].op = elementCalls[d].op)
           \/ /\ elementCalls[d].at # "mac" /\ (elementCalls[d].at = "ip" => SetsIp(d))
              /\ elementCalls'[d].at \notin {"mac", "ip"} /\ elementCalls'[d].on \subseteq elementCalls[d].on
<1> DEFINE Last == /\ elementCalls[d].at # "mac" /\ (elementCalls[d].at = "ip" => SetsIp(d))
                   /\ elementCalls'[d].at \notin {"mac", "ip"} /\ elementCalls'[d].on \subseteq elementCalls[d].on
           Flag == /\ WritesFlag(d) /\ elementCalls[d].at = "row" /\ elementCalls'[d].at \in {"mac", "idle"}
                   /\ elementCalls'[d].on \subseteq elementCalls[d].on
                   /\ (elementCalls'[d].at = "mac" => elementCalls'[d].op = elementCalls[d].op)
           Mac == /\ SetsMac(d) /\ elementCalls[d].at = "mac" /\ elementCalls'[d].at = "ip"
                  /\ elementCalls'[d].on = elementCalls[d].on /\ elementCalls'[d].op = elementCalls[d].op
           Goal == elementCalls'[d] = elementCalls[d] \/ AsksElement(d) \/ ElementRestart \/ Mac \/ Flag \/ Last
<1>1. {"mac", "ip", "copy", "persist", "save", "restore", "reconcile"} \subseteq ElementStages
  BY DEF ElementStages
<1>2. ASSUME NEW c \in ElementCalls, AsksElement(c)
      PROVE  Goal
  BY <1>2, AskIs
<1>3. CASE WritesFlag(d)
  <2>1. elementCalls[d].at = "row" /\ (GoesTo(d, "mac") \/ CallEnds(d))
    BY <1>3 DEF WritesFlag, At
  <2>2. Flag
    BY <1>1, <1>3, <2>1, CallGoes, CallGone
  <2> QED  BY <2>2
<1>4. CASE SetsMac(d)
  <2>1. elementCalls[d].at = "mac" /\ GoesTo(d, "ip")
    BY <1>4 DEF SetsMac, At
  <2>2. Mac
    BY <1>1, <1>4, <2>1, CallGoes
  <2> QED  BY <2>2
<1>5. ASSUME NEW c \in ElementCalls, NEW a \in {"mac", "ip", "copy", "persist", "save", "restore", "reconcile"},
             GoesTo(c, a) \/ CallEnds(c), c # d
      PROVE  Goal
  <2>1. elementCalls'[d] = elementCalls[d]
    BY <1>1, <1>5, CallGoes, CallGone
  <2> QED  BY <2>1
<1>6. ASSUME NEW a \in {"copy", "persist", "save", "restore", "reconcile"}, GoesTo(d, a) \/ CallEnds(d),
             elementCalls[d].at # "mac", elementCalls[d].at = "ip" => SetsIp(d)
      PROVE  Goal
  <2>1. Last
    BY <1>1, <1>6, CallGoes, CallGone
  <2> QED  BY <2>1
<1>7. ASSUME NEW c \in ElementCalls, WritesFlag(c) \/ SetsMac(c), c # d
      PROVE  Goal
  <2>1. GoesTo(c, "mac") \/ GoesTo(c, "ip") \/ CallEnds(c)
    BY <1>7 DEF WritesFlag, SetsMac
  <2> QED  BY <1>5, <1>7, <2>1
<1>8. ASSUME NEW c \in ElementCalls, NEW a \in {"copy", "persist", "save", "restore", "reconcile"},
             GoesTo(c, a) \/ CallEnds(c), elementCalls[c].at # "mac", elementCalls[c].at = "ip" => SetsIp(c)
      PROVE  Goal
  <2>1. CASE c = d
    BY <1>6, <1>8, <2>1
  <2>2. CASE c # d
    BY <1>5, <1>8, <2>2
  <2> QED  BY <2>1, <2>2
<1>9. ASSUME NEW c \in ElementCalls, SetsIp(c) \/ SetsElement(c) \/ SetsForwards(c) \/ SavesForwards(c)
      PROVE  Goal
  <2>1. GoesTo(c, "copy") \/ GoesTo(c, "persist") \/ CallEnds(c)
    BY <1>9 DEF SetsIp, SetsElement, SetsForwards, SavesForwards
  <2>2. elementCalls[c].at # "mac" /\ (elementCalls[c].at = "ip" => SetsIp(c))
    BY <1>9 DEF SetsIp, SetsElement, SetsForwards, SavesForwards, At
  <2> QED  BY <1>8, <2>1, <2>2
<1>10. ASSUME NEW c \in ElementCalls, Copies(c) \/ ChecksWindow(c) \/ RefusesDump(c) \/ RestoresDump(c) \/ ReconcilesDump(c)
       PROVE  Goal
  <2>1. GoesTo(c, "copy") \/ GoesTo(c, "persist") \/ GoesTo(c, "restore") \/ GoesTo(c, "reconcile") \/ CallEnds(c)
    BY <1>10 DEF Copies, ChecksWindow, RefusesDump, RestoresDump, ReconcilesDump
  <2>2. elementCalls[c].at \notin {"mac", "ip"}
    BY <1>10 DEF Copies, ChecksWindow, RefusesDump, RestoresDump, ReconcilesDump, At
  <2> QED  BY <1>8, <2>1, <2>2
<1>11. ASSUME NEW c \in ElementCalls, AfterPersist(c, TRUE) \/ AfterPersist(c, FALSE),
              elementCalls[c].at \in {"persist", "write"}
       PROVE  Goal
  <2>1. GoesTo(c, "copy") \/ GoesTo(c, "save") \/ CallEnds(c)
    BY <1>11, CallAfter
  <2> QED  BY <1>8, <1>11, <2>1
<1>12. ASSUME NEW c \in ElementCalls, PersistWrites(c)
       PROVE  Goal
  BY <1>11, <1>12 DEF PersistWrites, PersistFails, At
<1>13. ASSUME NEW c \in ElementCalls, PersistReads(c)
       PROVE  Goal
  <2>1. elementCalls[c].at = "persist"
    BY <1>13 DEF PersistReads, At
  <2>2. CASE AfterPersist(c, TRUE) \/ AfterPersist(c, FALSE)
    BY <1>11, <2>1, <2>2
  <2>3. CASE elementCalls' = [elementCalls EXCEPT ![c] = [@ EXCEPT !.at = "write", !.read = Sanitized(elements)]]
    <3>1. PICK r : r = [elementCalls[c] EXCEPT !.at = "write", !.read = Sanitized(elements)]
      OBVIOUS
    <3>2. r.at = "write" /\ r.on = elementCalls[c].on
      BY <3>1 DEF ElementShape, ElementAsks
    <3>3. elementCalls' = [elementCalls EXCEPT ![c] = r]
      BY <2>3, <3>1
    <3>4. CASE c = d
      <4>1. Last
        BY <2>1, <3>2, <3>3, <3>4 DEF ElementShape
      <4> QED  BY <4>1
    <3>5. CASE c # d
      <4>1. elementCalls'[d] = elementCalls[d]
        BY <3>3, <3>5 DEF ElementShape
      <4> QED  BY <4>1
    <3> QED  BY <3>4, <3>5
  <2> QED  BY <1>13, <2>2, <2>3 DEF PersistReads, PersistFails
<1>14. ASSUME NEW c \in ElementCalls, AsksRollback(c)
       PROVE  Goal
  <2>1. PICK t \in dumps : elementCalls' = [elementCalls EXCEPT ![c] = [NoElementCall EXCEPT !.at = "check", !.read = t]]
    BY <1>14 DEF AsksRollback
  <2>2. elementCalls[c].at = "idle"
    BY <1>14 DEF AsksRollback, At
  <2>3. CASE c = d
    <3>1. elementCalls'[d].at = "check" /\ elementCalls'[d].on = {}
      BY <2>1, <2>3 DEF ElementShape, NoElementCall
    <3>2. Last
      BY <2>2, <2>3, <3>1
    <3> QED  BY <3>2
  <2>4. CASE c # d
    <3>1. elementCalls'[d] = elementCalls[d]
      BY <2>1, <2>4 DEF ElementShape
    <3> QED  BY <3>1
  <2> QED  BY <2>3, <2>4
<1>15. ASSUME Sighted \/ Contained \/ TakesDump \/ WindowOpens \/ WindowEnds
       PROVE  Goal
  BY <1>15 DEF Sighted, Contained, TakesDump, WindowOpens, WindowEnds
<1>16. UNCHANGED elementVars => Goal
  BY DEF elementVars
<1>17. ASSUME NEW c \in ElementCalls, WritesFlag(c) \/ SetsMac(c)
       PROVE  Goal
  BY <1>3, <1>4, <1>7, <1>17
<1>18. ElementRestart => Goal
  OBVIOUS
<1> HIDE DEF Goal
<1>19. Goal
  BY <1>2, <1>9, <1>10, <1>12, <1>13, <1>14, <1>15, <1>16, <1>17, <1>18 DEF ElementNext
<1> QED  BY <1>19 DEF Goal

LEMMA FlagMoves ==
    ASSUME ElementShape, [ElementNext]_elementVars, NEW h \in LanHosts
    PROVE  \/ hostRows'[h].blocked = hostRows[h].blocked
           \/ \E c \in ElementCalls : /\ elementCalls[c].at = "row" /\ elementCalls[c].on = {h}
                                      /\ elementCalls'[c].at = "mac" /\ elementCalls'[c].on = {h}
                                      /\ elementCalls'[c].op = elementCalls[c].op
                                      /\ hostRows'[h].blocked = (elementCalls[c].op = "add")
<1>1. hostRows \in [LanHosts -> HostRows]
  BY DEF ElementShape
<1>2. CASE hostRows' = hostRows
  BY <1>2
<1>3. CASE Sighted
  BY <1>1, <1>3 DEF Sighted, Sees, HostRows
<1>4. ASSUME NEW c \in ElementCalls, WritesFlag(c), hostRows' # hostRows
      PROVE  \/ hostRows'[h].blocked = hostRows[h].blocked
             \/ /\ elementCalls[c].at = "row" /\ elementCalls[c].on = {h}
                /\ elementCalls'[c].at = "mac" /\ elementCalls'[c].on = {h}
                /\ elementCalls'[c].op = elementCalls[c].op
                /\ hostRows'[h].blocked = (elementCalls[c].op = "add")
  <2>1. elementCalls[c].at = "row" /\ GoesTo(c, "mac")
        /\ \E g \in elementCalls[c].on : Flags(g, elementCalls[c].op = "add")
    BY <1>4 DEF WritesFlag, At
  <2>2. PICK g \in LanHosts : elementCalls[c].on = {g}
    BY <2>1 DEF ElementShape, CallFits, OfHost
  <2>3. hostRows' = [hostRows EXCEPT ![g].blocked = (elementCalls[c].op = "add")]
    BY <2>1, <2>2 DEF Flags
  <2>4. "mac" \in ElementStages
    BY DEF ElementStages
  <2>5. elementCalls'[c].at = "mac" /\ elementCalls'[c].on = elementCalls[c].on
        /\ elementCalls'[c].op = elementCalls[c].op
    BY <2>1, <2>4, CallGoes
  <2>6. CASE g = h
    BY <1>1, <2>1, <2>2, <2>3, <2>5, <2>6 DEF HostRows
  <2>7. CASE g # h
    BY <1>1, <2>3, <2>7
  <2> QED  BY <2>6, <2>7
<1> QED  BY <1>2, <1>3, <1>4, KeptMoves

LEMMA AddressMoves ==
    ASSUME ElementShape, [ElementNext]_elementVars, NEW h \in LanHosts
    PROVE  \/ hostRows'[h].ip = hostRows[h].ip
           \/ freeLost' = freeLost \cup
                Because("moved", hostRows[h].blocked \/ \E c \in ElementCalls : h \in elementCalls[c].on)
<1>1. hostRows \in [LanHosts -> HostRows]
  BY DEF ElementShape
<1>2. CASE hostRows' = hostRows
  BY <1>2
<1>3. CASE Sighted
  <2>1. PICK g \in LanHosts, a \in LanAddrs \ {0} :
          /\ hostRows' = [hostRows EXCEPT ![g].ip = a]
          /\ freeLost' = freeLost \cup
                Because("moved", hostRows[g].blocked \/ \E c \in ElementCalls : g \in elementCalls[c].on)
    BY <1>3 DEF Sighted, Sees
  <2>2. CASE g = h
    BY <2>1, <2>2
  <2>3. CASE g # h
    BY <1>1, <2>1, <2>3
  <2> QED  BY <2>2, <2>3
<1>4. ASSUME NEW c \in ElementCalls, WritesFlag(c), hostRows' # hostRows
      PROVE  hostRows'[h].ip = hostRows[h].ip
  BY <1>1, <1>4 DEF WritesFlag, Flags, HostRows
<1> QED  BY <1>2, <1>3, <1>4, KeptMoves

\* What is written down of a lost promise stays written, but for the blocks,
\* which a restart makes good.
LEMMA LostStays ==
    ASSUME [ElementNext]_elementVars
    PROVE  /\ freeLost \subseteq freeLost' /\ dnatLost \subseteq dnatLost'
           /\ ElementRestart \/ blockLost \subseteq blockLost'
<1> DEFINE Goal == /\ freeLost \subseteq freeLost' /\ dnatLost \subseteq dnatLost'
                   /\ ElementRestart \/ blockLost \subseteq blockLost'
<1>1. ASSUME NEW c \in ElementCalls, AsksElement(c)
      PROVE  Goal
  BY <1>1 DEF AsksElement
<1>2. ASSUME NEW c \in ElementCalls, WritesFlag(c) \/ SetsMac(c) \/ SetsIp(c) \/ SetsElement(c) \/ SetsForwards(c)
      PROVE  Goal
  BY <1>2 DEF WritesFlag, SetsMac, SetsIp, SetsElement, SetsForwards, KernelStays
<1>3. ASSUME NEW c \in ElementCalls, PersistReads(c) \/ PersistWrites(c) \/ SavesForwards(c) \/ Copies(c)
      PROVE  Goal
  BY <1>3 DEF PersistReads, PersistWrites, PersistFails, SavesForwards, Copies, KernelStays
<1>4. ASSUME NEW c \in ElementCalls,
             AsksRollback(c) \/ ChecksWindow(c) \/ RefusesDump(c) \/ RestoresDump(c) \/ ReconcilesDump(c)
      PROVE  Goal
  BY <1>4 DEF AsksRollback, ChecksWindow, RefusesDump, RestoresDump, ReconcilesDump, KernelStays
<1>5. ASSUME Sighted \/ Contained \/ TakesDump \/ WindowOpens \/ WindowEnds
      PROVE  Goal
  BY <1>5 DEF Sighted, Contained, TakesDump, WindowOpens, WindowEnds, KernelStays
<1>6. ElementRestart => Goal
  BY DEF ElementRestart
<1>7. UNCHANGED elementVars => Goal
  BY DEF elementVars
<1> HIDE DEF Goal
<1>8. Goal
  BY <1>1, <1>2, <1>3, <1>4, <1>5, <1>6, <1>7 DEF ElementNext
<1> QED  BY <1>8 DEF Goal

\* While no two calls for a host cross, each has its host for itself and goes
\* by the flag it wrote.
Uncrossed ==
    \A c \in ElementCalls : AsksElement(c) =>
      \A h \in elementCalls'[c].on \cap LanHosts, d \in ElementCalls : h \notin elementCalls[d].on

LEMMA UncrossedIs ==
    ASSUME ElementShape, [ElementNext]_elementVars, blockLost' = {} \/ freeLost' = {}
    PROVE  Uncrossed
<1> SUFFICES ASSUME NEW c \in ElementCalls, AsksElement(c),
                    NEW h \in elementCalls'[c].on \cap LanHosts, NEW d \in ElementCalls, h \in elementCalls[d].on
             PROVE  FALSE
  BY DEF Uncrossed
<1>1. h \in UNION {elementCalls[e].on : e \in ElementCalls}
  OBVIOUS
<1>2. PICK x \in LanHosts \cup Listed \cup Forwards :
        LET busy == UNION {elementCalls[e].on : e \in ElementCalls} IN
        /\ elementCalls'[c].on = {x}
        /\ blockLost' = blockLost \cup Because("crossed", x \in LanHosts /\ x \in busy)
        /\ freeLost' = freeLost \cup Because("crossed", x \in LanHosts /\ x \in busy)
  BY AskIs
<1>3. x = h
  BY <1>2
<1> QED  BY <1>1, <1>2, <1>3 DEF Because

LEMMA HostCalls ==
    ASSUME ElementShape, [ElementNext]_elementVars, OnePerHost, FlagFollows, Uncrossed
    PROVE  OnePerHost' /\ FlagFollows'
<1>1. ElementRestart => \A c \in ElementCalls : elementCalls'[c].on = {} /\ elementCalls'[c].at = "idle"
  BY DEF ElementRestart, NoElementCall
<1>2. \A c \in ElementCalls : AsksElement(c) \/ ElementRestart \/ elementCalls'[c].on \subseteq elementCalls[c].on
  BY CallsMove
<1>3. ASSUME NEW c \in ElementCalls, NEW d \in ElementCalls, c # d,
             NEW h \in LanHosts, h \in elementCalls'[c].on, h \in elementCalls'[d].on
      PROVE  FALSE
  <2>1. ~ ElementRestart
    BY <1>1, <1>3
  <2>2. ~ AsksElement(c)
    BY <1>3, AskIs DEF Uncrossed
  <2>3. ~ AsksElement(d)
    BY <1>3, AskIs DEF Uncrossed
  <2>4. h \in elementCalls[c].on /\ h \in elementCalls[d].on
    BY <1>2, <1>3, <2>1, <2>2, <2>3
  <2> QED  BY <1>3, <2>4 DEF OnePerHost
<1>4. OnePerHost'
  BY <1>3 DEF OnePerHost
<1>5. ASSUME NEW c \in ElementCalls, elementCalls'[c].at \in {"mac", "ip"}, NEW h \in elementCalls'[c].on
      PROVE  hostRows'[h].blocked = (elementCalls'[c].op = "add")
  <2>1. ~ ElementRestart /\ ~ AsksElement(c)
    BY <1>1, <1>5, AskIs
  <2>2. elementCalls'[c].on \subseteq elementCalls[c].on /\ elementCalls[c].at \in {"row", "mac", "ip"}
    BY <1>5, <2>1, CallsMove
  <2>3. h \in LanHosts
    BY <2>2 DEF ElementShape, CallFits, OfHost
  <2>4. CASE elementCalls[c].at \in {"mac", "ip"} /\ elementCalls'[c].op = elementCalls[c].op
    <3>1. hostRows[h].blocked = (elementCalls[c].op = "add")
      BY <2>2, <2>4 DEF FlagFollows
    <3>2. ASSUME NEW e \in ElementCalls, elementCalls[e].at = "row", elementCalls[e].on = {h}
          PROVE  FALSE
      BY <2>2, <2>3, <2>4, <3>2 DEF OnePerHost
    <3>3. hostRows'[h].blocked = hostRows[h].blocked
      BY <2>3, <3>2, FlagMoves
    <3> QED  BY <2>4, <3>1, <3>3
  <2>5. CASE WritesFlag(c) /\ elementCalls[c].at = "row" /\ elementCalls'[c].op = elementCalls[c].op
    <3>1. elementCalls'[c].at # "idle"
      BY <1>5
    <3>2. PICK g \in elementCalls[c].on : Flags(g, elementCalls[c].op = "add")
      BY <2>5, <3>1, CallGone DEF WritesFlag
    <3>3. g = h
      BY <2>2, <2>5 DEF ElementShape, CallFits, OfHost
    <3>4. hostRows' = [hostRows EXCEPT ![h].blocked = (elementCalls[c].op = "add")]
      BY <3>2, <3>3 DEF Flags
    <3>5. hostRows \in [LanHosts -> HostRows]
      BY DEF ElementShape
    <3>6. hostRows'[h].blocked = (elementCalls[c].op = "add")
      BY <2>3, <3>4, <3>5 DEF HostRows
    <3> QED  BY <2>5, <3>6
  <2>6. \/ elementCalls[c].at \in {"mac", "ip"} /\ elementCalls'[c].op = elementCalls[c].op
        \/ WritesFlag(c) /\ elementCalls[c].at = "row" /\ elementCalls'[c].op = elementCalls[c].op
    BY <1>5, <2>1, CallsMove
  <2> QED  BY <2>4, <2>5, <2>6
<1> QED  BY <1>4, <1>5 DEF FlagFollows

\* Which step takes a host out of the set of physical addresses, or puts one in.
LEMMA MacsMove ==
    ASSUME ElementShape, [ElementNext]_elementVars
    PROVE  \/ elements'.macs = elements.macs
           \/ ElementRestart
           \/ \E c \in ElementCalls : RestoresDump(c)
           \/ \E c \in ElementCalls : SetsMac(c) /\ elements'.macs = Put(c, elements.macs, elementCalls[c].on)
<1>1. ASSUME NEW c \in ElementCalls, SetsMac(c)
      PROVE  elements'.macs = elements.macs \/ elements'.macs = Put(c, elements.macs, elementCalls[c].on)
  BY <1>1, MacCommand
<1>2. ASSUME NEW c \in ElementCalls, SetsIp(c) \/ SetsElement(c) \/ SetsForwards(c)
      PROVE  elements'.macs = elements.macs
  BY <1>2, IpCommand, ListCommand, ForwardCommand
<1>3. ASSUME Contained
      PROVE  elements'.macs = elements.macs
  <2>1. PICK s : elements' = [elements EXCEPT !.contained = s]
    BY <1>3 DEF Contained
  <2> QED  BY <2>1 DEF ElementShape, ElementTables
<1> QED  BY <1>1, <1>2, <1>3, ElementsMove

LEMMA IpsMove ==
    ASSUME ElementShape, [ElementNext]_elementVars
    PROVE  \/ elements'.ips = elements.ips
           \/ ElementRestart
           \/ \E c \in ElementCalls : RestoresDump(c)
           \/ \E c \in ElementCalls : SetsIp(c) /\ elements'.ips = Put(c, elements.ips, SeenAt(c))
<1>1. ASSUME NEW c \in ElementCalls, SetsIp(c)
      PROVE  elements'.ips = elements.ips \/ elements'.ips = Put(c, elements.ips, SeenAt(c))
  BY <1>1, IpCommand
<1>2. ASSUME NEW c \in ElementCalls, SetsMac(c) \/ SetsElement(c) \/ SetsForwards(c)
      PROVE  elements'.ips = elements.ips
  BY <1>2, MacCommand, ListCommand, ForwardCommand
<1>3. ASSUME Contained
      PROVE  elements'.ips = elements.ips
  <2>1. PICK s : elements' = [elements EXCEPT !.contained = s]
    BY <1>3 DEF Contained
  <2> QED  BY <2>1 DEF ElementShape, ElementTables
<1> QED  BY <1>1, <1>2, <1>3, ElementsMove

\* After a restart no call is under way and the flags are those of the rows.
LEMMA RestartIs ==
    ASSUME ElementShape, ElementRestart
    PROVE  /\ \A c \in ElementCalls : elementCalls'[c].at = "idle" /\ elementCalls'[c].on = {}
           /\ UNCHANGED <<hostRows, forwardRows>> /\ BlockedHosts' = BlockedHosts
           /\ \E t \in {elements, tableFile, tableCopy} :
                /\ elements'.macs = t.macs \cup BlockedHosts /\ elements'.ips = t.ips /\ elements'.dnat = t.dnat
                /\ LET stale == t # elements /\ (t # tableFile \/ fileLost # {} \/ ~ CallsIdle) IN
                   /\ freeLost' = freeLost \cup Because("stale", stale \/ ~ CallsIdle)
                   /\ dnatLost' = dnatLost \cup Because("stale", stale \/ ~ CallsIdle)
<1>1. elementCalls' = [c \in ElementCalls |-> NoElementCall] /\ UNCHANGED <<hostRows, forwardRows>>
  BY DEF ElementRestart, ElementRows
<1>2. PICK t \in {elements, tableFile, tableCopy} :
        LET stale == t # elements /\ (t # tableFile \/ fileLost # {} \/ ~ CallsIdle) IN
        /\ elements' = WithBlocks(t)
        /\ freeLost' = freeLost \cup Because("stale", stale \/ ~ CallsIdle)
        /\ dnatLost' = dnatLost \cup Because("stale", stale \/ ~ CallsIdle)
  BY DEF ElementRestart
<1>3. t \in ElementTables
  BY DEF ElementShape
<1> QED  BY <1>1, <1>2, <1>3, WithBlocksIs DEF NoElementCall, BlockedHosts

LEMMA BlockStep ==
    ASSUME ElementShape, BlockInv, [ElementNext]_elementVars
    PROVE  BlockInv'
<1> SUFFICES ASSUME blockLost' = {}
             PROVE  /\ OnePerHost' /\ FlagFollows'
                    /\ \A h \in BlockedHosts' : \/ h \in elements'.macs
                                                \/ \E c \in ElementCalls : At(c, "mac")' /\ h \in elementCalls'[c].on
  BY DEF BlockInv
<1>1. CASE ElementRestart
  BY <1>1, RestartIs DEF OnePerHost, FlagFollows
<1>2. CASE ~ ElementRestart
  <2>1. blockLost = {}
    BY <1>2, LostStays
  <2>2. /\ OnePerHost /\ FlagFollows
        /\ \A h \in BlockedHosts : \/ h \in elements.macs
                                   \/ \E c \in ElementCalls : At(c, "mac") /\ h \in elementCalls[c].on
    BY <2>1 DEF BlockInv
  <2>3. OnePerHost' /\ FlagFollows'
    BY <2>2, UncrossedIs, HostCalls
  <2>4. ASSUME NEW c \in ElementCalls
        PROVE  ~ RestoresDump(c)
    BY DEF RestoresDump
  <2>5. ASSUME NEW c \in ElementCalls, SetsMac(c), elementCalls[c].op = "add"
        PROVE  elementCalls[c].on \subseteq elements'.macs /\ elements.macs \subseteq elements'.macs
    <3>1. elements' = [elements EXCEPT !.macs = Put(c, @, elementCalls[c].on)]
      BY <2>5 DEF SetsMac, Because
    <3> QED  BY <2>5, <3>1 DEF Put, ElementShape, ElementTables
  <2>6. ASSUME NEW h \in BlockedHosts'
        PROVE  \/ h \in elements'.macs
               \/ \E c \in ElementCalls : At(c, "mac")' /\ h \in elementCalls'[c].on
    <3>1. h \in LanHosts /\ hostRows'[h].blocked
      BY DEF BlockedHosts
    <3>2. CASE hostRows'[h].blocked # hostRows[h].blocked
      BY <3>1, <3>2, FlagMoves DEF At
    <3>3. CASE hostRows'[h].blocked = hostRows[h].blocked
      <4>1. h \in BlockedHosts /\ hostRows[h].blocked
        BY <3>1, <3>3 DEF BlockedHosts
      <4>2. CASE h \in elements.macs
        <5>1. ASSUME NEW c \in ElementCalls, SetsMac(c), elements'.macs = Put(c, elements.macs, elementCalls[c].on)
              PROVE  h \in elements'.macs
          <6>1. CASE h \in elementCalls[c].on
            <7>1. elementCalls[c].op = "add"
              BY <4>1, <5>1, <6>1, <2>2 DEF SetsMac, At, FlagFollows
            <7> QED  BY <5>1, <6>1, <7>1, <2>5
          <6>2. CASE h \notin elementCalls[c].on
            BY <4>2, <5>1, <6>2 DEF Put
          <6> QED  BY <6>1, <6>2
        <5> QED  BY <1>2, <2>4, <4>2, <5>1, MacsMove
      <4>3. ASSUME NEW c \in ElementCalls, elementCalls[c].at = "mac", h \in elementCalls[c].on
            PROVE  \/ h \in elements'.macs
                   \/ elementCalls'[c].at = "mac" /\ h \in elementCalls'[c].on
        <5>1. elementCalls[c].op = "add"
          BY <2>2, <4>1, <4>3 DEF FlagFollows
        <5>2. elementCalls'[c] = elementCalls[c] \/ AsksElement(c) \/ SetsMac(c)
          BY <1>2, <4>3, CallsMove
        <5>3. ~ AsksElement(c)
          BY <4>3 DEF AsksElement, At
        <5> QED  BY <2>5, <4>3, <5>1, <5>2, <5>3
      <4> QED  BY <2>2, <4>1, <4>2, <4>3 DEF At
    <3> QED  BY <3>2, <3>3
  <2> QED  BY <2>3, <2>6
<1> QED  BY <1>1, <1>2

LEMMA FreeStep ==
    ASSUME ElementShape, FileInv, FreeInv, [ElementNext]_elementVars
    PROVE  FreeInv'
<1> SUFFICES ASSUME freeLost' = {}
             PROVE  /\ OnePerHost' /\ FlagFollows'
                    /\ \A h \in elements'.macs :
                         \/ h \in BlockedHosts'
                         \/ \E c \in ElementCalls : At(c, "mac")' /\ h \in elementCalls'[c].on
                    /\ \A a \in elements'.ips : \E h \in LanHosts :
                         /\ hostRows'[h].ip = a
                         /\ \/ h \in BlockedHosts'
                            \/ \E c \in ElementCalls : elementCalls'[c].at \in {"mac", "ip"} /\ h \in elementCalls'[c].on
  BY DEF FreeInv
<1>1. freeLost = {}
  BY LostStays
<1>2. OnePerHost /\ FlagFollows
  BY <1>1 DEF FreeInv
<1>3. ASSUME NEW h \in elements.macs
      PROVE  h \in BlockedHosts \/ \E c \in ElementCalls : elementCalls[c].at = "mac" /\ h \in elementCalls[c].on
  BY <1>1 DEF FreeInv, At
<1>4. ASSUME NEW a \in elements.ips
      PROVE  \E h \in LanHosts :
               /\ hostRows[h].ip = a
               /\ h \in BlockedHosts \/ \E c \in ElementCalls : elementCalls[c].at \in {"mac", "ip"} /\ h \in elementCalls[c].on
  BY <1>1 DEF FreeInv
<1>5. CASE ElementRestart
  <2>1. PICK t \in {elements, tableFile, tableCopy} :
          /\ elements'.macs = t.macs \cup BlockedHosts /\ elements'.ips = t.ips
          /\ LET stale == t # elements /\ (t # tableFile \/ fileLost # {} \/ ~ CallsIdle) IN
             freeLost' = freeLost \cup Because("stale", stale \/ ~ CallsIdle)
    BY <1>5, RestartIs
  <2>2. CallsIdle /\ (t = elements \/ (t = tableFile /\ fileLost = {}))
    BY <2>1 DEF Because
  <2>3. \A c \in ElementCalls : elementCalls[c].at = "idle"
    BY <2>2 DEF CallsIdle, At
  <2>4. t.macs = elements.macs /\ t.ips = elements.ips
    BY <2>2, <2>3 DEF FileInv, SameElements
  <2>5. t.macs \subseteq BlockedHosts
    BY <1>3, <2>3, <2>4
  <2>6. \A a \in t.ips : \E h \in LanHosts : hostRows[h].ip = a /\ h \in BlockedHosts
    BY <1>4, <2>3, <2>4
  <2>7. OnePerHost' /\ FlagFollows'
    BY <1>5, RestartIs DEF OnePerHost, FlagFollows
  <2>8. UNCHANGED hostRows /\ BlockedHosts' = BlockedHosts
    BY <1>5, RestartIs
  <2> QED  BY <2>1, <2>5, <2>6, <2>7, <2>8
<1>6. CASE ~ ElementRestart
  <2>1. OnePerHost' /\ FlagFollows'
    BY <1>2, UncrossedIs, HostCalls
  <2>2. ASSUME NEW c \in ElementCalls
        PROVE  ~ RestoresDump(c)
    BY DEF RestoresDump
  \* A flagged host keeps its flag, or the call that clears it is at the sets.
  <2>3. ASSUME NEW h \in BlockedHosts
        PROVE  \/ h \in BlockedHosts'
               \/ \E c \in ElementCalls : elementCalls'[c].at = "mac" /\ h \in elementCalls'[c].on
    BY FlagMoves DEF BlockedHosts
  <2>4. ASSUME NEW c \in ElementCalls, elementCalls[c].at \in {"mac", "ip"}, NEW h \in elementCalls[c].on
        PROVE  /\ h \in LanHosts
               /\ elementCalls[c].op = "add" => h \in BlockedHosts /\ h \in BlockedHosts'
               /\ elementCalls[c].op # "add" => elementCalls[c].op = "del"
    <3>1. h \in LanHosts /\ elementCalls[c].op \in {"add", "del"}
      BY <2>4 DEF ElementShape, CallFits, OfHost
    <3>2. ASSUME NEW e \in ElementCalls, elementCalls[e].at = "row", elementCalls[e].on = {h}
          PROVE  FALSE
      BY <1>2, <2>4, <3>1, <3>2 DEF OnePerHost
    <3>3. hostRows'[h].blocked = hostRows[h].blocked
      BY <3>1, <3>2, FlagMoves
    <3>4. hostRows[h].blocked = (elementCalls[c].op = "add")
      BY <1>2, <2>4 DEF FlagFollows
    <3> QED  BY <3>1, <3>3, <3>4 DEF BlockedHosts
  <2>5. ASSUME NEW h \in elements'.macs
        PROVE  \/ h \in BlockedHosts'
               \/ \E c \in ElementCalls : elementCalls'[c].at = "mac" /\ h \in elementCalls'[c].on
    <3>1. CASE h \notin elements.macs
      <4>1. PICK c \in ElementCalls : SetsMac(c) /\ elements'.macs = Put(c, elements.macs, elementCalls[c].on)
        BY <1>6, <2>2, <3>1, MacsMove
      <4>2. elementCalls[c].op = "add" /\ h \in elementCalls[c].on
        BY <3>1, <4>1 DEF Put
      <4> QED  BY <2>4, <4>1, <4>2 DEF SetsMac, At
    <3>2. ASSUME NEW c \in ElementCalls, elementCalls[c].at = "mac", h \in elementCalls[c].on
          PROVE  \/ h \in BlockedHosts'
                 \/ elementCalls'[c].at = "mac" /\ h \in elementCalls'[c].on
      <4>1. elementCalls'[c] = elementCalls[c] \/ AsksElement(c) \/ SetsMac(c)
        BY <1>6, <3>2, CallsMove
      <4>2. ~ AsksElement(c)
        BY <3>2 DEF AsksElement, At
      <4>3. CASE SetsMac(c)
        <5>1. CASE elementCalls[c].op = "del"
          <6>1. elements' = [elements EXCEPT !.macs = Put(c, @, elementCalls[c].on)]
            BY <4>3, <5>1 DEF SetsMac, Because
          <6>2. h \notin elements'.macs
            BY <3>2, <5>1, <6>1 DEF Put, ElementShape, ElementTables
          <6> QED  BY <6>2
        <5> QED  BY <2>4, <3>2, <5>1
      <4> QED  BY <3>2, <4>1, <4>2, <4>3
    <3> QED  BY <1>3, <2>3, <3>1, <3>2
  <2>6. ASSUME NEW a \in elements'.ips
        PROVE  \E h \in LanHosts :
                 /\ hostRows'[h].ip = a
                 /\ \/ h \in BlockedHosts'
                    \/ \E c \in ElementCalls : elementCalls'[c].at \in {"mac", "ip"} /\ h \in elementCalls'[c].on
    <3>1. CASE a \notin elements.ips
      <4>1. PICK c \in ElementCalls : SetsIp(c) /\ elements'.ips = Put(c, elements.ips, SeenAt(c))
        BY <1>6, <2>2, <3>1, IpsMove
      <4>2. elementCalls[c].op = "add" /\ a \in SeenAt(c)
        BY <3>1, <4>1 DEF Put
      <4>3. PICK h \in elementCalls[c].on : hostRows[h].ip = a
        BY <4>2 DEF SeenAt
      <4>4. h \in LanHosts /\ h \in BlockedHosts /\ h \in BlockedHosts'
        BY <2>4, <4>1, <4>2, <4>3 DEF SetsIp, At
      <4>5. hostRows'[h].ip = a
        BY <4>3, <4>4, AddressMoves DEF Because, BlockedHosts
      <4> QED  BY <4>4, <4>5
    <3>2. CASE a \in elements.ips
      <4>1. PICK h \in LanHosts :
              /\ hostRows[h].ip = a
              /\ h \in BlockedHosts \/ \E c \in ElementCalls : elementCalls[c].at \in {"mac", "ip"} /\ h \in elementCalls[c].on
        BY <1>4, <3>2
      <4>2. hostRows'[h].ip = a
        BY <4>1, AddressMoves DEF Because, BlockedHosts
      <4>3. ASSUME NEW c \in ElementCalls, elementCalls[c].at \in {"mac", "ip"}, h \in elementCalls[c].on
            PROVE  \/ h \in BlockedHosts'
                   \/ elementCalls'[c].at \in {"mac", "ip"} /\ h \in elementCalls'[c].on
        <5>1. elementCalls'[c] = elementCalls[c] \/ AsksElement(c) \/ SetsIp(c)
              \/ (elementCalls'[c].at = "ip" /\ elementCalls'[c].on = elementCalls[c].on)
          BY <1>6, <4>3, CallsMove
        <5>2. ~ AsksElement(c)
          BY <4>3 DEF AsksElement, At
        <5>3. CASE SetsIp(c) /\ elementCalls[c].op = "del"
          <6>1. a \in SeenAt(c)
            <7>1. a # 0
              BY <3>2, ElementAssumption DEF ElementShape, ElementTables
            <7> QED  BY <4>1, <4>3, <7>1 DEF SeenAt
          <6>2. SeenAt(c) # {} /\ ~ NotThere(c, elements.ips, SeenAt(c))
            BY <3>2, <6>1 DEF NotThere
          <6>3. elements' = [elements EXCEPT !.ips = Put(c, @, SeenAt(c))]
            BY <5>3, <6>2 DEF SetsIp
          <6>4. a \notin elements'.ips
            BY <5>3, <6>1, <6>3 DEF Put, ElementShape, ElementTables
          <6> QED  BY <6>4
        <5> QED  BY <2>4, <4>3, <5>1, <5>2, <5>3
      <4> QED  BY <2>3, <4>1, <4>2, <4>3
    <3> QED  BY <3>1, <3>2
  <2> QED  BY <2>1, <2>5, <2>6 DEF At
<1> QED  BY <1>5, <1>6

\* A forward whose chain is changed and whose setting is not: before the file
\* is written, and until the list is saved.
Unsaved(c) == OfForward(c) /\ elementCalls[c].at \in {"persist", "write", "save"}

\* A call goes on and neither the chain nor the setting changes.
LEMMA DnatGoesOn ==
    ASSUME DnatInv, NEW c \in ElementCalls,
           \A d \in ElementCalls : d # c => elementCalls'[d] = elementCalls[d],
           elementCalls'[c].on \subseteq elementCalls[c].on, elementCalls'[c].list = elementCalls[c].list \/ ~ Unsaved(c)',
           elements'.dnat = elements.dnat, forwardRows' = forwardRows,
           dnatLost' = {} => (Unsaved(c)' <=> Unsaved(c)),
           dnatLost \subseteq dnatLost'
    PROVE  DnatInv'
<1> SUFFICES ASSUME dnatLost' = {}
             PROVE  DnatInv'
  BY DEF DnatInv
<1>1. dnatLost = {}
  OBVIOUS
<1>2. \A d \in ElementCalls : (Unsaved(d)' <=> Unsaved(d)) /\ (OfForward(d)' => OfForward(d))
  BY DEF Unsaved, OfForward
<1>3. \A d, e \in ElementCalls : OfForward(d)' /\ OfForward(e)' => d = e
  BY <1>1, <1>2 DEF DnatInv
<1>4. \A d \in ElementCalls : Unsaved(d)' => elements'.dnat = elementCalls'[d].list
  BY <1>1, <1>2 DEF DnatInv, Unsaved
<1>5. (\A d \in ElementCalls : ~ Unsaved(d)') => elements'.dnat = forwardRows'
  BY <1>1, <1>2 DEF DnatInv, Unsaved
<1> QED  BY <1>3, <1>4, <1>5 DEF DnatInv, Unsaved

LEMMA DnatStays ==
    ASSUME DnatInv, UNCHANGED <<elementCalls, forwardRows, dnatLost>>, elements'.dnat = elements.dnat
    PROVE  DnatInv'
BY DEF DnatInv, OfForward

LEMMA DnatStep ==
    ASSUME ElementShape, FileInv, DnatInv, [ElementNext]_elementVars
    PROVE  DnatInv'
<1>0. {"idle", "mac", "ip", "copy", "persist", "save", "restore", "reconcile"} \subseteq ElementStages
  BY DEF ElementStages
<1>1. dnatLost \subseteq dnatLost'
  BY LostStays
\* A move of a call that has no forward to save, before or after.
<1>2. ASSUME NEW c \in ElementCalls, NEW a \in {"mac", "ip", "copy", "persist", "save", "restore", "reconcile"},
             GoesTo(c, a) \/ CallEnds(c), elements'.dnat = elements.dnat, forwardRows' = forwardRows,
             ~ Unsaved(c), a \notin {"persist", "save"} \/ ~ OfForward(c)
      PROVE  DnatInv'
  <2>1. /\ \A d \in ElementCalls : d # c => elementCalls'[d] = elementCalls[d]
        /\ elementCalls'[c].on \subseteq elementCalls[c].on
        /\ elementCalls'[c].at = "idle" \/ elementCalls'[c].at = a
        /\ elementCalls'[c].on = {} \/ elementCalls'[c].on = elementCalls[c].on
        /\ elementCalls'[c].list = elementCalls[c].list \/ elementCalls'[c].at = "idle"
    BY <1>0, <1>2, CallGoes, CallGone
  <2>2. ~ Unsaved(c)'
    BY <1>2, <2>1 DEF Unsaved, OfForward
  <2> QED  BY <1>1, <1>2, <2>1, <2>2, DnatGoesOn
\* What follows the file: the forward is on its way to the setting, or lost.
<1>3. ASSUME NEW c \in ElementCalls, NEW ok \in BOOLEAN, AfterPersist(c, ok),
             elementCalls[c].at \in {"persist", "write"}, elements'.dnat = elements.dnat,
             forwardRows' = forwardRows,
             ~ ok => dnatLost' = dnatLost \cup Because("failed", elementCalls[c].on \subseteq Forwards)
      PROVE  DnatInv'
  <2>1. CASE GoesTo(c, "copy") /\ ~ OfForward(c)
    BY <1>2, <1>3, <2>1 DEF Unsaved
  <2>2. CASE GoesTo(c, "save") /\ elementCalls[c].on # {} /\ elementCalls[c].on \subseteq Forwards
    <3>1. /\ \A d \in ElementCalls : d # c => elementCalls'[d] = elementCalls[d]
          /\ elementCalls'[c].on = elementCalls[c].on /\ elementCalls'[c].list = elementCalls[c].list
          /\ elementCalls'[c].at = "save"
      BY <1>0, <2>2, CallGoes
    <3>2. Unsaved(c) /\ Unsaved(c)'
      BY <1>3, <2>2, <3>1 DEF Unsaved, OfForward
    <3> QED  BY <1>1, <1>3, <3>1, <3>2, DnatGoesOn
  <2>3. CASE CallEnds(c) /\ ~ ok /\ (OfForward(c) => elementCalls[c].on \subseteq Forwards)
    <3>1. CASE OfForward(c)
      <4>1. dnatLost' # {}
        BY <1>3, <2>3, <3>1 DEF Because
      <4> QED  BY <4>1 DEF DnatInv
    <3>2. CASE ~ OfForward(c)
      BY <1>2, <1>3, <2>3, <3>2 DEF Unsaved
    <3> QED  BY <3>1, <3>2
  <2> QED  BY <1>3, <2>1, <2>2, <2>3, CallAfter
<1>4. ASSUME NEW c \in ElementCalls, AsksElement(c)
      PROVE  DnatInv'
  <2> SUFFICES ASSUME dnatLost' = {}
               PROVE  DnatInv'
    BY DEF DnatInv
  <2>1. PICK x \in LanHosts \cup Listed \cup Forwards :
          LET busy == UNION {elementCalls[d].on : d \in ElementCalls} IN
          /\ elementCalls'[c].on = {x}
          /\ dnatLost' = dnatLost \cup Because("crossed", x \in Forwards /\ busy \cap Forwards # {})
    BY <1>4, AskIs
  <2>2. /\ elementCalls'[c].at \in {"row", "element", "dnat"}
        /\ \A d \in ElementCalls : d # c => elementCalls'[d] = elementCalls[d]
    BY <1>4, AskIs
  <2>3. At(c, "idle") /\ UNCHANGED <<elements, forwardRows>>
    BY <1>4 DEF AsksElement, ElementRows
  <2>4. dnatLost = {}
    BY <1>1
  <2>5. ASSUME x \in Forwards, NEW d \in ElementCalls, OfForward(d)
        PROVE  FALSE
    <3>1. PICK y \in Forwards : y \in elementCalls[d].on
      BY <2>5 DEF OfForward
    <3>2. y \in UNION {elementCalls[e].on : e \in ElementCalls}
      BY <3>1
    <3> QED  BY <2>1, <2>5, <3>1, <3>2 DEF Because
  <2>6. OfForward(c)' => x \in Forwards
    BY <2>1 DEF OfForward
  <2>7. \A d \in ElementCalls : OfForward(d)' => d = c \/ OfForward(d)
    BY <2>2 DEF OfForward
  <2>8. \A d, e \in ElementCalls : OfForward(d)' /\ OfForward(e)' => d = e
    BY <2>4, <2>5, <2>6, <2>7 DEF DnatInv
  <2>9. ~ Unsaved(c) /\ ~ Unsaved(c)'
    BY <2>2, <2>3 DEF Unsaved, At
  <2>10. \A d \in ElementCalls : d # c => (Unsaved(d)' <=> Unsaved(d)) /\ elementCalls'[d].list = elementCalls[d].list
    BY <2>2 DEF Unsaved, OfForward
  <2>11. \A d \in ElementCalls : Unsaved(d)' => elements'.dnat = elementCalls'[d].list
    BY <2>3, <2>4, <2>9, <2>10 DEF DnatInv, Unsaved
  <2>12. (\A d \in ElementCalls : ~ Unsaved(d)') => elements'.dnat = forwardRows'
    BY <2>3, <2>4, <2>9, <2>10 DEF DnatInv, Unsaved
  <2> QED  BY <2>8, <2>11, <2>12 DEF DnatInv, Unsaved
<1>5. ASSUME NEW c \in ElementCalls, WritesFlag(c) \/ SetsMac(c)
      PROVE  DnatInv'
  <2>1. /\ GoesTo(c, "mac") \/ GoesTo(c, "ip") \/ CallEnds(c)
        /\ elementCalls[c].at \in {"row", "mac"} /\ forwardRows' = forwardRows
    BY <1>5 DEF WritesFlag, SetsMac, At, ElementRows
  <2>2. elements'.dnat = elements.dnat
    BY <1>5, MacCommand DEF WritesFlag, KernelStays
  <2> QED  BY <1>2, <2>1, <2>2 DEF Unsaved
<1>6. ASSUME NEW c \in ElementCalls, SetsIp(c) \/ SetsElement(c)
      PROVE  DnatInv'
  <2>1. /\ GoesTo(c, "copy") \/ GoesTo(c, "persist") \/ CallEnds(c)
        /\ elementCalls[c].at \in {"ip", "element"} /\ forwardRows' = forwardRows
    BY <1>6 DEF SetsIp, SetsElement, At, ElementRows
  <2>2. elements'.dnat = elements.dnat
    BY <1>6, IpCommand, ListCommand
  <2>3. ~ OfForward(c)
    BY <2>1, ElementAssumption DEF OfForward, ElementShape, CallFits, OfHost
  <2> QED  BY <1>2, <2>1, <2>2, <2>3 DEF Unsaved
<1>7. ASSUME NEW c \in ElementCalls, SetsForwards(c)
      PROVE  DnatInv'
  <2>1. elementCalls[c].at = "dnat" /\ forwardRows' = forwardRows /\ dnatLost' = dnatLost
    BY <1>7 DEF SetsForwards, At, ElementRows
  <2>2. CASE elements' = elements /\ CallEnds(c)
    BY <1>2, <2>1, <2>2 DEF Unsaved
  <2>3. CASE elements'.dnat = elementCalls[c].list /\ GoesTo(c, "persist")
    <3> SUFFICES ASSUME dnatLost = {}
                 PROVE  DnatInv'
      BY <2>1 DEF DnatInv
    <3>1. /\ \A d \in ElementCalls : d # c => elementCalls'[d] = elementCalls[d]
          /\ elementCalls'[c].on = elementCalls[c].on /\ elementCalls'[c].list = elementCalls[c].list
          /\ elementCalls'[c].at = "persist"
      BY <1>0, <2>3, CallGoes
    <3>2. OfForward(c)
      BY <2>1 DEF OfForward, ElementShape, CallFits
    <3>3. \A d \in ElementCalls : OfForward(d)' => d = c
      BY <3>1, <3>2 DEF DnatInv, OfForward
    <3>4. Unsaved(c)' /\ elements'.dnat = elementCalls'[c].list
      BY <2>3, <3>1, <3>2 DEF Unsaved, OfForward
    <3> QED  BY <3>3, <3>4 DEF DnatInv, Unsaved
  <2> QED  BY <1>7, <2>2, <2>3, ForwardCommand
<1>8. ASSUME NEW c \in ElementCalls, PersistReads(c)
      PROVE  DnatInv'
  <2>1. elementCalls[c].at = "persist" /\ elements' = elements /\ forwardRows' = forwardRows
    BY <1>8 DEF PersistReads, At, ElementRows
  <2>2. CASE elementCalls' = [elementCalls EXCEPT ![c] = [@ EXCEPT !.at = "write", !.read = Sanitized(elements)]]
    <3>1. PICK r : r = [elementCalls[c] EXCEPT !.at = "write", !.read = Sanitized(elements)]
      OBVIOUS
    <3>2. r.at = "write" /\ r.on = elementCalls[c].on /\ r.list = elementCalls[c].list
      BY <3>1 DEF ElementShape, ElementAsks
    <3>3. elementCalls' = [elementCalls EXCEPT ![c] = r]
      BY <2>2, <3>1
    <3>4. elementCalls'[c] = r /\ \A d \in ElementCalls : d # c => elementCalls'[d] = elementCalls[d]
      BY <3>3 DEF ElementShape
    <3>5. Unsaved(c)' <=> Unsaved(c)
      BY <2>1, <3>2, <3>4 DEF Unsaved, OfForward
    <3> QED  BY <1>1, <2>1, <3>2, <3>4, <3>5, DnatGoesOn
  <2>3. CASE AfterPersist(c, TRUE)
    BY <1>3, <2>1, <2>3
  <2>4. CASE PersistFails(c)
    BY <1>3, <2>1, <2>4 DEF PersistFails
  <2> QED  BY <1>8, <2>2, <2>3, <2>4 DEF PersistReads
<1>9. ASSUME NEW c \in ElementCalls, PersistWrites(c)
      PROVE  DnatInv'
  <2>1. elementCalls[c].at = "write" /\ elements' = elements /\ forwardRows' = forwardRows
    BY <1>9 DEF PersistWrites, At, ElementRows
  <2> QED  BY <1>3, <1>9, <2>1 DEF PersistWrites, PersistFails
<1>10. ASSUME NEW c \in ElementCalls, SavesForwards(c)
       PROVE  DnatInv'
  <2> SUFFICES ASSUME dnatLost' = {}
               PROVE  DnatInv'
    BY DEF DnatInv
  <2>1. /\ elementCalls[c].at = "save" /\ elements' = elements
        /\ forwardRows' = elementCalls[c].list /\ GoesTo(c, "copy") /\ dnatLost = {}
    BY <1>10 DEF SavesForwards, At
  <2>2. /\ \A d \in ElementCalls : d # c => elementCalls'[d] = elementCalls[d]
        /\ elementCalls'[c].on = elementCalls[c].on /\ elementCalls'[c].at = "copy"
    BY <1>0, <2>1, CallGoes
  <2>3. Unsaved(c)
    BY <2>1 DEF Unsaved, OfForward, ElementShape, CallFits
  <2>4. elements.dnat = elementCalls[c].list
    BY <2>1, <2>3 DEF DnatInv, Unsaved
  <2>5. \A d \in ElementCalls : OfForward(d)' => d = c
    BY <2>1, <2>2, <2>3 DEF DnatInv, OfForward, Unsaved
  <2> QED  BY <2>1, <2>2, <2>4, <2>5 DEF DnatInv
<1>11. ASSUME NEW c \in ElementCalls, Copies(c) \/ ChecksWindow(c) \/ RefusesDump(c) \/ ReconcilesDump(c)
       PROVE  DnatInv'
  <2>1. /\ GoesTo(c, "restore") \/ GoesTo(c, "persist") \/ GoesTo(c, "copy") \/ CallEnds(c)
        /\ GoesTo(c, "persist") => elementCalls[c].at = "reconcile"
        /\ elementCalls[c].at \in {"copy", "check", "restore", "reconcile"}
        /\ UNCHANGED <<elements, forwardRows>>
    <3>1. Copies(c) => CallEnds(c) /\ elementCalls[c].at = "copy" /\ UNCHANGED <<elements, forwardRows>>
      BY DEF Copies, At, KernelStays, ElementRows
    <3>2. ChecksWindow(c) => /\ GoesTo(c, "restore") \/ CallEnds(c)
                             /\ elementCalls[c].at = "check" /\ UNCHANGED <<elements, forwardRows>>
      BY DEF ChecksWindow, At, KernelStays, ElementRows
    <3>3. RefusesDump(c) => CallEnds(c) /\ elementCalls[c].at = "restore" /\ UNCHANGED <<elements, forwardRows>>
      BY DEF RefusesDump, At, KernelStays, ElementRows
    <3>4. ReconcilesDump(c) => /\ GoesTo(c, "persist") \/ GoesTo(c, "copy")
                               /\ elementCalls[c].at = "reconcile" /\ UNCHANGED <<elements, forwardRows>>
      BY DEF ReconcilesDump, At, KernelStays, ElementRows
    <3>5. ~ (GoesTo(c, "persist") /\ (GoesTo(c, "restore") \/ CallEnds(c)))
      BY <1>0, CallGoes, CallGone
    <3> QED  BY <1>11, <3>1, <3>2, <3>3, <3>4, <3>5
  <2>2. elementCalls[c].at = "reconcile" => ~ OfForward(c)
    BY DEF OfForward, ElementShape, CallFits
  <2>3. ~ Unsaved(c)
    BY <2>1 DEF Unsaved
  <2> QED  BY <1>2, <2>1, <2>2, <2>3
<1>12. ASSUME NEW c \in ElementCalls, AsksRollback(c)
       PROVE  DnatInv'
  <2>1. PICK t \in dumps : elementCalls' = [elementCalls EXCEPT ![c] = [NoElementCall EXCEPT !.at = "check", !.read = t]]
    BY <1>12 DEF AsksRollback
  <2>2. elementCalls[c].at = "idle" /\ UNCHANGED <<elements, forwardRows>>
    BY <1>12 DEF AsksRollback, At, KernelStays, ElementRows
  <2>3. /\ elementCalls'[c].at = "check" /\ elementCalls'[c].on = {}
        /\ \A d \in ElementCalls : d # c => elementCalls'[d] = elementCalls[d]
    BY <2>1 DEF ElementShape, NoElementCall
  <2>4. ~ Unsaved(c) /\ ~ Unsaved(c)'
    BY <2>2, <2>3 DEF Unsaved
  <2> QED  BY <1>1, <2>2, <2>3, <2>4, DnatGoesOn
<1>13. ASSUME NEW c \in ElementCalls, RestoresDump(c)
       PROVE  DnatInv'
  BY <1>13 DEF RestoresDump, DnatInv
<1>14. ASSUME Sighted \/ TakesDump \/ WindowOpens \/ WindowEnds
       PROVE  DnatInv'
  <2>1. UNCHANGED <<elementCalls, forwardRows, dnatLost, elements>>
    BY <1>14 DEF Sighted, TakesDump, WindowOpens, WindowEnds, KernelStays, ElementRows
  <2> QED  BY <2>1, DnatStays
<1>15. ASSUME Contained
       PROVE  DnatInv'
  <2>1. UNCHANGED <<elementCalls, forwardRows, dnatLost>>
    BY <1>15 DEF Contained, ElementRows
  <2>2. PICK s : elements' = [elements EXCEPT !.contained = s]
    BY <1>15 DEF Contained
  <2>3. elements'.dnat = elements.dnat
    BY <2>2 DEF ElementShape, ElementTables
  <2> QED  BY <2>1, <2>3, DnatStays
<1>16. ASSUME ElementRestart
       PROVE  DnatInv'
  <2> SUFFICES ASSUME dnatLost' = {}
               PROVE  DnatInv'
    BY DEF DnatInv
  <2>1. PICK t \in {elements, tableFile, tableCopy} :
          /\ elements'.dnat = t.dnat
          /\ LET stale == t # elements /\ (t # tableFile \/ fileLost # {} \/ ~ CallsIdle) IN
             dnatLost' = dnatLost \cup Because("stale", stale \/ ~ CallsIdle)
    BY <1>16, RestartIs
  <2>2. dnatLost = {} /\ CallsIdle /\ (t = elements \/ (t = tableFile /\ fileLost = {}))
    BY <2>1 DEF Because
  <2>3. \A c \in ElementCalls : elementCalls[c].at = "idle"
    BY <2>2 DEF CallsIdle, At
  <2>4. t.dnat = elements.dnat
    BY <2>2, <2>3 DEF FileInv, SameElements
  <2>5. elements.dnat = forwardRows
    BY <2>2, <2>3 DEF DnatInv
  <2> QED  BY <1>16, <2>1, <2>4, <2>5, RestartIs DEF DnatInv, OfForward
<1>17. CASE UNCHANGED elementVars
  BY <1>17, DnatStays DEF elementVars
<1> QED
  BY <1>4, <1>5, <1>6, <1>7, <1>8, <1>9, <1>10, <1>11, <1>12, <1>13, <1>14, <1>15, <1>16, <1>17 DEF ElementNext

LEMMA ElementStep ==
    ElementInv /\ [ElementNext]_elementVars => ElementInv'
BY ElementShapeStep, FileStep, BlockStep, FreeStep, DnatStep DEF ElementInv

-----------------------------------------------------------------------------
(* From a part to the panel that follows it *)

\* A step of the panel is a step of the part it follows, and of no other.
LEMMA FollowsPart ==
    ASSUME [PanelNext]_panelVars
    PROVE  /\ focus' = focus
           /\ focus = "vault" => [VaultNext]_vaultVars
           /\ focus = "update" => [UpdateNext]_updateVars
           /\ focus = "capture" => [CaptureNext]_captureVars
           /\ focus = "merge" => [Next]_vars
           /\ focus = "backup" => [BackupNext]_backupVars
           /\ focus = "elements" => [ElementNext]_elementVars
           /\ focus = "vpn" => [TunnelNext]_tunnelVars
           /\ focus = "accounts" => [AccountNext]_accountVars
           /\ focus = "adoption" => [AdoptNext]_adoptVars
           /\ focus # "accounts" => UNCHANGED accountVars
<1>1. CASE UNCHANGED panelVars
  BY <1>1 DEF panelVars
<1>2. CASE PanelNext
  BY <1>2 DEF PanelNext, Others
<1> QED  BY <1>1, <1>2

\* Whatever is given, moved, lost and read again, whoever opens the key first
\* and wherever a start is cut: a credential is kept at every step of its move
\* to the table of secrets, can be opened with the key there is unless that key
\* was lost, and is served from that table only.
THEOREM SecretsKept == PanelSpec => []SecretsHold
<1>1. PanelInit => Of("vault", VaultInv)
  BY VaultStarts DEF PanelInit, Of
<1>2. ASSUME Of("vault", VaultInv), [PanelNext]_panelVars
      PROVE  Of("vault", VaultInv)'
  BY <1>2, FollowsPart, VaultStep DEF Of
<1>3. Of("vault", VaultInv) => SecretsHold
  BY VaultHolds DEF SecretsHold, Of
<1> QED  BY <1>1, <1>2, <1>3, PTL DEF PanelSpec

\* Whatever the network, dpkg, systemd and the service do between two steps of
\* an update, and however many run: what is installed was verified, an update
\* that failed is told unless its alert was lost, one that ended in silence has
\* its package, and no download stays that nobody waits for.
THEOREM UpdatesAreHonest == PanelSpec => []UpdateIsHonest
<1>1. PanelInit => Of("update", UpdateInv)
  BY UpdateStarts DEF PanelInit, Of
<1>2. ASSUME Of("update", UpdateInv), [PanelNext]_panelVars
      PROVE  Of("update", UpdateInv)'
  BY <1>2, FollowsPart, UpdateStep DEF Of
<1>3. Of("update", UpdateInv) => UpdateIsHonest
  BY UpdateHolds DEF UpdateIsHonest, Of
<1> QED  BY <1>1, <1>2, <1>3, PTL DEF PanelSpec

\* However many captures run at once, in however few seconds, and whatever is
\* swept or restarted between two of their steps: a capture is offered only
\* while its file is there, unless another one of the same second shared it,
\* and with none under way each file was asked for or was left by a failure.
THEOREM CapturesStay == PanelSpec => []CapturesAreThere
<1>1. PanelInit => Of("capture", CaptureInv)
  BY CaptureStarts DEF PanelInit, Of
<1>2. ASSUME Of("capture", CaptureInv), [PanelNext]_panelVars
      PROVE  Of("capture", CaptureInv)'
  BY <1>2, FollowsPart, CaptureStep DEF Of
<1>3. Of("capture", CaptureInv) => CapturesAreThere
  BY CaptureHolds DEF CapturesAreThere, Of
<1> QED  BY <1>1, <1>2, <1>3, PTL DEF PanelSpec

\* However many groups and rules there are, whatever the window's mutation was
\* and whatever mutations without a window followed it, at the first attempt and
\* at a later one: the revert puts the input chain back in order, leaves what
\* others wrote and undoes what the window did.
THEOREM RevertsMergeRows == PanelSpec => []RevertMergesRows
<1>1. PanelInit => Of("merge", MergeInv)
  BY MergeStarts DEF PanelInit, Of
<1>2. ASSUME Of("merge", MergeInv), [PanelNext]_panelVars
      PROVE  Of("merge", MergeInv)'
  BY <1>2, FollowsPart, MergeStep DEF Of
<1>3. Of("merge", MergeInv) => RevertMergesRows
  BY MergeHolds DEF RevertMergesRows, Of
<1> QED  BY <1>1, <1>2, <1>3, PTL DEF PanelSpec

\* Whatever fails while a backup is put together, sent or restored, and however
\* many runs and restores cross: a file holds all that was saved before it was
\* asked for, the alert of a failed backup is open exactly when the last one
\* failed unless a mishap parted them, and nobody tries more wrong passphrases
\* than the limit.
THEOREM BackupsKeepTheirWord == PanelSpec => []BackupKeepsItsWord
<1>1. PanelInit => Of("backup", BackupInv)
  BY BackupStarts DEF PanelInit, Of
<1>2. ASSUME Of("backup", BackupInv), [PanelNext]_panelVars
      PROVE  Of("backup", BackupInv)'
  BY <1>2, FollowsPart, BackupStep DEF Of
<1>3. Of("backup", BackupInv) => BackupKeepsItsWord
  BY BackupHolds DEF BackupKeepsItsWord, Of
<1> QED  BY <1>1, <1>2, <1>3, PTL DEF PanelSpec

\* However many requests are judged side by side, whatever crosses a login and
\* wherever one of several writes fails: somebody may administer unless a change
\* was written on outdated guards or a role lost the permission, no token opens
\* an account whose password is not the one it was given for, and no second
\* factor in force is exchanged for another but on an outdated look.
THEOREM AccessKept == PanelSpec => AccessIsKept
<1>1. PanelInit => Of("accounts", AccountInv)
  BY AccountStarts DEF PanelInit, Of
<1>2. ASSUME Of("accounts", AccountInv), [PanelNext]_panelVars
      PROVE  Of("accounts", AccountInv)'
  BY <1>2, FollowsPart, AccountStep DEF Of
<1>3. ASSUME Of("accounts", AccountInv), [PanelNext]_panelVars
      PROVE  [/\ (Of("accounts", SomebodyManages /\ TokensAreOfThePassword))'
              /\ FactorIsNotReplaced]_accountVars
  <2>1. CASE focus # "accounts"
    BY <1>3, <2>1, FollowsPart
  <2>2. CASE focus = "accounts"
    <3>1. AccountInv' /\ FactorIsNotReplaced
      BY <1>3, <2>2, FollowsPart, AccountStep DEF Of
    <3>2. (AccountInv => SomebodyManages /\ TokensAreOfThePassword)'
      BY AccountHolds, PTL
    <3> QED  BY <3>1, <3>2 DEF Of
  <2> QED  BY <2>1, <2>2
<1> QED  BY <1>1, <1>2, <1>3, PTL DEF PanelSpec, AccessIsKept

\* However calls for hosts, destinations and forwards overlap, command by
\* command, whatever nft, a write or a window holds back, and wherever a restart
\* cuts them: between calls a blocked host is in the set, only blocked hosts
\* are, the forwards are those of the setting and the boot file has what the
\* kernel has, each unless one of the corners written down was entered, and
\* what the kernel contained by itself is never in the boot file.
THEOREM ElementsKeptInStep == PanelSpec => []ElementsFollowRows
<1>1. PanelInit => Of("elements", ElementInv)
  BY ElementStarts DEF PanelInit, Of
<1>2. ASSUME Of("elements", ElementInv), [PanelNext]_panelVars
      PROVE  Of("elements", ElementInv)'
  BY <1>2, FollowsPart, ElementStep DEF Of
<1>3. Of("elements", ElementInv) => ElementsFollowRows
  BY ElementHolds DEF ElementsFollowRows, Of
<1> QED  BY <1>1, <1>2, <1>3, PTL DEF PanelSpec

\* However many networks, users, calls and addresses there are, wherever a
\* restart, a failed apply or the deletion of a user falls between two steps of
\* a call: a peer has its user, its group, its secret and an address nobody else
\* has; and between calls a row that says applied is right about what runs, the
\* port and the groups, but for the cases written down.
THEOREM TunnelsAreWhole == PanelSpec => []TunnelIsWhole
<1>1. PanelInit => Of("vpn", TunnelInv)
  BY TunnelStarts DEF PanelInit, Of
<1>2. ASSUME Of("vpn", TunnelInv), [PanelNext]_panelVars
      PROVE  Of("vpn", TunnelInv)'
  BY <1>2, FollowsPart, TunnelStep DEF Of
<1>3. Of("vpn", TunnelInv) => TunnelIsWhole
  BY TunnelHolds DEF TunnelIsWhole, Of
<1> QED  BY <1>1, <1>2, <1>3, PTL DEF PanelSpec

\* However long the old chain is and whatever its rules, wherever a step of the
\* migration fails or dies, whatever the admin deletes or switches meanwhile and
\* whatever latches a backup brings: no rule is lost, doubled or brought back
\* unless the chain went before it was ever read, after a boot that went well
\* the rules in force are the old ones in their order, and no block is left out
\* that nobody switched off.
THEOREM UpgradesKeepRules == PanelSpec => []UpgradeKeepsRules
<1>1. PanelInit => Of("adoption", AdoptInv)
  BY AdoptStarts DEF PanelInit, Of
<1>2. ASSUME Of("adoption", AdoptInv), [PanelNext]_panelVars
      PROVE  Of("adoption", AdoptInv)'
  BY <1>2, FollowsPart, AdoptStep DEF Of
<1>3. Of("adoption", AdoptInv) => UpgradeKeepsRules
  BY AdoptHolds DEF UpgradeKeepsRules, Of
<1> QED  BY <1>1, <1>2, <1>3, PTL DEF PanelSpec

=============================================================================
