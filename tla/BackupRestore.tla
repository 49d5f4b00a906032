---------------------------- MODULE BackupRestore ----------------------------
(* The backup of the panel's configuration (backup, backupcrypt): the ticker *)
(* and the button send it by e-mail, a download takes it away, and a restore *)
(* brings one back, of this machine or of another, under a limit of wrong    *)
(* passphrases for each user. What the panel saves is a set of entries.      *)
EXTENDS Naturals, FiniteSets

CONSTANTS
    RestoreUsers,       \* users who may restore
    RestoreCalls,       \* restores that may be under way
    MaxRestoreAttempts, \* wrong passphrases before the lock
    MaxBackupEdits,     \* bound on what the admins ask for
    MaxBackupFaults     \* bound on failures and restarts

ASSUME BackupAssumption ==
    /\ MaxRestoreAttempts \in Nat \ {0}
    /\ MaxBackupEdits \in Nat /\ MaxBackupFaults \in Nat

VARIABLES
    conf,           \* settings: the schedule, the result of the last run, the rest
    savedLists,     \* the reservations and the blocklist
    passphrase,     \* the secret backups are sealed with
    lgbak,          \* the last file that left the machine, and one of another
    sending,        \* who is making a backup: mu is held from "read" on
    backupAlert,    \* whether the alert of a failed backup is open
    restoreTries,       \* RestoreLimiter: what it counts for each user
    restoring,      \* the restores: the user's mutex is held from "trying" on
    wrongTries,     \* history: wrong passphrases tried since the count was cleared
    alertMishap,    \* history: how the alert and the last run have parted
    backupEdits, backupFaults

backupVars == <<conf, savedLists, passphrase, lgbak, sending, backupAlert, restoreTries, restoring, wrongTries,
                alertMishap, backupEdits, backupFaults>>

Senders == {"ticker", "button", "download"}
NeverRan == [ran |-> FALSE, ok |-> FALSE, due |-> TRUE]
Ran(ok) == [ran |-> TRUE, ok |-> ok, due |-> FALSE]
Entries == {"first", "later", "away"}
NotSending == [at |-> "idle", prev |-> NeverRan, key |-> "none", got |-> {}, ok |-> FALSE, before |-> {}]
BackupFile(key, settings, lists, before) ==
    [key |-> key, settings |-> settings, lists |-> lists, before |-> before]
NoTries == [count |-> 0, locked |-> FALSE]
NotRestoring == [at |-> "idle", user |-> "nobody", file |-> {}, right |-> FALSE]
BackupEdit == backupEdits < MaxBackupEdits /\ backupEdits' = backupEdits + 1
BackupFault == backupFaults < MaxBackupFaults /\ backupFaults' = backupFaults + 1
NoBackupFault == UNCHANGED backupFaults

BackupInit ==
    /\ conf = [schedule |-> FALSE, lastRun |-> NeverRan, rest |-> {"first"}]
    /\ savedLists = {"first"}
    /\ passphrase \in {"none", "ours"}
    /\ \E ok \in BOOLEAN :
         lgbak = {BackupFile("theirs", [schedule |-> TRUE, lastRun |-> Ran(ok), rest |-> {"away"}], {"away"}, {})}
    /\ sending = [s \in Senders |-> NotSending]
    /\ backupAlert = FALSE
    /\ restoreTries = [u \in RestoreUsers |-> NoTries]
    /\ restoring = [c \in RestoreCalls |-> NotRestoring]
    /\ wrongTries = [u \in RestoreUsers |-> 0]
    /\ alertMishap = {}
    /\ backupEdits = 0 /\ backupFaults = 0

LimiterStays == UNCHANGED <<restoreTries, restoring, wrongTries>>
ConfStays == UNCHANGED <<conf, savedLists, passphrase>>
AlertStays == UNCHANGED <<backupAlert, alertMishap>>
\* A download ends here, with its answer; a run goes on with its result.
EndsSnapshot(s, ok) ==
    sending' = [sending EXCEPT ![s] =
                  IF s = "download" THEN NotSending ELSE [NotSending EXCEPT !.at = "left", !.prev = sending[s].prev, !.ok = ok]]

\* No RunOnce is under way.
NoRun == \A s \in Senders \ {"download"} : sending[s].at \in {"idle", "wait"}

\* Every entry saved by now: what a backup that begins has to hold.
SavedByNow == conf.rest \cup savedLists

-----------------------------------------------------------------------------
\* maybeRun looks at the schedule and the last run before it waits for mu; the
\* button and the download do not look.
StartsBackup(s) ==
    /\ sending[s].at = "idle"
    /\ IF s = "ticker" THEN conf.schedule /\ conf.lastRun.due /\ UNCHANGED backupEdits ELSE BackupEdit
    /\ sending' = [sending EXCEPT ![s].at = IF s = "download" THEN "read" ELSE "wait", ![s].before = SavedByNow]
    /\ NoBackupFault /\ ConfStays /\ LimiterStays /\ AlertStays /\ UNCHANGED lgbak

\* RunOnce holds mu to its end; a download does not take it.
MuIsFree == NoRun

ReadsLastRun(s) ==
    /\ sending[s].at = "wait" /\ MuIsFree
    /\ sending' = [sending EXCEPT ![s].at = "read", ![s].prev = conf.lastRun]
    /\ NoBackupFault /\ ConfStays /\ LimiterStays /\ AlertStays /\ UNCHANGED <<lgbak, backupEdits>>

\* EncryptSnapshot reads the passphrase and the settings, and then the lists.
ReadsSettings(s) ==
    /\ sending[s].at = "read"
    /\ \/ /\ passphrase # "none" /\ NoBackupFault
          /\ sending' = [sending EXCEPT ![s].at = "seal", ![s].key = passphrase, ![s].got = {conf}]
       \/ passphrase = "none" /\ NoBackupFault /\ EndsSnapshot(s, FALSE)
       \/ BackupFault /\ EndsSnapshot(s, FALSE)
    /\ ConfStays /\ LimiterStays /\ AlertStays /\ UNCHANGED <<lgbak, backupEdits>>

\* The file leaves, by e-mail or in the answer; the e-mail may be refused.
Leaves(s) ==
    /\ sending[s].at = "seal"
    /\ \/ /\ EndsSnapshot(s, TRUE)
          /\ \E settings \in sending[s].got :
               lgbak' = {f \in lgbak : f.key = "theirs"}
                          \cup {BackupFile(sending[s].key, settings, savedLists, sending[s].before)}
          /\ NoBackupFault
       \/ BackupFault /\ EndsSnapshot(s, FALSE) /\ UNCHANGED lgbak
    /\ ConfStays /\ LimiterStays /\ AlertStays /\ UNCHANGED backupEdits

\* An error of the database while the result is recorded is ignored.
RecordsRun(s) ==
    /\ sending[s].at = "left"
    /\ sending' = [sending EXCEPT ![s].at = "recorded"]
    /\ \/ /\ conf' = [conf EXCEPT !.lastRun = Ran(sending[s].ok)]
          /\ NoBackupFault /\ UNCHANGED alertMishap
       \/ BackupFault /\ alertMishap' = alertMishap \cup {"unsaved"} /\ UNCHANGED conf
    /\ LimiterStays /\ UNCHANGED <<savedLists, passphrase, lgbak, backupAlert, backupEdits>>

LastRunFailed == conf.lastRun.ran /\ ~conf.lastRun.ok

\* The alert is raised and closed only where the result changes; an error of
\* the database is ignored as well.
TellsRun(s) ==
    LET prev == sending[s].prev
        ok == sending[s].ok
    IN
    /\ sending[s].at = "recorded"
    /\ sending' = [sending EXCEPT ![s] = NotSending]
    /\ \/ /\ backupAlert' = IF ~prev.ran \/ prev.ok # ok THEN ~ok ELSE backupAlert
          /\ alertMishap' = IF backupAlert' = LastRunFailed THEN {} ELSE alertMishap
          /\ NoBackupFault
       \/ /\ ~prev.ran \/ prev.ok # ok
          /\ BackupFault /\ alertMishap' = alertMishap \cup {"untold"} /\ UNCHANGED backupAlert
    /\ ConfStays /\ LimiterStays /\ UNCHANGED <<lgbak, backupEdits>>

-----------------------------------------------------------------------------
\* A user who is locked out is refused before the body is read.
AsksRestore(c) ==
    /\ restoring[c].at = "idle" /\ BackupEdit
    /\ \E u \in RestoreUsers, f \in lgbak, right \in BOOLEAN :
         /\ ~restoreTries[u].locked
         /\ restoring' = [restoring EXCEPT ![c] = [at |-> "asked", user |-> u, file |-> {f}, right |-> right]]
    /\ NoBackupFault /\ ConfStays /\ AlertStays /\ UNCHANGED <<lgbak, sending, restoreTries, wrongTries>>

\* Mutant: the lock is checked outside of the user's mutex.
NobodyWaits(c) == TRUE

\* lockFor: the user's mutex, held until the restore ends.
HasTurn(c) ==
    \A d \in RestoreCalls \ {c} :
      restoring[d].user = restoring[c].user => restoring[d].at \notin {"trying", "applying"}

TakesRestoreTurn(c) ==
    /\ restoring[c].at = "asked" /\ HasTurn(c)
    /\ restoring' = [restoring EXCEPT ![c] = IF restoreTries[restoring[c].user].locked THEN NotRestoring
                                             ELSE [restoring[c] EXCEPT !.at = "trying"]]
    /\ NoBackupFault /\ ConfStays /\ AlertStays
    /\ UNCHANGED <<lgbak, sending, restoreTries, wrongTries, backupEdits>>

\* recordFailure: one more wrong passphrase; the last one locks and clears.
Counted(a) ==
    IF a.count + 1 >= MaxRestoreAttempts THEN [count |-> 0, locked |-> TRUE]
    ELSE [a EXCEPT !.count = a.count + 1]

\* Only the passphrase the file was sealed with opens it.
Opens(c) == restoring[c].right

Decrypts(c) ==
    LET u == restoring[c].user IN
    /\ restoring[c].at = "trying"
    /\ \/ /\ Opens(c)
          /\ restoreTries' = [restoreTries EXCEPT ![u] = [count |-> 0, locked |-> FALSE]]
          /\ wrongTries' = [wrongTries EXCEPT ![u] = 0]
          /\ restoring' = [restoring EXCEPT ![c].at = "applying"]
       \/ /\ ~Opens(c)
          /\ restoreTries' = [restoreTries EXCEPT ![u] = Counted(@)]
          /\ wrongTries' = [wrongTries EXCEPT ![u] = @ + 1]
          /\ restoring' = [restoring EXCEPT ![c] = NotRestoring]
    /\ NoBackupFault /\ ConfStays /\ AlertStays /\ UNCHANGED <<lgbak, sending, backupEdits>>

\* Apply refuses a file with an entry its validators refuse, whole.
RefusesRestore(c) ==
    /\ restoring[c].at = "applying"
    /\ restoring' = [restoring EXCEPT ![c] = NotRestoring]
    /\ NoBackupFault /\ ConfStays /\ AlertStays /\ UNCHANGED <<lgbak, sending, restoreTries, wrongTries, backupEdits>>

\* Apply: the whole file in one transaction; entries that are not in the file
\* stay.
AppliesRestore(c) ==
    /\ restoring[c].at = "applying"
    /\ restoring' = [restoring EXCEPT ![c] = NotRestoring]
    /\ \E f \in restoring[c].file :
         LET last == f.settings.lastRun IN
         /\ conf' = [f.settings EXCEPT !.rest = conf.rest \cup f.settings.rest]
         /\ savedLists' = savedLists \cup f.lists
         /\ alertMishap' = IF NoRun /\ backupAlert = (last.ran /\ ~last.ok) THEN alertMishap
                           ELSE alertMishap \cup {"imported"}
    /\ NoBackupFault /\ UNCHANGED <<passphrase, lgbak, sending, backupAlert, restoreTries, wrongTries, backupEdits>>

\* The lock expires, and with it what was counted.
LockPasses(u) ==
    /\ restoreTries[u].locked
    /\ restoreTries' = [restoreTries EXCEPT ![u].locked = FALSE]
    /\ wrongTries' = [wrongTries EXCEPT ![u] = 0]
    /\ NoBackupFault /\ ConfStays /\ AlertStays /\ UNCHANGED <<lgbak, sending, restoring, backupEdits>>

-----------------------------------------------------------------------------
\* PassphraseSet (another one in its place changes nothing here), ScheduleSet
\* (which wants a passphrase) and the other forms.
AdminSaves ==
    /\ BackupEdit
    /\ \/ passphrase = "none" /\ passphrase' = "ours" /\ UNCHANGED <<conf, savedLists>>
       \/ /\ conf.schedule \/ passphrase # "none"
          /\ conf' = [conf EXCEPT !.schedule = ~@] /\ UNCHANGED <<savedLists, passphrase>>
       \/ "later" \notin conf.rest /\ conf' = [conf EXCEPT !.rest = @ \cup {"later"}] /\ UNCHANGED <<savedLists, passphrase>>
       \/ "later" \notin savedLists /\ savedLists' = savedLists \cup {"later"} /\ UNCHANGED <<conf, passphrase>>
    /\ NoBackupFault /\ LimiterStays /\ AlertStays /\ UNCHANGED <<lgbak, sending>>

\* The interval of the schedule passes.
IntervalPasses ==
    /\ conf.schedule /\ ~conf.lastRun.due
    /\ conf' = [conf EXCEPT !.lastRun.due = TRUE]
    /\ NoBackupFault /\ LimiterStays /\ AlertStays /\ UNCHANGED <<savedLists, passphrase, lgbak, sending, backupEdits>>

\* A restart forgets the limiter and the runs, and closes the alert.
BackupRestart ==
    /\ BackupFault
    /\ sending' = [s \in Senders |-> NotSending]
    /\ restoring' = [c \in RestoreCalls |-> NotRestoring]
    /\ restoreTries' = [u \in RestoreUsers |-> NoTries]
    /\ wrongTries' = [u \in RestoreUsers |-> 0]
    /\ backupAlert' = FALSE
    /\ alertMishap' = IF LastRunFailed THEN {"restarted"} ELSE {}
    /\ ConfStays /\ UNCHANGED <<lgbak, backupEdits>>

BackupNext ==
    \/ \E s \in Senders : \/ StartsBackup(s) \/ ReadsLastRun(s) \/ ReadsSettings(s) \/ Leaves(s)
                          \/ RecordsRun(s) \/ TellsRun(s)
    \/ \E c \in RestoreCalls : AsksRestore(c) \/ TakesRestoreTurn(c) \/ Decrypts(c) \/ RefusesRestore(c)
                                  \/ AppliesRestore(c)
    \/ \E u \in RestoreUsers : LockPasses(u)
    \/ AdminSaves \/ IntervalPasses \/ BackupRestart

BackupSpec == BackupInit /\ [][BackupNext]_backupVars

-----------------------------------------------------------------------------
\* Type invariant of backup and restore.
BackupTypeOK ==
    /\ conf.schedule \in BOOLEAN /\ conf.rest \subseteq Entries /\ savedLists \subseteq Entries
    /\ passphrase \in {"none", "ours"} /\ backupAlert \in BOOLEAN
    /\ \A s \in Senders : sending[s].at \in {"idle", "wait", "read", "seal", "left", "recorded"}
    /\ \A c \in RestoreCalls : restoring[c].at \in {"idle", "asked", "trying", "applying"}
    /\ \A u \in RestoreUsers : restoreTries[u].count \in 0..MaxRestoreAttempts

\* A user tries no more wrong passphrases than the limit, however many restores
\* run side by side, until one is right, the lock expires or the process restarts.
TriesAreBounded == \A u \in RestoreUsers : wrongTries[u] <= MaxRestoreAttempts

\* Between runs the alert of a failed backup is open exactly when the last run
\* failed, unless the record or the alert could not be written, or one of them
\* was replaced from outside: by a restore or by a restart.
BackupFailureIsShown ==
    (alertMishap = {} /\ NoRun) => backupAlert = LastRunFailed

\* A file that left holds everything saved before it was asked for.
BackupHoldsWhatWasSaved ==
    \A f \in lgbak : f.before \subseteq f.settings.rest \cup f.lists
=============================================================================
