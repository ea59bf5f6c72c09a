------------------------------- MODULE Backup -------------------------------
(***************************************************************************)
(* Backups: runs started by the hourly task or by an administrator write a *)
(* dump of the database to the local directory, prune the directory, and   *)
(* push the file to a remote destination that they prune too.              *)
(*                                                                         *)
(* A run reads the database twice and its settings several times, while    *)
(* requests change the data, save the settings key by key, or restore a    *)
(* dump table by table; runs may overlap.  A file is named after the time, *)
(* so the order of names is that in which runs took them.                  *)
(***************************************************************************)
EXTENDS Naturals, FiniteSets, Sequences

CONSTANTS
  Task,             \* the hourly task
  Requests,         \* requests to run a backup, to save the settings or to restore a backup
  Recipients,       \* the keys a backup may be encrypted to
  Modes,            \* the encryption modes that requests choose among
  Switches,         \* the values of enabled and skip_unchanged that requests choose among
  Retentions,       \* the numbers of backups to keep that requests choose among
  RemoteRetention,  \* the number of backups that the destination keeps
  MaxNames,         \* bound: files
  MaxEdits,         \* bound: changes of the data and tests of the destination
  MaxFaults,        \* bound: crashes, cuts and failures
  Torn,             \* the content of a file that is being written or never was completed
  Null

Runs == Requests \cup {Task}

Names == 1..MaxNames

ASSUME ModesAssumption == Modes \subseteq {"none", "passphrase", "envelope"}

ASSUME BoundsAssumption ==
  /\ Switches \subseteq BOOLEAN
  /\ Retentions \subseteq Nat /\ RemoteRetention \in 1..100
  /\ MaxNames \in Nat /\ MaxEdits \in Nat /\ MaxFaults \in Nat

VARIABLES
  db,          \* the database, by table, the log tables apart; Null is a table that is missing
  files,       \* the local directory: the backups ...
  sigs,        \* ... and their signatures
  remote,      \* the backups at the destination
  probe,       \* the file that a test of the destination writes there
  clock,       \* the last name taken
  young,       \* the newest file was written within the last period
  run,         \* the runs: where they are and what they have read
  save,        \* the requests to save: the next keys to write
  restore,     \* the restores: the next table to replace
  edits,       \* changes and tests so far
  faults,      \* faults so far
  skewed,      \* history: files of runs between whose two dumps the database changed
  unset,       \* history: files of runs during which the settings named no key, for a time
  misread,     \* history: files of runs that read two different modes, or failed to read one
  overlapped,  \* history: two runs had files to write at the same time
  probed,      \* history: the destination was pruned while the probe was there
  last         \* history: the newest file completed, here and at the destination

directories == <<files, sigs, remote, probe>>
history == <<skewed, unset, misread, overlapped, probed, last>>
vars == <<db, directories, clock, young, run, save, restore, edits, faults, history>>

----------------------------------------------------------------------------
(* Tables, files and records *)

\* The values of the settings, and of a request to save them: whether there is a passphrase,
\* and whether a new one is sent.
Settings == [enabled: Switches, retention: Retentions, skip: Switches,
             mode: Modes \cup {"none"}, passphrase: BOOLEAN]

\* In the order in which a dump replaces them; rows stands for all others.
Tables == <<"backup_recipients", "settings", "rows">>

Database == [backup_recipients: (SUBSET Recipients) \cup {Null}, settings: Settings \cup {Null},
             rows: 0..MaxEdits \cup {Null}]

File == [dump: Database \cup {Torn}, locked: BOOLEAN]

ASSUME SentinelsAssumption ==
  Torn \notin Database /\ Null \notin Database \cup File \cup Settings

Stages == {"unused", "dump", "sign", "mode", "passphrase", "recipients", "create", "write",
           "rotate", "push", "done"}

Run == [pc: Stages, skip: BOOLEAN, retention: Nat, dump: Database \cup {Null},
        signature: Database \cup {Null}, name: Names \cup {0}, locked: BOOLEAN,
        exposed: BOOLEAN]              \* history: the settings named no key, for a time

Save == [pc: {"unused", "pace", "mode", "passphrase", "done"}, values: Settings \cup {Null}]

Restore == [pc: {"unused", "drop", "fill", "done"}, next: 1..Len(Tables),
            dump: Database \cup {Null}]

NoRun(pc) == [pc |-> pc, skip |-> FALSE, retention |-> 1, dump |-> Null, signature |-> Null,
              name |-> 0, locked |-> FALSE, exposed |-> FALSE]

NoSave(pc) == [pc |-> pc, values |-> Null]

NoRestore(pc) == [pc |-> pc, next |-> 1, dump |-> Null]

\* Mutant of Over: what ends a run ends the task.
OverForGood(r) == NoRun("done")

\* The task starts over, a request does not.
Over(r) == NoRun(IF r = Task THEN "unused" ELSE "done")

\* A request is one of three.
Unused(q) == run[q].pc = "unused" /\ save[q].pc = "unused" /\ restore[q].pc = "unused"

Saving(q) == save[q].pc \notin {"unused", "done"}

Running(r) == run[r].pc \notin {"unused", "done"}

\* read_setting: None when the row, or the table, is not there.
Setting(key, default) == IF db.settings = Null THEN default ELSE db.settings[key]

\* The settings ask for no encryption, or for one by a passphrase that is not there.
NamesNoKey(settings) ==
  \/ settings = Null
  \/ settings.mode = "none"
  \/ settings.mode = "passphrase" /\ ~ settings.passphrase

Stored(dir) == {n \in Names : dir[n] # Null}

Complete(dir) == {n \in Stored(dir) : dir[n].dump # Torn}

\* The names that follow the first k of the list, which has the newest first.
Beyond(names, k) == {n \in names : Cardinality({m \in names : m > n}) >= k}

\* list_backups: a file counts from the time it is created.
Newest(dir) == {n \in Stored(dir) : \A m \in Stored(dir) : m <= n}

Clamp(k, low, high) == IF k < low THEN low ELSE IF k > high THEN high ELSE k

Fault == faults < MaxFaults /\ faults' = faults + 1

\* The run has not created its file.
Choosing(r) == run[r].pc \in {"dump", "sign", "mode", "passphrase", "recipients", "create"}

\* The database becomes d; the runs that have not created their files see it.
SetDatabase(d) ==
  /\ db' = d
  /\ run' = [r \in Runs |-> [run[r] EXCEPT
       !.exposed = @ \/ (Choosing(r) /\ NamesNoKey(d.settings))]]

----------------------------------------------------------------------------
(* Starting a run, and its two dumps *)

Begin(r) ==
  /\ run[r].pc = "unused"
  /\ run' = [run EXCEPT ![r] = [NoRun("dump") EXCEPT
       !.skip = Setting("skip", TRUE), !.retention = Setting("retention", 5),
       !.exposed = NamesNoKey(db.settings)]]
  /\ UNCHANGED <<db, directories, clock, young, save, restore, edits, faults, history>>

\* backup_run.
BackupRun(q) == Unused(q) /\ Begin(q)

\* The newest backup, by name, is as old as the period; a torn file is a backup here.
Due == Newest(files) # {} => ~ young

\* The task, each hour; its settings are read one after the other.
Tick == Setting("enabled", FALSE) /\ Due /\ Begin(Task)

\* run_backup: the dump that is written ...
Dump(r) ==
  /\ run[r].pc = "dump"
  /\ run' = [run EXCEPT ![r].pc = "sign", ![r].dump = db]
  /\ UNCHANGED <<db, directories, clock, young, save, restore, edits, faults, history>>

\* The newest backup has the signature that was computed.
Unchanged(r) == run[r].skip /\ \E n \in Newest(files) : sigs[n] = db

\* ... and another, without the log tables, for the signature.  The run ends there if the
\* newest backup has the same one; otherwise it takes the name of its file.
Skip(r) ==
  /\ run[r].pc = "sign"
  /\ Unchanged(r)
  /\ run' = [run EXCEPT ![r] = Over(r)]
  /\ UNCHANGED <<db, directories, clock, young, save, restore, edits, faults, history>>

Sign(r) ==
  /\ run[r].pc = "sign"
  /\ ~ Unchanged(r)
  /\ clock < MaxNames
  /\ clock' = clock + 1
  /\ run' = [run EXCEPT ![r].pc = "mode", ![r].signature = db, ![r].name = clock']
  /\ skewed' = IF run[r].dump # db THEN skewed \cup {clock'} ELSE skewed
  /\ overlapped' = (overlapped \/ \E o \in Runs : run[o].name # 0)
  /\ UNCHANGED <<db, directories, young, save, restore, edits, faults, unset, misread,
                 probed, last>>

----------------------------------------------------------------------------
(* Encryption *)

Continue(r, pc, locked) ==
  /\ run' = [run EXCEPT ![r].pc = pc, ![r].locked = locked]
  /\ UNCHANGED <<db, directories, clock, young, save, restore, edits, faults, skewed, unset,
                 overlapped, probed, last>>

\* resolve_enc_mode.
ReadMode(r) ==
  /\ run[r].pc = "mode"
  /\ UNCHANGED misread
  /\ LET mode == Setting("mode", "none")
     IN Continue(r, CASE mode = "passphrase" -> "passphrase"
                      [] mode = "envelope" -> "recipients"
                      [] OTHER -> "create", FALSE)

\* Mutant of ReadPassphrase: what is there is not told from what is not.
ReadNothing(r) ==
  /\ run[r].pc = "passphrase"
  /\ Continue(r, "create", FALSE)
  /\ UNCHANGED misread

\* resolve_backup_passphrase reads the mode once more, and then the passphrase, which nothing
\* removes but a restore; any other mode, and no passphrase, mean that the dump is written as
\* it is.
ReadPassphrase(r) ==
  /\ run[r].pc = "passphrase"
  /\ LET same == Setting("mode", "none") = "passphrase"
     IN /\ Continue(r, "create", same /\ Setting("passphrase", FALSE))
        /\ misread' = IF same THEN misread ELSE misread \cup {run[r].name}

\* A setting that could not be read counts as one that is not there.
Misread(r) ==
  /\ run[r].pc \in {"mode", "passphrase"}
  /\ Fault
  /\ run' = [run EXCEPT ![r].pc = "create", ![r].locked = FALSE]
  /\ misread' = misread \cup {run[r].name}
  /\ UNCHANGED <<db, directories, clock, young, save, restore, edits, skewed, unset, overlapped,
                 probed, last>>

\* Without a recipient the run fails.
ReadRecipients(r) ==
  /\ run[r].pc = "recipients"
  /\ \/ /\ db.backup_recipients \notin {Null, {}}
        /\ Continue(r, "create", TRUE)
        /\ UNCHANGED misread
     \/ /\ db.backup_recipients \in {Null, {}}
        /\ run' = [run EXCEPT ![r] = Over(r)]
        /\ UNCHANGED <<db, directories, clock, young, save, restore, edits, faults, history>>

----------------------------------------------------------------------------
(* Files *)

Later(m, n) == IF m < n THEN n ELSE m

Proceed(r, pc) == run' = [run EXCEPT ![r].pc = pc]

Create(r) ==
  /\ run[r].pc = "create"
  /\ run' = [run EXCEPT ![r].pc = "write", ![r].exposed = FALSE]
  /\ files' = [files EXCEPT ![run[r].name] = [dump |-> Torn, locked |-> run[r].locked]]
  /\ young' = (young \/ Newest(files') = {run[r].name})
  /\ unset' = IF run[r].exposed THEN unset \cup {run[r].name} ELSE unset
  /\ UNCHANGED <<db, sigs, remote, probe, clock, save, restore, edits, faults, skewed,
                 misread, overlapped, probed, last>>

Write(r) ==
  /\ run[r].pc = "write"
  /\ Proceed(r, "rotate")
  /\ files' = IF run[r].name \in Stored(files)
              THEN [files EXCEPT ![run[r].name].dump = run[r].dump] ELSE files
  /\ last' = [last EXCEPT !.local = Later(@, run[r].name)]
  /\ young' = (young \/ Newest(files) = {run[r].name})
  /\ UNCHANGED <<db, sigs, remote, probe, clock, save, restore, edits, faults, skewed, unset,
                 misread, overlapped, probed>>

\* Mutant of Old: the list is in the order of time.
OldestFirst(dir, keep) == {n \in Stored(dir) : Cardinality({m \in Stored(dir) : m < n}) >= keep}

\* The backups to remove.
Old(dir, keep) == Beyond(Stored(dir), keep)

\* Mutant of Rotate: the sidecar of a file that has not been written yet.
SignFirst(r) ==
  \/ /\ run[r].pc = "write"
     /\ sigs[run[r].name] = Null
     /\ sigs' = [sigs EXCEPT ![run[r].name] = run[r].signature]
     /\ UNCHANGED <<db, files, remote, probe, clock, young, run, save, restore, edits, faults,
                    history>>
  \/ /\ run[r].pc = "rotate"
     /\ Proceed(r, "push")
     /\ LET old == Old(files, Clamp(run[r].retention, 1, 10))
        IN /\ files' = [n \in Names |-> IF n \in old THEN Null ELSE files[n]]
           /\ sigs' = [n \in Names |-> IF n \in old THEN Null ELSE sigs[n]]
     /\ UNCHANGED <<db, remote, probe, clock, young, save, restore, edits, faults, history>>

\* The sidecar is written, an error being ignored, and all backups but the newest are removed
\* with theirs; nothing is awaited between the two.
Rotate(r) ==
  /\ run[r].pc = "rotate"
  /\ Proceed(r, "push")
  /\ LET old == Old(files, Clamp(run[r].retention, 1, 10))
     IN /\ files' = [n \in Names |-> IF n \in old THEN Null ELSE files[n]]
        /\ \E signature \in {run[r].signature, Null} :
             /\ signature = Null => faults < MaxFaults
             /\ faults' = IF signature = Null THEN faults + 1 ELSE faults
             /\ sigs' = [n \in Names |-> IF n \in old THEN Null
                                        ELSE IF n = run[r].name THEN signature ELSE sigs[n]]
  /\ UNCHANGED <<db, remote, probe, clock, young, save, restore, edits, history>>

\* push_to_remote, to the destination that is configured: the file is uploaded and all but the
\* newest are removed.  The probe has a name of the same kind, and the greatest.
Push(r) ==
  /\ run[r].pc = "push"
  /\ run' = [run EXCEPT ![r] = Over(r)]
  /\ LET pushed == [remote EXCEPT ![run[r].name] =
                      [dump |-> run[r].dump, locked |-> run[r].locked]]
         old == Old(pushed, IF probe THEN RemoteRetention - 1 ELSE RemoteRetention)
     IN remote' = [n \in Names |-> IF n \in old THEN Null ELSE pushed[n]]
  /\ probed' = (probed \/ probe)
  /\ last' = [last EXCEPT !.remote = Later(@, run[r].name)]
  /\ UNCHANGED <<db, files, sigs, probe, clock, young, save, restore, edits, faults, skewed,
                 unset, misread, overlapped>>

\* The upload stops halfway, which is reported and does not fail the run.
CutPush(r) ==
  /\ run[r].pc = "push"
  /\ Fault
  /\ run' = [run EXCEPT ![r] = Over(r)]
  /\ remote' = [remote EXCEPT ![run[r].name] = [dump |-> Torn, locked |-> run[r].locked]]
  /\ UNCHANGED <<db, files, sigs, probe, clock, young, save, restore, edits, history>>

\* test_remote writes the probe, and removes it in a later step that may fail.
TestRemote ==
  /\ \/ ~ probe /\ edits < MaxEdits /\ edits' = edits + 1
     \/ probe /\ UNCHANGED edits
  /\ probe' = ~ probe
  /\ UNCHANGED <<db, files, sigs, remote, clock, young, run, save, restore, faults, history>>

----------------------------------------------------------------------------
(* Requests: data, settings, restores *)

\* Any change of what the runs do not look into.
Edit ==
  /\ edits < MaxEdits
  /\ edits' = edits + 1
  /\ db.rows # Null
  /\ SetDatabase([db EXCEPT !.rows = edits'])
  /\ UNCHANGED <<directories, clock, young, save, restore, faults, history>>

SetRecipients(recipients) ==
  /\ edits < MaxEdits
  /\ edits' = edits + 1
  /\ SetDatabase([db EXCEPT !.backup_recipients = recipients])
  /\ UNCHANGED <<directories, clock, young, save, restore, faults, history>>

AddBackupRecipient(a) ==
  db.backup_recipients # Null /\ SetRecipients(db.backup_recipients \cup {a})

DeleteBackupRecipient(a) ==
  /\ db.backup_recipients # Null
  /\ a \in db.backup_recipients
  /\ SetRecipients(db.backup_recipients \ {a})

\* The guard of save_backup_settings: there is a passphrase to encrypt with.
PassphraseGiven(values) ==
  values.mode = "passphrase" => values.passphrase \/ Setting("passphrase", FALSE)

\* save_backup_settings: the guard ...
SaveBegin(q) ==
  /\ Unused(q)
  /\ \E values \in Settings :
       /\ PassphraseGiven(values)
       /\ save' = [save EXCEPT ![q] = [pc |-> "pace", values |-> values]]
  /\ UNCHANGED <<db, directories, clock, young, run, restore, edits, faults, history>>

\* A statement writes the settings, and the next one follows; it fails without the table.
SaveSettings(q, settings, pc) ==
  /\ SetDatabase([db EXCEPT !.settings = IF db.settings = Null THEN Null ELSE settings])
  /\ save' = [save EXCEPT ![q] =
       IF db.settings = Null \/ pc = "done" THEN NoSave("done") ELSE [@ EXCEPT !.pc = pc]]
  /\ UNCHANGED <<directories, clock, young, restore, edits, faults, history>>

\* ... and the settings key by key: those that pace the runs, in a step as runs read them, ...
SavePace(q) ==
  /\ save[q].pc = "pace"
  /\ LET values == save[q].values
     IN SaveSettings(q, [db.settings EXCEPT !.enabled = values.enabled,
                           !.retention = values.retention, !.skip = values.skip], "mode")

\* ... the mode ...
SaveMode(q) ==
  /\ save[q].pc = "mode"
  /\ SaveSettings(q, [db.settings EXCEPT !.mode = save[q].values.mode], "passphrase")

\* ... and last the passphrase, if a new one was sent.
SavePassphrase(q) ==
  /\ save[q].pc = "passphrase"
  /\ SaveSettings(q, [db.settings EXCEPT !.passphrase = @ \/ save[q].values.passphrase], "done")

\* What decrypt_backup makes of a file: its dump or, with another key than its own, nothing.
Opened(file) == IF file.locked THEN {file.dump, Null} ELSE {file.dump}

\* restore_backup: a backup that an administrator has is opened, if it is locked, ...
RestoreBegin(q) ==
  /\ Unused(q)
  /\ \E dir \in {files, remote} : \E n \in Complete(dir) : \E dump \in Opened(dir[n]) :
       restore' = [restore EXCEPT ![q] =
         IF dump = Null THEN NoRestore("done") ELSE [pc |-> "drop", next |-> 1, dump |-> dump]]
  /\ UNCHANGED <<db, directories, clock, young, run, save, edits, faults, history>>

\* ... and import_dump drops each table that is in it ...
RestoreDrop(q) ==
  /\ restore[q].pc = "drop"
  /\ LET table == Tables[restore[q].next]
     IN SetDatabase([db EXCEPT ![table] = IF restore[q].dump[table] = Null THEN @ ELSE Null])
  /\ restore' = [restore EXCEPT ![q].pc = "fill"]
  /\ UNCHANGED <<directories, clock, young, save, edits, faults, history>>

\* Mutant of RestoreFill: one table too many.
RestoreFillPast(q) ==
  /\ restore[q].pc = "fill"
  /\ LET table == Tables[restore[q].next]
         dump == restore[q].dump[table]
     IN SetDatabase([db EXCEPT ![table] = IF dump = Null THEN @ ELSE dump])
  /\ restore' = [restore EXCEPT ![q] = [@ EXCEPT !.pc = "drop", !.next = @ + 1]]
  /\ UNCHANGED <<directories, clock, young, save, edits, faults, history>>

\* ... and creates it again.
RestoreFill(q) ==
  /\ restore[q].pc = "fill"
  /\ LET table == Tables[restore[q].next]
         dump == restore[q].dump[table]
     IN SetDatabase([db EXCEPT ![table] = IF dump = Null THEN @ ELSE dump])
  /\ restore' = [restore EXCEPT ![q] =
       IF restore[q].next = Len(Tables) THEN NoRestore("done")
       ELSE [restore[q] EXCEPT !.pc = "drop", !.next = @ + 1]]
  /\ UNCHANGED <<directories, clock, young, save, edits, faults, history>>

----------------------------------------------------------------------------
(* Time and faults *)

Age ==
  /\ young
  /\ young' = FALSE
  /\ UNCHANGED <<db, directories, clock, run, save, restore, edits, faults, history>>

\* A dump or a write fails, or the client of a manual run leaves.
CutRun(r) ==
  /\ Running(r)
  /\ Fault
  /\ run' = [run EXCEPT ![r] = Over(r)]
  /\ UNCHANGED <<db, directories, clock, young, save, restore, edits, history>>

\* A statement fails, or the client leaves.
CutSave(q) ==
  /\ Saving(q)
  /\ Fault
  /\ save' = [save EXCEPT ![q] = NoSave("done")]
  /\ UNCHANGED <<db, directories, clock, young, run, restore, edits, history>>

\* The mariadb client stops at the first error.
CutRestore(q) ==
  /\ restore[q].pc \in {"drop", "fill"}
  /\ Fault
  /\ restore' = [restore EXCEPT ![q] = NoRestore("done")]
  /\ UNCHANGED <<db, directories, clock, young, run, save, edits, history>>

\* The process stops and is started again.
Crash ==
  /\ Fault
  /\ run' = [r \in Runs |-> IF Running(r) THEN Over(r) ELSE run[r]]
  /\ save' = [q \in Requests |-> IF Saving(q) THEN NoSave("done") ELSE save[q]]
  /\ restore' = [q \in Requests |->
       IF restore[q].pc = "unused" THEN restore[q] ELSE NoRestore("done")]
  /\ UNCHANGED <<db, directories, clock, young, edits, history>>

----------------------------------------------------------------------------
(* The specification *)

\* Settings that were saved once, and no backup yet.
Init ==
  /\ \E settings \in Settings :
       /\ settings.passphrase = (settings.mode = "passphrase")
       /\ db = [backup_recipients |-> Recipients, settings |-> settings, rows |-> 0]
  /\ files = [n \in Names |-> Null] /\ sigs = [n \in Names |-> Null]
  /\ remote = [n \in Names |-> Null] /\ probe = FALSE
  /\ clock = 0 /\ young = FALSE
  /\ run = [r \in Runs |-> NoRun("unused")]
  /\ save = [q \in Requests |-> NoSave("unused")]
  /\ restore = [q \in Requests |-> NoRestore("unused")]
  /\ edits = 0 /\ faults = 0
  /\ skewed = {} /\ unset = {} /\ misread = {}
  /\ overlapped = FALSE /\ probed = FALSE
  /\ last = [local |-> 0, remote |-> 0]

RunStep(r) ==
  \/ Dump(r) \/ Skip(r) \/ Sign(r)
  \/ ReadMode(r) \/ ReadPassphrase(r) \/ ReadRecipients(r)
  \/ Create(r) \/ Write(r) \/ Rotate(r) \/ Push(r)

SaveStep(q) == SavePace(q) \/ SaveMode(q) \/ SavePassphrase(q)

RestoreStep(q) == RestoreDrop(q) \/ RestoreFill(q)

Next ==
  \/ Tick
  \/ \E r \in Runs : RunStep(r) \/ Misread(r) \/ CutPush(r) \/ CutRun(r)
  \/ \E q \in Requests :
       \/ BackupRun(q)
       \/ SaveBegin(q) \/ SaveStep(q) \/ CutSave(q)
       \/ RestoreBegin(q) \/ RestoreStep(q) \/ CutRestore(q)
  \/ \E a \in Recipients : AddBackupRecipient(a) \/ DeleteBackupRecipient(a)
  \/ Edit \/ TestRemote \/ Age \/ Crash

Spec == Init /\ [][Next]_vars

\* The task and the requests are futures that are polled until they end; hours pass.
FairSpec ==
  /\ Spec
  /\ WF_vars(Tick) /\ WF_vars(Age)
  /\ \A r \in Runs : WF_vars(RunStep(r))
  /\ \A q \in Requests : WF_vars(SaveStep(q)) /\ WF_vars(RestoreStep(q))

----------------------------------------------------------------------------
(* Properties *)

TypeOK ==
  /\ db \in Database
  /\ files \in [Names -> File \cup {Null}]
  /\ sigs \in [Names -> Database \cup {Null}]
  /\ remote \in [Names -> File \cup {Null}]
  /\ probe \in BOOLEAN /\ overlapped \in BOOLEAN /\ probed \in BOOLEAN
  /\ clock \in 0..MaxNames /\ young \in BOOLEAN
  /\ run \in [Runs -> Run]
  /\ save \in [Requests -> Save]
  /\ restore \in [Requests -> Restore]
  /\ edits \in 0..MaxEdits /\ faults \in 0..MaxFaults
  /\ skewed \cup unset \cup misread \subseteq Names
  /\ last \in [local: 0..MaxNames, remote: 0..MaxNames]

\* A run that skips its backup leaves one with the present data: the newest file is complete
\* and holds the database as it is, whatever crashed, failed or ran beside it since, unless the
\* data had changed between the two dumps of the run that wrote it (run_backup: the signature
\* is that of the second dump, the file holds the first).
SkipCovered ==
  [][\A r \in Runs :
       Skip(r) => \E n \in Newest(files) : n \in skewed \/ files[n].dump = db]_vars

\* Neither directory ever loses its newest complete backup, however few it keeps and however
\* many files were torn since: a run removes files only after it has written its own.  The
\* exceptions are runs that overlap (a file being written is already in the list) and, at the
\* destination, a probe that is there when a run prunes (it counts as the newest backup).
NewestKept ==
  ~ overlapped =>
    /\ last.local # 0 => last.local \in Complete(files)
    /\ last.remote # 0 /\ ~ probed => last.remote \in Complete(remote)

\* A backup is written in clear only if, at some time during its run, the settings asked for
\* none or named no key, or the mode was changed between the two times the run read it, or it
\* could not be read at all, which is not told from its absence (resolve_enc_mode).
EncryptedAsSet ==
  \A dir \in {files, remote} :
    \A n \in Stored(dir) : ~ dir[n].locked => n \in unset \cup misread

\* While the backups are enabled, and encrypted to somebody if to recipients, the newest one
\* comes to hold the present data, unless it is one whose signature is that of other data: the
\* task outlives every failure of a run, and a torn backup only makes it wait.
CanRun ==
  /\ Setting("enabled", FALSE)
  /\ Setting("mode", "none") = "envelope" => db.backup_recipients \notin {Null, {}}

Covered == \E n \in Newest(files) : files[n].dump = db \/ n \in skewed

CaughtUp == <>[]CanRun => <>[](Covered \/ clock = MaxNames)

\* backup.rs, run_backup: "Encrypt at rest per the configured mode (passphrase or envelope),
\* else plain SQL."
PlainOnlyIfUnset ==
  \A n \in Stored(files) : ~ files[n].locked => n \in unset

----------------------------------------------------------------------------
(* The inductive invariant *)

\* Runs that have taken a name and written no file yet, and all that have taken one.
Writing == {"mode", "passphrase", "recipients", "create", "write"}

Holding == Writing \cup {"rotate", "push"}

\* What a run has read; a name belongs to one run.
RunsInv ==
  \A r \in Runs :
    /\ run[r].pc \notin Holding => run[r].name = 0
    /\ run[r].pc = "sign" => run[r].dump # Null
    /\ run[r].pc \in Holding =>
         /\ run[r].name \in 1..clock
         /\ run[r].dump # Null /\ run[r].signature # Null
         /\ run[r].dump # run[r].signature => run[r].name \in skewed
    /\ \A o \in Runs : run[r].name # 0 /\ run[r].name = run[o].name => r = o

\* A run that will write in clear has a reason.
ModeInv ==
  \A r \in Runs :
    /\ Choosing(r) /\ NamesNoKey(db.settings) => run[r].exposed
    /\ run[r].pc = "create" /\ ~ run[r].locked => run[r].exposed \/ run[r].name \in misread
    /\ run[r].pc \in {"write", "rotate", "push"} /\ ~ run[r].locked =>
         run[r].name \in unset \cup misread

\* A signature is of the data in its file.
SigsInv ==
  /\ \A n \in Names : (files[n] # Null \/ sigs[n] # Null \/ remote[n] # Null) => n <= clock
  /\ \A n \in Stored(files) : sigs[n] # Null => n \in skewed \/ files[n].dump = sigs[n]
  /\ \A r \in Runs :
       /\ run[r].pc \in Writing => sigs[run[r].name] = Null
       /\ run[r].pc = "rotate" /\ files[run[r].name] # Null =>
            files[run[r].name].dump = run[r].dump

\* A run that nobody overlaps has the last name, and its file is there.
AloneInv ==
  /\ last.local <= clock /\ last.remote <= clock
  /\ ~ overlapped =>
       \A r \in Runs : run[r].name # 0 =>
         /\ run[r].name = clock /\ last.remote < clock
         /\ run[r].pc \in Writing => last.local < clock
         /\ run[r].pc = "write" => files[clock] # Null
         /\ run[r].pc = "rotate" => last.local = clock

\* A request has something to save or to restore.
RequestsInv ==
  \A q \in Requests :
    /\ Saving(q) => save[q].values # Null
    /\ restore[q].pc \in {"drop", "fill"} => restore[q].dump # Null

IInv ==
  /\ TypeOK /\ RequestsInv
  /\ RunsInv /\ ModeInv /\ SigsInv /\ AloneInv
  /\ NewestKept /\ EncryptedAsSet

=============================================================================
