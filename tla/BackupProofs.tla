---------------------------- MODULE BackupProofs ----------------------------
(***************************************************************************)
(* No directory loses its newest backup, nothing is written in clear that  *)
(* the settings ask to encrypt and no run is skipped that would have       *)
(* written something new, proved for any number of requests, recipients,   *)
(* files, changes and faults.                                              *)
(***************************************************************************)
EXTENDS Backup, FiniteSetTheorems, TLAPS

USE DEF Fault

----------------------------------------------------------------------------
(* What a step does to the record of its run *)

\* The record of r becomes the given one and the others stay.
Becomes(r, pc, name, dump, signature, locked, exposed) ==
  /\ run' \in [Runs -> Run]
  /\ run'[r].pc = pc /\ run'[r].name = name
  /\ run'[r].dump = dump /\ run'[r].signature = signature
  /\ run'[r].locked = locked /\ run'[r].exposed = exposed
  /\ \A o \in Runs : o # r => run'[o] = run[o]

LEMMA Moves ==
  ASSUME TypeOK, NEW r \in Runs, NEW new \in Run, run' = [run EXCEPT ![r] = new]
  PROVE  Becomes(r, new.pc, new.name, new.dump, new.signature, new.locked, new.exposed)
BY DEF TypeOK, Becomes

\* A stage of its own with nothing in hand: a run that is over, or was never there.
Blank(record) == record.pc \in {"unused", "done"} /\ record.name = 0

LEMMA OverType ==
  ASSUME NEW r \in Runs
  PROVE  Over(r) \in Run /\ Blank(Over(r))
BY DEF Over, NoRun, Run, Stages, Blank, Names

LEMMA EndMoves ==
  ASSUME TypeOK, NEW r \in Runs, run' = [run EXCEPT ![r] = Over(r)]
  PROVE  /\ run' \in [Runs -> Run]
         /\ \A o \in Runs : run'[o] = run[o] \/ Blank(run'[o])
BY OverType DEF TypeOK

LEMMA StageMoves ==
  ASSUME TypeOK, NEW r \in Runs, NEW pc \in Stages, run' = [run EXCEPT ![r].pc = pc]
  PROVE  Becomes(r, pc, run[r].name, run[r].dump, run[r].signature, run[r].locked,
                 run[r].exposed)
<1> DEFINE new == [run[r] EXCEPT !.pc = pc]
<1>1. run[r] \in Run
  BY DEF TypeOK
<1>2. /\ new \in Run /\ new.pc = pc /\ new.name = run[r].name /\ new.dump = run[r].dump
      /\ new.signature = run[r].signature /\ new.locked = run[r].locked
      /\ new.exposed = run[r].exposed
  BY <1>1 DEF Run
<1>3. run' = [run EXCEPT ![r] = new]
  OBVIOUS
<1> HIDE DEF new
<1>4. Becomes(r, new.pc, new.name, new.dump, new.signature, new.locked, new.exposed)
  BY <1>2, <1>3, Moves
<1> QED
  BY <1>2, <1>4

----------------------------------------------------------------------------
(* Steps that leave the files alone *)

\* What the invariant says, its type apart.
Inv == RunsInv /\ ModeInv /\ SigsInv /\ AloneInv /\ NewestKept /\ EncryptedAsSet

\* The variables that Inv is about, the runs and the database apart.
Shelf == <<files, sigs, remote, clock, skewed, unset, misread, overlapped, probed, last>>

\* Runs that are over hold nothing.
LEMMA EndsInv ==
  ASSUME IInv, UNCHANGED <<db, Shelf>>, run' \in [Runs -> Run],
         \A o \in Runs : run'[o] = run[o] \/ Blank(run'[o])
  PROVE  Inv'
<1> USE DEF Shelf, Blank, Writing, Holding
<1>1. RunsInv'
  BY DEF IInv, RunsInv
<1>2. ModeInv'
  BY DEF IInv, ModeInv, Choosing
<1>3. SigsInv'
  BY DEF IInv, SigsInv, Stored
<1>4. AloneInv'
  BY DEF IInv, AloneInv
<1>5. NewestKept'
  BY DEF IInv, NewestKept, Complete, Stored
<1>6. EncryptedAsSet'
  BY DEF IInv, EncryptedAsSet, Stored
<1> QED
  BY <1>1, <1>2, <1>3, <1>4, <1>5, <1>6 DEF Inv

\* A change of the database is seen by the runs that have not created their files.
LEMMA DatabaseInv ==
  ASSUME IInv, NEW d \in Database, SetDatabase(d), UNCHANGED Shelf
  PROVE  Inv' /\ db' \in Database /\ run' \in [Runs -> Run]
<1> USE DEF Shelf, Writing, Holding
<1>1. /\ db' = d /\ run' \in [Runs -> Run]
      /\ \A r \in Runs :
           /\ run'[r].pc = run[r].pc /\ run'[r].name = run[r].name
           /\ run'[r].dump = run[r].dump /\ run'[r].signature = run[r].signature
           /\ run'[r].locked = run[r].locked
           /\ run[r].exposed => run'[r].exposed
           /\ Choosing(r) /\ NamesNoKey(d.settings) => run'[r].exposed
  <2>1. \A r \in Runs : run[r] \in Run
    BY DEF IInv, TypeOK
  <2>2. \A r \in Runs : run'[r] = [run[r] EXCEPT
          !.exposed = @ \/ (Choosing(r) /\ NamesNoKey(d.settings))]
    BY DEF SetDatabase
  <2>3. \A r \in Runs : run'[r] \in Run
    <3> TAKE r \in Runs
    <3>1. (run[r].exposed \/ (Choosing(r) /\ NamesNoKey(d.settings))) \in BOOLEAN
      OBVIOUS
    <3> HIDE DEF Choosing, NamesNoKey
    <3> QED
      BY <2>1, <2>2, <3>1 DEF Run
  <2> QED
    BY <2>1, <2>2, <2>3 DEF SetDatabase, Run
<1>2. RunsInv'
  BY <1>1 DEF IInv, RunsInv
<1>3. ModeInv'
  BY <1>1 DEF IInv, ModeInv, Choosing
<1>4. SigsInv'
  BY <1>1 DEF IInv, SigsInv, Stored
<1>5. AloneInv'
  BY <1>1 DEF IInv, AloneInv
<1>6. NewestKept'
  BY DEF IInv, NewestKept, Complete, Stored
<1>7. EncryptedAsSet'
  BY DEF IInv, EncryptedAsSet, Stored
<1> QED
  BY <1>1, <1>2, <1>3, <1>4, <1>5, <1>6, <1>7 DEF Inv

----------------------------------------------------------------------------
(* What the invariant says, field by field *)

LEMMA RunFields ==
  ASSUME TypeOK, NEW r \in Runs
  PROVE  /\ run[r] \in Run /\ run[r].pc \in Stages /\ run[r].skip \in BOOLEAN
         /\ run[r].retention \in Nat /\ run[r].dump \in Database \cup {Null}
         /\ run[r].signature \in Database \cup {Null} /\ run[r].name \in Names \cup {0}
         /\ run[r].locked \in BOOLEAN /\ run[r].exposed \in BOOLEAN
BY DEF TypeOK, Run

----------------------------------------------------------------------------
(* The start of a run *)

LEMMA BeginInv ==
  ASSUME IInv, NEW r \in Runs, Begin(r)
  PROVE  Inv' /\ run' \in [Runs -> Run]
<1> DEFINE new == [NoRun("dump") EXCEPT
       !.skip = Setting("skip", TRUE), !.retention = Setting("retention", 5),
       !.exposed = NamesNoKey(db.settings)]
<1>1. /\ new \in Run /\ new.pc = "dump" /\ new.name = 0 /\ new.exposed = NamesNoKey(db.settings)
  <2>1. Setting("skip", TRUE) \in BOOLEAN /\ Setting("retention", 5) \in Nat
    BY BoundsAssumption DEF IInv, TypeOK, Database, Settings, Setting
  <2>2. NamesNoKey(db.settings) \in BOOLEAN
    BY DEF NamesNoKey
  <2> HIDE DEF NamesNoKey
  <2> QED
    BY <2>1, <2>2 DEF NoRun, Run, Stages, Names
<1>2. run' = [run EXCEPT ![r] = new]
  BY DEF Begin
<1> HIDE DEF new
<1>3. Becomes(r, new.pc, new.name, new.dump, new.signature, new.locked, new.exposed)
  BY <1>1, <1>2, Moves DEF IInv
<1>4. UNCHANGED <<db, Shelf>>
  BY DEF Begin, directories, history, Shelf
<1> USE <1>1, <1>3, <1>4 DEF Becomes, Shelf, Writing, Holding
<1>5. RunsInv'
  BY DEF IInv, RunsInv
<1>6. ModeInv'
  BY DEF IInv, ModeInv, Choosing, NamesNoKey
<1>7. SigsInv'
  BY DEF IInv, SigsInv, Stored
<1>8. AloneInv'
  BY DEF IInv, AloneInv
<1>9. NewestKept'
  BY DEF IInv, NewestKept, Complete, Stored
<1>10. EncryptedAsSet'
  BY DEF IInv, EncryptedAsSet, Stored
<1> QED
  BY <1>5, <1>6, <1>7, <1>8, <1>9, <1>10 DEF Inv

LEMMA DumpInv ==
  ASSUME IInv, NEW r \in Runs, Dump(r)
  PROVE  Inv' /\ run' \in [Runs -> Run]
<1> DEFINE new == [run[r] EXCEPT !.pc = "sign", !.dump = db]
<1>1. /\ new \in Run /\ new.pc = "sign" /\ new.name = run[r].name /\ new.dump = db
      /\ new.exposed = run[r].exposed
  BY RunFields DEF IInv, TypeOK, Run, Stages
<1>2. run' = [run EXCEPT ![r] = new]
  BY DEF Dump
<1>3. db # Null
  BY SentinelsAssumption DEF IInv, TypeOK
<1> HIDE DEF new
<1>4. Becomes(r, new.pc, new.name, new.dump, new.signature, new.locked, new.exposed)
  BY <1>1, <1>2, Moves DEF IInv
<1>5. UNCHANGED <<db, Shelf>> /\ run[r].pc = "dump"
  BY DEF Dump, directories, history, Shelf
<1> USE <1>1, <1>3, <1>4, <1>5 DEF Becomes, Shelf, Writing, Holding
<1>6. RunsInv'
  BY DEF IInv, RunsInv
<1>7. ModeInv'
  BY DEF IInv, ModeInv, Choosing
<1>8. SigsInv'
  BY DEF IInv, SigsInv, Stored
<1>9. AloneInv'
  BY DEF IInv, AloneInv
<1>10. NewestKept'
  BY DEF IInv, NewestKept, Complete, Stored
<1>11. EncryptedAsSet'
  BY DEF IInv, EncryptedAsSet, Stored
<1> QED
  BY <1>6, <1>7, <1>8, <1>9, <1>10, <1>11 DEF Inv

\* The name that a run takes is a new one.
LEMMA SignInv ==
  ASSUME IInv, NEW r \in Runs, Sign(r)
  PROVE  /\ Inv' /\ run' \in [Runs -> Run] /\ clock' \in 0..MaxNames
         /\ skewed' \subseteq Names /\ overlapped' \in BOOLEAN
<1> DEFINE new == [run[r] EXCEPT !.pc = "mode", !.signature = db, !.name = clock']
<1>1. clock' = clock + 1 /\ clock \in 0..MaxNames /\ clock' \in Names
  BY BoundsAssumption DEF Sign, IInv, TypeOK, Names
<1>2. /\ new \in Run /\ new.pc = "mode" /\ new.name = clock' /\ new.dump = run[r].dump
      /\ new.signature = db /\ new.exposed = run[r].exposed
  BY <1>1, RunFields DEF IInv, TypeOK, Run, Stages
<1>3. run' = [run EXCEPT ![r] = new]
  BY DEF Sign
<1>4. db # Null
  BY SentinelsAssumption DEF IInv, TypeOK
<1> HIDE DEF new
<1>5. Becomes(r, new.pc, new.name, new.dump, new.signature, new.locked, new.exposed)
  BY <1>2, <1>3, Moves DEF IInv
<1>6. /\ UNCHANGED <<db, files, sigs, remote, unset, misread, probed, last>>
      /\ run[r].pc = "sign"
      /\ skewed' = IF run[r].dump # db THEN skewed \cup {clock'} ELSE skewed
      /\ overlapped' = (overlapped \/ \E o \in Runs : run[o].name # 0)
  BY DEF Sign, directories
<1>7. last.local \in 0..MaxNames /\ last.remote \in 0..MaxNames /\ overlapped \in BOOLEAN
  BY DEF IInv, TypeOK
<1>8. skewed' \subseteq Names /\ overlapped' \in BOOLEAN
  BY <1>1, <1>6 DEF IInv, TypeOK
<1> USE <1>1, <1>2, <1>4, <1>5, <1>6, <1>7 DEF Becomes, Writing, Holding
<1>9. RunsInv'
  BY DEF IInv, RunsInv, Names
<1>10. ModeInv'
  BY DEF IInv, ModeInv, Choosing
<1>11. SigsInv'
  BY DEF IInv, SigsInv, Stored, Names
<1>12. AloneInv'
  <2>1. last'.local <= clock' /\ last'.remote <= clock'
    BY DEF IInv, AloneInv
  <2>2. ASSUME ~ overlapped'
        PROVE  \A o \in Runs : o # r => run'[o].name = 0
    BY <2>2
  <2> QED
    BY <2>1, <2>2 DEF IInv, AloneInv, Names
<1>13. NewestKept'
  BY DEF IInv, NewestKept, Complete, Stored
<1>14. EncryptedAsSet'
  BY DEF IInv, EncryptedAsSet, Stored
<1>15. Inv'
  BY <1>9, <1>10, <1>11, <1>12, <1>13, <1>14 DEF Inv
<1>16. run' \in [Runs -> Run] /\ clock' \in 0..MaxNames
  BY DEF Names
<1> QED
  BY <1>8, <1>15, <1>16, Zenon

----------------------------------------------------------------------------
(* Encryption *)

\* A run that chooses to write in clear has a reason.
LEMMA ChoiceInv ==
  ASSUME IInv, NEW r \in Runs, run[r].pc \in {"mode", "passphrase", "recipients"},
         NEW pc \in {"passphrase", "recipients", "create"}, NEW locked \in BOOLEAN,
         run' = [run EXCEPT ![r].pc = pc, ![r].locked = locked],
         misread \subseteq misread',
         UNCHANGED <<db, files, sigs, remote, clock, skewed, unset, overlapped, probed, last>>,
         pc = "create" /\ ~ locked => run[r].exposed \/ run[r].name \in misread'
  PROVE  Inv' /\ run' \in [Runs -> Run]
<1> DEFINE new == [run[r] EXCEPT !.pc = pc, !.locked = locked]
<1>1. /\ new \in Run /\ new.pc = pc /\ new.name = run[r].name /\ new.dump = run[r].dump
      /\ new.signature = run[r].signature /\ new.locked = locked
      /\ new.exposed = run[r].exposed
  BY RunFields DEF IInv, TypeOK, Run, Stages
<1>2. run' = [run EXCEPT ![r] = new]
  OBVIOUS
<1> HIDE DEF new
<1>3. Becomes(r, new.pc, new.name, new.dump, new.signature, new.locked, new.exposed)
  BY <1>1, <1>2, Moves DEF IInv
<1> USE <1>1, <1>3 DEF Becomes, Writing, Holding
<1>4. RunsInv'
  BY DEF IInv, RunsInv
<1>5. ModeInv'
  BY DEF IInv, ModeInv, Choosing
<1>6. SigsInv'
  BY DEF IInv, SigsInv, Stored
<1>7. AloneInv'
  BY DEF IInv, AloneInv
<1>8. NewestKept'
  BY DEF IInv, NewestKept, Complete, Stored
<1>9. EncryptedAsSet'
  BY DEF IInv, EncryptedAsSet, Stored
<1> QED
  BY <1>4, <1>5, <1>6, <1>7, <1>8, <1>9 DEF Inv

LEMMA HoldsName ==
  ASSUME IInv, NEW r \in Runs, run[r].pc \in Holding
  PROVE  run[r].name \in Names /\ run[r].name # 0 /\ run[r].name <= clock
<1>1. run[r].name \in 1..clock
  BY DEF IInv, RunsInv
<1>2. clock \in 0..MaxNames
  BY DEF IInv, TypeOK
<1> QED
  BY <1>1, <1>2, BoundsAssumption DEF Names

LEMMA ReadModeInv ==
  ASSUME IInv, NEW r \in Runs, ReadMode(r)
  PROVE  Inv' /\ run' \in [Runs -> Run]
<1> DEFINE mode == Setting("mode", "none")
           pc == CASE mode = "passphrase" -> "passphrase"
                   [] mode = "envelope" -> "recipients"
                   [] OTHER -> "create"
<1>1. mode \in {"none", "passphrase", "envelope"}
  BY ModesAssumption DEF IInv, TypeOK, Database, Settings, Setting
<1>2. pc \in {"passphrase", "recipients", "create"} /\ (pc = "create" => mode = "none")
  BY <1>1
<1>3. /\ run[r].pc = "mode" /\ misread' = misread
      /\ run' = [run EXCEPT ![r].pc = pc, ![r].locked = FALSE]
      /\ UNCHANGED <<db, files, sigs, remote, clock, skewed, unset, overlapped, probed, last>>
  BY DEF ReadMode, Continue, directories
<1>4. pc = "create" => run[r].exposed
  <2> HAVE pc = "create"
  <2>1. NamesNoKey(db.settings)
    BY <1>2 DEF NamesNoKey, Setting
  <2> QED
    BY <2>1, <1>3 DEF IInv, ModeInv, Choosing
<1> HIDE DEF pc
<1> QED
  BY <1>2, <1>3, <1>4, ChoiceInv

LEMMA ReadPassphraseInv ==
  ASSUME IInv, NEW r \in Runs, ReadPassphrase(r)
  PROVE  Inv' /\ run' \in [Runs -> Run] /\ misread' \subseteq Names
<1> DEFINE same == Setting("mode", "none") = "passphrase"
           locked == same /\ Setting("passphrase", FALSE)
<1>1. /\ run[r].pc = "passphrase"
      /\ run' = [run EXCEPT ![r].pc = "create", ![r].locked = locked]
      /\ misread' = IF same THEN misread ELSE misread \cup {run[r].name}
      /\ UNCHANGED <<db, files, sigs, remote, clock, skewed, unset, overlapped, probed, last>>
  BY DEF ReadPassphrase, Continue, directories
<1>2. misread \subseteq misread' /\ misread' \subseteq Names
  BY <1>1, HoldsName DEF Holding, Writing, IInv, TypeOK
<1>3. ~ locked => run[r].exposed \/ run[r].name \in misread'
  <2> HAVE ~ locked
  <2>1. CASE ~ same
    BY <1>1, <2>1
  <2>2. CASE same
    <3>1. NamesNoKey(db.settings)
      BY <2>2 DEF NamesNoKey, Setting
    <3> QED
      BY <3>1, <1>1 DEF IInv, ModeInv, Choosing
  <2> QED
    BY <2>1, <2>2
<1>4. locked \in BOOLEAN
  OBVIOUS
<1> HIDE DEF locked
<1> QED
  BY <1>1, <1>2, <1>3, <1>4, ChoiceInv

LEMMA MisreadInv ==
  ASSUME IInv, NEW r \in Runs, Misread(r)
  PROVE  Inv' /\ run' \in [Runs -> Run] /\ misread' \subseteq Names
<1>1. /\ run[r].pc \in {"mode", "passphrase"}
      /\ run' = [run EXCEPT ![r].pc = "create", ![r].locked = FALSE]
      /\ misread' = misread \cup {run[r].name}
      /\ UNCHANGED <<db, files, sigs, remote, clock, skewed, unset, overlapped, probed, last>>
  BY DEF Misread, directories
<1>2. misread' \subseteq Names
  BY <1>1, HoldsName DEF Holding, Writing, IInv, TypeOK
<1> QED
  BY <1>1, <1>2, ChoiceInv

LEMMA ReadRecipientsInv ==
  ASSUME IInv, NEW r \in Runs, ReadRecipients(r)
  PROVE  Inv' /\ run' \in [Runs -> Run]
<1>1. CASE /\ Continue(r, "create", TRUE)
           /\ UNCHANGED misread
  BY <1>1, ChoiceInv DEF ReadRecipients, Continue, directories
<1>2. CASE /\ run' = [run EXCEPT ![r] = Over(r)]
           /\ UNCHANGED <<db, directories, clock, young, save, restore, edits, faults, history>>
  BY <1>2, EndMoves, EndsInv DEF IInv, directories, history, Shelf
<1> QED
  BY <1>1, <1>2 DEF ReadRecipients

----------------------------------------------------------------------------
(* Files *)

\* The file that a run creates is where no other run has one, and unsigned.
LEMMA CreateInv ==
  ASSUME IInv, NEW r \in Runs, Create(r)
  PROVE  /\ Inv' /\ run' \in [Runs -> Run] /\ files' \in [Names -> File \cup {Null}]
         /\ unset' \subseteq Names
<1> DEFINE new == [run[r] EXCEPT !.pc = "write", !.exposed = FALSE]
           file == [dump |-> Torn, locked |-> run[r].locked]
           name == run[r].name
<1>1. /\ new \in Run /\ new.pc = "write" /\ new.name = name /\ new.dump = run[r].dump
      /\ new.signature = run[r].signature /\ new.locked = run[r].locked
  BY RunFields DEF IInv, TypeOK, Run, Stages
<1>2. run' = [run EXCEPT ![r] = new]
  BY DEF Create
<1>3. /\ run[r].pc = "create" /\ files' = [files EXCEPT ![name] = file]
      /\ unset' = IF run[r].exposed THEN unset \cup {name} ELSE unset
      /\ UNCHANGED <<db, sigs, remote, clock, skewed, misread, overlapped, probed, last>>
  BY DEF Create
<1>4. file \in File /\ file # Null /\ file.dump = Torn /\ file.locked = run[r].locked
  BY RunFields, SentinelsAssumption DEF IInv, File
<1>5. name \in Names /\ name # 0 /\ name <= clock
  BY <1>3, HoldsName DEF Holding, Writing
<1> HIDE DEF new, file
<1>6. Becomes(r, new.pc, new.name, new.dump, new.signature, new.locked, new.exposed)
  BY <1>1, <1>2, Moves DEF IInv
<1>7. /\ files' \in [Names -> File \cup {Null}] /\ files'[name] = file
      /\ \A n \in Names : n # name => files'[n] = files[n]
  BY <1>3, <1>4, <1>5 DEF IInv, TypeOK
<1>8. unset' \subseteq Names /\ unset \subseteq unset'
  BY <1>3, <1>5 DEF IInv, TypeOK
<1>9. sigs[name] = Null /\ name \notin Names \ 1..clock
  BY <1>3, <1>5 DEF IInv, SigsInv, Writing, Names
<1>10. ~ run[r].locked => name \in unset' \cup misread'
  BY <1>3 DEF IInv, ModeInv
<1> USE <1>1, <1>4, <1>5, <1>6, <1>7 DEF Becomes, Writing, Holding
<1>11. RunsInv'
  BY <1>3 DEF IInv, RunsInv
<1>12. ModeInv'
  BY <1>3, <1>8, <1>10 DEF IInv, ModeInv, Choosing
<1>13. SigsInv'
  BY <1>3, <1>9 DEF IInv, SigsInv, RunsInv, Stored
<1>14. AloneInv'
  BY <1>3 DEF IInv, AloneInv
<1>15. NewestKept'
  <2> SUFFICES ASSUME ~ overlapped
               PROVE  /\ last.local # 0 => last.local \in Complete(files')
                      /\ last.remote # 0 /\ ~ probed => last.remote \in Complete(remote)
    BY <1>3 DEF NewestKept, Complete, Stored
  <2>1. last.local # name
    <3>1. name = clock /\ last.local < clock /\ clock \in Nat
      BY <1>3 DEF IInv, AloneInv, TypeOK
    <3> QED
      BY <3>1
  <2> QED
    BY <2>1 DEF IInv, NewestKept, Complete, Stored
<1>16. EncryptedAsSet'
  BY <1>3, <1>8, <1>10 DEF IInv, EncryptedAsSet, Stored
<1>17. Inv'
  BY <1>11, <1>12, <1>13, <1>14, <1>15, <1>16 DEF Inv
<1> QED
  BY <1>7, <1>8, <1>17

LEMMA WriteInv ==
  ASSUME IInv, NEW r \in Runs, Write(r)
  PROVE  /\ Inv' /\ run' \in [Runs -> Run] /\ files' \in [Names -> File \cup {Null}]
         /\ last' \in [local: 0..MaxNames, remote: 0..MaxNames]
<1> DEFINE name == run[r].name
           file == [files[name] EXCEPT !.dump = run[r].dump]
<1>1. /\ run[r].pc = "write" /\ Proceed(r, "rotate")
      /\ files' = IF files[name] # Null THEN [files EXCEPT ![name] = file] ELSE files
      /\ last' = [last EXCEPT !.local = Later(@, name)]
      /\ UNCHANGED <<db, sigs, remote, clock, skewed, unset, misread, overlapped, probed>>
  <2>1. name \in Names
    BY HoldsName DEF Write, Holding, Writing
  <2> QED
    BY <2>1 DEF Write, Stored
<1>2. name \in Names /\ name # 0 /\ name <= clock /\ clock \in 0..MaxNames
  BY <1>1, HoldsName DEF Holding, Writing, IInv, TypeOK
<1>3. run[r].dump \in Database
  BY <1>1, RunFields DEF IInv, RunsInv, Holding, Writing
<1>4. Becomes(r, "rotate", name, run[r].dump, run[r].signature, run[r].locked, run[r].exposed)
  BY <1>1, StageMoves DEF Proceed, Stages, IInv
<1>5. files[name] # Null =>
        /\ file \in File /\ file # Null /\ file.dump = run[r].dump
        /\ file.locked = files[name].locked /\ files'[name] = file
  <2> HAVE files[name] # Null
  <2>1. files[name] \in File
    BY <1>2 DEF IInv, TypeOK
  <2>2. file \in File /\ file.dump = run[r].dump /\ file.locked = files[name].locked
    BY <1>3, <2>1 DEF File
  <2> HIDE DEF file
  <2> QED
    BY <1>1, <1>2, <2>2, SentinelsAssumption DEF IInv, TypeOK
<1> HIDE DEF file
<1>6. /\ files' \in [Names -> File \cup {Null}]
      /\ \A n \in Names : n # name => files'[n] = files[n]
      /\ files[name] = Null => files'[name] = Null
  BY <1>1, <1>2, <1>5 DEF IInv, TypeOK
<1>7. last' = [local |-> Later(last.local, name), remote |-> last.remote]
  BY <1>1 DEF IInv, TypeOK
<1>8. /\ last.local \in 0..MaxNames /\ last.remote \in 0..MaxNames
      /\ Later(last.local, name) \in 0..MaxNames
  BY <1>2 DEF IInv, TypeOK, Later, Names
<1>9. last' \in [local: 0..MaxNames, remote: 0..MaxNames]
  BY <1>7, <1>8
<1>10. last'.local = Later(last.local, name) /\ last'.remote = last.remote
  BY <1>7
<1>11. run[r].dump # Torn
  BY <1>3, SentinelsAssumption
<1> USE <1>2, <1>4, <1>5, <1>6 DEF Becomes, Writing, Holding
<1>12. RunsInv'
  BY <1>1 DEF IInv, RunsInv
<1>13. ModeInv'
  BY <1>1 DEF IInv, ModeInv, Choosing
<1>14. SigsInv'
  BY <1>1 DEF IInv, SigsInv, RunsInv, Stored
<1>15. AloneInv'
  <2>1. last'.local <= clock' /\ last'.remote <= clock'
    BY <1>1, <1>8, <1>10 DEF IInv, AloneInv, Later
  <2> SUFFICES ASSUME ~ overlapped, NEW o \in Runs, run'[o].name # 0
               PROVE  /\ run'[o].name = clock /\ last'.remote < clock
                      /\ run'[o].pc \in Writing => last'.local < clock
                      /\ run'[o].pc = "write" => files'[clock] # Null
                      /\ run'[o].pc = "rotate" => last'.local = clock
    BY <1>1, <2>1 DEF AloneInv
  <2>2. o = r
    <3> SUFFICES ASSUME o # r
                 PROVE  FALSE
      OBVIOUS
    <3>1. run[o].name = clock /\ name = clock
      BY DEF IInv, AloneInv
    <3> QED
      BY <3>1 DEF IInv, RunsInv
  <2>3. name = clock /\ last.remote < clock /\ last.local < clock
    BY <1>1 DEF IInv, AloneInv
  <2> QED
    BY <2>2, <2>3, <1>8, <1>10 DEF Later, Names
<1>16. NewestKept'
  <2> SUFFICES ASSUME ~ overlapped
               PROVE  /\ last'.local # 0 => last'.local \in Complete(files')
                      /\ last'.remote # 0 /\ ~ probed => last'.remote \in Complete(remote')
    BY <1>1 DEF NewestKept
  <2>1. name = clock /\ last.local < clock /\ files[clock] # Null
    BY <1>1 DEF IInv, AloneInv
  <2>2. last'.local = name
    BY <2>1, <1>8, <1>10 DEF Later, Names
  <2>3. name \in Complete(files')
    BY <2>1, <1>11 DEF Complete, Stored
  <2>4. last'.remote # 0 /\ ~ probed => last'.remote \in Complete(remote')
    BY <1>1, <1>10 DEF IInv, NewestKept, Complete, Stored
  <2> QED
    BY <2>2, <2>3, <2>4
<1>17. EncryptedAsSet'
  BY <1>1 DEF IInv, EncryptedAsSet, Stored
<1>18. Inv'
  BY <1>12, <1>13, <1>14, <1>15, <1>16, <1>17 DEF Inv
<1> QED
  BY <1>6, <1>9, <1>18

\* A list that keeps anything keeps the newest.
LEMMA NewestIsNotOld ==
  ASSUME NEW dir, NEW n \in Names, NEW keep \in Nat \ {0},
         \A m \in Stored(dir) : m <= n
  PROVE  n \notin Old(dir, keep)
<1>1. \A m \in Stored(dir) : m \in Nat
  BY DEF Stored, Names
<1>2. {m \in Stored(dir) : m > n} = {}
  BY <1>1 DEF Names
<1>3. Cardinality({m \in Stored(dir) : m > n}) = 0
  BY <1>2, FS_EmptySet
<1> QED
  BY <1>3 DEF Old, Beyond

LEMMA RotateInv ==
  ASSUME IInv, NEW r \in Runs, Rotate(r)
  PROVE  /\ Inv' /\ run' \in [Runs -> Run] /\ files' \in [Names -> File \cup {Null}]
         /\ sigs' \in [Names -> Database \cup {Null}] /\ faults' \in 0..MaxFaults
<1> DEFINE name == run[r].name
           keep == Clamp(run[r].retention, 1, 10)
           old == Old(files, keep)
<1>1. /\ run[r].pc = "rotate" /\ Proceed(r, "push")
      /\ files' = [n \in Names |-> IF n \in old THEN Null ELSE files[n]]
      /\ UNCHANGED <<db, remote, clock, skewed, unset, misread, overlapped, probed, last>>
  BY DEF Rotate, history
<1>2. PICK signature \in {run[r].signature, Null} :
        /\ signature = Null => faults < MaxFaults
        /\ faults' = IF signature = Null THEN faults + 1 ELSE faults
        /\ sigs' = [n \in Names |-> IF n \in old THEN Null
                                   ELSE IF n = name THEN signature ELSE sigs[n]]
  BY DEF Rotate
<1>3. name \in Names /\ name # 0 /\ name <= clock
  BY <1>1, HoldsName DEF Holding, Writing
<1>4. Becomes(r, "push", name, run[r].dump, run[r].signature, run[r].locked, run[r].exposed)
  BY <1>1, StageMoves DEF Proceed, Stages, IInv
<1>5. keep \in Nat \ {0}
  BY RunFields DEF Clamp, IInv
<1>6. faults' \in 0..MaxFaults
  BY <1>2, BoundsAssumption DEF IInv, TypeOK
<1> HIDE DEF old, keep
<1>7. /\ files' \in [Names -> File \cup {Null}]
      /\ \A n \in Names : files'[n] = IF n \in old THEN Null ELSE files[n]
  BY <1>1 DEF IInv, TypeOK
<1>8. /\ sigs' \in [Names -> Database \cup {Null}]
      /\ \A n \in Names : sigs'[n] = IF n \in old THEN Null
                                    ELSE IF n = name THEN signature ELSE sigs[n]
  BY <1>2, RunFields DEF IInv, TypeOK
<1>9. /\ files[name] # Null => files[name].dump = run[r].dump
      /\ signature # Null => name \in skewed \/ run[r].dump = signature
  BY <1>1 DEF IInv, SigsInv, RunsInv, Holding
<1> USE <1>3, <1>4 DEF Becomes, Writing, Holding
<1>10. RunsInv'
  BY <1>1 DEF IInv, RunsInv
<1>11. ModeInv'
  BY <1>1 DEF IInv, ModeInv, Choosing
<1>12. SigsInv'
  <2>1. \A n \in Names : (files'[n] # Null \/ sigs'[n] # Null \/ remote'[n] # Null) => n <= clock'
    BY <1>1, <1>7, <1>8 DEF IInv, SigsInv
  <2>2. \A n \in Stored(files') :
          sigs'[n] # Null => n \in skewed' \/ files'[n].dump = sigs'[n]
    BY <1>1, <1>7, <1>8, <1>9 DEF IInv, SigsInv, Stored
  <2>3. \A o \in Runs :
          /\ run'[o].pc \in Writing => sigs'[run'[o].name] = Null
          /\ run'[o].pc = "rotate" /\ files'[run'[o].name] # Null =>
               files'[run'[o].name].dump = run'[o].dump
    <3> SUFFICES ASSUME NEW o \in Runs, o # r, run[o].pc \in Writing \cup {"rotate"}
                 PROVE  /\ run[o].pc \in Writing => sigs'[run[o].name] = Null
                        /\ run[o].pc = "rotate" /\ files'[run[o].name] # Null =>
                             files'[run[o].name].dump = run[o].dump
      OBVIOUS
    <3>1. run[o].name \in Names /\ run[o].name # name
      BY HoldsName DEF IInv, RunsInv
    <3> QED
      BY <3>1, <1>7, <1>8 DEF IInv, SigsInv
  <2> QED
    BY <2>1, <2>2, <2>3 DEF SigsInv
<1>13. AloneInv'
  <2> SUFFICES ASSUME ~ overlapped, NEW o \in Runs, run'[o].name # 0
               PROVE  /\ run'[o].name = clock /\ last.remote < clock
                      /\ o = r
    BY <1>1 DEF IInv, AloneInv
  <2>1. run[o].name = clock /\ name = clock /\ last.remote < clock
    BY DEF IInv, AloneInv
  <2> QED
    BY <2>1 DEF IInv, RunsInv
<1>14. NewestKept'
  <2> SUFFICES ASSUME ~ overlapped
               PROVE  last.local \in Complete(files')
    BY <1>1 DEF IInv, NewestKept, Complete, Stored
  <2>1. name = clock /\ last.local = clock
    BY <1>1 DEF IInv, AloneInv
  <2>2. name \in Complete(files)
    BY <2>1 DEF IInv, NewestKept
  <2>3. \A m \in Stored(files) : m <= name
    BY <2>1 DEF IInv, SigsInv, Stored
  <2>4. name \notin old
    BY <2>3, <1>5, NewestIsNotOld DEF old
  <2> QED
    BY <2>1, <2>2, <2>4, <1>7 DEF Complete, Stored
<1>15. EncryptedAsSet'
  BY <1>1, <1>7 DEF IInv, EncryptedAsSet, Stored
<1>16. Inv'
  BY <1>10, <1>11, <1>12, <1>13, <1>14, <1>15 DEF Inv
<1> QED
  BY <1>6, <1>7, <1>8, <1>16

\* What a run leaves at the destination when it is over.
LEMMA RemoteInv ==
  ASSUME IInv, NEW r \in Runs, run[r].pc = "push", run' = [run EXCEPT ![r] = Over(r)],
         UNCHANGED <<db, files, sigs, clock, skewed, unset, misread, overlapped>>,
         remote' \in [Names -> File \cup {Null}],
         \A n \in Names :
           remote'[n] \notin {Null, remote[n]} =>
             n = run[r].name /\ remote'[n].locked = run[r].locked,
         last'.local = last.local, last'.remote <= clock,
         ~ overlapped /\ last'.remote # 0 /\ ~ probed' => last'.remote \in Complete(remote')
  PROVE  Inv' /\ run' \in [Runs -> Run]
<1> DEFINE name == run[r].name
<1>1. /\ run' \in [Runs -> Run] /\ Blank(run'[r])
      /\ \A o \in Runs : o # r => run'[o] = run[o]
  BY OverType DEF IInv, TypeOK
<1>2. name \in Names /\ name # 0 /\ name <= clock
  BY HoldsName DEF Holding, Writing
<1>3. ~ run[r].locked => name \in unset \cup misread
  BY DEF IInv, ModeInv
<1> USE <1>1, <1>2 DEF Blank, Writing, Holding
<1>4. RunsInv'
  BY DEF IInv, RunsInv
<1>5. ModeInv'
  BY DEF IInv, ModeInv, Choosing
<1>6. SigsInv'
  BY DEF IInv, SigsInv, Stored
<1>7. AloneInv'
  <2> SUFFICES ASSUME ~ overlapped, NEW o \in Runs, run'[o].name # 0
               PROVE  FALSE
    BY DEF IInv, AloneInv
  <2>1. run[o].name = clock /\ name = clock /\ o # r
    BY DEF IInv, AloneInv
  <2> QED
    BY <2>1 DEF IInv, RunsInv
<1>8. NewestKept'
  BY DEF IInv, NewestKept, Complete, Stored
<1>9. EncryptedAsSet'
  BY <1>3 DEF IInv, EncryptedAsSet, Stored
<1> QED
  BY <1>4, <1>5, <1>6, <1>7, <1>8, <1>9 DEF Inv

LEMMA PushInv ==
  ASSUME IInv, NEW r \in Runs, Push(r)
  PROVE  /\ Inv' /\ run' \in [Runs -> Run] /\ remote' \in [Names -> File \cup {Null}]
         /\ probed' \in BOOLEAN /\ last' \in [local: 0..MaxNames, remote: 0..MaxNames]
<1> DEFINE name == run[r].name
           file == [dump |-> run[r].dump, locked |-> run[r].locked]
           pushed == [remote EXCEPT ![name] = file]
           keep == IF probe THEN RemoteRetention - 1 ELSE RemoteRetention
           old == Old(pushed, keep)
<1>1. /\ run[r].pc = "push" /\ run' = [run EXCEPT ![r] = Over(r)]
      /\ remote' = [n \in Names |-> IF n \in old THEN Null ELSE pushed[n]]
      /\ last' = [last EXCEPT !.remote = Later(@, name)]
      /\ UNCHANGED <<db, files, sigs, clock, skewed, unset, misread, overlapped>>
  BY DEF Push
<1>2. name \in Names /\ name # 0 /\ name <= clock /\ clock \in 0..MaxNames
  BY <1>1, HoldsName DEF Holding, Writing, IInv, TypeOK
<1>3. run[r].dump \in Database /\ run[r].dump # Torn
  BY <1>1, RunFields, SentinelsAssumption DEF IInv, RunsInv, Holding, Writing
<1>4. file \in File /\ file # Null /\ file.dump = run[r].dump /\ file.locked = run[r].locked
  BY <1>3, RunFields, SentinelsAssumption DEF IInv, File
<1> HIDE DEF file
<1>5. /\ pushed \in [Names -> File \cup {Null}] /\ pushed[name] = file
      /\ \A n \in Names : n # name => pushed[n] = remote[n]
  BY <1>2, <1>4 DEF IInv, TypeOK
<1> HIDE DEF pushed, old
<1>6. /\ remote' \in [Names -> File \cup {Null}]
      /\ \A n \in Names : remote'[n] = IF n \in old THEN Null ELSE pushed[n]
  BY <1>1, <1>5
<1>7. /\ last.local \in 0..MaxNames /\ last.remote \in 0..MaxNames
      /\ Later(last.remote, name) \in 0..MaxNames
  BY <1>2 DEF IInv, TypeOK, Later, Names
<1>8. last' = [local |-> last.local, remote |-> Later(last.remote, name)]
  BY <1>1 DEF IInv, TypeOK
<1>9. /\ last' \in [local: 0..MaxNames, remote: 0..MaxNames]
      /\ last'.local = last.local /\ last'.remote = Later(last.remote, name)
  BY <1>7, <1>8
<1>10. last'.remote <= clock
  BY <1>2, <1>7, <1>9 DEF IInv, AloneInv, Later
<1>11. probed' \in BOOLEAN /\ (~ probed' => ~ probe)
  BY DEF Push
<1>12. ASSUME ~ overlapped, ~ probed'
       PROVE  last'.remote \in Complete(remote')
  <2>1. name = clock /\ last.remote < clock
    BY <1>2, <1>12 DEF IInv, AloneInv
  <2>2. last'.remote = name
    BY <2>1, <1>7, <1>9 DEF Later
  <2>3. keep \in Nat \ {0}
    BY <1>11, <1>12, BoundsAssumption
  <2>4. \A m \in Stored(pushed) : m <= name
    BY <2>1, <1>2, <1>5 DEF IInv, SigsInv, Stored
  <2>5. name \notin old
    BY <2>3, <2>4, <1>2, NewestIsNotOld DEF old
  <2> QED
    BY <2>2, <2>5, <1>2, <1>3, <1>4, <1>5, <1>6 DEF Complete, Stored
<1>13. \A n \in Names :
         remote'[n] \notin {Null, remote[n]} => n = name /\ remote'[n].locked = run[r].locked
  BY <1>4, <1>5, <1>6
<1> HIDE DEF name
<1>14. Inv' /\ run' \in [Runs -> Run]
  BY <1>1, <1>6, <1>9, <1>10, <1>12, <1>13, RemoteInv DEF name
<1> QED
  BY <1>6, <1>9, <1>11, <1>14

LEMMA CutPushInv ==
  ASSUME IInv, NEW r \in Runs, CutPush(r)
  PROVE  Inv' /\ run' \in [Runs -> Run] /\ remote' \in [Names -> File \cup {Null}]
<1> DEFINE name == run[r].name
           file == [dump |-> Torn, locked |-> run[r].locked]
<1>1. /\ run[r].pc = "push" /\ run' = [run EXCEPT ![r] = Over(r)]
      /\ remote' = [remote EXCEPT ![name] = file]
      /\ UNCHANGED <<db, files, sigs, clock, skewed, unset, misread, overlapped, probed, last>>
  BY DEF CutPush, history
<1>2. name \in Names /\ name # 0 /\ name <= clock
  BY <1>1, HoldsName DEF Holding, Writing
<1>3. file \in File /\ file.locked = run[r].locked
  BY RunFields DEF IInv, File
<1> HIDE DEF file
<1>4. /\ remote' \in [Names -> File \cup {Null}] /\ remote'[name] = file
      /\ \A n \in Names : n # name => remote'[n] = remote[n]
  BY <1>1, <1>2, <1>3 DEF IInv, TypeOK
<1>5. ASSUME ~ overlapped, last.remote # 0, ~ probed
      PROVE  last.remote \in Complete(remote')
  <2>1. last.remote # name
    <3>1. name = clock /\ last.remote < clock /\ clock \in Nat
      BY <1>2, <1>5 DEF IInv, AloneInv, TypeOK
    <3> QED
      BY <3>1
  <2> QED
    BY <2>1, <1>4, <1>5 DEF IInv, NewestKept, Complete, Stored
<1>6. last.remote <= clock
  BY DEF IInv, AloneInv
<1>7. \A n \in Names :
         remote'[n] \notin {Null, remote[n]} => n = name /\ remote'[n].locked = run[r].locked
  BY <1>3, <1>4
<1> HIDE DEF name
<1>8. Inv' /\ run' \in [Runs -> Run]
  BY <1>1, <1>4, <1>5, <1>6, <1>7, RemoteInv DEF name
<1> QED
  BY <1>4, <1>8

----------------------------------------------------------------------------
(* Requests *)

\* The requests, and the counters.
Sound ==
  /\ save \in [Requests -> Save]
  /\ restore \in [Requests -> Restore]
  /\ edits \in 0..MaxEdits /\ faults \in 0..MaxFaults
  /\ RequestsInv

LEMMA SoundHolds ==
  ASSUME IInv
  PROVE  Sound
BY DEF Sound, IInv, TypeOK

\* A request that leaves the database alone.
LEMMA QuietSound ==
  ASSUME IInv, UNCHANGED <<save, restore>>, edits' \in 0..MaxEdits, faults' \in 0..MaxFaults
  PROVE  Sound'
BY DEF IInv, TypeOK, Sound, RequestsInv, Saving

LEMMA SaveMoves ==
  ASSUME IInv, NEW q \in Requests, NEW new \in Save, save' = [save EXCEPT ![q] = new],
         new.pc \notin {"unused", "done"} => new.values # Null,
         UNCHANGED <<restore, edits>>, faults' \in 0..MaxFaults
  PROVE  Sound'
BY DEF IInv, TypeOK, Sound, RequestsInv, Saving

LEMMA RestoreMoves ==
  ASSUME IInv, NEW q \in Requests, NEW new \in Restore, restore' = [restore EXCEPT ![q] = new],
         new.pc \in {"drop", "fill"} => new.dump # Null,
         UNCHANGED <<save, edits>>, faults' \in 0..MaxFaults
  PROVE  Sound'
BY DEF IInv, TypeOK, Sound, RequestsInv, Saving

LEMMA SaveDone ==
  /\ NoSave("done") \in Save /\ NoSave("done").pc = "done"
  /\ NoSave("unused") \in Save /\ NoSave("unused").pc = "unused"
BY DEF NoSave, Save

LEMMA RestoreDone ==
  /\ NoRestore("done") \in Restore /\ NoRestore("done").pc = "done"
  /\ NoRestore("unused") \in Restore /\ NoRestore("unused").pc = "unused"
BY DEF NoRestore, Restore, Tables

LEMMA FaultSound ==
  ASSUME IInv, Fault
  PROVE  faults' \in 0..MaxFaults
BY BoundsAssumption DEF IInv, TypeOK

LEMMA SaveBeginSound ==
  ASSUME IInv, NEW q \in Requests, SaveBegin(q)
  PROVE  Sound'
<1>1. PICK values \in Settings :
        save' = [save EXCEPT ![q] = [pc |-> "pace", values |-> values]]
  BY DEF SaveBegin
<1> DEFINE new == [pc |-> "pace", values |-> values]
<1>2. new \in Save /\ new.values # Null
  BY SentinelsAssumption DEF Save
<1>3. UNCHANGED <<restore, edits, faults>>
  BY DEF SaveBegin
<1>4. faults' \in 0..MaxFaults
  BY <1>3 DEF IInv, TypeOK
<1> HIDE DEF new
<1> QED
  BY <1>1, <1>2, <1>3, <1>4, SaveMoves DEF new

LEMMA RestoreBeginSound ==
  ASSUME IInv, NEW q \in Requests, RestoreBegin(q)
  PROVE  Sound'
<1> DEFINE Given(dump) == IF dump = Null THEN NoRestore("done")
                          ELSE [pc |-> "drop", next |-> 1, dump |-> dump]
<1>1. PICK dir \in {files, remote} : \E n \in Complete(dir) : \E dump \in Opened(dir[n]) :
        restore' = [restore EXCEPT ![q] = Given(dump)]
  BY DEF RestoreBegin
<1>2. PICK n \in Complete(dir) : \E dump \in Opened(dir[n]) :
        restore' = [restore EXCEPT ![q] = Given(dump)]
  BY <1>1
<1>3. PICK dump \in Opened(dir[n]) : restore' = [restore EXCEPT ![q] = Given(dump)]
  BY <1>2
<1>4. dump \in Database \cup {Null}
  <2>1. n \in Names /\ dir[n] \in File /\ dir[n].dump # Torn
    BY DEF Complete, Stored, IInv, TypeOK
  <2> QED
    BY <2>1 DEF Opened, File
<1> DEFINE new == Given(dump)
<1>5. new \in Restore /\ (new.pc \in {"drop", "fill"} => new.dump # Null)
  BY <1>4, RestoreDone DEF Restore, Tables
<1>6. UNCHANGED <<save, edits, faults>>
  BY DEF RestoreBegin
<1>7. faults' \in 0..MaxFaults
  BY <1>6 DEF IInv, TypeOK
<1> HIDE DEF new
<1> QED
  BY <1>3, <1>5, <1>6, <1>7, RestoreMoves DEF new

LEMMA CutSound ==
  ASSUME IInv, NEW q \in Requests, CutSave(q) \/ CutRestore(q)
  PROVE  Sound'
<1>1. CASE CutSave(q)
  BY <1>1, FaultSound, SaveDone, SaveMoves DEF CutSave
<1>2. CASE CutRestore(q)
  BY <1>2, FaultSound, RestoreDone, RestoreMoves DEF CutRestore
<1> QED
  BY <1>1, <1>2

LEMMA CrashSound ==
  ASSUME IInv, Crash
  PROVE  Sound'
<1>1. faults' \in 0..MaxFaults /\ edits' \in 0..MaxEdits
  BY FaultSound DEF Crash, IInv, TypeOK
<1>2. /\ save' \in [Requests -> Save]
      /\ \A q \in Requests : save'[q].pc \in {"unused", "done"}
  BY SaveDone DEF Crash, Saving, IInv, TypeOK
<1>3. /\ restore' \in [Requests -> Restore]
      /\ \A q \in Requests : restore'[q].pc \in {"unused", "done"}
  BY RestoreDone DEF Crash, IInv, TypeOK
<1> QED
  BY <1>1, <1>2, <1>3 DEF Sound, RequestsInv, Saving

----------------------------------------------------------------------------
(* Changes of the database *)

\* Data, recipients, settings and restores: the database keeps its type, and the runs see it.
LEMMA EditInv ==
  ASSUME IInv, Edit
  PROVE  Inv' /\ Sound' /\ db' \in Database /\ run' \in [Runs -> Run]
<1> DEFINE d == [db EXCEPT !.rows = edits']
<1>1. edits' \in 0..MaxEdits
  BY BoundsAssumption DEF Edit, IInv, TypeOK
<1>2. d \in Database
  BY <1>1 DEF IInv, TypeOK, Database
<1>3. SetDatabase(d) /\ UNCHANGED Shelf /\ UNCHANGED <<save, restore, faults>>
  BY DEF Edit, directories, history, Shelf
<1> HIDE DEF d
<1> QED
  BY <1>1, <1>2, <1>3, DatabaseInv, QuietSound DEF IInv, TypeOK

LEMMA SetRecipientsInv ==
  ASSUME IInv, NEW recipients \in SUBSET Recipients, SetRecipients(recipients)
  PROVE  Inv' /\ Sound' /\ db' \in Database /\ run' \in [Runs -> Run]
<1> DEFINE d == [db EXCEPT !.backup_recipients = recipients]
<1>1. edits' \in 0..MaxEdits
  BY BoundsAssumption DEF SetRecipients, IInv, TypeOK
<1>2. d \in Database
  BY DEF IInv, TypeOK, Database
<1>3. SetDatabase(d) /\ UNCHANGED Shelf /\ UNCHANGED <<save, restore, faults>>
  BY DEF SetRecipients, directories, history, Shelf
<1> HIDE DEF d
<1> QED
  BY <1>1, <1>2, <1>3, DatabaseInv, QuietSound DEF IInv, TypeOK

LEMMA SaveSettingsInv ==
  ASSUME IInv, NEW q \in Requests, NEW settings, NEW pc \in {"mode", "passphrase", "done"},
         Saving(q), SaveSettings(q, settings, pc),
         db.settings # Null => settings \in Settings
  PROVE  Inv' /\ Sound' /\ db' \in Database /\ run' \in [Runs -> Run]
<1> DEFINE value == IF db.settings = Null THEN Null ELSE settings
           d == [db EXCEPT !.settings = value]
           new == IF db.settings = Null \/ pc = "done" THEN NoSave("done")
                  ELSE [save[q] EXCEPT !.pc = pc]
<1>1. d \in Database
  <2>1. value \in Settings \cup {Null}
    OBVIOUS
  <2> HIDE DEF value
  <2> QED
    BY <2>1 DEF IInv, TypeOK, Database
<1>2. SetDatabase(d) /\ UNCHANGED Shelf /\ UNCHANGED <<restore, edits, faults>>
  BY DEF SaveSettings, directories, history, Shelf
<1>3. save' = [save EXCEPT ![q] = new]
  BY DEF SaveSettings
<1>4. new \in Save /\ (new.pc \notin {"unused", "done"} => new.values # Null)
  <2>1. save[q] \in Save /\ save[q].values # Null
    BY DEF IInv, TypeOK, RequestsInv
  <2> QED
    BY <2>1, SaveDone DEF Save
<1>5. faults' \in 0..MaxFaults
  BY <1>2 DEF IInv, TypeOK
<1> HIDE DEF d, new
<1>6. Sound'
  BY <1>2, <1>3, <1>4, <1>5, SaveMoves
<1> QED
  BY <1>1, <1>2, <1>6, DatabaseInv

LEMMA SaveStepInv ==
  ASSUME IInv, NEW q \in Requests, SaveStep(q)
  PROVE  Inv' /\ Sound' /\ db' \in Database /\ run' \in [Runs -> Run]
<1> DEFINE values == save[q].values
<1>1. Saving(q)
  BY DEF SaveStep, SavePace, SaveMode, SavePassphrase, Saving
<1>2. values \in Settings
  BY <1>1 DEF IInv, TypeOK, RequestsInv, Save
<1>3. db.settings \in Settings \cup {Null}
  BY DEF IInv, TypeOK, Database
<1>4. CASE SavePace(q)
  <2> DEFINE settings == [db.settings EXCEPT !.enabled = values.enabled,
                            !.retention = values.retention, !.skip = values.skip]
  <2>1. db.settings # Null => settings \in Settings
    BY <1>2, <1>3 DEF Settings
  <2>2. SaveSettings(q, settings, "mode")
    BY <1>4 DEF SavePace
  <2> HIDE DEF settings
  <2> QED
    BY <1>1, <2>1, <2>2, SaveSettingsInv
<1>5. CASE SaveMode(q)
  <2> DEFINE settings == [db.settings EXCEPT !.mode = values.mode]
  <2>1. db.settings # Null => settings \in Settings
    BY <1>2, <1>3 DEF Settings
  <2>2. SaveSettings(q, settings, "passphrase")
    BY <1>5 DEF SaveMode
  <2> HIDE DEF settings
  <2> QED
    BY <1>1, <2>1, <2>2, SaveSettingsInv
<1>6. CASE SavePassphrase(q)
  <2> DEFINE passphrase == db.settings.passphrase \/ values.passphrase
             settings == [db.settings EXCEPT !.passphrase = passphrase]
  <2>1. db.settings # Null => settings \in Settings
    <3>1. passphrase \in BOOLEAN
      OBVIOUS
    <3> HIDE DEF passphrase
    <3> QED
      BY <3>1, <1>3 DEF Settings
  <2>2. SaveSettings(q, settings, "done")
    BY <1>6 DEF SavePassphrase
  <2> HIDE DEF settings
  <2> QED
    BY <1>1, <2>1, <2>2, SaveSettingsInv
<1> QED
  BY <1>4, <1>5, <1>6 DEF SaveStep

\* A table of the dump, put into the database.
Replaced(table, value) == [db EXCEPT ![table] = value]

LEMMA ReplacedType ==
  ASSUME IInv, NEW dump \in Database, NEW next \in 1..Len(Tables),
         NEW value, value \in {db[Tables[next]], dump[Tables[next]], Null}
  PROVE  Replaced(Tables[next], value) \in Database
<1>1. db \in Database
  BY DEF IInv, TypeOK
<1>2. CASE next = 1
  <2>1. Tables[next] = "backup_recipients"
    BY <1>2 DEF Tables
  <2>2. value \in (SUBSET Recipients) \cup {Null}
    <3> DEFINE S == (SUBSET Recipients) \cup {Null}
    <3>1. db[Tables[next]] \in S /\ dump[Tables[next]] \in S /\ Null \in S
      BY <1>1, <2>1 DEF Database
    <3> HIDE DEF S
    <3>2. value \in S
      BY <3>1
    <3> QED
      BY <3>2 DEF S
  <2> QED
    BY <1>1, <2>1, <2>2 DEF Database, Replaced
<1>3. CASE next = 2
  <2>1. Tables[next] = "settings"
    BY <1>3 DEF Tables
  <2>2. value \in Settings \cup {Null}
    BY <1>1, <2>1 DEF Database
  <2> QED
    BY <1>1, <2>1, <2>2 DEF Database, Replaced
<1>4. CASE next = 3
  <2>1. Tables[next] = "rows"
    BY <1>4 DEF Tables
  <2>2. value \in 0..MaxEdits \cup {Null}
    BY <1>1, <2>1 DEF Database
  <2> QED
    BY <1>1, <2>1, <2>2 DEF Database, Replaced
<1>5. Len(Tables) = 3
  BY DEF Tables
<1> QED
  BY <1>2, <1>3, <1>4, <1>5

LEMMA RestoreStepInv ==
  ASSUME IInv, NEW q \in Requests, RestoreStep(q)
  PROVE  Inv' /\ Sound' /\ db' \in Database /\ run' \in [Runs -> Run]
<1> DEFINE next == restore[q].next
           dump == restore[q].dump
           table == Tables[next]
<1>1. restore[q] \in Restore /\ next \in 1..Len(Tables) /\ dump \in Database
  BY DEF RestoreStep, RestoreDrop, RestoreFill, IInv, TypeOK, RequestsInv, Restore
<1>2. UNCHANGED Shelf /\ UNCHANGED <<save, edits, faults>>
  BY DEF RestoreStep, RestoreDrop, RestoreFill, directories, history, Shelf
<1>3. faults' \in 0..MaxFaults
  BY <1>2 DEF IInv, TypeOK
<1>4. CASE RestoreDrop(q)
  <2> DEFINE value == IF dump[table] = Null THEN db[table] ELSE Null
             d == Replaced(table, value)
             new == [restore[q] EXCEPT !.pc = "fill"]
  <2>1. d \in Database
    BY <1>1, ReplacedType
  <2>2. SetDatabase(d)
    BY <1>4 DEF RestoreDrop, Replaced
  <2>3. restore' = [restore EXCEPT ![q] = new] /\ new \in Restore /\ new.dump # Null
    BY <1>4, <1>1, SentinelsAssumption DEF RestoreDrop, Restore
  <2> HIDE DEF d, new
  <2>4. Sound'
    BY <1>2, <1>3, <2>3, RestoreMoves
  <2> QED
    BY <1>2, <2>1, <2>2, <2>4, DatabaseInv
<1>5. CASE RestoreFill(q)
  <2> DEFINE value == IF dump[table] = Null THEN db[table] ELSE dump[table]
             d == Replaced(table, value)
             new == IF next = Len(Tables) THEN NoRestore("done")
                    ELSE [restore[q] EXCEPT !.pc = "drop", !.next = @ + 1]
  <2>1. d \in Database
    BY <1>1, ReplacedType
  <2>2. SetDatabase(d)
    BY <1>5 DEF RestoreFill, Replaced
  <2>3. restore' = [restore EXCEPT ![q] = new]
    BY <1>5 DEF RestoreFill
  <2>4. new \in Restore /\ (new.pc \in {"drop", "fill"} => new.dump # Null)
    <3>1. CASE next = Len(Tables)
      BY <3>1, RestoreDone
    <3>2. CASE next # Len(Tables)
      <4>1. Len(Tables) = 3
        BY DEF Tables
      <4>2. next + 1 \in 1..Len(Tables)
        BY <1>1, <3>2, <4>1
      <4> QED
        BY <1>1, <3>2, <4>2, SentinelsAssumption DEF Restore
    <3> QED
      BY <3>1, <3>2
  <2> HIDE DEF d, new
  <2>5. Sound'
    BY <1>2, <1>3, <2>3, <2>4, RestoreMoves
  <2> QED
    BY <1>2, <2>1, <2>2, <2>5, DatabaseInv
<1> QED
  BY <1>4, <1>5 DEF RestoreStep

----------------------------------------------------------------------------
(* The invariant *)

\* The types of what a step leaves alone, or has been shown.
LEMMA Assemble ==
  ASSUME Inv', Sound', db' \in Database, run' \in [Runs -> Run],
         files' \in [Names -> File \cup {Null}], sigs' \in [Names -> Database \cup {Null}],
         remote' \in [Names -> File \cup {Null}], clock' \in 0..MaxNames,
         probe' \in BOOLEAN, young' \in BOOLEAN, overlapped' \in BOOLEAN, probed' \in BOOLEAN,
         skewed' \subseteq Names, unset' \subseteq Names, misread' \subseteq Names,
         last' \in [local: 0..MaxNames, remote: 0..MaxNames]
  PROVE  IInv'
<1>1. TypeOK'
  BY DEF Sound, TypeOK
<1> QED
  BY <1>1 DEF Inv, Sound, IInv

\* A step of the requests, of time or of faults: the files stay as they are.
LEMMA AssembleShelved ==
  ASSUME IInv, Inv', Sound', UNCHANGED Shelf, db' \in Database, run' \in [Runs -> Run],
         probe' \in BOOLEAN, young' \in BOOLEAN
  PROVE  IInv'
BY Assemble DEF IInv, TypeOK, Shelf

LEMMA SameSound ==
  ASSUME IInv, UNCHANGED <<save, restore, edits, faults>>
  PROVE  Sound'
BY QuietSound DEF IInv, TypeOK

\* The steps of a run.
LEMMA RunStepInv ==
  ASSUME IInv, NEW r \in Runs, RunStep(r)
  PROVE  IInv'
<1> USE DEF directories, history
<1>1. CASE Dump(r)
  BY <1>1, DumpInv, SameSound, Assemble DEF Dump, IInv, TypeOK
<1>2. CASE Skip(r)
  BY <1>2, EndMoves, EndsInv, SameSound, Assemble DEF Skip, Shelf, IInv, TypeOK
<1>3. CASE Sign(r)
  BY <1>3, SignInv, SameSound, Assemble DEF Sign, IInv, TypeOK
<1>4. CASE ReadMode(r)
  BY <1>4, ReadModeInv, SameSound, Assemble DEF ReadMode, Continue, IInv, TypeOK
<1>5. CASE ReadPassphrase(r)
  BY <1>5, ReadPassphraseInv, SameSound, Assemble DEF ReadPassphrase, Continue, IInv, TypeOK
<1>6. CASE ReadRecipients(r)
  BY <1>6, ReadRecipientsInv, SameSound, Assemble DEF ReadRecipients, Continue, IInv, TypeOK
<1>7. CASE Create(r)
  <2>1. young' \in BOOLEAN
    BY <1>7, Zenon DEF Create
  <2> QED
    BY <1>7, <2>1, CreateInv, SameSound, Assemble DEF Create, IInv, TypeOK
<1>8. CASE Write(r)
  <2>1. young' \in BOOLEAN
    BY <1>8, Zenon DEF Write
  <2> QED
    BY <1>8, <2>1, WriteInv, SameSound, Assemble DEF Write, IInv, TypeOK
<1>9. CASE Rotate(r)
  <2>1. Sound'
    BY <1>9, RotateInv, QuietSound DEF Rotate, IInv, TypeOK
  <2> QED
    BY <1>9, <2>1, RotateInv, Assemble DEF Rotate, IInv, TypeOK
<1>10. CASE Push(r)
  BY <1>10, PushInv, SameSound, Assemble DEF Push, IInv, TypeOK
<1> QED
  BY <1>1, <1>2, <1>3, <1>4, <1>5, <1>6, <1>7, <1>8, <1>9, <1>10 DEF RunStep

\* The faults of a run.
LEMMA RunFaultInv ==
  ASSUME IInv, NEW r \in Runs, Misread(r) \/ CutPush(r) \/ CutRun(r)
  PROVE  IInv'
<1> USE DEF directories, history
<1>1. Fault /\ UNCHANGED <<save, restore, edits>>
  BY DEF Misread, CutPush, CutRun
<1>2. Sound'
  BY <1>1, FaultSound, QuietSound DEF IInv, TypeOK
<1>3. CASE Misread(r)
  BY <1>2, <1>3, MisreadInv, Assemble DEF Misread, IInv, TypeOK
<1>4. CASE CutPush(r)
  BY <1>2, <1>4, CutPushInv, Assemble DEF CutPush, IInv, TypeOK
<1>5. CASE CutRun(r)
  BY <1>2, <1>5, EndMoves, EndsInv, Assemble DEF CutRun, Shelf, IInv, TypeOK
<1> QED
  BY <1>3, <1>4, <1>5

\* Steps that neither the runs nor the database notice.
LEMMA UnnoticedInv ==
  ASSUME IInv, Sound', UNCHANGED <<db, run, Shelf>>, probe' \in BOOLEAN, young' \in BOOLEAN
  PROVE  IInv'
<1>1. Inv'
  BY EndsInv DEF IInv, TypeOK
<1> QED
  BY <1>1, AssembleShelved DEF IInv, TypeOK

LEMMA RequestInv ==
  ASSUME IInv, NEW q \in Requests,
         \/ BackupRun(q)
         \/ SaveBegin(q) \/ SaveStep(q) \/ CutSave(q)
         \/ RestoreBegin(q) \/ RestoreStep(q) \/ CutRestore(q)
  PROVE  IInv'
<1> USE DEF directories, history, Shelf
<1>1. probe \in BOOLEAN /\ young \in BOOLEAN
  BY DEF IInv, TypeOK
<1>2. CASE BackupRun(q)
  <2>1. q \in Runs /\ Begin(q)
    BY <1>2 DEF BackupRun, Runs
  <2> QED
    BY <2>1, BeginInv, SameSound, AssembleShelved DEF Begin, IInv, TypeOK
<1>3. CASE SaveBegin(q)
  BY <1>1, <1>3, SaveBeginSound, UnnoticedInv DEF SaveBegin
<1>4. CASE SaveStep(q)
  <2>1. UNCHANGED Shelf /\ UNCHANGED <<probe, young>>
    BY <1>4 DEF SaveStep, SavePace, SaveMode, SavePassphrase, SaveSettings
  <2> QED
    BY <1>1, <1>4, <2>1, SaveStepInv, AssembleShelved
<1>5. CASE CutSave(q)
  BY <1>1, <1>5, CutSound, UnnoticedInv DEF CutSave
<1>6. CASE RestoreBegin(q)
  BY <1>1, <1>6, RestoreBeginSound, UnnoticedInv DEF RestoreBegin
<1>7. CASE RestoreStep(q)
  <2>1. UNCHANGED Shelf /\ UNCHANGED <<probe, young>>
    BY <1>7 DEF RestoreStep, RestoreDrop, RestoreFill
  <2> QED
    BY <1>1, <1>7, <2>1, RestoreStepInv, AssembleShelved
<1>8. CASE CutRestore(q)
  BY <1>1, <1>8, CutSound, UnnoticedInv DEF CutRestore
<1> QED
  BY <1>2, <1>3, <1>4, <1>5, <1>6, <1>7, <1>8

LEMMA WorldInv ==
  ASSUME IInv,
         \/ \E a \in Recipients : AddBackupRecipient(a) \/ DeleteBackupRecipient(a)
         \/ Edit \/ TestRemote \/ Age \/ Crash
  PROVE  IInv'
<1> USE DEF directories, history, Shelf
<1>1. probe \in BOOLEAN /\ young \in BOOLEAN
  BY DEF IInv, TypeOK
<1>2. ASSUME NEW a \in Recipients, AddBackupRecipient(a) \/ DeleteBackupRecipient(a)
      PROVE  IInv'
  <2>1. PICK recipients \in SUBSET Recipients : SetRecipients(recipients)
    <3>1. db.backup_recipients # Null
      BY <1>2 DEF AddBackupRecipient, DeleteBackupRecipient
    <3>2. db.backup_recipients \in SUBSET Recipients
      BY <3>1 DEF IInv, TypeOK, Database
    <3> QED
      BY <1>2, <3>2 DEF AddBackupRecipient, DeleteBackupRecipient
  <2>2. UNCHANGED Shelf /\ UNCHANGED <<probe, young>>
    BY <2>1 DEF SetRecipients
  <2> QED
    BY <1>1, <2>1, <2>2, SetRecipientsInv, AssembleShelved
<1>3. CASE Edit
  <2>1. UNCHANGED Shelf /\ UNCHANGED <<probe, young>>
    BY <1>3 DEF Edit
  <2> QED
    BY <1>1, <1>3, <2>1, EditInv, AssembleShelved
<1>4. CASE TestRemote
  <2>1. probe' \in BOOLEAN /\ edits' \in 0..MaxEdits
    BY <1>1, <1>4, BoundsAssumption DEF TestRemote, IInv, TypeOK
  <2>2. Sound'
    BY <1>4, <2>1, QuietSound DEF TestRemote, IInv, TypeOK
  <2> QED
    BY <1>1, <1>4, <2>1, <2>2, UnnoticedInv DEF TestRemote
<1>5. CASE Age
  BY <1>1, <1>5, SameSound, UnnoticedInv DEF Age
<1>6. CASE Crash
  <2>1. run' \in [Runs -> Run] /\ \A o \in Runs : run'[o] = run[o] \/ Blank(run'[o])
    BY <1>6, OverType DEF Crash, IInv, TypeOK
  <2>2. Inv'
    BY <1>6, <2>1, EndsInv DEF Crash
  <2> QED
    BY <1>6, <2>1, <2>2, CrashSound, AssembleShelved DEF Crash, IInv, TypeOK
<1> QED
  BY <1>2, <1>3, <1>4, <1>5, <1>6

LEMMA NextInv ==
  ASSUME IInv, Next
  PROVE  IInv'
<1>1. CASE Tick
  <2>1. Task \in Runs /\ Begin(Task)
    BY <1>1 DEF Tick, Runs
  <2> QED
    BY <2>1, BeginInv, SameSound, AssembleShelved
       DEF Begin, directories, history, Shelf, IInv, TypeOK
<1> QED
  BY <1>1, RunStepInv, RunFaultInv, RequestInv, WorldInv DEF Next

LEMMA StutterInv ==
  ASSUME IInv, UNCHANGED vars
  PROVE  IInv'
<1>1. Sound'
  BY SameSound DEF vars
<1> QED
  BY <1>1, UnnoticedInv DEF vars, directories, history, Shelf, IInv, TypeOK

LEMMA InitInv ==
  ASSUME Init
  PROVE  IInv
<1>1. PICK settings \in Settings :
        db = [backup_recipients |-> Recipients, settings |-> settings, rows |-> 0]
  BY DEF Init
<1>2. db \in Database
  BY <1>1, BoundsAssumption DEF Database
<1>3. NoRun("unused") \in Run /\ Blank(NoRun("unused"))
  BY DEF NoRun, Run, Stages, Blank, Names
<1>4. /\ run \in [Runs -> Run]
      /\ \A r \in Runs : run[r].pc = "unused" /\ run[r].name = 0
  BY <1>3 DEF Init, NoRun
<1>5. TypeOK
  <2>1. save \in [Requests -> Save] /\ restore \in [Requests -> Restore]
    BY SaveDone, RestoreDone DEF Init
  <2>2. /\ files \in [Names -> File \cup {Null}] /\ sigs \in [Names -> Database \cup {Null}]
        /\ remote \in [Names -> File \cup {Null}]
    BY DEF Init
  <2>3. /\ clock \in 0..MaxNames /\ edits \in 0..MaxEdits /\ faults \in 0..MaxFaults
        /\ last \in [local: 0..MaxNames, remote: 0..MaxNames]
    BY BoundsAssumption DEF Init
  <2>4. /\ probe \in BOOLEAN /\ overlapped \in BOOLEAN /\ probed \in BOOLEAN
        /\ young \in BOOLEAN /\ skewed \cup unset \cup misread \subseteq Names
    BY DEF Init
  <2> QED
    BY <1>2, <1>4, <2>1, <2>2, <2>3, <2>4 DEF TypeOK
<1>6. RequestsInv
  BY SaveDone, RestoreDone DEF Init, RequestsInv, Saving
<1>7. RunsInv /\ ModeInv
  BY <1>4 DEF RunsInv, ModeInv, Holding, Writing, Choosing
<1>8. SigsInv /\ AloneInv
  BY <1>4 DEF Init, SigsInv, AloneInv, Stored, Writing
<1>9. NewestKept /\ EncryptedAsSet
  BY DEF Init, NewestKept, EncryptedAsSet, Stored
<1> QED
  BY <1>5, <1>6, <1>7, <1>8, <1>9 DEF IInv

----------------------------------------------------------------------------
(* The theorems *)

\* What a run has read and written so far agrees with its name, its file and its reasons,
\* however runs, requests, restores and faults interleave.
THEOREM Invariant == Spec => []IInv
<1>1. IInv /\ [Next]_vars => IInv'
  BY NextInv, StutterInv
<1> QED
  BY InitInv, <1>1, PTL DEF Spec

\* The state keeps its type.
THEOREM TypeCorrect == Spec => []TypeOK
<1>1. IInv => TypeOK
  BY DEF IInv
<1> QED
  BY Invariant, <1>1, PTL

\* Retention, here (rotate) and at the destination (push_to_remote), keeps the newest complete
\* backup, unless runs overlap or, at the destination, the probe of a test is counted.
THEOREM NewestIsKept == Spec => []NewestKept
<1>1. IInv => NewestKept
  BY DEF IInv
<1> QED
  BY Invariant, <1>1, PTL

\* Nothing is written or uploaded in clear unless the settings named no key at some time during
\* the run, or it misread the mode (resolve_enc_mode).
THEOREM ClearHasReason == Spec => []EncryptedAsSet
<1>1. IInv => EncryptedAsSet
  BY DEF IInv
<1> QED
  BY Invariant, <1>1, PTL

\* A run is skipped only when the newest backup holds the present data (run_backup), unless
\* the data changed between the two dumps of the run that wrote it.
THEOREM SkippedIsCovered == Spec => SkipCovered
<1>1. ASSUME IInv, [Next]_vars
      PROVE  [\A r \in Runs :
                Skip(r) => \E n \in Newest(files) : n \in skewed \/ files[n].dump = db]_vars
  <2> SUFFICES ASSUME NEW r \in Runs, Skip(r)
               PROVE  \E n \in Newest(files) : n \in skewed \/ files[n].dump = db
    OBVIOUS
  <2>1. PICK n \in Newest(files) : sigs[n] = db
    BY DEF Skip, Unchanged
  <2>2. db # Null
    BY <1>1, SentinelsAssumption DEF IInv, TypeOK
  <2>3. n \in Stored(files)
    BY <2>1 DEF Newest
  <2> QED
    BY <1>1, <2>1, <2>2, <2>3 DEF IInv, SigsInv
<1> QED
  BY Invariant, <1>1, PTL DEF Spec, SkipCovered

=============================================================================
