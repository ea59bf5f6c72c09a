---------------------------- MODULE AlertsProofs ----------------------------
(***************************************************************************)
(* Nothing is announced twice within its cooldown, proved for any number   *)
(* of certificates, sources, ports, scans and faults and every cooldown.   *)
(***************************************************************************)
EXTENDS Alerts, FiniteSetTheorems, TLAPS

USE DEF Fault

----------------------------------------------------------------------------
(* What a step does to the record of its worker *)

\* The record of w becomes the given one and the others stay.
Becomes(w, pc, queue, subject, channel) ==
  /\ worker' \in [Workers -> Worker]
  /\ worker'[w].pc = pc /\ worker'[w].queue = queue
  /\ worker'[w].subject = subject /\ worker'[w].channel = channel
  /\ \A v \in Workers : v # w => worker'[v] = worker[v]

LEMMA Moves ==
  ASSUME TypeOK, NEW w \in Workers, NEW new \in Worker,
         worker' = [worker EXCEPT ![w] = new]
  PROVE  Becomes(w, new.pc, new.queue, new.subject, new.channel)
BY DEF TypeOK, Becomes

LEMMA IdleType ==
  /\ Idle \in Worker
  /\ Idle.pc = "idle" /\ Idle.queue = {} /\ Idle.subject = Null /\ Idle.channel = 0
BY DEF Idle, Worker

LEMMA IdleMoves ==
  ASSUME TypeOK, NEW w \in Workers, worker' = [worker EXCEPT ![w] = Idle]
  PROVE  Becomes(w, "idle", {}, Null, 0)
<1>1. Becomes(w, Idle.pc, Idle.queue, Idle.subject, Idle.channel)
  BY IdleType, Moves
<1> QED
  BY <1>1, IdleType

\* A worker that has a queue and nothing in hand.
LEMMA QueueMoves ==
  ASSUME TypeOK, NEW w \in Workers, NEW queue \in SUBSET Subjects,
         worker' = [worker EXCEPT ![w] = [Idle EXCEPT !.pc = "next", !.queue = queue]]
  PROVE  Becomes(w, "next", queue, Null, 0)
<1> DEFINE new == [Idle EXCEPT !.pc = "next", !.queue = queue]
<1>1. new \in Worker
  BY DEF Idle, Worker
<1>2. new.pc = "next" /\ new.queue = queue /\ new.subject = Null /\ new.channel = 0
  BY DEF Idle
<1> HIDE DEF new
<1>3. Becomes(w, new.pc, new.queue, new.subject, new.channel)
  BY <1>1, Moves DEF new
<1> QED
  BY <1>2, <1>3

LEMMA NextSubjectMoves ==
  ASSUME TypeOK, NEW w \in Workers, NextSubject(w)
  PROVE  \E pc \in {"idle", "next"} : Becomes(w, pc, worker[w].queue, Null, 0)
<1>1. CASE worker[w].queue = {}
  BY <1>1, IdleMoves DEF NextSubject
<1>2. CASE worker[w].queue # {}
  <2>1. worker[w].queue \in SUBSET Subjects
    BY DEF TypeOK, Worker
  <2> QED
    BY <1>2, <2>1, QueueMoves DEF NextSubject
<1> QED
  BY <1>1, <1>2

LEMMA GotoMoves ==
  ASSUME TypeOK, NEW w \in Workers, NEW pc \in {"send", "record"}, Goto(w, pc)
  PROVE  Becomes(w, pc, worker[w].queue, worker[w].subject, worker[w].channel)
<1> DEFINE new == [worker[w] EXCEPT !.pc = pc]
<1>1. worker[w] \in Worker
  BY DEF TypeOK
<1>2. /\ new \in Worker /\ new.pc = pc /\ new.queue = worker[w].queue
      /\ new.subject = worker[w].subject /\ new.channel = worker[w].channel
  BY <1>1 DEF Worker
<1>3. worker' = [worker EXCEPT ![w] = new]
  BY DEF Goto
<1> HIDE DEF new
<1>4. Becomes(w, new.pc, new.queue, new.subject, new.channel)
  BY <1>2, <1>3, Moves
<1> QED
  BY <1>2, <1>4

LEMMA LookingMoves ==
  ASSUME TypeOK, NEW w \in Workers, NEW s \in Subjects,
         worker' = [worker EXCEPT ![w] = Looking(w, s)]
  PROVE  Becomes(w, "look", worker[w].queue \ {s}, s, 1)
<1> DEFINE new == Looking(w, s)
<1>1. worker[w] \in Worker
  BY DEF TypeOK
<1>2. /\ new \in Worker /\ new.pc = "look" /\ new.queue = worker[w].queue \ {s}
      /\ new.subject = s /\ new.channel = 1
  BY <1>1 DEF Looking, Worker, Channels
<1> HIDE DEF new
<1>3. Becomes(w, new.pc, new.queue, new.subject, new.channel)
  BY <1>2, Moves DEF new
<1> QED
  BY <1>2, <1>3

\* A worker that is rid of a subject without looking.
LEMMA SkipMoves ==
  ASSUME TypeOK, NEW w \in Workers, NEW s \in Subjects,
         worker' = [worker EXCEPT ![w] = [worker[w] EXCEPT !.queue = @ \ {s}]]
  PROVE  Becomes(w, worker[w].pc, worker[w].queue \ {s}, worker[w].subject, worker[w].channel)
<1> DEFINE new == [worker[w] EXCEPT !.queue = @ \ {s}]
<1>1. worker[w] \in Worker
  BY DEF TypeOK
<1>2. /\ new \in Worker /\ new.pc = worker[w].pc /\ new.queue = worker[w].queue \ {s}
      /\ new.subject = worker[w].subject /\ new.channel = worker[w].channel
  BY <1>1 DEF Worker
<1> HIDE DEF new
<1>3. Becomes(w, new.pc, new.queue, new.subject, new.channel)
  BY <1>2, Moves DEF new
<1> QED
  BY <1>2, <1>3

\* The next recipient, or the next subject.
LEMMA NextChannelMoves ==
  ASSUME TypeOK, NEW w \in Workers, worker[w].channel \in Channels, NextChannel(w)
  PROVE  \/ Becomes(w, "look", worker[w].queue, worker[w].subject, 2)
         \/ \E pc \in {"idle", "next"} : Becomes(w, pc, worker[w].queue, Null, 0)
<1>1. CASE worker[w].channel < LastChannel(worker[w].subject)
  <2> DEFINE new == [worker[w] EXCEPT !.pc = "look", !.channel = @ + 1]
  <2>1. worker[w] \in Worker
    BY DEF TypeOK
  <2>2. worker[w].channel + 1 = 2
    BY <1>1 DEF LastChannel, Channels
  <2>3. /\ new \in Worker /\ new.pc = "look" /\ new.queue = worker[w].queue
        /\ new.subject = worker[w].subject /\ new.channel = 2
    BY <2>1, <2>2 DEF Worker, Channels
  <2>4. worker' = [worker EXCEPT ![w] = new]
    BY <1>1 DEF NextChannel
  <2> HIDE DEF new
  <2>5. Becomes(w, new.pc, new.queue, new.subject, new.channel)
    BY <2>3, <2>4, Moves
  <2> QED
    BY <2>3, <2>5
<1>2. CASE ~ (worker[w].channel < LastChannel(worker[w].subject))
  BY <1>2, NextSubjectMoves DEF NextChannel
<1> QED
  BY <1>1, <1>2

----------------------------------------------------------------------------
(* The invariant *)

\* The part of it that is about the worker itself.
Stands(w, pc, queue, subject, channel) ==
  /\ queue \subseteq Watches(w)
  /\ subject \in Watches(w) \cup {Null}
  /\ pc \in {"look", "send", "record"} => subject # Null /\ channel \in Channels

LEMMA WorkersKept ==
  ASSUME WorkersInv, NEW w \in Workers, NEW pc, NEW queue, NEW subject, NEW channel,
         Becomes(w, pc, queue, subject, channel), Stands(w, pc, queue, subject, channel)
  PROVE  WorkersInv'
BY DEF WorkersInv, Becomes, Stands

\* A step that sends nothing, records nothing, and takes up no subject unless it is no longer
\* crossed.
LEMMA StepKept ==
  ASSUME IInv, TypeOK', NEW w \in Workers, NEW pc, NEW queue, NEW subject, NEW channel,
         Becomes(w, pc, queue, subject, channel), Stands(w, pc, queue, subject, channel),
         sent' = sent, pc # "send",
         \/ crossed' = crossed /\ subject \in {Null, worker[w].subject}
         \/ crossed' = crossed \ {w} /\ worker[w].pc # "send"
  PROVE  IInv'
<1>1. WorkersInv'
  BY WorkersKept DEF IInv
<1>2. CrossedInv'
  BY DEF IInv, CrossedInv, Becomes, TypeOK
<1>3. SendInv'
  BY DEF IInv, SendInv, Becomes
<1> QED
  BY <1>1, <1>2, <1>3 DEF IInv

LEMMA InitInv == Init => IInv
<1> SUFFICES ASSUME Init PROVE IInv
  OBVIOUS
<1>1. worker \in [Workers -> Worker]
      /\ \A w \in Workers : /\ worker[w].pc = "idle" /\ worker[w].queue = {}
                            /\ worker[w].subject = Null
  BY IdleType DEF Init
<1>2. sent \in [Subjects -> [Channels -> 0..Never]] /\ checked \in [Ports -> 0..Frequency]
      /\ faults \in 0..MaxFaults
  BY BoundsAssumption DEF Init, Never
<1>3. TypeOK
  BY <1>1, <1>2 DEF Init, TypeOK
<1> QED
  BY <1>1, <1>3 DEF Init, IInv, WorkersInv, CrossedInv, SendInv

LEMMA StutterInv == IInv /\ UNCHANGED vars => IInv'
BY DEF IInv, vars, TypeOK, WorkersInv, CrossedInv, SendInv

LEMMA StartInv ==
  ASSUME IInv, NEW w \in Workers, NEW queue \in SUBSET Subjects, queue \subseteq Watches(w),
         Start(w, queue)
  PROVE  IInv'
<1>1. Becomes(w, "next", queue, Null, 0)
  BY QueueMoves DEF Start, IInv
<1>2. TypeOK'
  BY <1>1 DEF Start, IInv, TypeOK, Becomes
<1>3. Stands(w, "next", queue, Null, 0)
  BY DEF Stands
<1> QED
  BY <1>1, <1>2, <1>3, StepKept DEF Start

LEMMA CycleInv == ASSUME IInv, Cycle PROVE IInv'
<1>1. CASE NotifierCycle
  <2>1. PICK queue \in SUBSET Certs : Start("notifier", queue)
    BY <1>1 DEF NotifierCycle
  <2> QED
    BY <2>1, StartInv DEF Workers, Tasks, Watches, Subjects
<1>2. CASE SiemCycle
  <2>1. PICK queue \in SUBSET Sources : Start("siem", queue)
    BY <1>2 DEF SiemCycle
  <2> QED
    BY <2>1, StartInv DEF Workers, Tasks, Watches, Subjects
<1>3. CASE MonitorCycle
  <2>1. PICK queue \in SUBSET Ports : Start("monitor", queue)
    BY <1>3 DEF MonitorCycle, Batch, DuePorts
  <2> QED
    BY <2>1, StartInv DEF Workers, Tasks, Watches, Subjects
<1> QED
  BY <1>1, <1>2, <1>3 DEF Cycle

LEMMA ScanRequestInv == ASSUME IInv, NEW w \in Scans, ScanRequest(w) PROVE IInv'
<1>1. PICK queue \in SUBSET Ports : Start(w, queue)
  BY DEF ScanRequest, ScanAndStore, RunAllChecks
<1>2. w \in Workers /\ Watches(w) = Ports
  BY TasksAssumption DEF Workers, Tasks, Watches
<1> QED
  BY <1>1, <1>2, StartInv DEF Subjects

LEMMA TakeRowInv ==
  ASSUME IInv, NEW w \in Workers, NEW s \in Subjects, TakeRow(w, s)
  PROVE  IInv'
<1>1. Becomes(w, "look", worker[w].queue \ {s}, s, 1)
  BY LookingMoves DEF TakeRow, IInv
<1>2. TypeOK'
  BY <1>1 DEF TakeRow, IInv, TypeOK, Becomes
<1>3. Stands(w, "look", worker[w].queue \ {s}, s, 1)
  BY SubjectsAssumption DEF TakeRow, Take, IInv, WorkersInv, Stands, Channels
<1> QED
  BY <1>1, <1>2, <1>3, StepKept DEF TakeRow, Take

LEMMA TouchedType ==
  ASSUME TypeOK, NEW p \in Ports
  PROVE  Touched(p) \in Injection(Ports, 1..Cardinality(Ports))
<1> DEFINE n == Cardinality(Ports)
<1>1. n \in Nat
  BY SubjectsAssumption, FS_CardinalityType
<1>2. order \in [Ports -> 1..n] /\ \A a, b \in Ports : order[a] = order[b] => a = b
  BY DEF TypeOK, Injection, IsInjective
<1> HIDE DEF n
<1>3. Touched(p) \in [Ports -> 1..n]
  BY <1>1, <1>2 DEF Touched, n
<1>4. \A a, b \in Ports : Touched(p)[a] = Touched(p)[b] => a = b
  <2> SUFFICES ASSUME NEW a \in Ports, NEW b \in Ports, Touched(p)[a] = Touched(p)[b]
               PROVE  a = b
    OBVIOUS
  <2>1. \A q \in Ports : q # p =>
          Touched(p)[q] = IF order[q] > order[p] THEN order[q] - 1 ELSE order[q]
    BY DEF Touched
  <2>2. Touched(p)[p] = n
    BY DEF Touched, n
  <2>3. \A q \in Ports : q # p => Touched(p)[q] < n
    BY <1>1, <1>2, <2>1
  <2> QED
    BY <1>1, <1>2, <2>1, <2>2, <2>3
<1> QED
  BY <1>3, <1>4 DEF Injection, IsInjective, n

LEMMA ScanInv ==
  ASSUME IInv, NEW w \in Workers, NEW p \in Subjects, Scan(w, p)
  PROVE  IInv'
<1>1. p \in Ports /\ p \in worker[w].queue /\ worker[w].pc = "next"
  BY DEF Scan, Take
<1>2. ASSUME NEW pc, NEW queue, NEW subject, NEW channel,
             Becomes(w, pc, queue, subject, channel), Stands(w, pc, queue, subject, channel),
             pc # "send"
      PROVE  IInv'
  <2>1. checked' \in [Ports -> 0..Frequency]
    BY BoundsAssumption DEF Scan, IInv, TypeOK
  <2>2. order' \in Injection(Ports, 1..Cardinality(Ports))
    BY <1>1, TouchedType DEF Scan, IInv
  <2>3. TypeOK'
    BY <1>2, <2>1, <2>2 DEF Scan, IInv, TypeOK, Becomes
  <2> QED
    BY <1>1, <1>2, <2>3, StepKept DEF Scan
<1>3. CASE Announced(p)
  <2>1. Becomes(w, "look", worker[w].queue \ {p}, p, 1)
    BY <1>3, LookingMoves DEF Scan, IInv
  <2>2. Stands(w, "look", worker[w].queue \ {p}, p, 1)
    BY <1>1, SubjectsAssumption DEF IInv, WorkersInv, Stands, Channels
  <2> QED
    BY <1>2, <2>1, <2>2
<1>4. CASE ~ Announced(p) /\ worker[w].queue = {p}
  <2>1. Becomes(w, "idle", {}, Null, 0)
    BY <1>4, IdleMoves DEF Scan, IInv
  <2>2. Stands(w, "idle", {}, Null, 0)
    BY DEF Stands
  <2> QED
    BY <1>2, <2>1, <2>2
<1>5. CASE ~ Announced(p) /\ worker[w].queue # {p}
  <2>1. Becomes(w, worker[w].pc, worker[w].queue \ {p}, worker[w].subject, worker[w].channel)
    BY <1>5, SkipMoves DEF Scan, IInv
  <2>2. Stands(w, worker[w].pc, worker[w].queue \ {p}, worker[w].subject, worker[w].channel)
    BY DEF IInv, WorkersInv, Stands
  <2> QED
    BY <1>1, <1>2, <2>1, <2>2
<1> QED
  BY <1>3, <1>4, <1>5

LEMMA LookInv == ASSUME IInv, NEW w \in Workers, Look(w) PROVE IInv'
<1>1. /\ worker[w].pc = "look" /\ worker[w].subject # Null /\ worker[w].channel \in Channels
      /\ worker[w].queue \subseteq Watches(w) /\ worker[w].subject \in Watches(w)
  BY DEF Look, IInv, WorkersInv
<1>2. CASE NextChannel(w)
  <2>1. CASE Becomes(w, "look", worker[w].queue, worker[w].subject, 2)
    <3>1. Stands(w, "look", worker[w].queue, worker[w].subject, 2)
      BY <1>1 DEF Stands, Channels
    <3>2. TypeOK'
      BY <2>1 DEF Look, IInv, TypeOK, Becomes
    <3> QED
      BY <2>1, <3>1, <3>2, StepKept DEF Look
  <2>2. ASSUME NEW pc \in {"idle", "next"}, Becomes(w, pc, worker[w].queue, Null, 0)
        PROVE  IInv'
    <3>1. Stands(w, pc, worker[w].queue, Null, 0)
      BY <1>1 DEF Stands
    <3>2. TypeOK'
      BY <2>2 DEF Look, IInv, TypeOK, Becomes
    <3> QED
      BY <2>2, <3>1, <3>2, StepKept DEF Look
  <2> QED
    BY <1>1, <1>2, <2>1, <2>2, NextChannelMoves DEF IInv
<1>3. CASE ~ Recently(w) /\ Goto(w, "send")
  <2>1. Becomes(w, "send", worker[w].queue, worker[w].subject, worker[w].channel)
    BY <1>3, GotoMoves DEF IInv
  <2>2. TypeOK'
    BY <2>1 DEF Look, IInv, TypeOK, Becomes
  <2>3. Stands(w, "send", worker[w].queue, worker[w].subject, worker[w].channel)
    BY <1>1 DEF Stands
  <2>4. WorkersInv'
    BY <2>1, <2>3, WorkersKept DEF IInv
  <2>5. CrossedInv'
    BY <2>1 DEF Look, IInv, CrossedInv, Becomes, TypeOK
  <2>6. sent[worker[w].subject][worker[w].channel] > Cooldown
    <3>1. worker[w].subject \in Subjects
      BY <1>1 DEF Watches, Subjects
    <3>2. sent[worker[w].subject][worker[w].channel] \in 0..Never
      BY <1>1, <3>1 DEF IInv, TypeOK
    <3> QED
      BY <1>3, <3>2, BoundsAssumption DEF Recently, Never
  <2>7. SendInv'
    BY <2>1, <2>6 DEF Look, IInv, SendInv, Becomes
  <2> QED
    BY <2>2, <2>4, <2>5, <2>7 DEF IInv
<1> QED
  BY <1>2, <1>3 DEF Look

LEMMA SendStepInv == ASSUME IInv, NEW w \in Workers, Sends(w) PROVE IInv'
<1>1. /\ worker[w].pc = "send" /\ worker[w].subject # Null /\ worker[w].channel \in Channels
      /\ worker[w].queue \subseteq Watches(w) /\ worker[w].subject \in Watches(w)
  BY DEF Sends, Send, SendToSiem, IInv, WorkersInv
<1>2. CASE Goto(w, "record")
  <2>1. Becomes(w, "record", worker[w].queue, worker[w].subject, worker[w].channel)
    BY <1>2, GotoMoves DEF IInv
  <2>2. TypeOK'
    BY <2>1 DEF Sends, Send, SendToSiem, IInv, TypeOK, Becomes
  <2>3. Stands(w, "record", worker[w].queue, worker[w].subject, worker[w].channel)
    BY <1>1 DEF Stands
  <2> QED
    BY <2>1, <2>2, <2>3, StepKept DEF Sends, Send, SendToSiem
<1>3. CASE worker' = [worker EXCEPT ![w] = Idle]
  <2>1. Becomes(w, "idle", {}, Null, 0)
    BY <1>3, IdleMoves DEF IInv
  <2>2. TypeOK'
    BY <2>1 DEF Sends, Send, SendToSiem, IInv, TypeOK, Becomes
  <2>3. Stands(w, "idle", {}, Null, 0)
    BY DEF Stands
  <2> QED
    BY <2>1, <2>2, <2>3, StepKept DEF Sends, Send, SendToSiem
<1> QED
  BY <1>2, <1>3 DEF Sends, Send, SendToSiem, Goto

LEMMA RecordInv == ASSUME IInv, NEW w \in Workers, Record(w) PROVE IInv'
<1> DEFINE s == worker[w].subject
           ch == worker[w].channel
           others == {v \in Workers \ {w} : /\ worker[v].subject = s /\ worker[v].channel = ch
                                            /\ worker[v].pc = "send"}
<1>1. /\ worker[w].pc = "record" /\ s # Null /\ ch \in Channels
      /\ worker[w].queue \subseteq Watches(w) /\ s \in Watches(w)
  BY DEF Record, IInv, WorkersInv
<1>2. s \in Subjects
  BY <1>1 DEF Watches, Subjects
<1>3. /\ sent' = [sent EXCEPT ![s][ch] = 0] /\ crossed' = crossed \cup others
      /\ NextChannel(w)
  BY DEF Record
<1>4. PICK pc \in {"idle", "next", "look"}, subject \in {s, Null}, channel \in {0, 2} :
        /\ Becomes(w, pc, worker[w].queue, subject, channel)
        /\ Stands(w, pc, worker[w].queue, subject, channel)
  <2>1. CASE Becomes(w, "look", worker[w].queue, s, 2)
    <3>1. Stands(w, "look", worker[w].queue, s, 2)
      BY <1>1 DEF Stands, Channels
    <3> QED
      BY <2>1, <3>1
  <2>2. ASSUME NEW pc \in {"idle", "next"}, Becomes(w, pc, worker[w].queue, Null, 0)
        PROVE  Stands(w, pc, worker[w].queue, Null, 0)
    BY <1>1, <2>2 DEF Stands
  <2> QED
    BY <1>1, <1>3, <2>1, <2>2, NextChannelMoves DEF IInv
<1>5. TypeOK'
  <2>1. sent' \in [Subjects -> [Channels -> 0..Never]]
    BY <1>1, <1>2, <1>3, BoundsAssumption DEF IInv, TypeOK, Never
  <2>2. crossed' \subseteq Workers
    BY <1>3 DEF IInv, TypeOK
  <2> QED
    BY <1>4, <2>1, <2>2 DEF Record, IInv, TypeOK, Becomes
<1>6. WorkersInv'
  BY <1>4, WorkersKept DEF IInv
<1>7. \A v \in others : worker[v].subject \in Ports
  BY <1>1, SubjectsAssumption DEF IInv, WorkersInv, Watches
<1>8. CrossedInv'
  <2>1. \A v \in others : worker'[v] = worker[v]
    BY <1>4 DEF Becomes
  <2>2. \A v \in crossed : worker'[v].subject \in Ports \cup {Null}
    BY <1>4 DEF IInv, CrossedInv, TypeOK, Becomes
  <2> QED
    BY <1>3, <1>7, <2>1, <2>2 DEF CrossedInv
<1>9. SendInv'
  <2> SUFFICES ASSUME NEW v \in Workers \ crossed', worker'[v].pc = "send"
               PROVE  sent'[worker'[v].subject][worker'[v].channel] > Cooldown
    BY DEF SendInv
  <2>1. v # w /\ worker'[v] = worker[v]
    BY <1>4 DEF Becomes
  <2>2. v \notin others /\ v \notin crossed
    BY <1>3
  <2>3. sent[worker[v].subject][worker[v].channel] > Cooldown
    BY <2>1, <2>2 DEF IInv, SendInv
  <2>4. worker[v].subject # s \/ worker[v].channel # ch
    BY <2>1, <2>2
  <2>5. worker[v].subject \in Subjects /\ worker[v].channel \in Channels
    BY <2>1 DEF IInv, WorkersInv, Watches, Subjects
  <2>6. sent'[worker[v].subject][worker[v].channel] = sent[worker[v].subject][worker[v].channel]
    BY <1>1, <1>2, <1>3, <2>4, <2>5 DEF IInv, TypeOK
  <2> QED
    BY <2>1, <2>3, <2>6
<1> QED
  BY <1>5, <1>6, <1>8, <1>9 DEF IInv

LEMMA WorldInv ==
  ASSUME IInv, Switch \/ \E s \in Subjects : Change(s)
  PROVE  IInv'
<1>1. UNCHANGED <<sent, worker, crossed>>
  BY DEF Switch, Change
<1>2. CASE Switch
  BY <1>1, <1>2 DEF Switch, IInv, TypeOK, WorkersInv, CrossedInv, SendInv
<1>3. ASSUME NEW s \in Subjects, Change(s) PROVE IInv'
  <2>1. PICK v \in (IF s \in Ports THEN {"ok", "warning", "unreachable"} ELSE {"ok", "due"}) :
          state' = [state EXCEPT ![s] = v]
    BY <1>3 DEF Change
  <2>2. \A q \in Subjects :
          state'[q] \in IF q \in Ports THEN {"ok", "warning", "unreachable"} ELSE {"ok", "due"}
    BY <2>1 DEF IInv, TypeOK
  <2>3. TypeOK'
    BY <1>3, <2>2 DEF Change, IInv, TypeOK
  <2> QED
    BY <1>1, <2>3 DEF IInv, WorkersInv, CrossedInv, SendInv
<1> QED
  BY <1>2, <1>3

LEMMA OlderType ==
  ASSUME NEW limit \in Nat, NEW age \in 0..limit
  PROVE  Older(age, limit) \in 0..limit /\ Older(age, limit) >= age
BY DEF Older

\* Time does not pass between a look and what it decides.
LEMMA HourInv == ASSUME IInv, Hour PROVE IInv'
<1>1. Never \in Nat /\ Frequency \in Nat
  BY BoundsAssumption DEF Never
<1>2. TypeOK'
  <2>1. sent' \in [Subjects -> [Channels -> 0..Never]]
    BY <1>1, OlderType DEF Hour, IInv, TypeOK
  <2>2. checked' \in [Ports -> 0..Frequency]
    BY <1>1, OlderType DEF Hour, IInv, TypeOK
  <2> QED
    BY <2>1, <2>2 DEF Hour, IInv, TypeOK
<1>3. \A w \in Workers : worker[w].pc # "send"
  BY DEF Hour, Dated, IInv, WorkersInv
<1> QED
  BY <1>2, <1>3 DEF Hour, IInv, WorkersInv, CrossedInv, SendInv

LEMMA FaultType == ASSUME TypeOK, Fault PROVE faults' \in 0..MaxFaults
BY BoundsAssumption DEF TypeOK

LEMMA FailStatementInv == ASSUME IInv, NEW w \in Workers, FailStatement(w) PROVE IInv'
<1>1. worker[w].queue \subseteq Watches(w) /\ worker[w].pc # "send"
  BY DEF FailStatement, IInv, WorkersInv
<1>2. PICK pc \in {"idle", "next"}, queue \in SUBSET Watches(w) :
        Becomes(w, pc, queue, Null, 0)
  <2>1. CASE NextSubject(w)
    BY <1>1, <2>1, NextSubjectMoves DEF IInv
  <2>2. CASE worker' = [worker EXCEPT ![w] = Idle]
    BY <2>2, IdleMoves DEF IInv
  <2> QED
    BY <2>1, <2>2 DEF FailStatement
<1>3. Stands(w, pc, queue, Null, 0)
  BY DEF Stands
<1>4. TypeOK'
  BY <1>2, FaultType DEF FailStatement, IInv, TypeOK, Becomes
<1> QED
  BY <1>2, <1>3, <1>4, StepKept DEF FailStatement

LEMMA FailScanInv ==
  ASSUME IInv, NEW w \in Workers, NEW p \in Subjects, FailScan(w, p)
  PROVE  IInv'
<1>1. CASE worker[w].queue = {p}
  <2>1. Becomes(w, "idle", {}, Null, 0)
    BY <1>1, IdleMoves DEF FailScan, IInv
  <2>2. TypeOK'
    BY <2>1, FaultType DEF FailScan, IInv, TypeOK, Becomes
  <2>3. Stands(w, "idle", {}, Null, 0)
    BY DEF Stands
  <2> QED
    BY <2>1, <2>2, <2>3, StepKept DEF FailScan
<1>2. CASE worker[w].queue # {p}
  <2>1. Becomes(w, worker[w].pc, worker[w].queue \ {p}, worker[w].subject, worker[w].channel)
    BY <1>2, SkipMoves DEF FailScan, IInv
  <2>2. TypeOK'
    BY <2>1, FaultType DEF FailScan, IInv, TypeOK, Becomes
  <2>3. Stands(w, worker[w].pc, worker[w].queue \ {p}, worker[w].subject, worker[w].channel)
    BY DEF IInv, WorkersInv, Stands
  <2>4. worker[w].pc # "send"
    BY DEF FailScan, Take
  <2> QED
    BY <2>1, <2>2, <2>3, <2>4, StepKept DEF FailScan
<1> QED
  BY <1>1, <1>2

LEMMA CrashInv == ASSUME IInv, Crash PROVE IInv'
<1>1. worker' \in [Workers -> Worker]
      /\ \A w \in Workers : /\ worker'[w].pc = "idle" /\ worker'[w].queue = {}
                            /\ worker'[w].subject = Null
  BY IdleType DEF Crash
<1>2. TypeOK'
  BY <1>1, FaultType DEF Crash, IInv, TypeOK
<1> QED
  BY <1>1, <1>2 DEF Crash, IInv, TypeOK, WorkersInv, CrossedInv, SendInv

LEMMA NextInv == ASSUME IInv, Next PROVE IInv'
<1>1. CASE Cycle
  BY <1>1, CycleInv
<1>2. CASE \E w \in Scans : ScanRequest(w)
  BY <1>2, ScanRequestInv
<1>3. CASE \E w \in Workers : Work(w)
  BY <1>3, TakeRowInv, ScanInv, LookInv, RecordInv DEF Work
<1>4. CASE \E w \in Workers : Send(w) \/ SendToSiem(w)
  BY <1>4, SendStepInv DEF Sends
<1>5. CASE \E w \in Workers : FailStatement(w) \/ \E s \in Subjects : FailScan(w, s)
  BY <1>5, FailStatementInv, FailScanInv
<1>6. CASE Switch \/ \E s \in Subjects : Change(s)
  BY <1>6, WorldInv
<1>7. CASE Hour \/ Crash
  BY <1>7, HourInv, CrashInv
<1> QED
  BY <1>1, <1>2, <1>3, <1>4, <1>5, <1>6, <1>7 DEF Next

----------------------------------------------------------------------------
(* The theorems *)

\* What a task has looked up and not acted on yet still holds, unless another announced the
\* same port meanwhile.
THEOREM Invariant == Spec => []IInv
<1>1. IInv /\ [Next]_vars => IInv'
  BY NextInv, StutterInv
<1> QED
  BY InitInv, <1>1, PTL DEF Spec

\* The state keeps its type; in particular an alert goes to the recipients there are
\* (maybe_send_alert) and updated_at orders the ports (scan_target_row).
THEOREM TypeCorrect == Spec => []TypeOK
<1>1. IInv => TypeOK
  BY DEF IInv
<1> QED
  BY Invariant, <1>1, PTL

\* recently_sent and recently_alerted keep every alert to one in a cooldown, but for a port
\* that two workers scan at once.
THEOREM OneAlertInCooldown == Spec => NoRepeat
<1>1. ASSUME IInv, NEW w \in Workers, Sends(w)
      PROVE  \/ sent[worker[w].subject][worker[w].channel] > Cooldown
             \/ w \in crossed /\ worker[w].subject \in Ports
  <2>1. worker[w].pc = "send" /\ worker[w].subject # Null
    BY <1>1 DEF Sends, Send, SendToSiem, IInv, WorkersInv
  <2> QED
    BY <2>1, <1>1 DEF IInv, SendInv, CrossedInv
<1>2. IInv /\ [Next]_vars =>
        [\A w \in Workers :
           Sends(w) =>
             \/ sent[worker[w].subject][worker[w].channel] > Cooldown
             \/ w \in crossed /\ worker[w].subject \in Ports]_vars
  BY <1>1
<1> QED
  BY Invariant, <1>2, PTL DEF Spec, NoRepeat

=============================================================================
