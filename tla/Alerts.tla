------------------------------- MODULE Alerts -------------------------------
(***************************************************************************)
(* The tasks that watch and tell: the notifier announces the certificates  *)
(* that are about to expire, the security monitor the sources of too many  *)
(* refused requests, and the machine monitor scans TLS ports and announces *)
(* those that are in trouble.  Requests scan ports too.                    *)
(*                                                                         *)
(* All go through a list of subjects and, for each, look in a table of     *)
(* events whether it was announced within the cooldown; if not they send   *)
(* and then record, in separate steps.  Time is kept as ages, which stop   *)
(* growing once they are past every limit.                                 *)
(***************************************************************************)
EXTENDS Naturals, FiniteSets, Functions

CONSTANTS
  Certs,      \* certificates, watched by the notifier
  Sources,    \* addresses that requests come from, watched by the security monitor
  Ports,      \* monitored ports, each on a machine of its own
  Mailed,     \* the ports whose alerts go to a mail address besides the webhook
  Scans,      \* requests that scan ports
  Cooldown,   \* hours (minutes for sources) before a subject is announced again
  Frequency,  \* hours between two checks of a port
  BatchLimit, \* ports in a cycle of the monitor
  MaxFaults,  \* bound: crashes and failed statements
  Null

Channels == {1, 2}

Subjects == Certs \cup Sources \cup Ports

Tasks == {"notifier", "siem", "monitor"}

ASSUME TasksAssumption == Scans \cap Tasks = {} /\ Mailed \subseteq Ports

ASSUME SubjectsAssumption ==
  /\ Certs \cap Sources = {} /\ Null \notin Subjects
  /\ IsFiniteSet(Ports)

ASSUME BoundsAssumption ==
  /\ Cooldown \in Nat /\ Frequency \in Nat \ {0} /\ MaxFaults \in Nat

VARIABLES
  watched,     \* the subjects that there are, of one kind: the tasks do not share any
  state,       \* of the subjects, outside
  up,          \* whether deliveries succeed
  sent,        \* the tables of events: the age of the last one, by subject and channel
  checked,     \* the ports' age of last_checked_at
  order,       \* the places of the ports by updated_at
  worker,      \* the tasks and the requests: where they are and what they have read
  faults,      \* faults so far
  crossed      \* history: workers whose subject another one announced after they looked

vars == <<watched, state, up, sent, checked, order, worker, faults, crossed>>

----------------------------------------------------------------------------
(* Ages and records *)

\* An event, or a check, older than any limit, or none.
Never == Cooldown + 1

Workers == Tasks \cup Scans

Worker == [pc: {"idle", "next", "look", "send", "record"},
           queue: SUBSET Subjects, subject: Subjects \cup {Null},
           channel: Channels \cup {0}]

Idle == [pc |-> "idle", queue |-> {}, subject |-> Null, channel |-> 0]

\* What there is to announce: an expiring certificate, a source above the threshold; for ports
\* see Scan.
InTrouble(s) == state[s] # "ok"

\* The webhook comes first.
LastChannel(s) == IF s \in Mailed THEN 2 ELSE 1

\* Mutant of Recently: an event of the very moment is not counted.
RecentlyAfter(w) == sent[worker[w].subject][worker[w].channel] < Cooldown

\* recently_sent, recently_alerted: an event since the present, as it was read, less the
\* cooldown, whatever its status.
Recently(w) == sent[worker[w].subject][worker[w].channel] <= Cooldown

\* The start of the cooldown has been computed: by the notifier and by the security monitor
\* once in a cycle, by the machine monitor for each port that it announces.
Dated(w) ==
  worker[w].pc # "idle" /\ (w \in {"notifier", "siem"} \/ worker[w].subject # Null)

Older(age, limit) == IF age < limit THEN age + 1 ELSE age

Fault == faults < MaxFaults /\ faults' = faults + 1

Goto(w, pc) == worker' = [worker EXCEPT ![w].pc = pc]

\* The queue goes on with another subject, or the cycle is over.
NextSubject(w) ==
  worker' = [worker EXCEPT ![w] =
    IF worker[w].queue = {} THEN Idle ELSE [Idle EXCEPT !.pc = "next", !.queue = worker[w].queue]]

\* Mutant of NextChannel: one recipient too many.
NextChannelPast(w) ==
  IF worker[w].channel <= LastChannel(worker[w].subject)
    THEN worker' = [worker EXCEPT ![w].pc = "look", ![w].channel = @ + 1]
    ELSE NextSubject(w)

\* The next recipient of the same alert, or the next subject.
NextChannel(w) ==
  IF worker[w].channel < LastChannel(worker[w].subject)
    THEN worker' = [worker EXCEPT ![w].pc = "look", ![w].channel = @ + 1]
    ELSE NextSubject(w)

----------------------------------------------------------------------------
(* The start of a cycle *)

Start(w, queue) ==
  /\ worker[w].pc = "idle"
  /\ queue # {}
  /\ worker' = [worker EXCEPT ![w] = [Idle EXCEPT !.pc = "next", !.queue = queue]]
  /\ UNCHANGED <<watched, state, up, sent, checked, order, faults, crossed>>

\* run_once of the notifier, and of the security monitor.
NotifierCycle == Start("notifier", {c \in Certs \cap watched : InTrouble(c)})

SiemCycle == Start("siem", {a \in Sources \cap watched : InTrouble(a)})

DuePorts == {p \in Ports \cap watched : checked[p] >= Frequency}

\* ORDER BY updated_at ASC LIMIT.
Batch(due) == {p \in due : Cardinality({q \in due : order[q] < order[p]}) < BatchLimit}

\* run_due_checks.
MonitorCycle == Start("monitor", Batch(DuePorts))

\* scan_and_store: one port ...
ScanAndStore(w) == \E p \in Ports \cap watched : Start(w, {p})

\* ... and run_all_checks: all there are.
RunAllChecks(w) == Ports \subseteq watched /\ Start(w, Ports)

\* scan_machine_monitor_port, scan_all_machine_monitor_ports.
ScanRequest(w) == w \in Scans /\ (ScanAndStore(w) \/ RunAllChecks(w))

----------------------------------------------------------------------------
(* One subject *)

Take(w, s) ==
  /\ worker[w].pc = "next"
  /\ s \in worker[w].queue

Looking(w, s) ==
  [worker[w] EXCEPT !.pc = "look", !.queue = @ \ {s}, !.subject = s, !.channel = 1]

\* A row of the notifier or of the security monitor.
TakeRow(w, s) ==
  /\ Take(w, s)
  /\ s \notin Ports
  /\ worker' = [worker EXCEPT ![w] = Looking(w, s)]
  /\ crossed' = crossed \ {w}
  /\ UNCHANGED <<watched, state, up, sent, checked, order, faults>>

\* any_other_host_reachable: some of the others are tried; without any the alert is sent.
OtherReachable(p) ==
  LET others == Ports \ {p}
  IN \/ others = {}
     \/ \E q \in others : state[q] # "unreachable"

\* scan_target_row: the port is scanned and its row updated; it is announced if a certificate
\* is about to expire or has expired, or if it cannot be reached while some other can.
Announced(p) ==
  \/ state[p] = "warning"
  \/ state[p] = "unreachable" /\ OtherReachable(p)

\* Mutant of Touched: the row keeps its place.
Untouched(p) == order

\* updated_at is set with the rest.
Touched(p) == [q \in Ports |->
  IF q = p THEN Cardinality(Ports)
  ELSE IF order[q] > order[p] THEN order[q] - 1
  ELSE order[q]]

Scan(w, p) ==
  /\ Take(w, p)
  /\ p \in Ports
  /\ checked' = [checked EXCEPT ![p] = 0]
  /\ order' = Touched(p)
  /\ worker' = [worker EXCEPT ![w] =
       IF Announced(p) THEN Looking(w, p)
       ELSE IF worker[w].queue = {p} THEN Idle
       ELSE [worker[w] EXCEPT !.queue = @ \ {p}]]
  /\ crossed' = crossed \ {w}
  /\ UNCHANGED <<watched, state, up, sent, faults>>

\* The table is looked up before anything is sent.
Look(w) ==
  /\ worker[w].pc = "look"
  /\ IF Recently(w) THEN NextChannel(w) ELSE Goto(w, "send")
  /\ UNCHANGED <<watched, state, up, sent, checked, order, faults, crossed>>

\* send_and_record, maybe_send_alert: what came of it is noted with the event ...
Send(w) ==
  /\ worker[w].pc = "send"
  /\ worker[w].subject \notin Sources
  /\ Goto(w, "record")
  /\ UNCHANGED <<watched, state, up, sent, checked, order, faults, crossed>>

\* ... but the security monitor gives the cycle up when nobody answers.
SendToSiem(w) ==
  /\ worker[w].pc = "send"
  /\ worker[w].subject \in Sources
  /\ worker' = [worker EXCEPT ![w] = IF up THEN [@ EXCEPT !.pc = "record"] ELSE Idle]
  /\ UNCHANGED <<watched, state, up, sent, checked, order, faults, crossed>>

\* record_notification, insert_security_event.
Record(w) ==
  /\ worker[w].pc = "record"
  /\ LET s == worker[w].subject
         ch == worker[w].channel
     IN /\ sent' = [sent EXCEPT ![s][ch] = 0]
        /\ crossed' = crossed \cup {v \in Workers \ {w} :
             worker[v].subject = s /\ worker[v].channel = ch /\ worker[v].pc = "send"}
  /\ NextChannel(w)
  /\ UNCHANGED <<watched, state, up, checked, order, faults>>

----------------------------------------------------------------------------
(* The world, and faults *)

Change(s) ==
  /\ s \in watched
  /\ \E v \in (IF s \in Ports THEN {"ok", "warning", "unreachable"} ELSE {"ok", "due"}) :
       state[s] # v /\ state' = [state EXCEPT ![s] = v]
  /\ UNCHANGED <<watched, up, sent, checked, order, worker, faults, crossed>>

\* Only the security monitor minds.
Switch ==
  /\ Sources \subseteq watched
  /\ up' = ~ up
  /\ UNCHANGED <<watched, state, sent, checked, order, worker, faults, crossed>>

\* An hour passes, or a minute.  Bound: it is not spent between the computation of a cooldown
\* and the events that are compared with it.
Hour ==
  /\ \A w \in Workers : ~ Dated(w)
  /\ sent' = [s \in Subjects |-> [ch \in Channels |-> Older(sent[s][ch], Never)]]
  /\ checked' = [p \in Ports |-> Older(checked[p], Frequency)]
  /\ UNCHANGED <<watched, state, up, order, worker, faults, crossed>>

\* A statement of a cycle fails: the machine monitor goes on with the next port, a cycle of
\* the others is over, and so is what the event would have recorded.
FailStatement(w) ==
  /\ Fault
  /\ worker[w].pc \in {"look", "record"}
  /\ IF worker[w].subject \in Ports THEN NextSubject(w)
     ELSE worker' = [worker EXCEPT ![w] = Idle]
  /\ UNCHANGED <<watched, state, up, sent, checked, order, crossed>>

\* A scan fails before the row is updated.
FailScan(w, p) ==
  /\ Fault
  /\ Take(w, p)
  /\ p \in Ports
  /\ worker' = [worker EXCEPT ![w] =
       IF worker[w].queue = {p} THEN Idle ELSE [worker[w] EXCEPT !.queue = @ \ {p}]]
  /\ UNCHANGED <<watched, state, up, sent, checked, order, crossed>>

\* The process stops and is started again.
Crash ==
  /\ Fault
  /\ worker' = [w \in Workers |-> Idle]
  /\ UNCHANGED <<watched, state, up, sent, checked, order, crossed>>

----------------------------------------------------------------------------
(* The specification *)

Init ==
  /\ watched \in {Certs, Sources, Ports}
  /\ state = [s \in Subjects |-> "ok"]
  /\ up = TRUE
  /\ sent = [s \in Subjects |-> [ch \in Channels |-> Never]]
  /\ checked = [p \in Ports |-> Frequency]
  /\ order \in Injection(Ports, 1..Cardinality(Ports))
  /\ worker = [w \in Workers |-> Idle]
  /\ faults = 0
  /\ crossed = {}

Cycle == NotifierCycle \/ SiemCycle \/ MonitorCycle

\* All but the answer of the other side.
Work(w) ==
  \/ \E s \in Subjects : TakeRow(w, s) \/ Scan(w, s)
  \/ Look(w) \/ Record(w)

Next ==
  \/ Cycle
  \/ \E w \in Scans : ScanRequest(w)
  \/ \E w \in Workers : Work(w) \/ Send(w) \/ SendToSiem(w) \/ FailStatement(w)
  \/ \E s \in Subjects : Change(s) \/ \E w \in Workers : FailScan(w, s)
  \/ Switch \/ Hour \/ Crash

Spec == Init /\ [][Next]_vars

\* The tasks are started by timers and polled until they end; a comparison holds the clock only
\* for the moment that it takes.
FairSpec ==
  /\ Spec
  /\ WF_vars(NotifierCycle) /\ WF_vars(SiemCycle) /\ WF_vars(MonitorCycle)
  /\ \A w \in Workers : WF_vars(Work(w))
  /\ SF_vars(Hour)

----------------------------------------------------------------------------
(* Properties *)

TypeOK ==
  /\ watched \in {Certs, Sources, Ports}
  /\ \A s \in Subjects :
       state[s] \in IF s \in Ports THEN {"ok", "warning", "unreachable"} ELSE {"ok", "due"}
  /\ up \in BOOLEAN
  /\ sent \in [Subjects -> [Channels -> 0..Never]]
  /\ checked \in [Ports -> 0..Frequency]
  /\ order \in Injection(Ports, 1..Cardinality(Ports))
  /\ worker \in [Workers -> Worker]
  /\ faults \in 0..MaxFaults
  /\ crossed \subseteq Workers

Sends(w) == Send(w) \/ SendToSiem(w)

\* Nothing is sent again while an event within the cooldown says that it was, but for a port
\* that two workers scan at the same time, each looking before the other has recorded
\* (recently_sent, recently_alerted; no statement both looks and records).
NoRepeat ==
  [][\A w \in Workers :
       Sends(w) =>
         \/ sent[worker[w].subject][worker[w].channel] > Cooldown
         \/ w \in crossed /\ worker[w].subject \in Ports]_vars

\* What lies outside the code: deliveries are answered (none of them has a timeout of its own),
\* and succeed in the end.
Answered == <>[]up /\ \A w \in Workers : []<>(worker[w].pc # "send")

\* A subject is to be announced.
Worth(s) == s \in watched /\ IF s \in Ports THEN Announced(s) ELSE InTrouble(s)

Told(s, ch) ==
  \E w \in Workers : Sends(w) /\ worker[w].subject = s /\ worker[w].channel = ch

\* A subject that stays in trouble is announced again and again to every recipient, whatever
\* else is due, scanned by hand, fails or crashes: neither the cooldown, which a delivery that
\* failed starts as well, nor the order of the batch can silence it for good (run_once,
\* run_due_checks, scan_target_row).
KeepsTelling ==
  Answered =>
    \A s \in Subjects :
      \A ch \in 1..LastChannel(s) : <>[]Worth(s) => []<><<Told(s, ch)>>_vars

----------------------------------------------------------------------------
(* The inductive invariant *)

\* What a worker may announce: only ports are shared.
Watches(w) ==
  IF w = "notifier" THEN Certs
  ELSE IF w = "siem" THEN Sources
  ELSE Ports

WorkersInv ==
  \A w \in Workers :
    /\ worker[w].queue \subseteq Watches(w)
    /\ worker[w].subject \in Watches(w) \cup {Null}
    /\ worker[w].pc \in {"look", "send", "record"} =>
         worker[w].subject # Null /\ worker[w].channel \in Channels

CrossedInv == \A w \in crossed : worker[w].subject \in Ports \cup {Null}

\* What is being sent was not announced within the cooldown, unless meanwhile by another.
SendInv ==
  \A w \in Workers \ crossed :
    worker[w].pc = "send" => sent[worker[w].subject][worker[w].channel] > Cooldown

IInv == TypeOK /\ WorkersInv /\ CrossedInv /\ SendInv

=============================================================================
