---------------------------- MODULE TlsLifecycle ----------------------------
(***************************************************************************)
(* The life of TLS leaf certificates in the database: issuance, the hourly *)
(* auto-renewal task of lifecycle.rs, and the operator requests that run   *)
(* concurrently with it.                                                   *)
(*                                                                         *)
(* Every handler is a chain of autocommitted SQL statements with an await  *)
(* after each, so one action below is one statement (or one transaction),  *)
(* and whatever a handler has read stays in its own record (job, requests) *)
(* until it is used.  A crash of the process keeps the tables and loses    *)
(* the records.                                                            *)
(***************************************************************************)
EXTENDS Integers, FiniteSets

CONSTANTS
  Certs,        \* identifiers of tls_keys rows (fresh UUIDs)
  Seeds,        \* the certificates that exist at the start
  Targets,      \* identifiers of host_applications rows
  Machines,     \* identifiers of machines rows, the hosts
  Gone,         \* those deleted before the start
  HostLists,    \* the sets of hosts an operator issues a certificate for
  Requests,     \* operator requests that take more than one statement
  ValidDays,    \* lifetimes an operator asks for, in days
  RenewDays,    \* values renew_days_before may take
  DefaultDays,  \* its value in a new row
  Reissuable,   \* bound: what a run lets issuable be, of FALSE and TRUE
  ImportFrom, ImportTo,  \* first and last days of certificates made elsewhere
  MaxValid,     \* the longest lifetime the task gives a renewal (825 days)
  BatchLimit,   \* certificates handled by one cycle (LIMIT 50)
  MaxDay,       \* bound: the last day
  MaxFaults,    \* bound: crashes and failing statements
  MaxEdits,     \* bound: operator requests
  Null          \* SQL NULL, or no such row

ASSUME DaysAssumption ==
  /\ ValidDays \subseteq Nat \ {0}
  /\ Reissuable \subseteq BOOLEAN
  /\ ImportFrom \cup ImportTo \subseteq Nat
  /\ RenewDays \subseteq Nat
  /\ DefaultDays \in RenewDays
  /\ MaxValid \in Nat \ {0}

\* 180 is the largest window a request may set, 825 the cap of a renewal.
ASSUME WindowAssumption == \A d \in RenewDays : d <= MaxValid

ASSUME BoundsAssumption ==
  /\ BatchLimit \in Nat \ {0}
  /\ MaxDay \in Nat
  /\ MaxFaults \in Nat
  /\ MaxEdits \in Nat

ASSUME NamesAssumption ==
  /\ Seeds \subseteq Certs
  /\ Gone \subseteq Machines
  /\ HostLists \subseteq SUBSET Machines
  /\ Certs \cap Targets = {}
  /\ Null \notin Certs \cup Targets \cup Machines

VARIABLES
  today,              \* the date, in days
  machines,           \* the table of hosts
  tls_keys,           \* the table of leaf certificates
  issued,             \* identifiers given out so far: deleted ones are not reused
  host_applications,  \* the table of deployment targets
  job,                \* the lifecycle task: where it is and what it has read
  requests,           \* the operator requests in progress
  faults,             \* faults so far
  edits,              \* operator requests so far
  renewedFrom,        \* history: the certificate the task renewed into this one
  repointed,          \* history: certificates whose targets the task has moved
  lateBound,          \* history: targets an operator bound to one of those
  touched,            \* history: certificates an operator changed after issuance
  interrupted,        \* history: certificates whose renewal was cut half-way
  owed                \* history: targets the task moved and has not yet deployed

table == <<tls_keys, issued, renewedFrom>>
history == <<repointed, lateBound, touched, interrupted, owed>>
vars == <<today, machines, table, host_applications, job, requests, faults, edits, history>>

----------------------------------------------------------------------------
(* Rows and records *)

TlsKey == [auto_renew: BOOLEAN, renew_days_before: RenewDays, is_revoked: BOOLEAN,
           valid_from: Nat, valid_to: Nat,
           last_status: {"none", "renewed", "superseded"},
           machine_id: Machines \cup {Null},
           links: SUBSET Machines,  \* its rows of tls_key_machines, deleted with it
           issuable: BOOLEAN]       \* its CA has a key and its name is valid: but for
                                    \* its hosts, it can be issued again

HostApplication == [tls_key_id: Certs \cup {Null}, auto_deploy: BOOLEAN,
                    last_deploy_status: {"none", "success", "failed"}]

ASSUME NullAssumption == Null \notin TlsKey \cup HostApplication

RenewCandidate == [id: Certs, machine_id: Machines \cup {Null}, valid_days: Int,
                   renew_days_before: RenewDays, issuable: BOOLEAN]

NoCandidate == [id |-> Null]

JobRecord == [pc: {"sleep", "next", "generate", "enable", "repoint", "supersede",
                   "targets", "deploy", "push"},
              queue: SUBSET RenewCandidate,
              old: RenewCandidate \cup {NoCandidate},
              hosts: SUBSET Machines,
              new: Certs \cup {Null},
              targets: SUBSET Targets,
              target: Targets \cup {Null}]

Asleep == [pc |-> "sleep", queue |-> {}, old |-> NoCandidate, hosts |-> {}, new |-> Null,
           targets |-> {}, target |-> Null]

Request == [op: {"idle", "patch"}, target: Targets \cup {Null},
            key: Certs \cup {Null}, key_sent: BOOLEAN, auto: BOOLEAN]

Idle == [op |-> "idle", target |-> Null, key |-> Null, key_sent |-> FALSE, auto |-> FALSE]

Live(c) == tls_keys[c] # Null

Bound(t, c) == host_applications[t] # Null /\ host_applications[t].tls_key_id = c

Superseded(c) == Live(c) /\ tls_keys[c].last_status = "superseded"

\* The WHERE clause that selects the certificates to renew.
Due(c) ==
  /\ Live(c)
  /\ tls_keys[c].auto_renew
  /\ ~tls_keys[c].is_revoked
  /\ tls_keys[c].valid_to <= today + tls_keys[c].renew_days_before

\* Mutant of ClampDays: capped at the renewal window instead of 825 days.
ClampToWindow(d) == IF d < 1 THEN 1 ELSE IF d > DefaultDays THEN DefaultDays ELSE d

\* A renewal keeps the lifetime of the old certificate, between 1 and 825 days.
ClampDays(d) == IF d < 1 THEN 1 ELSE IF d > MaxValid THEN MaxValid ELSE d

\* The hosts of a certificate: the one in its own row and those linked to it.
Named(m) == {m} \ {Null}

HostsOf(c) == tls_keys[c].links \cup Named(tls_keys[c].machine_id)

\* A row as the issuing handlers insert it, with the defaults of the columns they leave out.
Row(from, to, m, links, ok) ==
  [auto_renew |-> FALSE, renew_days_before |-> DefaultDays, is_revoked |-> FALSE,
   valid_from |-> from, valid_to |-> to, last_status |-> "none",
   machine_id |-> m, links |-> links, issuable |-> ok]

FreshId == CHOOSE c \in Certs : c \notin issued

Insert(row, from) ==
  /\ ~(Certs \subseteq issued)
  /\ issued' = issued \cup {FreshId}
  /\ tls_keys' = [tls_keys EXCEPT ![FreshId] = row]
  /\ renewedFrom' = [renewedFrom EXCEPT ![FreshId] = from]

\* The host that goes into the row: m, or whichever comes first in a list without order.
FirstHost(m, hosts) ==
  IF m # Null THEN {m} ELSE IF hosts = {} THEN {Null} ELSE hosts

\* Mutant of Generate: only the host of the row is linked.
GenerateOneHost(days, m, hosts, ok, from) ==
  /\ hosts \subseteq machines
  /\ \E first \in FirstHost(m, hosts) :
       Insert(Row(today, today + days, first, Named(first), ok), from)

\* generate_tls_key for a list of hosts, m before the others: every host must exist, the
\* first of them goes into the row and each is linked.  The checks, the row and the links
\* are statements of their own; a host deleted in between is as good as deleted later,
\* for the links are no foreign keys, and the one in the row is.
Generate(days, m, hosts, ok, from) ==
  /\ hosts \subseteq machines
  /\ \E first \in FirstHost(m, hosts) :
       Insert(Row(today, today + days, first, hosts, ok), from)

Candidate(c) == [id |-> c, machine_id |-> tls_keys[c].machine_id,
                 valid_days |-> tls_keys[c].valid_to - tls_keys[c].valid_from,
                 renew_days_before |-> tls_keys[c].renew_days_before,
                 issuable |-> tls_keys[c].issuable]

----------------------------------------------------------------------------
(* The lifecycle task *)

\* The hour is over: SELECT the due certificates, at most LIMIT of them and in
\* no stated order.  An empty result changes nothing.
JobSelect ==
  /\ job.pc = "sleep"
  /\ \E due \in SUBSET {c \in Certs : Due(c)} :
       /\ due # {}
       /\ \/ due = {c \in Certs : Due(c)} /\ Cardinality(due) <= BatchLimit
          \/ Cardinality(due) = BatchLimit
       /\ job' = [Asleep EXCEPT !.pc = "next", !.queue = {Candidate(c) : c \in due}]
  /\ UNCHANGED <<today, machines, table, host_applications, requests, faults, edits, history>>

LinksOf(c) == IF Live(c) THEN tls_keys[c].links ELSE {}

\* renew_one starts on the next candidate, with what the SELECT said of it and the hosts
\* now linked to it.
JobNext ==
  /\ job.pc = "next"
  /\ \E c \in job.queue :
       job' = [Asleep EXCEPT !.pc = "generate", !.queue = job.queue \ {c}, !.old = c,
                             !.hosts = Named(c.machine_id) \cup LinksOf(c.id)]
  /\ UNCHANGED <<today, machines, table, host_applications, requests, faults, edits, history>>

JobCycleEnd ==
  /\ job.pc = "next"
  /\ job.queue = {}
  /\ job' = Asleep
  /\ UNCHANGED <<today, machines, table, host_applications, requests, faults, edits, history>>

\* generate_tls_key inserts the new certificate.
JobGenerate ==
  /\ job.pc = "generate"
  /\ job.old.issuable
  /\ Generate(ClampDays(job.old.valid_days), job.old.machine_id, job.hosts, TRUE, job.old.id)
  /\ job' = [job EXCEPT !.pc = "enable", !.new = FreshId]
  /\ UNCHANGED <<today, machines, host_applications, requests, faults, edits, history>>

\* The row is there and a later statement of generate_tls_key (a link, the audit line)
\* fails: renew_one gives up and the new row stays behind.
JobGenerateThenFail ==
  /\ job.pc = "generate"
  /\ job.old.issuable
  /\ faults < MaxFaults
  /\ faults' = faults + 1
  /\ job.hosts \subseteq machines
  /\ \E first \in FirstHost(job.old.machine_id, job.hosts), links \in SUBSET job.hosts :
       /\ links = {} \/ Named(first) \subseteq links
       /\ Insert(Row(today, today + ClampDays(job.old.valid_days), first, links, TRUE),
                 job.old.id)
  /\ job' = [Asleep EXCEPT !.pc = "next", !.queue = job.queue]
  /\ UNCHANGED <<today, machines, host_applications, requests, edits, history>>

\* generate_tls_key refuses: the CA has no key, or a host is gone.
Refused == job.old.issuable => ~(job.hosts \subseteq machines)

\* Mutant of JobCannotIssue: the first certificate that cannot be renewed ends the cycle.
JobCannotIssueEndsCycle ==
  /\ job.pc = "generate"
  /\ Refused
  /\ job' = Asleep
  /\ UNCHANGED <<today, machines, table, host_applications, requests, faults, edits, history>>

JobCannotIssue ==
  /\ job.pc = "generate"
  /\ Refused
  /\ job' = [Asleep EXCEPT !.pc = "next", !.queue = job.queue]
  /\ UNCHANGED <<today, machines, table, host_applications, requests, faults, edits, history>>

\* Mutant of JobEnable: only the window is copied, auto_renew keeps its default.
JobEnableWindowOnly ==
  /\ job.pc = "enable"
  /\ tls_keys' = [c \in Certs |->
       IF c = job.new /\ Live(c)
         THEN [tls_keys[c] EXCEPT !.renew_days_before = job.old.renew_days_before,
                                  !.last_status = "renewed"]
         ELSE tls_keys[c]]
  /\ job' = [job EXCEPT !.pc = "repoint"]
  /\ UNCHANGED <<today, machines, issued, renewedFrom, host_applications, requests, faults, edits,
                 history>>

\* The new certificate takes over the renewal settings.
JobEnable ==
  /\ job.pc = "enable"
  /\ tls_keys' = [c \in Certs |->
       IF c = job.new /\ Live(c)
         THEN [tls_keys[c] EXCEPT !.auto_renew = TRUE,
                                  !.renew_days_before = job.old.renew_days_before,
                                  !.last_status = "renewed"]
         ELSE tls_keys[c]]
  /\ job' = [job EXCEPT !.pc = "repoint"]
  /\ UNCHANGED <<today, machines, issued, renewedFrom, host_applications, requests, faults, edits,
                 history>>

\* Mutant of JobRepoint: only the targets deployed automatically move.
JobRepointAutomatic ==
  /\ job.pc = "repoint"
  /\ LET moved == {t \in Targets : Bound(t, job.old.id) /\ host_applications[t].auto_deploy}
     IN /\ host_applications' = [t \in Targets |->
             IF t \in moved THEN [host_applications[t] EXCEPT !.tls_key_id = job.new]
                            ELSE host_applications[t]]
        /\ lateBound' = lateBound \ moved
        /\ owed' = owed \cup moved
  /\ repointed' = repointed \cup {job.old.id}
  /\ job' = [job EXCEPT !.pc = "supersede"]
  /\ UNCHANGED <<today, machines, table, requests, faults, edits, touched, interrupted>>

\* Every target of the old certificate moves to the new one.
JobRepoint ==
  /\ job.pc = "repoint"
  /\ LET moved == {t \in Targets : Bound(t, job.old.id)}
     IN /\ host_applications' = [t \in Targets |->
             IF t \in moved THEN [host_applications[t] EXCEPT !.tls_key_id = job.new]
                            ELSE host_applications[t]]
        /\ lateBound' = lateBound \ moved
        /\ owed' = owed \cup moved
  /\ repointed' = repointed \cup {job.old.id}
  /\ job' = [job EXCEPT !.pc = "supersede"]
  /\ UNCHANGED <<today, machines, table, requests, faults, edits, touched, interrupted>>

\* Mutant of JobSupersede: the status is written and auto_renew stays on.
JobSupersedeStatusOnly ==
  /\ job.pc = "supersede"
  /\ tls_keys' = [c \in Certs |->
       IF c = job.old.id /\ Live(c)
         THEN [tls_keys[c] EXCEPT !.last_status = "superseded"]
         ELSE tls_keys[c]]
  /\ job' = [job EXCEPT !.pc = "targets"]
  /\ UNCHANGED <<today, machines, issued, renewedFrom, host_applications, requests, faults, edits,
                 history>>

\* The old certificate retires.
JobSupersede ==
  /\ job.pc = "supersede"
  /\ tls_keys' = [c \in Certs |->
       IF c = job.old.id /\ Live(c)
         THEN [tls_keys[c] EXCEPT !.auto_renew = FALSE, !.last_status = "superseded"]
         ELSE tls_keys[c]]
  /\ job' = [job EXCEPT !.pc = "targets"]
  /\ UNCHANGED <<today, machines, issued, renewedFrom, host_applications, requests, faults, edits,
                 history>>

\* Mutant of JobTargets: the targets are looked up under the old certificate.
JobTargetsOfOld ==
  /\ job.pc = "targets"
  /\ job' = [job EXCEPT !.pc = "deploy",
                        !.targets = {t \in Targets : Bound(t, job.old.id)
                                                     /\ host_applications[t].auto_deploy}]
  /\ UNCHANGED <<today, machines, table, host_applications, requests, faults, edits, history>>

\* The targets to deploy: those now bound to the new certificate and set to auto-deploy.
JobTargets ==
  /\ job.pc = "targets"
  /\ job' = [job EXCEPT !.pc = "deploy",
                        !.targets = {t \in Targets : Bound(t, job.new)
                                                     /\ host_applications[t].auto_deploy}]
  /\ UNCHANGED <<today, machines, table, host_applications, requests, faults, edits, history>>

\* update_host_app_status: a deleted target matches no row.
SetDeployStatus(t, status) ==
  host_applications' = [host_applications EXCEPT ![t] =
    IF @ = Null THEN Null ELSE [@ EXCEPT !.last_deploy_status = status]]

\* resolve_target finds a certificate to install.
Resolvable(t) ==
  /\ host_applications[t].tls_key_id # Null
  /\ Live(host_applications[t].tls_key_id)

\* run_deployment on the next target.  Its job row refers to the target, so nothing
\* starts once the target is deleted; without a certificate it fails at once.
JobDeploy ==
  /\ job.pc = "deploy"
  /\ \E t \in job.targets :
       \/ /\ host_applications[t] = Null
          /\ job' = [job EXCEPT !.targets = @ \ {t}]
          /\ UNCHANGED <<host_applications, owed>>
       \/ /\ host_applications[t] # Null
          /\ Resolvable(t)
          /\ job' = [job EXCEPT !.targets = @ \ {t}, !.pc = "push", !.target = t]
          /\ UNCHANGED <<host_applications, owed>>
       \/ /\ host_applications[t] # Null
          /\ ~Resolvable(t)
          /\ job' = [job EXCEPT !.targets = @ \ {t}]
          /\ SetDeployStatus(t, "failed")
          /\ owed' = owed \ {t}
  /\ UNCHANGED <<today, machines, table, requests, faults, edits, repointed, lateBound, touched,
                 interrupted>>

\* The SSH session ends, well or not: a failure is journalled, reported by mail and
\* never retried.
JobFinishDeploy ==
  /\ job.pc = "push"
  /\ \/ /\ SetDeployStatus(job.target, "success")
        /\ UNCHANGED faults
     \/ /\ faults < MaxFaults
        /\ faults' = faults + 1
        /\ SetDeployStatus(job.target, "failed")
  /\ owed' = owed \ {job.target}
  /\ job' = [job EXCEPT !.pc = "deploy", !.target = Null]
  /\ UNCHANGED <<today, machines, table, requests, edits, repointed, lateBound, touched,
                 interrupted>>

JobRenewed ==
  /\ job.pc = "deploy"
  /\ job.targets = {}
  /\ job' = [Asleep EXCEPT !.pc = "next", !.queue = job.queue]
  /\ UNCHANGED <<today, machines, table, host_applications, requests, faults, edits, history>>

\* The renewal under way has enabled the new certificate and not retired the old one.
HalfRenewed == IF job.pc \in {"repoint", "supersede"} THEN {job.old.id} ELSE {}

\* A statement of renew_one fails: the error is logged and the next candidate gets
\* its turn.
JobFail ==
  /\ job.pc \in {"generate", "enable", "repoint", "supersede", "targets"}
  /\ faults < MaxFaults
  /\ faults' = faults + 1
  /\ interrupted' = interrupted \cup HalfRenewed
  /\ job' = [Asleep EXCEPT !.pc = "next", !.queue = job.queue]
  /\ UNCHANGED <<today, machines, table, host_applications, requests, edits, repointed, lateBound,
                 touched, owed>>

JobStep ==
  \/ JobSelect \/ JobNext \/ JobCycleEnd
  \/ JobGenerate \/ JobCannotIssue
  \/ JobEnable \/ JobRepoint \/ JobSupersede
  \/ JobTargets \/ JobDeploy \/ JobFinishDeploy \/ JobRenewed

----------------------------------------------------------------------------
(* Operator requests *)

Edit == edits < MaxEdits /\ edits' = edits + 1

Touch(c) == touched' = touched \cup {c}

GenerateTlsKey ==
  /\ Edit
  /\ \E days \in ValidDays, hosts \in HostLists, ok \in Reissuable :
       Generate(days, Null, hosts, ok, Null)
  /\ UNCHANGED <<today, machines, host_applications, job, requests, faults, history>>

\* An operator's renewal only issues for the same hosts: no target moves and the old
\* certificate goes on.
RenewTlsKey(c) ==
  /\ Edit
  /\ Live(c)
  /\ tls_keys[c].issuable
  /\ \E days \in ValidDays :
       Generate(days, tls_keys[c].machine_id, HostsOf(c), TRUE, Null)
  /\ UNCHANGED <<today, machines, host_applications, job, requests, faults, history>>

\* A certificate made elsewhere, with the dates it says.  It belongs to one host, which the
\* row's foreign key wants to exist, and is not linked to it.
ImportTlsCertificate ==
  /\ Edit
  /\ \E from \in ImportFrom, to \in ImportTo, m \in machines \cup {Null},
        ok \in Reissuable :
       Insert(Row(from, to, m, {}, ok), Null)
  /\ UNCHANGED <<today, machines, host_applications, job, requests, faults, history>>

SetTlsAutoRenew(c) ==
  /\ Edit
  /\ Live(c)
  /\ \E on \in BOOLEAN, days \in RenewDays :
       tls_keys' = [tls_keys EXCEPT ![c].auto_renew = on, ![c].renew_days_before = days]
  /\ Touch(c)
  /\ UNCHANGED <<today, machines, issued, renewedFrom, host_applications, job, requests, faults,
                 repointed, lateBound, interrupted, owed>>

RevokeTls(c) ==
  /\ Edit
  /\ Live(c)
  /\ tls_keys' = [tls_keys EXCEPT ![c].is_revoked = TRUE]
  /\ Touch(c)
  /\ UNCHANGED <<today, machines, issued, renewedFrom, host_applications, job, requests, faults,
                 repointed, lateBound, interrupted, owed>>

\* The targets keep the identifier of the deleted certificate.
DeleteTlsCert(c) ==
  /\ Edit
  /\ Live(c)
  /\ tls_keys' = [tls_keys EXCEPT ![c] = Null]
  /\ Touch(c)
  /\ UNCHANGED <<today, machines, issued, renewedFrom, host_applications, job, requests, faults,
                 repointed, lateBound, interrupted, owed>>

\* A host goes once no certificate has it in its row.  The other rows that keep a host
\* (ports, targets, credentials) are left out, and the links of certificates do not count.
DeleteMachine(m) ==
  /\ Edit
  /\ m \in machines
  /\ \A c \in Certs : Live(c) => tls_keys[c].machine_id # m
  /\ machines' = machines \ {m}
  /\ UNCHANGED <<today, table, host_applications, job, requests, faults, history>>

\* An operator's statement binds t to c.
BindByOperator(t, c) ==
  lateBound' = IF c \in repointed THEN lateBound \cup {t} ELSE lateBound \ {t}

CreateHostApplication(t) ==
  /\ Edit
  /\ t \notin issued
  /\ issued' = issued \cup {t}
  /\ \E c \in (issued \cap Certs) \cup {Null}, auto \in BOOLEAN :
       /\ host_applications' = [host_applications EXCEPT ![t] =
            [tls_key_id |-> c, auto_deploy |-> auto, last_deploy_status |-> "none"]]
       /\ BindByOperator(t, c)
  /\ UNCHANGED <<today, machines, tls_keys, renewedFrom, job, requests, faults, repointed, touched,
                 interrupted, owed>>

DeleteHostApplication(t) ==
  /\ Edit
  /\ host_applications[t] # Null
  /\ host_applications' = [host_applications EXCEPT ![t] = Null]
  /\ owed' = owed \ {t}
  /\ UNCHANGED <<today, machines, table, job, requests, faults, repointed, lateBound, touched,
                 interrupted>>

\* PATCH, first statement: SELECT the row.  A field that is not sent takes the value
\* just read.
PatchRead(r, t) ==
  /\ Edit
  /\ requests[r].op = "idle"
  /\ host_applications[t] # Null
  /\ \E sent \in BOOLEAN, c \in issued \cap Certs, auto \in BOOLEAN :
       requests' = [requests EXCEPT ![r] =
         [op |-> "patch", target |-> t, key_sent |-> sent, auto |-> auto,
          key |-> IF sent THEN c ELSE host_applications[t].tls_key_id]]
  /\ UNCHANGED <<today, machines, table, host_applications, job, faults, history>>

\* PATCH, second statement: UPDATE every column.
PatchWrite(r) ==
  LET t == requests[r].target
      c == requests[r].key
  IN /\ requests[r].op = "patch"
     /\ host_applications' = [host_applications EXCEPT ![t] =
          IF @ = Null THEN Null
                      ELSE [@ EXCEPT !.tls_key_id = c, !.auto_deploy = requests[r].auto]]
     /\ BindByOperator(t, c)
     /\ requests' = [requests EXCEPT ![r] = Idle]
     /\ UNCHANGED <<today, machines, table, job, faults, edits, repointed, touched,
                    interrupted, owed>>

Operator ==
  \/ GenerateTlsKey \/ ImportTlsCertificate
  \/ \E m \in Machines : DeleteMachine(m)
  \/ \E c \in Certs : RenewTlsKey(c)
  \/ \E c \in Certs : SetTlsAutoRenew(c) \/ RevokeTls(c) \/ DeleteTlsCert(c)
  \/ \E t \in Targets : CreateHostApplication(t) \/ DeleteHostApplication(t)
  \/ \E r \in Requests : PatchWrite(r) \/ \E t \in Targets : PatchRead(r, t)

----------------------------------------------------------------------------
(* The environment *)

NextDay ==
  /\ today < MaxDay
  /\ today' = today + 1
  /\ UNCHANGED <<machines, table, host_applications, job, requests, faults, edits, history>>

\* The process stops and starts again: nothing remembers the cycle it was in.
Crash ==
  /\ faults < MaxFaults
  /\ job # Asleep \/ \E r \in Requests : requests[r] # Idle
  /\ faults' = faults + 1
  /\ job' = Asleep
  /\ requests' = [r \in Requests |-> Idle]
  /\ interrupted' = interrupted \cup HalfRenewed
  /\ UNCHANGED <<today, machines, table, host_applications, edits, repointed, lateBound,
                 touched, owed>>

SeedRow(window, days, m, links, ok) ==
  [Row(0, days, m, links, ok) EXCEPT !.auto_renew = TRUE, !.renew_days_before = window]

SeedRows(window) ==
  {row \in {SeedRow(window, days, m, links, ok) :
              days \in ValidDays, m \in machines \cup {Null}, links \in HostLists,
              ok \in Reissuable} :
     row.machine_id \in FirstHost(Null, row.links)}

\* Certificates issued today and flagged for auto-renewal, some of them by a CA that
\* cannot sign any more, or for hosts deleted since, and targets bound to them.
Init ==
  /\ today = 0
  /\ \E t \in SUBSET Targets : issued = Seeds \cup t
  /\ machines = Machines \ Gone
  /\ \E window \in RenewDays : \E rows \in [Seeds -> SeedRows(window)] :
       tls_keys = [c \in Certs |-> IF c \in Seeds THEN rows[c] ELSE Null]
  /\ \E bound \in [Targets -> Seeds], auto \in BOOLEAN :
       host_applications = [t \in Targets |->
         IF t \in issued
           THEN [tls_key_id |-> bound[t], auto_deploy |-> auto, last_deploy_status |-> "none"]
           ELSE Null]
  /\ job = Asleep
  /\ requests = [r \in Requests |-> Idle]
  /\ faults = 0
  /\ edits = 0
  /\ renewedFrom = [c \in Certs |-> Null]
  /\ repointed = {} /\ lateBound = {} /\ touched = {} /\ interrupted = {} /\ owed = {}

Next ==
  \/ JobStep
  \/ JobGenerateThenFail \/ JobFail \/ Crash
  \/ Operator
  \/ NextDay

Spec == Init /\ [][Next]_vars

\* The task is a loop of its own that only a crash or the end of the process stops,
\* and a crash is followed by a restart: it keeps taking steps, except while it waits
\* for the host it deploys to, where deploy.rs sets no timeout.
FairSpec == Spec /\ WF_vars(job.pc # "push" /\ JobStep)

----------------------------------------------------------------------------
(* Properties *)

\* renew_one is under way.
Holding == job.pc \in {"generate", "enable", "repoint", "supersede", "targets", "deploy",
                       "push"}

TypeOK ==
  /\ today \in Nat
  /\ machines \subseteq Machines
  /\ issued \subseteq Certs \cup Targets
  /\ tls_keys \in [Certs -> TlsKey \cup {Null}]
  /\ renewedFrom \in [Certs -> Certs \cup {Null}]
  /\ host_applications \in [Targets -> HostApplication \cup {Null}]
  /\ job \in JobRecord
  /\ Holding => job.old \in RenewCandidate
  /\ job.pc \in {"enable", "repoint", "supersede", "targets", "deploy", "push"} =>
       job.new \in Certs
  /\ job.pc = "push" => job.target \in Targets
  /\ requests \in [Requests -> Request]
  /\ \A r \in Requests : requests[r].op = "patch" => requests[r].target \in Targets
  /\ faults \in Nat /\ edits \in Nat
  /\ repointed \subseteq Certs /\ touched \subseteq Certs /\ interrupted \subseteq Certs
  /\ lateBound \subseteq Targets /\ owed \subseteq Targets

\* No target is left on a certificate the task has retired, whatever is cut short or
\* fails: the only targets that can be are those an operator's own write put back
\* there after the task had moved them (lifecycle.rs re-points before it retires).
NoStrandedTarget ==
  \A t \in Targets, c \in Certs : Bound(t, c) /\ Superseded(c) => t \in lateBound

\* A retired certificate has an heir that carries the automatic renewal on, unless an
\* operator revoked, deleted or reconfigured the heir: no failure and no crash between
\* two statements of renew_one can end a certificate's automatic renewal.
Carries(n) ==
  \/ n \in touched
  \/ Live(n) /\ (tls_keys[n].auto_renew \/ tls_keys[n].last_status = "superseded")

HeirCarriesOn ==
  \A c \in Certs : Superseded(c) =>
    \E n \in Certs : renewedFrom[n] = c /\ Carries(n)

\* Two certificates renewed from the same one are never both renewed automatically,
\* unless an operator had a hand in it or the first renewal was cut between enabling
\* the new certificate and retiring the old one: only then does a renewal fork.
Heir(n, c) == renewedFrom[n] = c /\ Live(n) /\ tls_keys[n].auto_renew /\ n \notin touched

ForkOnlyWhenInterrupted ==
  \A c, m, n \in Certs :
    Heir(m, c) /\ Heir(n, c) /\ m # n => c \in interrupted \cup touched

\* A renewal never shortens what a host has: the new certificate, capped at 825 days,
\* is valid at least as long as the one it replaces (in whole days, as num_days counts),
\* if that one was valid already: an imported one may be due before its first day, and
\* its renewal counts from today.
HeirOutlives ==
  \A n \in Certs :
    /\ renewedFrom[n] # Null
    /\ Live(n)
    /\ Live(renewedFrom[n])
    /\ tls_keys[renewedFrom[n]].valid_from <= tls_keys[n].valid_from
    => tls_keys[n].valid_to >= tls_keys[renewedFrom[n]].valid_to

\* lifecycle.rs: a renewal keeps all the hosts of the certificate before it, and not only
\* the one in its row, although the host list is read apart from the row, the links are
\* written apart from the new row, and hosts are deleted meanwhile.
HeirKeepsHosts ==
  \A n, c \in Certs : Heir(n, c) /\ Live(c) => HostsOf(c) \subseteq HostsOf(n)

\* What lies outside the code: the hosts the task deploys to answer in the end.
HostsAnswer == []<>(job.pc # "push")

\* generate_tls_key would accept to issue the certificate again.
Renewable(c) == tls_keys[c].issuable /\ HostsOf(c) \subseteq machines

Unrenewable == {c \in Certs : Due(c) /\ ~Renewable(c)}

\* A certificate due for renewal does not stay due for ever, even when others in the
\* same batch can never be renewed (a host of theirs was deleted, their CA has no key), so
\* long as those leave room in the batch and no host keeps the task waiting.
DueIsRenewed ==
  HostsAnswer => \A c \in Certs :
    Due(c) /\ Renewable(c)
      ~> ~(Due(c) /\ Renewable(c)) \/ Cardinality(Unrenewable) >= BatchLimit

Settled(t) ==
  \/ t \notin owed
  \/ host_applications[t] = Null
  \/ ~host_applications[t].auto_deploy

\* The task runs the deployment of every target it has moved to a new certificate, if the
\* target is set to be deployed automatically, hosts answer, and nothing fails or crashes
\* meanwhile.
RedeployedUnlessFault ==
  HostsAnswer => \A t \in Targets : t \in owed ~> Settled(t) \/ faults > 0

\* api.rs, update_host_application: a field the caller did not send is left alone, so a
\* PATCH of the deploy flag leaves the certificate of the target as it finds it.
UnsentFieldLeftAlone ==
  [][\A r \in Requests :
       PatchWrite(r) /\ ~requests[r].key_sent
         => \A t \in Targets :
              host_applications[t] # Null
                => host_applications'[t].tls_key_id = host_applications[t].tls_key_id]_vars

----------------------------------------------------------------------------
(* The inductive invariant: what the task has read stays true of the tables *)
(* while it acts on it, except where an operator intervened.                *)

\* The candidates the task has still to retire.
Pending == job.queue \cup (IF job.pc \in {"generate", "enable"} THEN {job.old} ELSE {})

\* Identifiers are given out once, and everything refers to those given out.
IdsInv ==
  /\ \A c \in Certs : Live(c) => c \in issued
  /\ \A n \in Certs : renewedFrom[n] # Null => n \in issued /\ renewedFrom[n] \in issued
  /\ repointed \subseteq issued
  /\ \A k \in job.queue : k.id \in issued
  /\ Holding => job.old.id \in issued

\* Where the new certificate of the renewal under way stands.
NewInv ==
  /\ job.pc \in {"enable", "repoint", "supersede"} =>
       /\ job.new \in issued \cap Certs
       /\ job.new # job.old.id
       /\ renewedFrom[job.new] = job.old.id
  /\ job.pc \in {"enable", "repoint"} => job.new \notin repointed
  /\ job.pc = "enable" => Live(job.new) \/ job.new \in touched
  /\ job.pc = "enable" => \A n \in Certs : renewedFrom[n] # job.new
  /\ job.pc \in {"repoint", "supersede"} => Carries(job.new)
  /\ job.pc = "supersede" => job.old.id \in repointed

\* Targets leave a certificate before it is retired.
TargetsInv ==
  /\ \A t \in Targets, c \in Certs : Bound(t, c) /\ c \in repointed => t \in lateBound
  /\ \A c \in Certs : Superseded(c) => c \in repointed

\* A candidate is still due and still renewed automatically when its turn comes.
PendingInv ==
  /\ \A k \in Pending :
       /\ k.id \notin touched => Live(k.id) /\ tls_keys[k.id].auto_renew
       /\ Live(k.id) =>
            /\ k.valid_days = tls_keys[k.id].valid_to - tls_keys[k.id].valid_from
            /\ tls_keys[k.id].valid_to <= today + k.renew_days_before
  /\ \A j, k \in job.queue : j.id = k.id => j = k
  /\ Holding => \A k \in job.queue : k.id # job.old.id

\* A certificate with an heir is no longer renewed, save between the two statements
\* that enable the heir and retire it.
ForkInv ==
  \A n, c \in Certs :
    /\ Heir(n, c)
    /\ c \notin interrupted \cup touched
    /\ Live(c)
    /\ tls_keys[c].auto_renew
    => job.pc \in {"repoint", "supersede"} /\ job.old.id = c /\ job.new = n

\* The hosts of a candidate are those of its certificate, then of the renewal under way.
\* The host in a row is there.
HostsInv ==
  /\ \A k \in Pending : Live(k.id) => k.machine_id = tls_keys[k.id].machine_id
  /\ job.pc = "generate" => Named(job.old.machine_id) \subseteq job.hosts
  /\ job.pc = "generate" /\ Live(job.old.id) => HostsOf(job.old.id) = job.hosts
  /\ /\ job.pc \in {"enable", "repoint", "supersede"}
     /\ Live(job.old.id)
     /\ Live(job.new)
     => HostsOf(job.old.id) \subseteq HostsOf(job.new)
  /\ \A c \in Certs : Live(c) => Named(tls_keys[c].machine_id) \subseteq machines

IInv ==
  /\ TypeOK
  /\ IdsInv /\ NewInv /\ TargetsInv /\ PendingInv /\ ForkInv
  /\ HeirCarriesOn /\ ForkOnlyWhenInterrupted /\ HeirOutlives
  /\ HostsInv /\ HeirKeepsHosts

\* What an operator has not changed keeps the settings renew_one gave it: a certificate
\* retired is out of renewal, and both certificates of a renewal are in it until then.
CareInv ==
  /\ touched \subseteq issued
  /\ \A c \in Certs \ touched : Superseded(c) => ~tls_keys[c].auto_renew
  /\ job.pc \in {"repoint", "supersede"} =>
       \A c \in {job.old.id, job.new} \ touched : Live(c) /\ tls_keys[c].auto_renew

----------------------------------------------------------------------------
(* Renewal as a succession *)

Stage ==
  [c \in Certs |->
     IF c \in touched THEN "released"
     ELSE IF ~Live(c) THEN "none"
     ELSE IF Superseded(c) THEN "retired"
     ELSE IF tls_keys[c].auto_renew THEN "kept" ELSE "idle"]

Serving ==
  [t \in Targets |->
     IF host_applications[t] = Null THEN Null ELSE host_applications[t].tls_key_id]

Late == {t \in lateBound : host_applications[t] # Null}

Renewal == INSTANCE Succession WITH
  stage <- Stage, from <- renewedFrom, serves <- Serving, left <- repointed, late <- Late

\* renew_one puts the new certificate in charge, moves the targets to it, and only then
\* retires the old one, a statement each.  Whatever fails, crashes or comes in between,
\* renewals behave as Succession promises.
RenewalIsSuccession == Renewal!Spec

=============================================================================
