------------------------- MODULE TlsLifecycleProofs -------------------------
(***************************************************************************)
(* The safety invariants of TlsLifecycle, proved for every set of          *)
(* certificates, targets and requests and every value of the bounds.       *)
(***************************************************************************)
EXTENDS TlsLifecycle, TLAPS

USE DEF table, history, Edit, Touch

----------------------------------------------------------------------------
(* Type correctness *)

\* What a candidate says of its certificate is well typed.
LEMMA CandidateType ==
  ASSUME TypeOK, NEW c \in Certs, Live(c)
  PROVE  Candidate(c) \in RenewCandidate
BY DEF TypeOK, Live, Candidate, RenewCandidate, TlsKey

LEMMA FreshIdType ==
  ASSUME ~(Certs \subseteq issued)
  PROVE  FreshId \in Certs /\ FreshId \notin issued
BY DEF FreshId

\* What issuing a certificate does to the tables.
LEMMA InsertType ==
  ASSUME TypeOK, NEW row \in TlsKey, NEW from \in Certs \cup {Null}, Insert(row, from)
  PROVE  /\ issued' \subseteq Certs \cup Targets
         /\ tls_keys' \in [Certs -> TlsKey \cup {Null}]
         /\ renewedFrom' \in [Certs -> Certs \cup {Null}]
BY FreshIdType DEF TypeOK, Insert

LEMMA ClampType ==
  ASSUME NEW d \in Int
  PROVE  ClampDays(d) \in Nat \ {0} /\ ClampDays(d) <= MaxValid
BY DaysAssumption DEF ClampDays

\* A row as it is inserted: nobody renews it yet and it is nobody's heir.
Plain(row) ==
  /\ row \in TlsKey
  /\ ~row.auto_renew
  /\ row.last_status = "none"

LEMMA RowType ==
  ASSUME NEW from \in Nat, NEW to \in Nat, NEW m \in Machines \cup {Null},
         NEW links \in SUBSET Machines, NEW ok \in BOOLEAN
  PROVE  /\ Plain(Row(from, to, m, links, ok))
         /\ Row(from, to, m, links, ok).valid_from = from
         /\ Row(from, to, m, links, ok).valid_to = to
         /\ Row(from, to, m, links, ok).machine_id = m
         /\ Row(from, to, m, links, ok).links = links
BY DaysAssumption DEF Plain, Row, TlsKey

LEMMA FirstHostType ==
  ASSUME NEW m, NEW hosts, NEW first \in FirstHost(m, hosts)
  PROVE  /\ m # Null => first = m
         /\ m = Null => first \in hosts \cup {Null}
BY DEF FirstHost

\* What the renewal under way inserts.
LEMMA RenewalRow ==
  ASSUME TypeOK, JobGenerate \/ JobGenerateThenFail
  PROVE  \E row : /\ Plain(row) /\ Insert(row, job.old.id)
                  /\ row.valid_from = today
                  /\ row.valid_to = today + ClampDays(job.old.valid_days)
                  /\ Named(job.old.machine_id) \subseteq job.hosts
                       => Named(row.machine_id) \subseteq job.hosts
                  /\ JobGenerate => row.links = job.hosts
<1>1. /\ job.old \in RenewCandidate /\ job.hosts \subseteq Machines /\ today \in Nat
      /\ job.hosts \subseteq machines
  BY DEF TypeOK, Holding, JobGenerate, JobGenerateThenFail, Generate, JobRecord
<1>2. /\ job.old.machine_id \in Machines \cup {Null} /\ job.old.valid_days \in Int
  BY <1>1 DEF RenewCandidate
<1>3. today + ClampDays(job.old.valid_days) \in Nat
  BY <1>1, <1>2, ClampType
<1>4. PICK first \in FirstHost(job.old.machine_id, job.hosts), links \in SUBSET job.hosts :
        /\ Insert(Row(today, today + ClampDays(job.old.valid_days), first, links, TRUE),
                  job.old.id)
        /\ JobGenerate => links = job.hosts
  <2>1. CASE JobGenerate
    BY <2>1 DEF JobGenerate, Generate
  <2>2. CASE ~JobGenerate
    BY <2>2 DEF JobGenerateThenFail
  <2> QED
    BY <2>1, <2>2
<1>5. /\ first \in Machines \cup {Null}
      /\ Named(job.old.machine_id) \subseteq job.hosts => Named(first) \subseteq job.hosts
  BY <1>1, <1>2, <1>4, FirstHostType DEF Named
<1>6. links \in SUBSET Machines
  BY <1>1, <1>4
<1> DEFINE to == today + ClampDays(job.old.valid_days)
           row == Row(today, to, first, links, TRUE)
<1>8. to \in Nat /\ TRUE \in BOOLEAN
  BY <1>3
<1> HIDE DEF to
<1>7. /\ Plain(row) /\ row.valid_from = today
      /\ row.valid_to = to
      /\ row.machine_id = first /\ row.links = links
  BY <1>1, <1>5, <1>6, <1>8, DaysAssumption DEF Plain, Row, TlsKey
<1> HIDE DEF row
<1>9. Insert(row, job.old.id)
  BY <1>4 DEF row, to
<1> QED
  BY <1>4, <1>5, <1>7, <1>9 DEF to

\* The operator requests that issue a certificate.
OperatorIssues ==
  GenerateTlsKey \/ ImportTlsCertificate \/ \E c \in Certs : RenewTlsKey(c)

LEMMA OperatorRow ==
  ASSUME TypeOK, OperatorIssues
  PROVE  /\ \E row : /\ Plain(row) /\ Insert(row, Null)
                     /\ Named(row.machine_id) \subseteq machines
         /\ UNCHANGED <<today, machines, host_applications, job, requests, faults, history>>
         /\ edits' = edits + 1
<1> USE DEF TypeOK
<1>1. ASSUME NEW days \in Nat, NEW m \in Machines \cup {Null}, NEW hosts \in SUBSET Machines,
             NEW ok \in BOOLEAN, Generate(days, m, hosts, ok, Null),
             Named(m) \subseteq hosts
      PROVE  \E row : /\ Plain(row) /\ Insert(row, Null)
                      /\ Named(row.machine_id) \subseteq machines
  <2>1. PICK first \in FirstHost(m, hosts) :
          Insert(Row(today, today + days, first, hosts, ok), Null)
    BY <1>1 DEF Generate
  <2>2. first \in Machines \cup {Null} /\ Named(first) \subseteq machines
    BY <1>1, FirstHostType DEF Generate, Named
  <2>3. today \in Nat /\ today + days \in Nat
    BY <1>1
  <2>4. /\ Plain(Row(today, today + days, first, hosts, ok))
        /\ Row(today, today + days, first, hosts, ok).machine_id = first
    BY <1>1, <2>2, <2>3, RowType
  <2> QED
    BY <2>1, <2>2, <2>4
<1>2. CASE GenerateTlsKey
  <2>1. PICK days \in ValidDays, hosts \in HostLists, ok \in Reissuable :
          Generate(days, Null, hosts, ok, Null)
    BY <1>2 DEF GenerateTlsKey
  <2>2. days \in Nat /\ hosts \in SUBSET Machines /\ ok \in BOOLEAN /\ Named(Null) = {}
    BY DaysAssumption, NamesAssumption DEF Named
  <2> QED
    BY <1>1, <1>2, <2>1, <2>2 DEF GenerateTlsKey
<1>3. CASE ImportTlsCertificate
  <2>1. PICK from \in ImportFrom, to \in ImportTo, m \in machines \cup {Null}, ok \in Reissuable :
          Insert(Row(from, to, m, {}, ok), Null)
    BY <1>3 DEF ImportTlsCertificate
  <2>2. /\ from \in Nat /\ to \in Nat /\ m \in Machines \cup {Null} /\ ok \in BOOLEAN
        /\ Named(m) \subseteq machines
    BY DaysAssumption DEF Named
  <2> QED
    BY <1>3, <2>1, <2>2, RowType DEF ImportTlsCertificate
<1>4. ASSUME NEW c \in Certs, RenewTlsKey(c)
      PROVE  /\ \E row : /\ Plain(row) /\ Insert(row, Null)
                         /\ Named(row.machine_id) \subseteq machines
             /\ UNCHANGED <<today, machines, host_applications, job, requests, faults, history>>
             /\ edits' = edits + 1
  <2>1. PICK days \in ValidDays :
          Generate(days, tls_keys[c].machine_id, HostsOf(c), TRUE, Null)
    BY <1>4 DEF RenewTlsKey
  <2>2. tls_keys[c] \in TlsKey
    BY <1>4 DEF RenewTlsKey, Live
  <2>3. /\ days \in Nat /\ tls_keys[c].machine_id \in Machines \cup {Null}
        /\ HostsOf(c) \in SUBSET Machines /\ Named(tls_keys[c].machine_id) \subseteq HostsOf(c)
    BY <2>2, DaysAssumption DEF HostsOf, Named, TlsKey
  <2> QED
    BY <1>1, <1>4, <2>1, <2>3 DEF RenewTlsKey
<1> QED
  BY <1>2, <1>3, <1>4 DEF OperatorIssues

LEMMA JobMoves ==
  ASSUME TypeOK, NEW pc \in {"next", "enable", "repoint", "supersede", "targets", "deploy"}
  PROVE  /\ [job EXCEPT !.pc = pc] \in JobRecord
         /\ [Asleep EXCEPT !.pc = pc, !.queue = job.queue] \in JobRecord
         /\ \A n \in Certs : [job EXCEPT !.pc = pc, !.new = n] \in JobRecord
BY NamesAssumption DEF TypeOK, JobRecord, Asleep

\* The columns the program updates, one statement at a time.
LEMMA RowTypes ==
  ASSUME NEW row \in TlsKey, NEW on \in BOOLEAN, NEW days \in RenewDays
  PROVE  /\ [row EXCEPT !.auto_renew = on, !.renew_days_before = days] \in TlsKey
         /\ [row EXCEPT !.auto_renew = on, !.renew_days_before = days,
                        !.last_status = "renewed"] \in TlsKey
         /\ [row EXCEPT !.auto_renew = on, !.last_status = "superseded"] \in TlsKey
         /\ [row EXCEPT !.is_revoked = on] \in TlsKey
BY DEF TlsKey

LEMMA SeedRowType ==
  ASSUME NEW window \in RenewDays, machines \subseteq Machines, NEW row \in SeedRows(window)
  PROVE  /\ row \in TlsKey /\ row.last_status = "none" /\ row.auto_renew = TRUE
         /\ row.machine_id \in machines \cup {Null}
<1>1. row \in {SeedRow(window, days, m, links, ok) :
                 days \in ValidDays, m \in machines \cup {Null}, links \in HostLists,
                 ok \in Reissuable}
  BY DEF SeedRows
<1>2. PICK days \in ValidDays, m \in machines \cup {Null}, links \in HostLists,
           ok \in Reissuable : row = SeedRow(window, days, m, links, ok)
  BY <1>1
<1>3. /\ days \in Nat /\ m \in Machines \cup {Null} /\ links \in SUBSET Machines
      /\ ok \in BOOLEAN
  BY DaysAssumption, NamesAssumption
<1> QED
  BY <1>2, <1>3, DaysAssumption DEF SeedRow, Row, TlsKey

LEMMA InitType == Init => TypeOK
<1> SUFFICES ASSUME Init PROVE TypeOK
  OBVIOUS
<1> USE DaysAssumption, BoundsAssumption, NamesAssumption
<1>1. tls_keys \in [Certs -> TlsKey \cup {Null}]
  <2>1. PICK window \in RenewDays, rows \in UNION {[Seeds -> SeedRows(w)] : w \in RenewDays} :
          /\ rows \in [Seeds -> SeedRows(window)]
          /\ tls_keys = [c \in Certs |-> IF c \in Seeds THEN rows[c] ELSE Null]
    BY DEF Init
  <2>2. machines \subseteq Machines
    BY DEF Init
  <2>3. \A row \in SeedRows(window) : row \in TlsKey
    BY <2>2, SeedRowType
  <2> QED
    BY <2>1, <2>3
<1>2. host_applications \in [Targets -> HostApplication \cup {Null}]
  BY DEF Init, HostApplication
<1>3. job \in JobRecord
  BY DEF Init, JobRecord, Asleep
<1>4. requests \in [Requests -> Request]
  BY DEF Init, Request, Idle
<1> QED
  BY <1>1, <1>2, <1>3, <1>4 DEF Init, TypeOK, Asleep, Idle, Holding

LEMMA TargetTypes ==
  ASSUME NEW row \in HostApplication, NEW c \in Certs \cup {Null}, NEW auto \in BOOLEAN,
         NEW status \in {"success", "failed"}
  PROVE  /\ [row EXCEPT !.tls_key_id = c] \in HostApplication
         /\ [row EXCEPT !.tls_key_id = c, !.auto_deploy = auto] \in HostApplication
         /\ [row EXCEPT !.last_deploy_status = status] \in HostApplication
BY DEF HostApplication

LEMMA JobType ==
  ASSUME TypeOK, JobStep \/ JobGenerateThenFail \/ JobFail \/ Crash
  PROVE  TypeOK'
<1> USE DaysAssumption, BoundsAssumption, NamesAssumption DEF TypeOK
<1>1. CASE JobSelect
  <2>1. PICK due \in SUBSET {c \in Certs : Due(c)} :
          job' = [Asleep EXCEPT !.pc = "next", !.queue = {Candidate(c) : c \in due}]
    BY <1>1 DEF JobSelect
  <2>2. {Candidate(c) : c \in due} \subseteq RenewCandidate
    BY CandidateType DEF Due
  <2>3. job' \in JobRecord
    BY <2>1, <2>2 DEF JobRecord, Asleep
  <2> QED
    BY <1>1, <2>1, <2>3 DEF JobSelect, Asleep, Holding
<1>2. CASE JobNext
  <2>1. PICK c \in job.queue :
          job' = [Asleep EXCEPT !.pc = "generate", !.queue = job.queue \ {c}, !.old = c,
                                !.hosts = Named(c.machine_id) \cup LinksOf(c.id)]
    BY <1>2 DEF JobNext
  <2>2. c \in RenewCandidate
    BY <2>1 DEF JobRecord
  <2>4. Named(c.machine_id) \cup LinksOf(c.id) \in SUBSET Machines
    BY <2>2 DEF Named, LinksOf, Live, RenewCandidate, TlsKey
  <2>3. job' \in JobRecord
    BY <2>1, <2>2, <2>4 DEF JobRecord, Asleep
  <2> QED
    BY <1>2, <2>1, <2>2, <2>3 DEF JobNext, Asleep, Holding
<1>3. CASE JobCycleEnd
  BY <1>3 DEF JobCycleEnd, JobRecord, Asleep, Holding
<1>4. CASE JobGenerate
  <2>1. job.old \in RenewCandidate
    BY <1>4 DEF JobGenerate, Holding
  <2>2. FreshId \in Certs
    BY <1>4, FreshIdType DEF JobGenerate, Generate, Insert
  <2>3. job' \in JobRecord
    BY <1>4, <2>2 DEF JobGenerate, JobRecord
  <2>4. job.old.id \in Certs
    BY <2>1 DEF RenewCandidate
  <2>5. PICK row \in TlsKey : Insert(row, job.old.id)
    BY <1>4, RenewalRow DEF Plain
  <2> QED
    BY <1>4, <2>1, <2>2, <2>3, <2>4, <2>5, InsertType DEF JobGenerate, JobRecord, Holding
<1>5. CASE JobCannotIssue
  BY <1>5 DEF JobCannotIssue, JobRecord, Asleep, Holding
<1>6. CASE JobEnable
  <2>1. job.old \in RenewCandidate /\ job.new \in Certs
    BY <1>6 DEF JobEnable, Holding
  <2>2. tls_keys' \in [Certs -> TlsKey \cup {Null}]
    BY <1>6, <2>1, RowTypes DEF JobEnable, Live, RenewCandidate
  <2>3. job' \in JobRecord
    BY <1>6, JobMoves DEF JobEnable
  <2> QED
    BY <1>6, <2>1, <2>2, <2>3 DEF JobEnable, JobRecord, Holding
<1>7. CASE JobRepoint
  <2>1. job.old \in RenewCandidate /\ job.new \in Certs
    BY <1>7 DEF JobRepoint, Holding
  <2>2. host_applications' \in [Targets -> HostApplication \cup {Null}]
    BY <1>7, <2>1 DEF JobRepoint, Bound, HostApplication
  <2>3. job' \in JobRecord
    BY <1>7 DEF JobRepoint, JobRecord
  <2> QED
    BY <1>7, <2>1, <2>2, <2>3 DEF JobRepoint, JobRecord, RenewCandidate, Holding
<1>8. CASE JobSupersede
  <2>1. tls_keys' \in [Certs -> TlsKey \cup {Null}]
    BY <1>8, DaysAssumption, RowTypes DEF JobSupersede, Live
  <2>2. job' \in JobRecord
    BY <1>8 DEF JobSupersede, JobRecord
  <2> QED
    BY <1>8, <2>1, <2>2 DEF JobSupersede, JobRecord, Holding
<1>9. CASE JobTargets
  <2>1. job' \in JobRecord
    BY <1>9 DEF JobTargets, JobRecord
  <2> QED
    BY <1>9, <2>1 DEF JobTargets, JobRecord, Holding
<1>10. CASE JobDeploy
  <2>1. PICK t \in Targets :
          /\ job' \in {[job EXCEPT !.targets = @ \ {t}],
                       [job EXCEPT !.targets = @ \ {t}, !.pc = "push", !.target = t]}
          /\ UNCHANGED host_applications \/ SetDeployStatus(t, "failed")
          /\ owed' \subseteq owed
    BY <1>10 DEF JobDeploy, JobRecord
  <2>4. job.pc = "deploy" /\ job.new \in Certs /\ job.old \in RenewCandidate
    BY <1>10 DEF JobDeploy, Holding
  <2>2. host_applications' \in [Targets -> HostApplication \cup {Null}]
    BY <2>1 DEF SetDeployStatus, HostApplication
  <2>3. job' \in JobRecord
    <3>1. CASE job' = [job EXCEPT !.targets = @ \ {t}]
      BY <3>1 DEF JobRecord
    <3>2. CASE job' = [job EXCEPT !.targets = @ \ {t}, !.pc = "push", !.target = t]
      BY <3>2 DEF JobRecord
    <3> QED
      BY <2>1, <3>1, <3>2
  <2>5. /\ job'.new = job.new /\ job'.old = job.old
        /\ job'.pc = "push" => job'.target \in Targets
    <3>0. job \in JobRecord
      BY DEF TypeOK
    <3>1. CASE job' = [job EXCEPT !.targets = @ \ {t}]
      <4>1. job'.new = job.new /\ job'.old = job.old /\ job'.pc = job.pc
        BY <3>0, <3>1 DEF JobRecord
      <4> QED
        BY <2>4, <4>1
    <3>2. CASE job' = [job EXCEPT !.targets = @ \ {t}, !.pc = "push", !.target = t]
      BY <3>0, <3>2 DEF JobRecord
    <3> QED
      BY <2>1, <3>1, <3>2
  <2> QED
    BY <1>10, <2>1, <2>2, <2>3, <2>4, <2>5 DEF JobDeploy, Holding
<1>11. CASE JobFinishDeploy
  <2>1. host_applications' \in [Targets -> HostApplication \cup {Null}]
    BY <1>11 DEF JobFinishDeploy, SetDeployStatus, HostApplication
  <2>2. job' \in JobRecord
    BY <1>11 DEF JobFinishDeploy, JobRecord
  <2> QED
    BY <1>11, <2>1, <2>2 DEF JobFinishDeploy, JobRecord, Holding
<1>12. CASE JobRenewed
  BY <1>12 DEF JobRenewed, JobRecord, Asleep, Holding
<1>13. CASE JobGenerateThenFail
  <2>1. job.old \in RenewCandidate
    BY <1>13 DEF JobGenerateThenFail, Holding
  <2>2. job' \in JobRecord
    BY <1>13, JobMoves DEF JobGenerateThenFail
  <2>3. ~Holding' /\ job'.pc = "next"
    BY <1>13 DEF JobGenerateThenFail, Asleep, Holding
  <2>4. job.old.id \in Certs
    BY <2>1 DEF RenewCandidate
  <2>5. PICK row \in TlsKey : Insert(row, job.old.id)
    BY <1>13, RenewalRow DEF Plain
  <2>6. /\ issued' \subseteq Certs \cup Targets
        /\ tls_keys' \in [Certs -> TlsKey \cup {Null}]
        /\ renewedFrom' \in [Certs -> Certs \cup {Null}]
    BY <2>4, <2>5, InsertType
  <2> QED
    BY <1>13, <2>2, <2>3, <2>6 DEF JobGenerateThenFail
<1>14. CASE JobFail
  <2>1. job' \in JobRecord
    BY <1>14, JobMoves DEF JobFail
  <2>2. HalfRenewed \subseteq Certs
    BY DEF HalfRenewed, Holding, RenewCandidate
  <2> QED
    BY <1>14, <2>1, <2>2 DEF JobFail, Asleep, Holding
<1>15. CASE Crash
  BY <1>15 DEF Crash, JobRecord, Asleep, HalfRenewed, Holding, RenewCandidate, Idle, Request
<1> QED
  BY <1>1, <1>2, <1>3, <1>4, <1>5, <1>6, <1>7, <1>8, <1>9, <1>10, <1>11, <1>12, <1>13,
     <1>14, <1>15 DEF JobStep

LEMMA OperatorType ==
  ASSUME TypeOK, Operator \/ NextDay
  PROVE  TypeOK'
<1> USE DaysAssumption, BoundsAssumption, NamesAssumption DEF TypeOK, Holding
<1>1. CASE OperatorIssues
  <2>1. PICK row \in TlsKey : Insert(row, Null)
    BY <1>1, OperatorRow DEF Plain
  <2> QED
    BY <1>1, <2>1, InsertType, OperatorRow
<1>10. ASSUME NEW m \in Machines, DeleteMachine(m) PROVE TypeOK'
  BY <1>10 DEF DeleteMachine
<1>2. ASSUME NEW c \in Certs, SetTlsAutoRenew(c) PROVE TypeOK'
  <2>1. PICK on \in BOOLEAN, days \in RenewDays :
          tls_keys' = [tls_keys EXCEPT ![c].auto_renew = on, ![c].renew_days_before = days]
    BY <1>2 DEF SetTlsAutoRenew
  <2>2. tls_keys[c] \in TlsKey
    BY <1>2 DEF SetTlsAutoRenew, Live
  <2>3. [tls_keys[c] EXCEPT !.auto_renew = on, !.renew_days_before = days] \in TlsKey
    BY <2>2, RowTypes
  <2>4. tls_keys' \in [Certs -> TlsKey \cup {Null}]
    BY <2>1, <2>3
  <2> QED
    BY <1>2, <2>4 DEF SetTlsAutoRenew
<1>3. ASSUME NEW c \in Certs, RevokeTls(c) PROVE TypeOK'
  <2>1. tls_keys[c] \in TlsKey
    BY <1>3 DEF RevokeTls, Live
  <2>2. [tls_keys[c] EXCEPT !.is_revoked = TRUE] \in TlsKey
    BY <2>1, RowTypes
  <2>3. tls_keys' \in [Certs -> TlsKey \cup {Null}]
    BY <1>3, <2>2 DEF RevokeTls
  <2> QED
    BY <1>3, <2>3 DEF RevokeTls
<1>4. ASSUME NEW c \in Certs, DeleteTlsCert(c) PROVE TypeOK'
  BY <1>4 DEF DeleteTlsCert
<1>5. ASSUME NEW t \in Targets, CreateHostApplication(t) PROVE TypeOK'
  BY <1>5 DEF CreateHostApplication, BindByOperator, HostApplication
<1>6. ASSUME NEW t \in Targets, DeleteHostApplication(t) PROVE TypeOK'
  BY <1>6 DEF DeleteHostApplication
<1>7. ASSUME NEW r \in Requests, NEW t \in Targets, PatchRead(r, t) PROVE TypeOK'
  BY <1>7 DEF PatchRead, Request, HostApplication
<1>8. ASSUME NEW r \in Requests, PatchWrite(r) PROVE TypeOK'
  <2>1. /\ requests[r].target \in Targets
        /\ requests[r].key \in Certs \cup {Null}
        /\ requests[r].auto \in BOOLEAN
    BY <1>8 DEF PatchWrite, Request
  <2>2. host_applications' \in [Targets -> HostApplication \cup {Null}]
    BY <1>8, <2>1, TargetTypes DEF PatchWrite
  <2>3. lateBound' \subseteq Targets
    BY <1>8, <2>1 DEF PatchWrite, BindByOperator
  <2>4. /\ requests' \in [Requests -> Request]
        /\ \A q \in Requests : requests'[q].op = "patch" => requests'[q].target \in Targets
    BY <1>8 DEF PatchWrite, Idle, Request
  <2> QED
    BY <1>8, <2>2, <2>3, <2>4 DEF PatchWrite
<1>9. CASE NextDay
  BY <1>9 DEF NextDay
<1> QED
  BY <1>1, <1>2, <1>3, <1>4, <1>5, <1>6, <1>7, <1>8, <1>9, <1>10
  DEF Operator, OperatorIssues

LEMMA NextType == TypeOK /\ [Next]_vars => TypeOK'
<1>1. CASE UNCHANGED vars
  BY <1>1 DEF vars, TypeOK, Holding
<1> QED
  BY <1>1, JobType, OperatorType DEF Next

\* Every variable keeps its type: what a crash or a failing statement leaves in the
\* tables and in the task's own record is a row and a record like any other.
THEOREM TypeCorrect == Spec => []TypeOK
BY InitType, NextType, PTL DEF Spec

----------------------------------------------------------------------------
(* What a step may do to the tables *)

RowsInserted == JobGenerate \/ JobGenerateThenFail \/ OperatorIssues

LEMMA InsertedRow ==
  ASSUME TypeOK, RowsInserted
  PROVE  \E row, from : /\ Plain(row) /\ Insert(row, from)
                        /\ today' = today /\ machines' = machines
<1>1. CASE JobGenerate \/ JobGenerateThenFail
  BY <1>1, RenewalRow DEF JobGenerate, JobGenerateThenFail
<1>2. CASE OperatorIssues
  BY <1>2, OperatorRow
<1> QED
  BY <1>1, <1>2 DEF RowsInserted

\* What has happened stays so.
LEMMA Monotone ==
  ASSUME TypeOK, Next
  PROVE  /\ issued \subseteq issued' /\ touched \subseteq touched' /\ machines' \subseteq machines
         /\ interrupted \subseteq interrupted' /\ repointed \subseteq repointed'
         /\ today' \in {today, today + 1}
<1>1. CASE JobStep
  BY <1>1 DEF TypeOK, JobStep, JobSelect, JobNext, JobCycleEnd, JobGenerate, Generate, Insert,
     JobCannotIssue, JobEnable, JobRepoint, JobSupersede, JobTargets, JobDeploy,
     JobFinishDeploy, JobRenewed
<1>2. CASE JobGenerateThenFail \/ JobFail \/ Crash \/ NextDay
  BY <1>2 DEF TypeOK, JobGenerateThenFail, JobFail, Crash, NextDay, Insert
<1>3. CASE OperatorIssues
  <2>1. PICK row : Insert(row, Null)
    BY <1>3, OperatorRow
  <2> QED
    BY <1>3, <2>1, OperatorRow DEF Insert
<1>4. CASE Operator /\ ~OperatorIssues
  BY <1>4 DEF Operator, OperatorIssues, SetTlsAutoRenew, RevokeTls, DeleteTlsCert, DeleteMachine,
     CreateHostApplication, DeleteHostApplication, PatchRead, PatchWrite
<1> QED
  BY <1>1, <1>2, <1>3, <1>4 DEF Next

\* The actions that write tls_keys.
LEMMA RowActions ==
  ASSUME TypeOK, Next
  PROVE  \/ RowsInserted \/ JobEnable \/ JobSupersede
         \/ \E x \in Certs : SetTlsAutoRenew(x) \/ RevokeTls(x) \/ DeleteTlsCert(x)
         \/ UNCHANGED <<tls_keys, renewedFrom>> /\ issued' \cap Certs = issued \cap Certs
<1>1. CASE JobStep
  BY <1>1 DEF RowsInserted, JobStep, JobSelect, JobNext, JobCycleEnd, JobCannotIssue,
              JobRepoint, JobTargets, JobDeploy, JobFinishDeploy, JobRenewed
<1>2. CASE Operator
  <2>1. ASSUME NEW t \in Targets, CreateHostApplication(t)
        PROVE  /\ UNCHANGED <<tls_keys, renewedFrom>>
               /\ issued' \cap Certs = issued \cap Certs
    BY <2>1, NamesAssumption DEF CreateHostApplication
  <2> QED
    BY <1>2, <2>1
    DEF RowsInserted, OperatorIssues, Operator, DeleteMachine, DeleteHostApplication,
        PatchRead, PatchWrite
<1>3. CASE JobGenerateThenFail \/ JobFail \/ Crash \/ NextDay
  BY <1>3 DEF RowsInserted, JobFail, Crash, NextDay
<1> QED
  BY <1>1, <1>2, <1>3 DEF Next

LEMMA MachinesSteps ==
  ASSUME TypeOK, Next
  PROVE  machines' = machines \/ \E m \in Machines : DeleteMachine(m)
<1>1. CASE JobStep \/ JobGenerateThenFail \/ JobFail \/ Crash \/ NextDay
  BY <1>1 DEF JobStep, JobSelect, JobNext, JobCycleEnd, JobGenerate, JobGenerateThenFail,
     JobCannotIssue, JobEnable, JobRepoint, JobSupersede, JobTargets, JobDeploy,
     JobFinishDeploy, JobRenewed, JobFail, Crash, NextDay
<1>2. CASE Operator
  BY <1>2, OperatorRow
  DEF Operator, OperatorIssues, SetTlsAutoRenew, RevokeTls, DeleteTlsCert,
      CreateHostApplication, DeleteHostApplication, PatchRead, PatchWrite
<1> QED
  BY <1>1, <1>2 DEF Next

\* A row that has been issued keeps its dates and hosts for ever, and changes otherwise only by an
\* operator's hand or at two points of renew_one.
RowStep(c) ==
  \/ tls_keys'[c] = tls_keys[c]
  \/ c \in touched' /\ tls_keys'[c] = Null
  \/ /\ c \in touched' /\ Live(c) /\ Live(c)'
     /\ tls_keys'[c].valid_from = tls_keys[c].valid_from
     /\ tls_keys'[c].valid_to = tls_keys[c].valid_to
     /\ tls_keys'[c].last_status = tls_keys[c].last_status
     /\ tls_keys'[c].machine_id = tls_keys[c].machine_id
     /\ tls_keys'[c].links = tls_keys[c].links
  \/ /\ JobEnable /\ c = job.new /\ Live(c) /\ Live(c)'
     /\ tls_keys'[c] = [tls_keys[c] EXCEPT !.auto_renew = TRUE,
                          !.renew_days_before = job.old.renew_days_before,
                          !.last_status = "renewed"]
  \/ /\ JobSupersede /\ c = job.old.id /\ Live(c) /\ Live(c)'
     /\ tls_keys'[c] = [tls_keys[c] EXCEPT !.auto_renew = FALSE,
                          !.last_status = "superseded"]

LEMMA RowSteps ==
  ASSUME TypeOK, TypeOK', Next, NEW c \in Certs, c \in issued
  PROVE  RowStep(c) /\ renewedFrom'[c] = renewedFrom[c]
<1> USE NamesAssumption, NullAssumption DEF TypeOK, RowStep
<1>1. CASE RowsInserted
  <2>1. PICK row, from : Insert(row, from)
    BY <1>1, InsertedRow
  <2>2. FreshId # c
    BY <2>1, FreshIdType DEF Insert
  <2> QED
    BY <2>1, <2>2 DEF Insert
<1>2. CASE JobEnable
  <2>1. CASE c = job.new /\ Live(c)
    <3>1. /\ tls_keys'[c] = [tls_keys[c] EXCEPT !.auto_renew = TRUE,
                          !.renew_days_before = job.old.renew_days_before,
                          !.last_status = "renewed"]
          /\ job.old \in RenewCandidate
          /\ renewedFrom' = renewedFrom
      BY <1>2, <2>1 DEF JobEnable, Holding
    <3>2. job.old.renew_days_before \in RenewDays /\ tls_keys[c] \in TlsKey
      BY <2>1, <3>1 DEF Live, RenewCandidate
    <3>3. [tls_keys[c] EXCEPT !.auto_renew = TRUE,
             !.renew_days_before = job.old.renew_days_before,
             !.last_status = "renewed"] \in TlsKey
      BY <3>2, RowTypes
    <3>4. tls_keys'[c] \in TlsKey
      BY <3>1, <3>3
    <3> QED
      BY <1>2, <2>1, <3>1, <3>4 DEF Live
  <2>2. CASE ~(c = job.new /\ Live(c))
    BY <1>2, <2>2 DEF JobEnable
  <2> QED
    BY <2>1, <2>2
<1>3. CASE JobSupersede
  <2>1. CASE c = job.old.id /\ Live(c)
    <3>1. /\ tls_keys'[c] = [tls_keys[c] EXCEPT !.auto_renew = FALSE,
                          !.last_status = "superseded"]
          /\ renewedFrom' = renewedFrom
      BY <1>3, <2>1 DEF JobSupersede
    <3>2. tls_keys[c] \in TlsKey
      BY <2>1 DEF Live
    <3>3. [tls_keys[c] EXCEPT !.auto_renew = FALSE, !.last_status = "superseded"] \in TlsKey
      BY <3>2, RowTypes, DaysAssumption
    <3>4. tls_keys'[c] \in TlsKey
      BY <3>1, <3>3
    <3> QED
      BY <1>3, <2>1, <3>1, <3>4 DEF Live
  <2>2. CASE ~(c = job.old.id /\ Live(c))
    BY <1>3, <2>2 DEF JobSupersede
  <2> QED
    BY <2>1, <2>2
<1>4. ASSUME NEW x \in Certs, SetTlsAutoRenew(x)
      PROVE  RowStep(c) /\ renewedFrom'[c] = renewedFrom[c]
  <2>1. CASE c = x
    <3>1. tls_keys[c] \in TlsKey
      BY <1>4, <2>1 DEF SetTlsAutoRenew, Live
    <3>2. PICK on \in BOOLEAN, days \in RenewDays :
            tls_keys' = [tls_keys EXCEPT ![x].auto_renew = on, ![x].renew_days_before = days]
      BY <1>4 DEF SetTlsAutoRenew
    <3>3. tls_keys'[c] = [tls_keys[c] EXCEPT !.auto_renew = on, !.renew_days_before = days]
      BY <2>1, <3>2
    <3>6. [tls_keys[c] EXCEPT !.auto_renew = on, !.renew_days_before = days] \in TlsKey
      BY <3>1, RowTypes
    <3>4. tls_keys'[c] \in TlsKey
      BY <3>3, <3>6
    <3>5. /\ tls_keys'[c].valid_from = tls_keys[c].valid_from
          /\ tls_keys'[c].valid_to = tls_keys[c].valid_to
          /\ tls_keys'[c].last_status = tls_keys[c].last_status
          /\ tls_keys'[c].machine_id = tls_keys[c].machine_id
          /\ tls_keys'[c].links = tls_keys[c].links
      BY <3>1, <3>3 DEF TlsKey
    <3> QED
      BY <1>4, <2>1, <3>1, <3>4, <3>5 DEF SetTlsAutoRenew, Live
  <2>2. CASE c # x
    BY <1>4, <2>2 DEF SetTlsAutoRenew
  <2> QED
    BY <2>1, <2>2
<1>5. ASSUME NEW x \in Certs, RevokeTls(x)
      PROVE  RowStep(c) /\ renewedFrom'[c] = renewedFrom[c]
  <2>1. CASE c = x
    <3>1. tls_keys[c] \in TlsKey
      BY <1>5, <2>1 DEF RevokeTls, Live
    <3>2. tls_keys'[c] = [tls_keys[c] EXCEPT !.is_revoked = TRUE]
      BY <1>5, <2>1 DEF RevokeTls
    <3>5. [tls_keys[c] EXCEPT !.is_revoked = TRUE] \in TlsKey
      BY <3>1, RowTypes, DaysAssumption
    <3>3. tls_keys'[c] \in TlsKey
      BY <3>2, <3>5
    <3>4. /\ tls_keys'[c].valid_from = tls_keys[c].valid_from
          /\ tls_keys'[c].valid_to = tls_keys[c].valid_to
          /\ tls_keys'[c].last_status = tls_keys[c].last_status
          /\ tls_keys'[c].machine_id = tls_keys[c].machine_id
          /\ tls_keys'[c].links = tls_keys[c].links
      BY <3>1, <3>2 DEF TlsKey
    <3> QED
      BY <1>5, <2>1, <3>1, <3>3, <3>4 DEF RevokeTls, Live
  <2>2. CASE c # x
    BY <1>5, <2>2 DEF RevokeTls
  <2> QED
    BY <2>1, <2>2
<1>6. ASSUME NEW x \in Certs, DeleteTlsCert(x)
      PROVE  RowStep(c) /\ renewedFrom'[c] = renewedFrom[c]
  BY <1>6 DEF DeleteTlsCert
<1>7. CASE UNCHANGED <<tls_keys, renewedFrom>>
  BY <1>7
<1> QED
  BY <1>1, <1>2, <1>3, <1>4, <1>5, <1>6, <1>7, RowActions

\* An identifier not issued yet gets a row only from Insert.
LEMMA FreshSteps ==
  ASSUME TypeOK, TypeOK', IdsInv, Next, NEW c \in Certs, c \notin issued
  PROVE  \/ tls_keys'[c] = Null /\ renewedFrom'[c] = Null /\ c \notin issued'
         \/ RowsInserted /\ c \in issued' /\ c = FreshId
<1> USE NamesAssumption DEF TypeOK, IdsInv, Live
<1>1. CASE RowsInserted
  <2>1. PICK row, from : Insert(row, from)
    BY <1>1, InsertedRow
  <2> QED
    BY <1>1, <2>1, FreshIdType DEF Insert
<1>2. CASE JobEnable
  BY <1>2 DEF JobEnable
<1>3. CASE JobSupersede
  BY <1>3 DEF JobSupersede
<1>4. ASSUME NEW x \in Certs, SetTlsAutoRenew(x) \/ RevokeTls(x) \/ DeleteTlsCert(x)
      PROVE  tls_keys'[c] = Null /\ renewedFrom'[c] = Null /\ c \notin issued'
  <2>1. x # c
    BY <1>4 DEF SetTlsAutoRenew, RevokeTls, DeleteTlsCert
  <2>2. renewedFrom'[c] = Null /\ c \notin issued'
    BY <1>4 DEF SetTlsAutoRenew, RevokeTls, DeleteTlsCert
  <2>3. tls_keys'[c] = tls_keys[c]
    <3>1. CASE SetTlsAutoRenew(x)
      BY <2>1, <3>1 DEF SetTlsAutoRenew
    <3>2. CASE RevokeTls(x)
      BY <2>1, <3>2 DEF RevokeTls
    <3>3. CASE DeleteTlsCert(x)
      BY <2>1, <3>3 DEF DeleteTlsCert
    <3> QED
      BY <1>4, <3>1, <3>2, <3>3
  <2> QED
    BY <2>2, <2>3
<1>5. CASE UNCHANGED <<tls_keys, renewedFrom>> /\ issued' \cap Certs = issued \cap Certs
  BY <1>5
<1> QED
  BY <1>1, <1>2, <1>3, <1>4, <1>5, RowActions

----------------------------------------------------------------------------
(* What a step may do to the task's own record *)

\* The task gives up on the candidate, or on the cycle.
Returns ==
  /\ job'.queue \subseteq job.queue
  /\ job'.pc \in {"sleep", "next"}

Advances ==
  /\ job'.queue = job.queue /\ job'.old = job.old
  /\ Holding /\ Holding'
  /\ <<job.pc, job'.pc>> \in {<<"generate", "enable">>, <<"enable", "repoint">>,
       <<"repoint", "supersede">>, <<"supersede", "targets">>, <<"targets", "deploy">>,
       <<"deploy", "deploy">>, <<"deploy", "push">>, <<"push", "deploy">>}
  /\ job.pc # "generate" => job'.new = job.new

LEMMA JobActions ==
  ASSUME TypeOK, Next
  PROVE  JobSelect \/ JobNext \/ UNCHANGED job \/ Returns \/ Advances
<1> USE DEF TypeOK, JobRecord, Holding
<1>1. CASE JobGenerate
  BY <1>1 DEF JobGenerate, Advances
<1>2. CASE JobEnable
  BY <1>2 DEF JobEnable, Advances
<1>3. CASE JobRepoint
  BY <1>3 DEF JobRepoint, Advances
<1>4. CASE JobSupersede
  BY <1>4 DEF JobSupersede, Advances
<1>5. CASE JobTargets
  BY <1>5 DEF JobTargets, Advances
<1>6. CASE JobDeploy
  <2>1. job.pc = "deploy"
    BY <1>6 DEF JobDeploy
  <2>2. PICK t \in job.targets :
          job' \in {[job EXCEPT !.targets = @ \ {t}],
                   [job EXCEPT !.targets = @ \ {t}, !.pc = "push", !.target = t]}
    BY <1>6 DEF JobDeploy
  <2>3. CASE job' = [job EXCEPT !.targets = @ \ {t}]
    BY <2>1, <2>3 DEF Advances
  <2>4. CASE job' = [job EXCEPT !.targets = @ \ {t}, !.pc = "push", !.target = t]
    BY <2>1, <2>4 DEF Advances
  <2> QED
    BY <2>2, <2>3, <2>4
<1>7. CASE JobFinishDeploy
  BY <1>7 DEF JobFinishDeploy, Advances
<1>8. CASE JobCycleEnd \/ Crash
  BY <1>8 DEF JobCycleEnd, Crash, Asleep, Returns
<1>9. CASE JobGenerateThenFail \/ JobCannotIssue \/ JobRenewed \/ JobFail
  BY <1>9 DEF JobGenerateThenFail, JobCannotIssue, JobRenewed, JobFail, Asleep, Returns
<1>10. CASE Operator \/ NextDay
  BY <1>10, OperatorRow
  DEF Operator, OperatorIssues, SetTlsAutoRenew, RevokeTls, DeleteTlsCert, DeleteMachine,
      CreateHostApplication, DeleteHostApplication, PatchRead, PatchWrite, NextDay
<1> QED
  BY <1>1, <1>2, <1>3, <1>4, <1>5, <1>6, <1>7, <1>8, <1>9, <1>10 DEF Next, JobStep

\* Which action a change of the task's place in renew_one was.
LEMMA JobPlaces ==
  ASSUME TypeOK, Next, Advances
  PROVE  /\ job'.pc = "enable" => JobGenerate
         /\ job'.pc = "repoint" => JobEnable
         /\ job'.pc = "supersede" => JobRepoint
         /\ job'.pc = "targets" => JobSupersede
<1> USE DEF TypeOK, JobRecord, Holding, Advances
<1>1. CASE JobStep
  BY <1>1 DEF JobStep, JobSelect, JobNext, JobCycleEnd, JobGenerate, JobCannotIssue,
              JobEnable, JobRepoint, JobSupersede, JobTargets, JobDeploy, JobFinishDeploy,
              JobRenewed, Asleep
<1>2. CASE JobGenerateThenFail \/ JobFail \/ Crash
  <2>1. job'.pc \in {"next", "sleep"}
    <3>1. CASE Crash
      BY <3>1 DEF Crash, Asleep
    <3>2. CASE JobGenerateThenFail
      BY <3>2 DEF JobGenerateThenFail, Asleep
    <3>3. CASE JobFail
      BY <3>3 DEF JobFail, Asleep
    <3> QED
      BY <1>2, <3>1, <3>2, <3>3
  <2> QED
    BY <2>1
<1>3. CASE Operator \/ NextDay
  BY <1>3, OperatorRow
  DEF Operator, OperatorIssues, SetTlsAutoRenew, RevokeTls, DeleteTlsCert, DeleteMachine,
      CreateHostApplication, DeleteHostApplication, PatchRead, PatchWrite, NextDay
<1> QED
  BY <1>1, <1>2, <1>3 DEF Next

----------------------------------------------------------------------------
(* The parts of the inductive invariant, one at a time *)

LEMMA RepointedSteps ==
  ASSUME TypeOK, Next, ~JobRepoint
  PROVE  repointed' = repointed
<1>1. CASE JobStep \/ JobGenerateThenFail \/ JobFail \/ Crash \/ NextDay
  BY <1>1 DEF JobStep, JobSelect, JobNext, JobCycleEnd, JobGenerate, JobGenerateThenFail,
     JobCannotIssue, JobEnable, JobSupersede, JobTargets, JobDeploy, JobFinishDeploy,
     JobRenewed, JobFail, Crash, NextDay
<1>2. CASE Operator
  BY <1>2, OperatorRow
  DEF Operator, OperatorIssues, SetTlsAutoRenew, RevokeTls, DeleteTlsCert, DeleteMachine,
      CreateHostApplication, DeleteHostApplication, PatchRead, PatchWrite
<1> QED
  BY <1>1, <1>2 DEF Next

LEMMA IdsStep ==
  ASSUME TypeOK, TypeOK', IdsInv, Next
  PROVE  IdsInv'
<1>1. ASSUME NEW c \in Certs, Live(c)' PROVE c \in issued'
  BY <1>1, FreshSteps, Monotone DEF Live
<1>2. ASSUME NEW n \in Certs, renewedFrom'[n] # Null
      PROVE  n \in issued' /\ renewedFrom'[n] \in issued'
  <2>1. CASE n \in issued
    BY <1>2, <2>1, RowSteps, Monotone DEF IdsInv
  <2>2. CASE n \notin issued
    <3>1. RowsInserted /\ n \in issued' /\ n = FreshId
      BY <1>2, <2>2, FreshSteps
    <3>2. CASE OperatorIssues
      BY <1>2, <3>1, <3>2, OperatorRow DEF Insert, TypeOK
    <3>3. CASE JobGenerate \/ JobGenerateThenFail
      <4>1. job.old.id \in issued
        BY <3>3 DEF JobGenerate, JobGenerateThenFail, IdsInv, Holding
      <4> QED
        BY <3>1, <3>3, <4>1, Monotone, RenewalRow DEF Insert, TypeOK
    <3> QED
      BY <3>1, <3>2, <3>3 DEF RowsInserted
  <2> QED
    BY <2>1, <2>2
<1>3. repointed' \subseteq issued'
  <2>1. CASE JobRepoint
    BY <2>1 DEF JobRepoint, IdsInv, Holding
  <2>2. CASE ~JobRepoint
    <3>1. repointed' = repointed
      BY <2>2, RepointedSteps
    <3> QED
      BY <3>1, Monotone DEF IdsInv
  <2> QED
    BY <2>1, <2>2
<1>4. /\ \A k \in job'.queue : k.id \in issued'
      /\ Holding' => job'.old.id \in issued'
  <2>1. CASE JobSelect
    BY <2>1 DEF JobSelect, Asleep, Holding, Due, Candidate, IdsInv
  <2>2. CASE JobNext
    BY <2>2 DEF JobNext, Asleep, Holding, IdsInv
  <2>3. CASE ~JobSelect /\ ~JobNext
    <3>1. /\ job'.queue \subseteq job.queue
          /\ Holding' => Holding /\ job'.old = job.old
      BY <2>3, JobActions DEF Returns, Advances, Holding
    <3> QED
      BY <3>1, Monotone DEF IdsInv
  <2> QED
    BY <2>1, <2>2, <2>3
<1> QED
  BY <1>1, <1>2, <1>3, <1>4 DEF IdsInv

\* What generate_tls_key issues for a renewal.
LEMMA GenerateEffect ==
  ASSUME TypeOK, IdsInv, JobGenerate
  PROVE  /\ job'.new = FreshId /\ FreshId \in Certs \ issued /\ FreshId \in issued'
         /\ renewedFrom' = [renewedFrom EXCEPT ![FreshId] = job.old.id]
         /\ Plain(tls_keys'[FreshId])
         /\ tls_keys'[FreshId].links = job.hosts
         /\ tls_keys'[FreshId] # Null
         /\ job.old.id \in Certs \cap issued
<1> USE DEF TypeOK
<1>1. PICK row : Plain(row) /\ Insert(row, job.old.id) /\ row.links = job.hosts
  BY RenewalRow
<1>2. FreshId \in Certs /\ FreshId \notin issued
  BY <1>1, FreshIdType DEF Insert
<1>3. job.old.id \in Certs \cap issued
  BY DEF JobGenerate, Holding, IdsInv, RenewCandidate
<1>4. tls_keys'[FreshId] = row /\ FreshId \in issued'
      /\ renewedFrom' = [renewedFrom EXCEPT ![FreshId] = job.old.id]
  BY <1>1, <1>2 DEF Insert
<1> QED
  BY <1>1, <1>2, <1>3, <1>4, NullAssumption DEF JobGenerate, JobRecord, Plain

LEMMA CarriesStep ==
  ASSUME TypeOK, TypeOK', Next, NEW n \in Certs, n \in issued, Carries(n)
  PROVE  Carries(n)'
<1>1. RowStep(n)
  BY RowSteps
<1>2. CASE n \in touched
  BY <1>2, Monotone DEF Carries
<1>3. CASE n \notin touched
  <2>1. Live(n) /\ (tls_keys[n].auto_renew \/ tls_keys[n].last_status = "superseded")
    BY <1>3 DEF Carries
  <2>2. tls_keys[n] \in TlsKey
    BY <2>1 DEF Live, TypeOK
  <2>3. CASE n \in touched'
    BY <2>3 DEF Carries
  <2>4. CASE tls_keys'[n] = tls_keys[n]
    BY <2>1, <2>4 DEF Carries, Live
  <2>5. CASE /\ Live(n)'
             /\ tls_keys'[n] = [tls_keys[n] EXCEPT !.auto_renew = TRUE,
                                  !.renew_days_before = job.old.renew_days_before,
                                  !.last_status = "renewed"]
    BY <2>2, <2>5 DEF Carries, TlsKey
  <2>6. CASE /\ Live(n)'
             /\ tls_keys'[n] = [tls_keys[n] EXCEPT !.auto_renew = FALSE,
                                  !.last_status = "superseded"]
    BY <2>2, <2>6 DEF Carries, TlsKey
  <2> QED
    BY <1>1, <2>3, <2>4, <2>5, <2>6 DEF RowStep
<1> QED
  BY <1>2, <1>3

LEMMA NewStep ==
  ASSUME TypeOK, TypeOK', IdsInv, NewInv, Next
  PROVE  NewInv'
<1>1. CASE ~Advances
  <2>1. job' = job \/ job'.pc \in {"sleep", "next", "generate"}
    BY <1>1, JobActions DEF JobSelect, JobNext, Returns, Asleep
  <2>2. CASE job'.pc \in {"sleep", "next", "generate"}
    BY <2>2 DEF NewInv
  <2>3. CASE job' = job
    <3>1. ASSUME job.pc \in {"enable", "repoint", "supersede"}
          PROVE  /\ job.new \in issued' \cap Certs
                 /\ renewedFrom'[job.new] = job.old.id
                 /\ job.new # job.old.id
      BY <3>1, Monotone, RowSteps DEF NewInv
    <3>2. ~JobRepoint
      BY <2>3 DEF JobRepoint, TypeOK, JobRecord
    <3>3. repointed' = repointed
      BY <3>2, RepointedSteps
    <3>6. ASSUME job.pc = "enable", NEW n \in Certs PROVE renewedFrom'[n] # job.new
      <4>1. CASE n \in issued
        BY <3>6, <4>1, RowSteps DEF NewInv
      <4>2. CASE n \notin issued
        <5>1. job.new # Null
          BY <3>1, <3>6, NamesAssumption
        <5>2. ~JobGenerate /\ ~JobGenerateThenFail
          BY <3>6 DEF JobGenerate, JobGenerateThenFail
        <5>3. CASE OperatorIssues
          <6>1. PICK row : Insert(row, Null)
            BY <5>3, OperatorRow
          <6> QED
            BY <3>1, <3>6, <4>2, <5>1, <6>1, FreshSteps DEF Insert, TypeOK
        <5>4. CASE ~OperatorIssues
          BY <4>2, <5>1, <5>2, <5>4, FreshSteps DEF RowsInserted
        <5> QED
          BY <5>3, <5>4
      <4> QED
        BY <4>1, <4>2
    <3>4. ASSUME job.pc = "enable" PROVE Live(job.new)' \/ job.new \in touched'
      BY <2>3, <3>4, RowSteps, Monotone DEF NewInv, RowStep, Live
    <3>5. ASSUME job.pc \in {"repoint", "supersede"} PROVE Carries(job.new)'
      <4>1. job.new \in Certs \cap issued /\ Carries(job.new)
        BY <3>5 DEF NewInv
      <4> QED
        BY <2>3, <4>1, CarriesStep DEF Carries, Live
    <3> QED
      BY <2>3, <3>1, <3>3, <3>4, <3>5, <3>6 DEF NewInv, Carries, Live
  <2> QED
    BY <2>1, <2>2, <2>3
<1>2. CASE Advances /\ job'.pc = "enable"
  <2>1. JobGenerate
    BY <1>2, JobPlaces
  <2>2. repointed' = repointed
    BY <2>1 DEF JobGenerate
  <2>3. ASSUME NEW n \in Certs PROVE renewedFrom'[n] # FreshId
    <3>1. renewedFrom' = [renewedFrom EXCEPT ![FreshId] = job.old.id]
      BY <2>1, GenerateEffect
    <3>2. job.old.id \in issued /\ FreshId \in Certs /\ FreshId \notin issued
      BY <2>1, GenerateEffect
    <3>3. renewedFrom[n] # FreshId
      BY <3>2, NamesAssumption DEF IdsInv
    <3> QED
      BY <3>1, <3>2, <3>3 DEF TypeOK
  <2> QED
    BY <1>2, <2>1, <2>2, <2>3, GenerateEffect DEF Advances, NewInv, IdsInv, Live, TypeOK
<1>3. CASE Advances /\ job'.pc = "repoint"
  <2>1. JobEnable
    BY <1>3, JobPlaces
  <2>2. /\ job.pc = "enable" /\ job'.new = job.new /\ job'.old = job.old
        /\ job.new \in issued \cap Certs /\ repointed' = repointed /\ touched' = touched
    BY <1>3, <2>1 DEF JobEnable, Advances, NewInv
  <2>3. renewedFrom'[job.new] = job.old.id
    BY <2>2, RowSteps DEF NewInv
  <2>4. CASE job.new \in touched
    BY <1>3, <2>2, <2>3, <2>4, Monotone DEF NewInv, Carries
  <2>5. CASE job.new \notin touched
    <3>1. Live(job.new)
      BY <2>2, <2>5 DEF NewInv
    <3>2. tls_keys'[job.new] = [tls_keys[job.new] EXCEPT !.auto_renew = TRUE,
                                  !.renew_days_before = job.old.renew_days_before,
                                  !.last_status = "renewed"]
      BY <2>1, <2>2, <3>1 DEF JobEnable
    <3>3. Live(job.new)' /\ tls_keys'[job.new].auto_renew
      <4>1. tls_keys[job.new] \in TlsKey /\ job.old.renew_days_before \in RenewDays
        BY <2>1, <2>2, <3>1 DEF Live, TypeOK, JobEnable, Holding, RenewCandidate
      <4>2. [tls_keys[job.new] EXCEPT !.auto_renew = TRUE,
                !.renew_days_before = job.old.renew_days_before,
                !.last_status = "renewed"] \in TlsKey
        BY <4>1, RowTypes
      <4>3. tls_keys'[job.new] \in TlsKey
        BY <3>2, <4>2
      <4>4. tls_keys'[job.new].auto_renew
        BY <3>2, <4>1 DEF TlsKey
      <4> QED
        BY <2>2, <4>3, <4>4, NullAssumption DEF Live
    <3> QED
      BY <1>3, <2>2, <2>3, <3>3, Monotone DEF NewInv, Carries
  <2> QED
    BY <2>4, <2>5
<1>4. CASE Advances /\ job'.pc = "supersede"
  <2>1. JobRepoint
    BY <1>4, JobPlaces
  <2>2. /\ job.pc = "repoint" /\ job'.new = job.new /\ job'.old = job.old
        /\ job.new \in issued \cap Certs /\ job.old.id \in repointed'
    BY <1>4, <2>1 DEF JobRepoint, Advances, NewInv
  <2>3. renewedFrom'[job.new] = job.old.id /\ Carries(job.new)'
    BY <2>2, RowSteps, CarriesStep DEF NewInv
  <2> QED
    BY <1>4, <2>2, <2>3, Monotone DEF NewInv, Carries, Live
<1>5. CASE Advances /\ job'.pc \notin {"enable", "repoint", "supersede"}
  BY <1>5 DEF NewInv
<1> QED
  BY <1>1, <1>2, <1>3, <1>4, <1>5

\* Only issued rows and rows just issued can be live.
LEMMA SupersededStep ==
  ASSUME TypeOK, TypeOK', IdsInv, Next, NEW c \in Certs, Superseded(c)'
  PROVE  \/ c \in issued /\ Superseded(c)
         \/ JobSupersede /\ c = job.old.id /\ c \in issued /\ Live(c)
<1>1. CASE c \in issued
  <2>1. RowStep(c)
    BY <1>1, RowSteps
  <2>2. ASSUME Live(c),
               tls_keys'[c] = [tls_keys[c] EXCEPT !.auto_renew = TRUE,
                                 !.renew_days_before = job.old.renew_days_before,
                                 !.last_status = "renewed"]
        PROVE  FALSE
    BY <2>2 DEF Superseded, Live, TypeOK, TlsKey
  <2> QED
    BY <1>1, <2>1, <2>2 DEF RowStep, Superseded, Live
<1>2. CASE c \notin issued
  <2>1. RowsInserted /\ c = FreshId
    BY <1>2, FreshSteps DEF Superseded, Live
  <2>2. PICK row, from : Insert(row, from) /\ Plain(row)
    BY <2>1, InsertedRow
  <2>3. tls_keys'[c] = row
    BY <2>1, <2>2 DEF Insert, TypeOK
  <2> QED
    BY <2>2, <2>3 DEF Superseded, Plain
<1> QED
  BY <1>1, <1>2

LEMMA TargetsStep ==
  ASSUME TypeOK, TypeOK', IdsInv, NewInv, TargetsInv, Next
  PROVE  TargetsInv'
<1>1. ASSUME NEW c \in Certs, Superseded(c)' PROVE c \in repointed'
  BY <1>1, SupersededStep, Monotone DEF TargetsInv, NewInv, JobSupersede
<1>2. ASSUME NEW t \in Targets, NEW c \in Certs, Bound(t, c)', c \in repointed'
      PROVE  t \in lateBound'
  <2> USE DEF TypeOK
  <2>1. CASE JobRepoint
    <3>1. /\ job.new \in Certs /\ job.new \notin repointed /\ job.new # job.old.id
          /\ repointed' = repointed \cup {job.old.id}
      BY <2>1 DEF JobRepoint, NewInv
    <3>2. CASE Bound(t, job.old.id)
      <4>1. host_applications'[t] = [host_applications[t] EXCEPT !.tls_key_id = job.new]
        BY <2>1, <3>2 DEF JobRepoint
      <4>2. host_applications'[t].tls_key_id = job.new
        BY <3>2, <4>1 DEF Bound, HostApplication
      <4> QED
        BY <1>2, <3>1, <4>2 DEF Bound
    <3>3. CASE ~Bound(t, job.old.id)
      <4>1. host_applications'[t] = host_applications[t]
        BY <2>1, <3>3 DEF JobRepoint
      <4>2. Bound(t, c) /\ c # job.old.id
        BY <1>2, <3>3, <4>1 DEF Bound
      <4>3. t \in lateBound
        BY <1>2, <3>1, <4>2 DEF TargetsInv
      <4> QED
        BY <2>1, <3>3, <4>3 DEF JobRepoint
    <3> QED
      BY <3>2, <3>3
  <2>2. ASSUME NEW s \in Targets, CreateHostApplication(s) PROVE t \in lateBound'
    <3>1. CASE s = t
      BY <1>2, <2>2, <3>1 DEF CreateHostApplication, BindByOperator, Bound
    <3>2. CASE s # t
      BY <1>2, <2>2, <3>2 DEF CreateHostApplication, BindByOperator, Bound, TargetsInv
    <3> QED
      BY <3>1, <3>2
  <2>3. ASSUME NEW s \in Targets, DeleteHostApplication(s) PROVE t \in lateBound'
    BY <1>2, <2>3 DEF DeleteHostApplication, Bound, TargetsInv
  <2>4. ASSUME NEW r \in Requests, PatchWrite(r) PROVE t \in lateBound'
    <3>1. CASE requests[r].target = t /\ host_applications[t] # Null
      <4>1. host_applications[t] \in HostApplication
        BY <3>1
      <4>2. host_applications'[t] = [host_applications[t] EXCEPT
                !.tls_key_id = requests[r].key, !.auto_deploy = requests[r].auto]
        BY <2>4, <3>1 DEF PatchWrite
      <4>3. host_applications'[t].tls_key_id = requests[r].key
        BY <4>1, <4>2 DEF HostApplication
      <4> QED
        BY <1>2, <2>4, <3>1, <4>3 DEF PatchWrite, BindByOperator, Bound
    <3>2. CASE ~(requests[r].target = t /\ host_applications[t] # Null)
      <4>1. host_applications'[t] = host_applications[t]
        BY <2>4, <3>2 DEF PatchWrite
      <4>2. t # requests[r].target
        BY <1>2, <3>2, <4>1 DEF Bound
      <4> QED
        BY <1>2, <2>4, <4>1, <4>2 DEF PatchWrite, BindByOperator, Bound, TargetsInv
    <3> QED
      BY <3>1, <3>2
  <2>5. ASSUME NEW s \in Targets, NEW status, SetDeployStatus(s, status),
               UNCHANGED <<repointed, lateBound>>
        PROVE  t \in lateBound'
    <3>1. Bound(t, c)
      BY <1>2, <2>5 DEF SetDeployStatus, Bound, HostApplication
    <3> QED
      BY <1>2, <2>5, <3>1 DEF TargetsInv
  <2>6. CASE UNCHANGED <<host_applications, repointed, lateBound>>
    BY <1>2, <2>6 DEF Bound, TargetsInv
  <2>7. CASE JobDeploy \/ JobFinishDeploy
    BY <2>5, <2>6, <2>7 DEF JobDeploy, JobFinishDeploy, JobRecord
  <2> QED
    BY <2>1, <2>2, <2>3, <2>4, <2>6, <2>7, OperatorRow
    DEF Next, JobStep, Operator, OperatorIssues, JobSelect, JobNext, JobCycleEnd, JobGenerate,
        JobGenerateThenFail, JobCannotIssue, JobEnable, JobSupersede, JobTargets,
        JobRenewed, JobFail, Crash, SetTlsAutoRenew, RevokeTls, DeleteTlsCert, DeleteMachine,
        PatchRead, NextDay
<1> QED
  BY <1>1, <1>2 DEF TargetsInv

LEMMA HeirStep ==
  ASSUME TypeOK, TypeOK', IdsInv, NewInv, HeirCarriesOn, Next
  PROVE  HeirCarriesOn'
<1> SUFFICES ASSUME NEW c \in Certs, Superseded(c)'
             PROVE  \E n \in Certs : renewedFrom'[n] = c /\ Carries(n)'
  BY DEF HeirCarriesOn
<1>1. CASE Superseded(c)
  <2>1. PICK n \in Certs : renewedFrom[n] = c /\ Carries(n)
    BY <1>1 DEF HeirCarriesOn
  <2>2. n \in issued
    BY <2>1, NamesAssumption DEF IdsInv
  <2> QED
    BY <2>1, <2>2, RowSteps, CarriesStep
<1>2. CASE JobSupersede /\ c = job.old.id
  <2>1. /\ job.new \in issued \cap Certs /\ renewedFrom[job.new] = c /\ Carries(job.new)
    BY <1>2 DEF JobSupersede, NewInv
  <2>2. \A n \in Certs : n \in issued /\ Carries(n) => Carries(n)'
    BY CarriesStep
  <2> QED
    BY <2>1, <2>2, RowSteps
<1> QED
  BY <1>1, <1>2, SupersededStep

\* A row issued earlier keeps its dates and its hosts while it lives.
LEMMA DatesKept ==
  ASSUME TypeOK, TypeOK', Next, NEW c \in Certs, c \in issued, Live(c)'
  PROVE  /\ Live(c)
         /\ tls_keys'[c].valid_from = tls_keys[c].valid_from
         /\ tls_keys'[c].valid_to = tls_keys[c].valid_to
         /\ tls_keys'[c].machine_id = tls_keys[c].machine_id
         /\ tls_keys'[c].links = tls_keys[c].links
         /\ HostsOf(c)' = HostsOf(c)
<1>1. RowStep(c)
  BY RowSteps
<1>2. ASSUME NEW row \in TlsKey, NEW on, NEW days, NEW status
      PROVE  /\ row.valid_from =
                  [row EXCEPT !.auto_renew = on, !.renew_days_before = days,
                              !.last_status = status].valid_from
             /\ row.valid_to =
                  [row EXCEPT !.auto_renew = on, !.renew_days_before = days,
                              !.last_status = status].valid_to
             /\ row.machine_id =
                  [row EXCEPT !.auto_renew = on, !.renew_days_before = days,
                              !.last_status = status].machine_id
             /\ row.links =
                  [row EXCEPT !.auto_renew = on, !.renew_days_before = days,
                              !.last_status = status].links
  BY DEF TlsKey
<1>3. ASSUME NEW row \in TlsKey, NEW on, NEW status
      PROVE  /\ row.valid_from = [row EXCEPT !.auto_renew = on, !.last_status = status].valid_from
             /\ row.valid_to = [row EXCEPT !.auto_renew = on, !.last_status = status].valid_to
             /\ row.machine_id = [row EXCEPT !.auto_renew = on, !.last_status = status].machine_id
             /\ row.links = [row EXCEPT !.auto_renew = on, !.last_status = status].links
  BY DEF TlsKey
<1>4. /\ Live(c)
      /\ tls_keys'[c].valid_from = tls_keys[c].valid_from
      /\ tls_keys'[c].valid_to = tls_keys[c].valid_to
      /\ tls_keys'[c].machine_id = tls_keys[c].machine_id
      /\ tls_keys'[c].links = tls_keys[c].links
  <2>1. CASE /\ Live(c)
             /\ tls_keys'[c] = [tls_keys[c] EXCEPT !.auto_renew = TRUE,
                                 !.renew_days_before = job.old.renew_days_before,
                                 !.last_status = "renewed"]
    BY <1>2, <2>1 DEF Live, TypeOK
  <2>2. CASE /\ Live(c)
             /\ tls_keys'[c] = [tls_keys[c] EXCEPT !.auto_renew = FALSE,
                                 !.last_status = "superseded"]
    BY <1>3, <2>2 DEF Live, TypeOK
  <2> QED
    BY <1>1, <2>1, <2>2 DEF RowStep, Live
<1> QED
  BY <1>4 DEF HostsOf

\* The task drops candidates as it handles them, and finds new ones only in JobSelect.
LEMMA PendingShrinks ==
  ASSUME TypeOK, Next, ~JobSelect
  PROVE  Pending' \subseteq Pending /\ job'.queue \subseteq job.queue
<1> USE DEF TypeOK, JobRecord, Pending
<1>1. CASE JobNext
  BY <1>1 DEF JobNext, Asleep
<1>2. CASE UNCHANGED job \/ Returns \/ Advances
  BY <1>2 DEF Returns, Advances
<1> QED
  BY <1>1, <1>2, JobActions

LEMMA PendingIds ==
  ASSUME TypeOK, IdsInv, NEW k \in Pending
  PROVE  k \in RenewCandidate /\ k.id \in Certs \cap issued
BY DEF TypeOK, IdsInv, Pending, Holding, JobRecord, RenewCandidate

LEMMA PendingStep ==
  ASSUME TypeOK, TypeOK', IdsInv, NewInv, PendingInv, Next
  PROVE  PendingInv'
<1>2. CASE JobSelect
  <2>1. PICK due \in SUBSET {c \in Certs : Due(c)} :
          job' = [Asleep EXCEPT !.pc = "next", !.queue = {Candidate(c) : c \in due}]
    BY <1>2 DEF JobSelect
  <2>2. /\ Pending' = {Candidate(c) : c \in due} /\ job'.queue = Pending' /\ ~Holding'
        /\ UNCHANGED <<tls_keys, today, touched>>
    BY <1>2, <2>1 DEF JobSelect, Asleep, Pending, Holding
  <2>3. ASSUME NEW k \in Pending'
        PROVE  /\ k.id \in Certs /\ k = Candidate(k.id) /\ Due(k.id)
    BY <2>2, <2>3 DEF Candidate
  <2>4. ASSUME NEW k \in Pending'
        PROVE  /\ Live(k.id)' /\ tls_keys'[k.id].auto_renew
               /\ k.valid_days = tls_keys'[k.id].valid_to - tls_keys'[k.id].valid_from
               /\ tls_keys'[k.id].valid_to <= today' + k.renew_days_before
    BY <2>2, <2>3 DEF Candidate, Due, Live
  <2> QED
    BY <2>2, <2>3, <2>4 DEF PendingInv, Live
<1>3. CASE ~JobSelect
  <2>1. ASSUME NEW k \in Pending'
        PROVE  /\ k.id \notin touched' => Live(k.id)' /\ tls_keys'[k.id].auto_renew
               /\ Live(k.id)' =>
                    /\ k.valid_days = tls_keys'[k.id].valid_to - tls_keys'[k.id].valid_from
                    /\ tls_keys'[k.id].valid_to <= today' + k.renew_days_before
    <3>1. k \in Pending /\ k.id \in Certs \cap issued /\ k \in RenewCandidate
      BY <1>3, PendingShrinks, PendingIds
    <3>2. ASSUME k.id \notin touched'
          PROVE  Live(k.id)' /\ tls_keys'[k.id].auto_renew
      <4>1. k.id \notin touched
        BY <3>2, Monotone
      <4>2. Live(k.id) /\ tls_keys[k.id].auto_renew /\ tls_keys[k.id] \in TlsKey
        BY <3>1, <4>1 DEF PendingInv, Live, TypeOK
      <4>3. ~(JobSupersede /\ k.id = job.old.id)
        BY <3>1 DEF JobSupersede, Pending, PendingInv, Holding
      <4>4. RowStep(k.id)
        BY <3>1, RowSteps
      <4>5. ASSUME Live(k.id)',
                   tls_keys'[k.id] = [tls_keys[k.id] EXCEPT !.auto_renew = TRUE,
                                       !.renew_days_before = job.old.renew_days_before,
                                       !.last_status = "renewed"]
            PROVE  tls_keys'[k.id].auto_renew
        BY <4>2, <4>5 DEF TlsKey
      <4> QED
        BY <3>2, <4>2, <4>3, <4>4, <4>5 DEF RowStep, Live
    <3>3. ASSUME Live(k.id)'
          PROVE  /\ k.valid_days = tls_keys'[k.id].valid_to - tls_keys'[k.id].valid_from
                 /\ tls_keys'[k.id].valid_to <= today' + k.renew_days_before
      <4>1. /\ Live(k.id) /\ tls_keys[k.id] \in TlsKey
            /\ tls_keys'[k.id].valid_from = tls_keys[k.id].valid_from
            /\ tls_keys'[k.id].valid_to = tls_keys[k.id].valid_to
        BY <3>1, <3>3, DatesKept DEF Live, TypeOK
      <4>2. /\ k.valid_days = tls_keys[k.id].valid_to - tls_keys[k.id].valid_from
            /\ tls_keys[k.id].valid_to <= today + k.renew_days_before
        BY <3>1, <4>1 DEF PendingInv
      <4>3. k.renew_days_before \in Nat /\ tls_keys[k.id].valid_to \in Nat
        BY <3>1, <4>1, DaysAssumption DEF RenewCandidate, TlsKey
      <4> QED
        BY <4>1, <4>2, <4>3, Monotone DEF TypeOK
    <3> QED
      BY <3>2, <3>3
  <2>2. \A j, k \in job'.queue : j.id = k.id => j = k
    BY <1>3, PendingShrinks DEF PendingInv
  <2>3. ASSUME Holding', NEW k \in job'.queue PROVE k.id # job'.old.id
    <3>1. CASE JobNext
      <4>1. PICK c \in job.queue :
              job' = [Asleep EXCEPT !.pc = "generate", !.queue = job.queue \ {c}, !.old = c,
                                    !.hosts = Named(c.machine_id) \cup LinksOf(c.id)]
        BY <3>1 DEF JobNext
      <4>2. job'.old = c /\ job'.queue = job.queue \ {c}
        BY <4>1 DEF Asleep
      <4> QED
        BY <2>3, <4>2 DEF PendingInv
    <3>2. CASE UNCHANGED job \/ Returns \/ Advances
      BY <2>3, <3>2 DEF Returns, Advances, PendingInv, Holding
    <3> QED
      BY <1>3, <3>1, <3>2, JobActions
  <2> QED
    BY <2>1, <2>2, <2>3 DEF PendingInv, Live
<1> QED
  BY <1>2, <1>3

\* The clamp never cuts a certificate that is due: what is left of it is shorter than the
\* renewal window, and the window is shorter than the cap.
LEMMA ClampOutlives ==
  ASSUME NEW k \in RenewCandidate, NEW from \in Nat, NEW to \in Nat, NEW now \in Nat,
         k.valid_days = to - from, from <= now, to <= now + k.renew_days_before
  PROVE  to <= now + ClampDays(k.valid_days)
<1>1. k.renew_days_before \in Nat /\ k.renew_days_before <= MaxValid
  BY DaysAssumption, WindowAssumption DEF RenewCandidate
<1> QED
  BY <1>1, DaysAssumption DEF ClampDays

LEMMA OutlivesStep ==
  ASSUME TypeOK, TypeOK', IdsInv, PendingInv, HeirOutlives, Next
  PROVE  HeirOutlives'
<1> SUFFICES ASSUME NEW n \in Certs, renewedFrom'[n] # Null, Live(n)',
                    NEW c \in Certs, c = renewedFrom'[n], tls_keys'[c] # Null,
                    tls_keys'[c].valid_from <= tls_keys'[n].valid_from
             PROVE  tls_keys'[n].valid_to >= tls_keys'[c].valid_to
  BY DEF HeirOutlives, Live, TypeOK
<1>1. CASE n \in issued
  <2>1. renewedFrom[n] = c /\ c \in issued
    BY <1>1, RowSteps DEF IdsInv
  <2>2. /\ Live(n) /\ Live(c)
        /\ tls_keys'[n].valid_to = tls_keys[n].valid_to
        /\ tls_keys'[n].valid_from = tls_keys[n].valid_from
        /\ tls_keys'[c].valid_to = tls_keys[c].valid_to
        /\ tls_keys'[c].valid_from = tls_keys[c].valid_from
    BY <1>1, <2>1, DatesKept DEF Live
  <2> QED
    BY <2>1, <2>2, NamesAssumption DEF HeirOutlives
<1>2. CASE n \notin issued
  <2>1. RowsInserted /\ n = FreshId
    BY <1>2, FreshSteps
  <2>2. ~OperatorIssues
    BY <2>1, OperatorRow DEF Insert, TypeOK
  <2>3. job.pc = "generate" /\ today' = today
    BY <2>1, <2>2 DEF RowsInserted, JobGenerate, JobGenerateThenFail
  <2>4. PICK row : /\ Plain(row) /\ Insert(row, job.old.id)
                   /\ row.valid_from = today
                   /\ row.valid_to = today + ClampDays(job.old.valid_days)
    BY <2>1, <2>2, RenewalRow DEF RowsInserted
  <2>5. c = job.old.id /\ tls_keys'[n] = row
    BY <2>1, <2>4 DEF Insert, TypeOK
  <2>6. c \in issued /\ job.old \in RenewCandidate /\ job.old \in Pending
    BY <2>3, <2>5 DEF IdsInv, TypeOK, Holding, Pending
  <2>7. /\ Live(c) /\ tls_keys[c] \in TlsKey
        /\ tls_keys'[c].valid_to = tls_keys[c].valid_to
        /\ tls_keys'[c].valid_from = tls_keys[c].valid_from
    BY <2>6, DatesKept DEF Live, TypeOK
  <2>8. /\ job.old.valid_days = tls_keys[c].valid_to - tls_keys[c].valid_from
        /\ tls_keys[c].valid_to <= today + job.old.renew_days_before
        /\ tls_keys[c].valid_from <= today
    BY <2>4, <2>5, <2>6, <2>7 DEF PendingInv
  <2>9. tls_keys[c].valid_from \in Nat /\ tls_keys[c].valid_to \in Nat /\ today \in Nat
    BY <2>7 DEF TlsKey, TypeOK
  <2>10. tls_keys[c].valid_to <= today + ClampDays(job.old.valid_days)
    BY <2>6, <2>8, <2>9, ClampOutlives
  <2>11. job.old.valid_days \in Int
    BY <2>6 DEF RenewCandidate
  <2>12. ClampDays(job.old.valid_days) \in Nat
    BY <2>11, ClampType
  <2> QED
    BY <2>4, <2>5, <2>7, <2>9, <2>10, <2>12
<1> QED
  BY <1>1, <1>2

\* A certificate becomes an heir only when renew_one enables it.
LEMMA HeirAppears ==
  ASSUME TypeOK, TypeOK', IdsInv, Next, NEW n \in Certs, NEW c \in Certs, Heir(n, c)'
  PROVE  /\ n \in issued /\ renewedFrom[n] = c
         /\ Heir(n, c) \/ (JobEnable /\ n = job.new)
<1>1. CASE n \in issued
  <2>1. RowStep(n) /\ renewedFrom[n] = c
    BY <1>1, RowSteps DEF Heir
  <2>2. n \notin touched /\ n \notin touched'
    BY Monotone DEF Heir
  <2>3. ASSUME Live(n), tls_keys'[n] = [tls_keys[n] EXCEPT !.auto_renew = FALSE,
                                          !.last_status = "superseded"]
        PROVE  FALSE
    BY <2>3 DEF Heir, Live, TypeOK, TlsKey
  <2> QED
    BY <1>1, <2>1, <2>2, <2>3 DEF RowStep, Heir, Live
<1>2. CASE n \notin issued
  <2>1. RowsInserted /\ n = FreshId
    BY <1>2, FreshSteps DEF Heir, Live
  <2>2. PICK row, from : Insert(row, from) /\ Plain(row)
    BY <2>1, InsertedRow
  <2>3. tls_keys'[n] = row
    BY <2>1, <2>2 DEF Insert, TypeOK
  <2> QED
    BY <2>2, <2>3 DEF Heir, Plain
<1> QED
  BY <1>1, <1>2

\* Between two statements of a renewal only a crash or a failure makes the task forget
\* where it is, and then the renewal counts as interrupted.
LEMMA HalfRenewedKept ==
  ASSUME TypeOK, Next, job.pc \in {"repoint", "supersede"}
  PROVE  \/ job.old.id \in interrupted'
         \/ UNCHANGED job
         \/ JobRepoint /\ job' = [job EXCEPT !.pc = "supersede"]
         \/ JobSupersede
<1>1. CASE JobStep
  BY <1>1 DEF JobStep, JobSelect, JobNext, JobCycleEnd, JobGenerate, JobCannotIssue,
              JobEnable, JobRepoint, JobTargets, JobDeploy, JobFinishDeploy, JobRenewed
<1>2. CASE JobGenerateThenFail \/ JobFail \/ Crash
  BY <1>2 DEF JobGenerateThenFail, JobFail, Crash, HalfRenewed
<1>3. CASE Operator \/ NextDay
  BY <1>3, OperatorRow
  DEF Operator, OperatorIssues, SetTlsAutoRenew, RevokeTls, DeleteTlsCert, DeleteMachine,
      CreateHostApplication, DeleteHostApplication, PatchRead, PatchWrite, NextDay
<1> QED
  BY <1>1, <1>2, <1>3 DEF Next

LEMMA ForkStep ==
  ASSUME TypeOK, TypeOK', IdsInv, NewInv, PendingInv, ForkInv, Next
  PROVE  ForkInv'
<1> SUFFICES ASSUME NEW n \in Certs, NEW c \in Certs, Heir(n, c)',
                    c \notin interrupted', c \notin touched',
                    Live(c)', tls_keys'[c].auto_renew
             PROVE  /\ job'.pc \in {"repoint", "supersede"}
                    /\ job'.old.id = c /\ job'.new = n
  BY DEF ForkInv
<1>1. n \in issued /\ renewedFrom[n] = c /\ c \in issued /\ c \notin interrupted \cup touched
  BY HeirAppears, Monotone, NamesAssumption DEF IdsInv
<1>2. CASE JobEnable /\ n = job.new
  <2>1. renewedFrom[n] = job.old.id /\ job'.pc = "repoint" /\ job'.old = job.old
        /\ job'.new = job.new
    BY <1>2 DEF JobEnable, NewInv, TypeOK, JobRecord
  <2> QED
    BY <1>1, <1>2, <2>1
<1>3. CASE Heir(n, c) /\ ~(JobEnable /\ n = job.new)
  <2>1. Live(c) /\ tls_keys[c] \in TlsKey
    BY <1>1, DatesKept DEF Live, TypeOK
  <2>2. tls_keys[c].auto_renew
    <3>1. CASE JobEnable /\ c = job.new
      BY <1>1, <3>1 DEF JobEnable, NewInv
    <3>2. CASE ~(JobEnable /\ c = job.new)
      <4>1. RowStep(c)
        BY <1>1, RowSteps
      <4>2. ASSUME tls_keys'[c] = [tls_keys[c] EXCEPT !.auto_renew = FALSE,
                                          !.last_status = "superseded"]
            PROVE  FALSE
        BY <2>1, <4>2 DEF TlsKey
      <4> QED
        BY <3>2, <4>1, <4>2 DEF RowStep
    <3> QED
      BY <3>1, <3>2
  <2>3. job.pc \in {"repoint", "supersede"} /\ job.old.id = c /\ job.new = n
    BY <1>1, <1>3, <2>1, <2>2 DEF ForkInv
  <2>4. ~JobSupersede
    <3>1. SUFFICES ASSUME JobSupersede PROVE FALSE
      OBVIOUS
    <3>2. tls_keys'[c] = [tls_keys[c] EXCEPT !.auto_renew = FALSE,
                            !.last_status = "superseded"]
      BY <2>1, <2>3, <3>1 DEF JobSupersede
    <3> QED
      BY <2>1, <3>2 DEF TlsKey
  <2>5. UNCHANGED job \/ job' = [job EXCEPT !.pc = "supersede"]
    BY <2>3, <2>4, HalfRenewedKept
  <2> QED
    BY <2>3, <2>5 DEF TypeOK, JobRecord
<1> QED
  BY <1>2, <1>3, HeirAppears

LEMMA ForkOnlyStep ==
  ASSUME TypeOK, TypeOK', IdsInv, NewInv, PendingInv, ForkInv, ForkOnlyWhenInterrupted, Next
  PROVE  ForkOnlyWhenInterrupted'
<1> SUFFICES ASSUME NEW c \in Certs, NEW m \in Certs, NEW n \in Certs,
                    Heir(m, c)', Heir(n, c)', m # n
             PROVE  c \in interrupted' \cup touched'
  BY DEF ForkOnlyWhenInterrupted
<1>1. renewedFrom[m] = c /\ renewedFrom[n] = c /\ c \in issued
  BY HeirAppears, NamesAssumption DEF IdsInv
<1>2. CASE Heir(m, c) /\ Heir(n, c)
  BY <1>2, Monotone DEF ForkOnlyWhenInterrupted
<1>3. ASSUME NEW new \in Certs, NEW other \in Certs, JobEnable, new = job.new,
             renewedFrom[new] = c, Heir(other, c)
      PROVE  c \in interrupted' \cup touched'
  <2>1. job.pc = "enable" /\ c = job.old.id
    BY <1>3 DEF JobEnable, NewInv
  <2>2. job.old \in Pending
    BY <2>1 DEF Pending
  <2>3. c \in touched \/ (Live(c) /\ tls_keys[c].auto_renew)
    BY <2>1, <2>2 DEF PendingInv
  <2>4. c \in interrupted \cup touched
    BY <1>3, <2>1, <2>3 DEF ForkInv
  <2> QED
    BY <2>4, Monotone
<1> QED
  BY <1>1, <1>2, <1>3, HeirAppears

LEMMA HostsStep ==
  ASSUME TypeOK, TypeOK', IdsInv, NewInv, PendingInv, HostsInv, Next
  PROVE  HostsInv'
<1>1. ASSUME NEW k \in Pending', Live(k.id)'
      PROVE  k.machine_id = tls_keys'[k.id].machine_id
  <2>1. CASE JobSelect
    <3>1. PICK due \in SUBSET {c \in Certs : Due(c)} :
            job' = [Asleep EXCEPT !.pc = "next", !.queue = {Candidate(c) : c \in due}]
      BY <2>1 DEF JobSelect
    <3>2. Pending' = {Candidate(c) : c \in due} /\ tls_keys' = tls_keys
      BY <2>1, <3>1 DEF JobSelect, Asleep, Pending
    <3> QED
      BY <1>1, <3>2 DEF Candidate
  <2>2. CASE ~JobSelect
    <3>1. k \in Pending /\ k.id \in Certs \cap issued
      BY <2>2, <1>1, PendingShrinks, PendingIds
    <3> QED
      BY <1>1, <3>1, DatesKept DEF HostsInv
  <2> QED
    BY <2>1, <2>2
<1>2. ASSUME job'.pc = "generate"
      PROVE  /\ Named(job'.old.machine_id) \subseteq job'.hosts
             /\ Live(job.old.id)' => HostsOf(job.old.id)' = job'.hosts
  <2>1. CASE JobNext
    <3>1. PICK c \in job.queue :
            job' = [Asleep EXCEPT !.pc = "generate", !.queue = job.queue \ {c}, !.old = c,
                                  !.hosts = Named(c.machine_id) \cup LinksOf(c.id)]
      BY <2>1 DEF JobNext
    <3>2. /\ job'.old = c /\ job'.hosts = Named(c.machine_id) \cup LinksOf(c.id)
          /\ tls_keys' = tls_keys /\ c \in Pending
      BY <2>1, <3>1 DEF JobNext, Asleep, Pending
    <3>3. Live(c.id) => c.machine_id = tls_keys[c.id].machine_id
      BY <3>2 DEF HostsInv
    <3> QED
      BY <3>2, <3>3 DEF HostsOf, LinksOf, Live
  <2>2. CASE UNCHANGED job
    <3>1. job.pc = "generate" /\ job.old.id \in Certs \cap issued
      BY <1>2, <2>2 DEF IdsInv, Holding, TypeOK, RenewCandidate
    <3>2. Live(job.old.id)' => Live(job.old.id) /\ HostsOf(job.old.id)' = HostsOf(job.old.id)
      <4>1. ASSUME NEW c \in Certs \cap issued, Live(c)'
            PROVE  Live(c) /\ HostsOf(c)' = HostsOf(c)
        BY <4>1, DatesKept
      <4> QED
        BY <2>2, <3>1, <4>1 DEF Live, HostsOf
    <3> QED
      BY <2>2, <3>1, <3>2 DEF HostsInv
  <2> QED
    BY <1>2, <2>1, <2>2, JobActions DEF JobSelect, Asleep, Returns, Advances
<1>3. ASSUME job'.pc \in {"enable", "repoint", "supersede"},
             NEW old \in Certs, old = job'.old.id, NEW new \in Certs, new = job'.new,
             Live(old)', Live(new)'
      PROVE  HostsOf(old)' \subseteq HostsOf(new)'
  <2>1. CASE JobGenerate
    <3>1. /\ job.pc = "generate" /\ job'.old = job.old /\ new = FreshId
          /\ tls_keys'[new].links = job.hosts /\ old \in issued
      BY <1>3, <2>1, GenerateEffect DEF JobGenerate, TypeOK, JobRecord
    <3>2. HostsOf(old)' = job.hosts
      BY <1>3, <3>1, DatesKept DEF HostsInv
    <3> QED
      BY <3>1, <3>2 DEF HostsOf
  <2>2. CASE ~JobGenerate
    <3>1. /\ job.pc \in {"enable", "repoint", "supersede"}
          /\ job.old = job'.old /\ job.new = job'.new
      BY <1>3, <2>2, JobActions, JobPlaces DEF JobSelect, JobNext, Asleep, Returns, Advances
    <3>2. old \in issued /\ new \in issued
      BY <1>3, <3>1 DEF NewInv, IdsInv, Holding
    <3>3. /\ Live(old) /\ Live(new)
          /\ HostsOf(old)' = HostsOf(old) /\ HostsOf(new)' = HostsOf(new)
      BY <1>3, <3>2, DatesKept
    <3> QED
      BY <1>3, <3>1, <3>3 DEF HostsInv
  <2> QED
    BY <2>1, <2>2
<1>4. ASSUME NEW c \in Certs, Live(c)' PROVE Named(tls_keys'[c].machine_id) \subseteq machines'
  <2>1. CASE c \in issued
    <3>1. Live(c) /\ tls_keys'[c].machine_id = tls_keys[c].machine_id
      BY <1>4, <2>1, DatesKept
    <3>2. Named(tls_keys[c].machine_id) \subseteq machines
      BY <3>1 DEF HostsInv
    <3>3. machines' = machines \/ \E m \in Machines : DeleteMachine(m)
      BY MachinesSteps
    <3> QED
      BY <3>1, <3>2, <3>3 DEF DeleteMachine, Named
  <2>2. CASE c \notin issued
    <3>1. RowsInserted /\ c = FreshId
      BY <1>4, <2>2, FreshSteps DEF Live
    <3>2. CASE OperatorIssues
      <4>1. PICK row : Insert(row, Null) /\ Named(row.machine_id) \subseteq machines
        BY <3>2, OperatorRow
      <4> QED
        BY <3>1, <3>2, <4>1, OperatorRow DEF Insert, TypeOK
    <3>3. CASE ~OperatorIssues
      <4>1. JobGenerate \/ JobGenerateThenFail
        BY <3>1, <3>3 DEF RowsInserted
      <4>2. /\ job.pc = "generate" /\ job.hosts \subseteq machines /\ machines' = machines
        BY <4>1 DEF JobGenerate, JobGenerateThenFail, Generate
      <4>3. PICK row : Insert(row, job.old.id) /\ Named(row.machine_id) \subseteq job.hosts
        BY <4>1, <4>2, RenewalRow DEF HostsInv
      <4> QED
        BY <3>1, <4>2, <4>3 DEF Insert, TypeOK
    <3> QED
      BY <3>2, <3>3
  <2> QED
    BY <2>1, <2>2
<1>5. Holding' => job'.old.id \in Certs
  BY DEF TypeOK, RenewCandidate
<1>6. job'.pc \in {"enable", "repoint", "supersede"} => job'.new \in Certs
  BY DEF TypeOK
<1> QED
  BY <1>1, <1>2, <1>3, <1>4, <1>5, <1>6 DEF HostsInv, Live, HostsOf, Holding

LEMMA HeirHostsStep ==
  ASSUME TypeOK, TypeOK', IdsInv, NewInv, HostsInv, HeirKeepsHosts, Next
  PROVE  HeirKeepsHosts'
<1> SUFFICES ASSUME NEW n \in Certs, NEW c \in Certs, Heir(n, c)', Live(c)'
             PROVE  HostsOf(c)' \subseteq HostsOf(n)'
  BY DEF HeirKeepsHosts
<1>1. n \in issued /\ c \in issued /\ renewedFrom[n] = c
  BY HeirAppears, NamesAssumption DEF IdsInv
<1>2. /\ Live(n) /\ Live(c)
      /\ HostsOf(c)' = HostsOf(c) /\ HostsOf(n)' = HostsOf(n)
  BY <1>1, DatesKept DEF Heir
<1>3. CASE Heir(n, c)
  BY <1>2, <1>3 DEF HeirKeepsHosts
<1>4. CASE JobEnable /\ n = job.new
  <2>1. job.pc = "enable" /\ job.old.id = c
    BY <1>1, <1>4 DEF JobEnable, NewInv
  <2> QED
    BY <1>2, <1>4, <2>1 DEF HostsInv
<1> QED
  BY <1>3, <1>4, HeirAppears

----------------------------------------------------------------------------
(* The inductive invariant and what follows from it *)

LEMMA InitIInv == Init => IInv
<1> SUFFICES ASSUME Init PROVE IInv
  OBVIOUS
<1>1. TypeOK
  BY InitType
<1>2. \A c \in Certs : Live(c) => /\ c \in Seeds
                                  /\ tls_keys[c].last_status = "none"
                                  /\ tls_keys[c].machine_id \in machines \cup {Null}
  <2>1. PICK window \in RenewDays : \E rows \in [Seeds -> SeedRows(window)] :
          tls_keys = [c \in Certs |-> IF c \in Seeds THEN rows[c] ELSE Null]
    BY DEF Init
  <2>2. machines \subseteq Machines
    BY DEF Init
  <2>3. \A row \in SeedRows(window) : /\ row.last_status = "none"
                                      /\ row.machine_id \in machines \cup {Null}
    BY <2>2, SeedRowType
  <2> QED
    BY <2>1, <2>3 DEF Live
<1>3. ~Holding /\ job.queue = {} /\ Pending = {} /\ job.pc = "sleep"
  BY DEF Init, Asleep, Holding, Pending
<1>4. IdsInv
  BY <1>2, <1>3 DEF Init, IdsInv
<1>5. NewInv
  BY <1>3 DEF NewInv
<1>6. TargetsInv /\ HeirCarriesOn
  BY <1>2 DEF Init, TargetsInv, HeirCarriesOn, Superseded
<1>7. PendingInv
  BY <1>2, <1>3 DEF Init, PendingInv
<1>8. ForkInv /\ ForkOnlyWhenInterrupted /\ HeirOutlives /\ HeirKeepsHosts
  <2>1. \A n, c \in Certs : renewedFrom[n] = Null /\ ~Heir(n, c)
    BY NamesAssumption DEF Init, Heir
  <2> QED
    BY <2>1 DEF ForkInv, ForkOnlyWhenInterrupted, HeirOutlives, HeirKeepsHosts
<1>9. HostsInv
  BY <1>2, <1>3 DEF HostsInv, Named, Holding
<1> QED
  BY <1>1, <1>4, <1>5, <1>6, <1>7, <1>8, <1>9 DEF IInv

LEMMA StutterIInv == IInv /\ UNCHANGED vars => IInv'
<1> SUFFICES ASSUME IInv, UNCHANGED vars PROVE IInv'
  OBVIOUS
<1> USE DEF vars
<1>1. TypeOK'
  BY NextType DEF IInv
<1>2. IdsInv' /\ TargetsInv'
  BY DEF IInv, IdsInv, TargetsInv, Live, Bound, Superseded, Holding
<1>3. NewInv'
  BY DEF IInv, NewInv, Carries, Live
<1>4. PendingInv'
  BY DEF IInv, PendingInv, Pending, Live, Holding
<1>5. HeirCarriesOn'
  BY DEF IInv, HeirCarriesOn, Carries, Live, Superseded
<1>6. ForkInv' /\ ForkOnlyWhenInterrupted' /\ HeirOutlives'
  BY DEF IInv, ForkInv, ForkOnlyWhenInterrupted, HeirOutlives, Heir, Live
<1>7. HostsInv' /\ HeirKeepsHosts'
  BY DEF IInv, HostsInv, HeirKeepsHosts, HostsOf, Pending, Heir, Live
<1> QED
  BY <1>1, <1>2, <1>3, <1>4, <1>5, <1>6, <1>7 DEF IInv

LEMMA NextIInv == IInv /\ [Next]_vars => IInv'
<1> SUFFICES ASSUME IInv, Next PROVE IInv'
  BY StutterIInv
<1>1. TypeOK'
  BY NextType DEF IInv
<1> QED
  BY <1>1, IdsStep, NewStep, TargetsStep, PendingStep, ForkStep, HeirStep, ForkOnlyStep,
     OutlivesStep, HostsStep, HeirHostsStep DEF IInv

\* The inductive invariant holds throughout.
THEOREM Invariant == Spec => []IInv
BY InitIInv, NextIInv, PTL DEF Spec

\* No crash, failing statement or concurrent request strands a target on a certificate
\* the task has retired; only an operator's own write can put it back there.
THEOREM NoTargetStranded == Spec => []NoStrandedTarget
<1>1. IInv => NoStrandedTarget
  BY DEF IInv, TargetsInv, NoStrandedTarget
<1> QED
  BY <1>1, Invariant, PTL

\* No failure between two statements ends a certificate's automatic renewal.
THEOREM RenewalCarriesOn == Spec => []HeirCarriesOn
<1>1. IInv => HeirCarriesOn
  BY DEF IInv
<1> QED
  BY <1>1, Invariant, PTL

\* A renewal forks only when it was cut half-way or an operator had a hand in it.
THEOREM ForksOnlyWhenInterrupted == Spec => []ForkOnlyWhenInterrupted
<1>1. IInv => ForkOnlyWhenInterrupted
  BY DEF IInv
<1> QED
  BY <1>1, Invariant, PTL

\* The 825-day cap never makes a renewal expire before what it replaces.
THEOREM RenewalOutlives == Spec => []HeirOutlives
<1>1. IInv => HeirOutlives
  BY DEF IInv
<1> QED
  BY <1>1, Invariant, PTL

\* Whoever deletes hosts or certificates meanwhile, a renewal loses no host.
THEOREM RenewalKeepsHosts == Spec => []HeirKeepsHosts
<1>1. IInv => HeirKeepsHosts
  BY DEF IInv
<1> QED
  BY <1>1, Invariant, PTL

----------------------------------------------------------------------------
(* Renewal is a succession, step by step *)

LEMMA TouchedSteps ==
  ASSUME TypeOK, Next
  PROVE  \/ touched' = touched
         \/ \E c \in Certs : Live(c) /\ touched' = touched \cup {c}
<1>1. CASE JobStep \/ JobGenerateThenFail \/ JobFail \/ Crash \/ NextDay
  BY <1>1 DEF JobStep, JobSelect, JobNext, JobCycleEnd, JobGenerate, JobGenerateThenFail,
     JobCannotIssue, JobEnable, JobRepoint, JobSupersede, JobTargets, JobDeploy,
     JobFinishDeploy, JobRenewed, JobFail, Crash, NextDay, history
<1>2. CASE OperatorIssues
  BY <1>2, OperatorRow DEF history
<1>3. ASSUME NEW c \in Certs, SetTlsAutoRenew(c) \/ RevokeTls(c) \/ DeleteTlsCert(c)
      PROVE  Live(c) /\ touched' = touched \cup {c}
  BY <1>3 DEF SetTlsAutoRenew, RevokeTls, DeleteTlsCert, Touch
<1>4. CASE Operator
  BY <1>2, <1>3, <1>4
  DEF Operator, OperatorIssues, DeleteMachine, CreateHostApplication, DeleteHostApplication,
      PatchRead, PatchWrite, history
<1> QED
  BY <1>1, <1>4 DEF Next

\* A row nobody has touched leaves renewal only when renew_one retires it.
LEMMA AutoKept ==
  ASSUME TypeOK, TypeOK', Next, NEW c \in Certs, c \in issued, c \notin touched',
         Live(c), tls_keys[c].auto_renew, ~(JobSupersede /\ c = job.old.id)
  PROVE  Live(c)' /\ tls_keys'[c].auto_renew
<1>1. RowStep(c)
  BY RowSteps
<1>2. tls_keys[c] \in TlsKey
  BY DEF TypeOK, Live
<1>3. CASE tls_keys'[c] = tls_keys[c]
  BY <1>3 DEF Live
<1>4. CASE JobEnable /\ c = job.new /\ Live(c)'
           /\ tls_keys'[c] = [tls_keys[c] EXCEPT !.auto_renew = TRUE,
                                !.renew_days_before = job.old.renew_days_before,
                                !.last_status = "renewed"]
  BY <1>2, <1>4 DEF TlsKey
<1> QED
  BY <1>1, <1>3, <1>4 DEF RowStep

LEMMA RetiredStep ==
  ASSUME TypeOK, TypeOK', IdsInv, CareInv, Next, NEW c \in Certs \ touched', Superseded(c)'
  PROVE  ~tls_keys'[c].auto_renew
<1>1. c \notin touched
  BY Monotone
<1>2. CASE c \notin issued
  <2>1. tls_keys'[c] # Null
    BY DEF Superseded, Live
  <2>2. RowsInserted /\ c = FreshId
    BY <1>2, <2>1, FreshSteps
  <2>3. PICK row, from : Plain(row) /\ Insert(row, from)
    BY <2>2, InsertedRow
  <2>4. tls_keys'[c] = row
    BY <2>2, <2>3 DEF Insert, TypeOK
  <2> QED
    BY <2>3, <2>4 DEF Plain, Superseded
<1>3. CASE c \in issued
  <2>1. RowStep(c)
    BY <1>3, RowSteps
  <2>2. Live(c) => tls_keys[c] \in TlsKey
    BY DEF TypeOK, Live
  <2>3. CASE tls_keys'[c] = tls_keys[c]
    BY <1>1, <2>3 DEF CareInv, Superseded, Live
  <2>4. CASE Live(c) /\ tls_keys'[c] = [tls_keys[c] EXCEPT !.auto_renew = TRUE,
                                          !.renew_days_before = job.old.renew_days_before,
                                          !.last_status = "renewed"]
    BY <2>2, <2>4 DEF Superseded, TlsKey
  <2>5. CASE Live(c) /\ tls_keys'[c] = [tls_keys[c] EXCEPT !.auto_renew = FALSE,
                                          !.last_status = "superseded"]
    BY <2>2, <2>5 DEF TlsKey
  <2> QED
    BY <2>1, <2>3, <2>4, <2>5 DEF RowStep, Superseded, Live
<1> QED
  BY <1>2, <1>3

LEMMA CareStep ==
  ASSUME IInv, IInv', CareInv, Next
  PROVE  CareInv'
<1> USE DEF IInv
<1>1. touched' \subseteq issued'
  BY TouchedSteps, Monotone DEF CareInv, IdsInv
<1>2. \A c \in (Certs \ touched)' : Superseded(c)' => ~tls_keys'[c].auto_renew
  BY RetiredStep
<1>3. ASSUME job'.pc \in {"repoint", "supersede"}, NEW c \in {job'.old.id, job'.new} \ touched'
      PROVE  Live(c)' /\ tls_keys'[c].auto_renew
  <2>1. c \notin touched
    BY <1>3, Monotone
  <2>2. ~JobSelect /\ ~JobNext /\ ~Returns
    BY <1>3 DEF JobSelect, JobNext, Returns, Asleep
  <2>3. CASE UNCHANGED job
    <3>1. c \in Certs /\ c \in issued
      BY <1>3, <2>3 DEF TypeOK, Holding, IdsInv, NewInv, RenewCandidate
    <3>2. ~JobSupersede
      BY <1>3, <2>3 DEF JobSupersede, TypeOK, JobRecord
    <3> QED
      BY <1>3, <2>1, <2>3, <3>1, <3>2, AutoKept DEF CareInv
  <2>4. CASE Advances /\ job'.pc = "repoint"
    <3>1. JobEnable /\ job'.old = job.old /\ job'.new = job.new /\ job.pc = "enable"
      BY <2>4, JobPlaces DEF Advances, JobEnable
    <3>2. job.old \in Pending /\ job.old \in RenewCandidate /\ job.new \in Certs
      BY <3>1 DEF Pending, TypeOK, Holding
    <3>3. c \in Certs /\ c \in issued
      BY <1>3, <3>1, <3>2 DEF IdsInv, NewInv, Holding, RenewCandidate
    <3>4. CASE c = job.old.id
      <4>1. Live(c) /\ tls_keys[c].auto_renew
        BY <2>1, <3>2, <3>4 DEF PendingInv
      <4> QED
        BY <1>3, <3>1, <3>3, <4>1, AutoKept DEF JobSupersede
    <3>5. CASE c = job.new
      <4>1. Live(c)
        BY <2>1, <3>1, <3>5 DEF NewInv
      <4>2. tls_keys[c] \in TlsKey
        BY <3>3, <4>1 DEF TypeOK, Live
      <4>3. tls_keys'[c] = [tls_keys[c] EXCEPT !.auto_renew = TRUE,
                               !.renew_days_before = job.old.renew_days_before,
                               !.last_status = "renewed"]
        BY <3>1, <3>3, <3>5, <4>1 DEF JobEnable
      <4>4. job.old.renew_days_before \in RenewDays
        BY <3>2 DEF RenewCandidate
      <4>5. [tls_keys[c] EXCEPT !.auto_renew = TRUE,
               !.renew_days_before = job.old.renew_days_before,
               !.last_status = "renewed"] \in TlsKey
        BY <4>2, <4>4, RowTypes
      <4> QED
        BY <4>2, <4>3, <4>5, NullAssumption DEF Live, TlsKey
    <3> QED
      BY <1>3, <3>1, <3>4, <3>5
  <2>5. CASE Advances /\ job'.pc = "supersede"
    BY <1>3, <2>5, JobPlaces DEF JobRepoint, Advances, CareInv, Live, table
  <2> QED
    BY <1>3, <2>2, <2>3, <2>4, <2>5, JobActions DEF Advances
<1> QED
  BY <1>1, <1>2, <1>3 DEF CareInv

LEMMA SameStage == ASSUME tls_keys' = tls_keys, touched' = touched PROVE Stage' = Stage
BY DEF Stage, Live, Superseded

LEMMA SameServing ==
  ASSUME TypeOK, lateBound' = lateBound,
         \A t \in Targets :
           \/ host_applications'[t] = host_applications[t]
           \/ /\ host_applications[t] # Null /\ host_applications'[t] # Null
              /\ host_applications'[t].tls_key_id = host_applications[t].tls_key_id
  PROVE  Serving' = Serving /\ Late' = Late
<1>1. \A t \in Targets : host_applications'[t] = Null <=> host_applications[t] = Null
  OBVIOUS
<1>2. \A t \in Targets : Serving'[t] = Serving[t]
  BY <1>1 DEF Serving
<1>3. Serving' = Serving
  BY <1>2 DEF Serving
<1>4. lateBound \subseteq Targets
  BY DEF TypeOK
<1> QED
  BY <1>1, <1>3, <1>4 DEF Late

LEMMA InitRefines == Init => Renewal!Init
<1> SUFFICES ASSUME Init PROVE Renewal!Init
  OBVIOUS
<1> USE NamesAssumption
<1>1. PICK window \in RenewDays, rows \in UNION {[Seeds -> SeedRows(w)] : w \in RenewDays} :
        /\ rows \in [Seeds -> SeedRows(window)]
        /\ tls_keys = [c \in Certs |-> IF c \in Seeds THEN rows[c] ELSE Null]
  BY DEF Init
<1>2. \A c \in Seeds : /\ rows[c] \in TlsKey /\ rows[c].last_status = "none"
                       /\ rows[c].auto_renew = TRUE
  BY <1>1, SeedRowType DEF Init
<1>3. \A c \in Certs : Stage[c] = IF c \in Seeds THEN "kept" ELSE "none"
  BY <1>1, <1>2, NullAssumption DEF Stage, Init, Live, Superseded
<1>4. Stage \in [Certs -> {"none", "kept"}]
  BY <1>3 DEF Stage
<1>5. \A t \in Targets : Serving[t] \in Certs \cup {Null}
  <2>1. host_applications \in [Targets -> HostApplication \cup {Null}]
    BY InitType DEF TypeOK
  <2> QED
    BY <2>1 DEF Serving, HostApplication
<1>6. Serving \in [Targets -> Certs \cup {Null}]
  BY <1>5 DEF Serving
<1>7. Late = {}
  BY DEF Init, Late
<1> QED
  BY <1>4, <1>6, <1>7 DEF Init, Renewal!Init

\* A row inserted by itself, or for a certificate in charge.
LEMMA IssueRefines ==
  ASSUME IInv, CareInv, NEW row, NEW from \in Certs \cup {Null}, Plain(row), Insert(row, from),
         from # Null => Renewal!InCharge(from),
         UNCHANGED <<host_applications, repointed, lateBound, touched>>
  PROVE  Renewal!Next
<1>1. PICK n \in Certs : n = FreshId /\ n \notin issued
  BY FreshIdType DEF Insert
<1>2. ~Live(n) /\ n \notin touched
  <2>1. \A c \in Certs : Live(c) => c \in issued
    BY DEF IInv, IdsInv
  <2>2. touched \subseteq issued
    BY DEF CareInv
  <2> QED
    BY <1>1, <2>1, <2>2
<1>3. /\ tls_keys' = [tls_keys EXCEPT ![n] = row]
      /\ renewedFrom' = [renewedFrom EXCEPT ![n] = from]
  BY <1>1 DEF Insert
<1>4. tls_keys \in [Certs -> TlsKey \cup {Null}]
  BY DEF IInv, TypeOK
<1>5. Live(n)' /\ ~Superseded(n)' /\ ~tls_keys'[n].auto_renew
  <2>1. tls_keys'[n] = row
    BY <1>3, <1>4
  <2> QED
    BY <2>1, NullAssumption DEF Plain, Live, Superseded
<1>6. \A c \in Certs : Stage'[c] = IF c = n THEN "idle" ELSE Stage[c]
  <2>1. Stage'[n] = "idle"
    BY <1>1, <1>2, <1>5 DEF Stage
  <2>2. ASSUME NEW c \in Certs, c # n PROVE Stage'[c] = Stage[c]
    BY <1>3, <1>4, <2>2 DEF Stage, Live, Superseded
  <2> QED
    BY <2>1, <2>2
<1>7. Stage' = [Stage EXCEPT ![n] = "idle"]
  BY <1>1, <1>6 DEF Stage
<1>8. Stage[n] = "none"
  BY <1>1, <1>2 DEF Stage
<1>9. Serving' = Serving /\ Late' = Late
  BY SameServing DEF IInv
<1>10. Renewal!Issue(n, from)
  BY <1>3, <1>7, <1>8, <1>9 DEF Renewal!Issue
<1> QED
  BY <1>1, <1>10 DEF Renewal!Next

\* Who a renewal under way works for: the certificate it replaces and the new one.
LEMMA BothInCharge ==
  ASSUME IInv, CareInv, job.pc \in {"repoint", "supersede"}
  PROVE  /\ job.old.id \in Certs /\ job.new \in Certs /\ job.new # job.old.id
         /\ renewedFrom[job.new] = job.old.id
         /\ Renewal!InCharge(job.old.id) /\ Renewal!InCharge(job.new)
         /\ job.old.id \notin touched => Live(job.old.id) /\ Stage[job.old.id] = "kept"
<1>1. /\ job.old.id \in Certs /\ job.new \in Certs /\ job.new # job.old.id
      /\ renewedFrom[job.new] = job.old.id
  BY DEF IInv, TypeOK, NewInv, Holding, RenewCandidate
<1>2. ASSUME NEW c \in {job.old.id, job.new}
      PROVE  /\ c \in touched => Stage[c] = "released"
             /\ c \notin touched => Live(c) /\ Stage[c] = "kept"
  BY <1>1, <1>2 DEF CareInv, Stage
<1> QED
  BY <1>1, <1>2 DEF Renewal!InCharge

LEMMA EnableRefines ==
  ASSUME IInv, CareInv, JobEnable
  PROVE  Renewal!Next \/ UNCHANGED Renewal!vars
<1>1. PICK n \in Certs : n = job.new
  BY DEF IInv, TypeOK, JobEnable
<1>2. /\ job.old.id \in Certs /\ renewedFrom[n] = job.old.id
      /\ n \notin touched => Live(n)
      /\ \A m \in Certs : renewedFrom[m] # n
      /\ job.old.renew_days_before \in RenewDays
  BY <1>1 DEF IInv, TypeOK, NewInv, Holding, RenewCandidate, JobEnable
<1>3. ~Superseded(n)
  BY <1>2 DEF IInv, HeirCarriesOn
<1>4. Serving' = Serving /\ Late' = Late
  BY SameServing DEF IInv, JobEnable, history
<1>5. UNCHANGED <<renewedFrom, repointed, touched>>
  BY DEF JobEnable, history
<1>6. \A c \in Certs : c # n => Stage'[c] = Stage[c]
  BY <1>1, <1>5 DEF JobEnable, Stage, Live, Superseded
<1>7. CASE n \in touched
  <2>1. Stage'[n] = Stage[n]
    BY <1>5, <1>7 DEF Stage
  <2>2. Stage' = Stage
    BY <1>6, <2>1 DEF Stage
  <2> QED
    BY <1>4, <1>5, <2>2 DEF Renewal!vars
<1>8. CASE n \notin touched
  <2>1. tls_keys[n] \in TlsKey
    BY <1>2, <1>8 DEF IInv, TypeOK, Live
  <2>2. tls_keys'[n] = [tls_keys[n] EXCEPT !.auto_renew = TRUE,
                          !.renew_days_before = job.old.renew_days_before,
                          !.last_status = "renewed"]
    BY <1>1, <1>2, <1>8 DEF JobEnable
  <2>3. [tls_keys[n] EXCEPT !.auto_renew = TRUE,
           !.renew_days_before = job.old.renew_days_before,
           !.last_status = "renewed"] \in TlsKey
    BY <1>2, <2>1, RowTypes
  <2>4. Live(n)' /\ ~Superseded(n)' /\ tls_keys'[n].auto_renew
    BY <2>1, <2>2, <2>3, NullAssumption DEF Live, Superseded, TlsKey
  <2>5. Stage'[n] = "kept"
    BY <1>5, <1>8, <2>4 DEF Stage
  <2>6. Stage[n] \in {"kept", "idle"}
    BY <1>2, <1>3, <1>8 DEF Stage
  <2>7. CASE Stage[n] = "kept"
    <3>1. Stage' = Stage
      BY <1>6, <2>5, <2>7 DEF Stage
    <3> QED
      BY <1>4, <1>5, <3>1 DEF Renewal!vars
  <2>8. CASE Stage[n] = "idle"
    <3>1. Stage' = [Stage EXCEPT ![n] = "kept"]
      BY <1>6, <2>5 DEF Stage
    <3>2. Renewal!Appoint(n)
      BY <1>2, <1>4, <1>5, <2>8, <3>1, NamesAssumption DEF Renewal!Appoint
    <3> QED
      BY <3>2 DEF Renewal!Next
  <2> QED
    BY <2>6, <2>7, <2>8
<1> QED
  BY <1>7, <1>8

LEMMA RepointRefines ==
  ASSUME IInv, CareInv, JobRepoint
  PROVE  Renewal!Next
<1>1. PICK c \in Certs, n \in Certs : c = job.old.id /\ n = job.new
  BY BothInCharge DEF JobRepoint
<1>2. /\ c # Null /\ renewedFrom[n] = c /\ Renewal!InCharge(c) /\ Renewal!InCharge(n)
      /\ n \notin repointed
  BY <1>1, BothInCharge, NamesAssumption DEF JobRepoint, IInv, NewInv
<1>3. /\ host_applications' = [t \in Targets |->
           IF Bound(t, c) THEN [host_applications[t] EXCEPT !.tls_key_id = n]
                          ELSE host_applications[t]]
      /\ lateBound' = lateBound \ {t \in Targets : Bound(t, c)}
      /\ repointed' = repointed \cup {c}
      /\ tls_keys' = tls_keys /\ renewedFrom' = renewedFrom /\ touched' = touched
  BY <1>1 DEF JobRepoint, table
<1>4. Stage' = Stage
  BY <1>3, SameStage
<1>5. ASSUME NEW t \in Targets
      PROVE  /\ Serving'[t] = IF Serving[t] = c THEN n ELSE Serving[t]
             /\ Bound(t, c) <=> Serving[t] = c
             /\ host_applications'[t] = Null <=> host_applications[t] = Null
  <2>1. Bound(t, c) <=> Serving[t] = c
    BY <1>2 DEF Bound, Serving
  <2>2. CASE Bound(t, c)
    <3>1. host_applications[t] \in HostApplication
      BY <2>2 DEF Bound, IInv, TypeOK
    <3>2. host_applications'[t] = [host_applications[t] EXCEPT !.tls_key_id = n]
      BY <1>3, <2>2
    <3>3. [host_applications[t] EXCEPT !.tls_key_id = n] \in HostApplication
      BY <3>1, TargetTypes
    <3>4. host_applications'[t].tls_key_id = n
      BY <3>1, <3>2 DEF HostApplication
    <3>5. host_applications'[t] # Null /\ host_applications[t] # Null
      BY <3>1, <3>2, <3>3, NullAssumption
    <3>6. Serving'[t] = n
      BY <3>4, <3>5 DEF Serving
    <3> QED
      BY <2>1, <2>2, <3>5, <3>6
  <2>3. CASE ~Bound(t, c)
    <3>1. host_applications'[t] = host_applications[t]
      BY <1>3, <2>3
    <3>2. Serving'[t] = Serving[t]
      BY <3>1 DEF Serving
    <3> QED
      BY <2>1, <2>3, <3>1, <3>2
  <2> QED
    BY <2>2, <2>3
<1>6. Serving' = [t \in Targets |-> IF Serving[t] = c THEN n ELSE Serving[t]]
  BY <1>5 DEF Serving
<1>7. Late' = {t \in Late : Serving[t] # c}
  <2>1. lateBound \subseteq Targets
    BY DEF IInv, TypeOK
  <2> QED
    BY <1>3, <1>5, <2>1 DEF Late
<1>8. Renewal!TakeOver(c, n)
  BY <1>2, <1>3, <1>4, <1>6, <1>7 DEF Renewal!TakeOver
<1> QED
  BY <1>8 DEF Renewal!Next

LEMMA SupersedeRefines ==
  ASSUME IInv, CareInv, JobSupersede
  PROVE  Renewal!Next \/ UNCHANGED Renewal!vars
<1>1. PICK c \in Certs, n \in Certs : c = job.old.id /\ n = job.new
  BY BothInCharge DEF JobSupersede
<1>2. /\ c # Null /\ renewedFrom[n] = c /\ Renewal!InCharge(n)
      /\ c \notin touched => Live(c) /\ Stage[c] = "kept"
      /\ c \in repointed
  BY <1>1, BothInCharge, NamesAssumption DEF JobSupersede, IInv, NewInv
<1>3. Serving' = Serving /\ Late' = Late
  BY SameServing DEF IInv, JobSupersede, history
<1>4. UNCHANGED <<renewedFrom, repointed, touched>>
  BY DEF JobSupersede, history
<1>5. \A x \in Certs : x # c => Stage'[x] = Stage[x]
  BY <1>1, <1>4 DEF JobSupersede, Stage, Live, Superseded
<1>6. CASE c \in touched
  <2>1. Stage'[c] = Stage[c]
    BY <1>4, <1>6 DEF Stage
  <2>2. Stage' = Stage
    BY <1>5, <2>1 DEF Stage
  <2> QED
    BY <1>3, <1>4, <2>2 DEF Renewal!vars
<1>7. CASE c \notin touched
  <2>1. tls_keys[c] \in TlsKey
    BY <1>2, <1>7 DEF IInv, TypeOK, Live
  <2>2. tls_keys'[c] = [tls_keys[c] EXCEPT !.auto_renew = FALSE, !.last_status = "superseded"]
    BY <1>1, <1>2, <1>7 DEF JobSupersede
  <2>3. [tls_keys[c] EXCEPT !.auto_renew = FALSE, !.last_status = "superseded"] \in TlsKey
    BY <2>1, RowTypes, DaysAssumption
  <2>4. Superseded(c)'
    BY <2>1, <2>2, <2>3, NullAssumption DEF Live, Superseded, TlsKey
  <2>5. Stage'[c] = "retired"
    BY <1>4, <1>7, <2>4 DEF Stage, Superseded
  <2>6. Stage' = [Stage EXCEPT ![c] = "retired"]
    BY <1>5, <2>5 DEF Stage
  <2>7. ASSUME NEW t \in Targets, Serving[t] = c
        PROVE  t \in Late
    <3>1. Bound(t, c)
      BY <1>2, <2>7 DEF Serving, Bound
    <3> QED
      BY <1>2, <3>1 DEF Bound, Late, IInv, TargetsInv
  <2>8. Renewal!Retire(c)
    BY <1>2, <1>3, <1>4, <1>7, <2>6, <2>7 DEF Renewal!Retire
  <2> QED
    BY <2>8 DEF Renewal!Next
<1> QED
  BY <1>6, <1>7

LEMMA ReleaseRefines ==
  ASSUME IInv, NEW x \in Certs, SetTlsAutoRenew(x) \/ RevokeTls(x) \/ DeleteTlsCert(x)
  PROVE  Renewal!Next
<1>1. /\ Live(x) /\ touched' = touched \cup {x}
      /\ \A c \in Certs : c # x => tls_keys'[c] = tls_keys[c]
      /\ UNCHANGED <<renewedFrom, host_applications, repointed, lateBound>>
  <2>1. CASE SetTlsAutoRenew(x)
    <3>1. PICK on \in BOOLEAN, days \in RenewDays :
            tls_keys' = [tls_keys EXCEPT ![x].auto_renew = on, ![x].renew_days_before = days]
      BY <2>1 DEF SetTlsAutoRenew
    <3>2. \A c \in Certs : c # x => tls_keys'[c] = tls_keys[c]
      BY <3>1 DEF IInv, TypeOK
    <3> QED
      BY <2>1, <3>2 DEF SetTlsAutoRenew, Touch
  <2>2. CASE RevokeTls(x)
    BY <2>2 DEF RevokeTls, Touch
  <2>3. CASE DeleteTlsCert(x)
    BY <2>3 DEF DeleteTlsCert, Touch
  <2> QED
    BY <2>1, <2>2, <2>3
<1>2. Serving' = Serving /\ Late' = Late
  BY <1>1, SameServing DEF IInv
<1>3. \A c \in Certs : c # x => Stage'[c] = Stage[c]
  BY <1>1 DEF Stage, Live, Superseded
<1>4. Stage'[x] = "released" /\ Stage[x] # "none"
  BY <1>1 DEF Stage
<1>5. Stage' = [Stage EXCEPT ![x] = "released"]
  BY <1>3, <1>4 DEF Stage
<1>6. Renewal!Release(x)
  BY <1>1, <1>2, <1>4, <1>5 DEF Renewal!Release
<1> QED
  BY <1>6 DEF Renewal!Next

LEMMA ServingExcept ==
  ASSUME NEW t \in Targets, NEW c, Serving'[t] = c,
         \A u \in Targets : u # t => Serving'[u] = Serving[u]
  PROVE  Serving' = [Serving EXCEPT ![t] = c]
BY DEF Serving

\* An operator's statement on the row of a target.
LEMMA BindRefines ==
  ASSUME IInv, lateBound' \subseteq Targets, NEW t \in Targets, NEW c \in Certs \cup {Null},
         NEW row \in HostApplication \cup {Null},
         host_applications' = [host_applications EXCEPT ![t] = row],
         c = IF row = Null THEN Null ELSE row.tls_key_id,
         \A u \in Targets : u # t => (u \in lateBound' <=> u \in lateBound),
         row # Null => (t \in lateBound' <=> c \in repointed),
         UNCHANGED <<tls_keys, renewedFrom, repointed, touched>>
  PROVE  Renewal!Next
<1>1. host_applications \in [Targets -> HostApplication \cup {Null}] /\ repointed \subseteq Certs
      /\ lateBound \subseteq Targets
  BY DEF IInv, TypeOK
<1>2. Stage' = Stage
  BY SameStage
<1>3. host_applications'[t] = row
      /\ \A u \in Targets : u # t => host_applications'[u] = host_applications[u]
  BY <1>1
<1>4. Serving'[t] = c /\ \A u \in Targets : u # t => Serving'[u] = Serving[u]
  BY <1>3 DEF Serving
<1>5. Serving' = [Serving EXCEPT ![t] = c]
  BY <1>4, ServingExcept
<1>6. Late' = IF c \in repointed THEN Late \cup {t} ELSE Late \ {t}
  <2>1. CASE row = Null
    <3>1. c \notin repointed
      BY <1>1, <2>1, NamesAssumption
    <3> QED
      BY <1>1, <1>3, <2>1, <3>1 DEF Late
  <2>2. CASE row # Null
    BY <1>1, <1>3, <2>2 DEF Late
  <2> QED
    BY <2>1, <2>2
<1>7. Renewal!Bind(t, c)
  BY <1>2, <1>5, <1>6 DEF Renewal!Bind
<1> QED
  BY <1>7 DEF Renewal!Next

LEMMA TargetEditRefines ==
  ASSUME IInv, IInv', NEW t \in Targets,
         \/ CreateHostApplication(t) \/ DeleteHostApplication(t)
         \/ \E r \in Requests : PatchWrite(r) /\ t = requests[r].target
  PROVE  Renewal!Next \/ UNCHANGED Renewal!vars
<1> USE NamesAssumption, NullAssumption
<1>0. lateBound \subseteq Targets /\ lateBound' \subseteq Targets
  BY DEF IInv, TypeOK
<1>1. CASE CreateHostApplication(t)
  <2>1. PICK c \in (issued \cap Certs) \cup {Null}, auto \in BOOLEAN :
          /\ host_applications' = [host_applications EXCEPT ![t] =
               [tls_key_id |-> c, auto_deploy |-> auto, last_deploy_status |-> "none"]]
          /\ BindByOperator(t, c)
    BY <1>1 DEF CreateHostApplication
  <2> DEFINE row == [tls_key_id |-> c, auto_deploy |-> auto, last_deploy_status |-> "none"]
  <2>2. row \in HostApplication /\ c = row.tls_key_id
    BY <2>1 DEF HostApplication
  <2>3. row # Null /\ host_applications' = [host_applications EXCEPT ![t] = row]
    BY <2>1, <2>2
  <2> HIDE DEF row
  <2>4. /\ \A u \in Targets : u # t => (u \in lateBound' <=> u \in lateBound)
        /\ t \in lateBound' <=> c \in repointed
    BY <1>0, <2>1 DEF BindByOperator
  <2>5. UNCHANGED <<tls_keys, renewedFrom, repointed, touched>>
    BY <1>1 DEF CreateHostApplication
  <2>6. c \in Certs \cup {Null} /\ c = IF row = Null THEN Null ELSE row.tls_key_id
    BY <2>2, <2>3
  <2> QED
    BY <1>0, <2>2, <2>3, <2>4, <2>5, <2>6, BindRefines
<1>2. CASE DeleteHostApplication(t)
  <2>1. /\ host_applications' = [host_applications EXCEPT ![t] = Null]
        /\ lateBound' = lateBound
        /\ UNCHANGED <<tls_keys, renewedFrom, repointed, touched>>
    BY <1>2 DEF DeleteHostApplication, table
  <2> QED
    BY <1>0, <2>1, BindRefines
<1>3. ASSUME NEW r \in Requests, PatchWrite(r), t = requests[r].target
      PROVE  Renewal!Next \/ UNCHANGED Renewal!vars
  <2> DEFINE c == requests[r].key
             auto == requests[r].auto
             row == IF host_applications[t] = Null THEN Null
                    ELSE [host_applications[t] EXCEPT !.tls_key_id = c, !.auto_deploy = auto]
  <2>1. c \in Certs \cup {Null} /\ auto \in BOOLEAN
    BY <1>3 DEF Request, IInv, TypeOK
  <2>2. /\ host_applications' = [host_applications EXCEPT ![t] = row]
        /\ BindByOperator(t, c)
        /\ UNCHANGED <<tls_keys, renewedFrom, repointed, touched>>
    BY <1>3 DEF PatchWrite, table, IInv, TypeOK
  <2> HIDE DEF c, auto
  <2>3. /\ \A u \in Targets : u # t => (u \in lateBound' <=> u \in lateBound)
        /\ t \in lateBound' <=> c \in repointed
    BY <1>0, <2>2 DEF BindByOperator
  <2>5. CASE host_applications[t] = Null
    <3>1. host_applications' = host_applications
      BY <2>2, <2>5 DEF IInv, TypeOK
    <3>2. Serving' = Serving
      BY <3>1 DEF Serving
    <3>3. Late' = Late
      BY <1>0, <2>3, <2>5, <3>1 DEF Late
    <3> QED
      BY <2>2, <3>2, <3>3, SameStage DEF Renewal!vars
  <2>6. CASE host_applications[t] # Null
    <3>1. host_applications[t] \in HostApplication
      BY <2>6 DEF IInv, TypeOK
    <3>2. row = [host_applications[t] EXCEPT !.tls_key_id = c, !.auto_deploy = auto]
      BY <2>6
    <3>3. [host_applications[t] EXCEPT !.tls_key_id = c, !.auto_deploy = auto]
            \in HostApplication
      BY <2>1, <3>1, TargetTypes
    <3> HIDE DEF row
    <3>4. row \in HostApplication /\ row # Null /\ row.tls_key_id = c
      BY <3>1, <3>2, <3>3 DEF HostApplication
    <3>5. c = IF row = Null THEN Null ELSE row.tls_key_id
      BY <3>4
    <3> QED
      BY <1>0, <2>1, <2>2, <2>3, <3>4, <3>5, BindRefines
  <2> QED
    BY <2>5, <2>6
<1> QED
  BY <1>1, <1>2, <1>3

\* A step that writes no certificate, and of the targets at most the status.
LEMMA QuietRefines ==
  ASSUME IInv, Next,
         JobSelect \/ JobNext \/ JobCycleEnd \/ JobCannotIssue \/ JobTargets \/ JobDeploy
           \/ JobFinishDeploy \/ JobRenewed \/ JobFail \/ Crash \/ NextDay
           \/ (\E m \in Machines : DeleteMachine(m))
           \/ (\E r \in Requests, t \in Targets : PatchRead(r, t))
  PROVE  UNCHANGED Renewal!vars
<1>1. UNCHANGED <<tls_keys, renewedFrom, repointed, lateBound, touched>>
  BY DEF JobSelect, JobNext, JobCycleEnd, JobCannotIssue, JobTargets, JobDeploy,
     JobFinishDeploy, JobRenewed, JobFail, Crash, NextDay, DeleteMachine, PatchRead,
     table, history
<1>2. \A t \in Targets :
        \/ host_applications'[t] = host_applications[t]
        \/ /\ host_applications[t] # Null /\ host_applications'[t] # Null
           /\ host_applications'[t].tls_key_id = host_applications[t].tls_key_id
  <2>1. ASSUME NEW u \in Targets, NEW status \in {"success", "failed"},
               SetDeployStatus(u, status), NEW t \in Targets
        PROVE  \/ host_applications'[t] = host_applications[t]
               \/ /\ host_applications[t] # Null /\ host_applications'[t] # Null
                  /\ host_applications'[t].tls_key_id = host_applications[t].tls_key_id
    <3>1. CASE t # u \/ host_applications[t] = Null
      BY <2>1, <3>1 DEF SetDeployStatus, IInv, TypeOK
    <3>2. CASE t = u /\ host_applications[t] # Null
      <4>1. host_applications[t] \in HostApplication
        BY <3>2 DEF IInv, TypeOK
      <4>2. host_applications'[t] = [host_applications[t] EXCEPT !.last_deploy_status = status]
        BY <2>1, <3>2 DEF SetDeployStatus, IInv, TypeOK
      <4>3. [host_applications[t] EXCEPT !.last_deploy_status = status] \in HostApplication
        BY <4>1, TargetTypes
      <4> QED
        BY <3>2, <4>1, <4>2, <4>3, NullAssumption DEF HostApplication
    <3> QED
      BY <3>1, <3>2
  <2>2. CASE JobDeploy
    <3>1. host_applications' = host_applications
            \/ \E t \in job.targets : SetDeployStatus(t, "failed")
      BY <2>2 DEF JobDeploy
    <3>2. job.targets \subseteq Targets
      BY DEF IInv, TypeOK, JobRecord
    <3> QED
      BY <2>1, <3>1, <3>2
  <2>3. CASE JobFinishDeploy
    <3>1. \E status \in {"success", "failed"} : SetDeployStatus(job.target, status)
      BY <2>3 DEF JobFinishDeploy
    <3>2. job.target \in Targets
      BY <2>3 DEF JobFinishDeploy, IInv, TypeOK
    <3> QED
      BY <2>1, <3>1, <3>2
  <2>4. CASE ~JobDeploy /\ ~JobFinishDeploy
    BY <2>4 DEF JobSelect, JobNext, JobCycleEnd, JobCannotIssue, JobTargets, JobRenewed,
       JobFail, Crash, NextDay, DeleteMachine, PatchRead
  <2> QED
    BY <2>2, <2>3, <2>4
<1> QED
  BY <1>1, <1>2, SameStage, SameServing DEF IInv, Renewal!vars

LEMMA NextRefines ==
  ASSUME IInv, IInv', CareInv, [Next]_vars
  PROVE  [Renewal!Next]_(Renewal!vars)
<1>1. CASE JobGenerate \/ JobGenerateThenFail
  <2>1. PICK row : Plain(row) /\ Insert(row, job.old.id)
    BY <1>1, RenewalRow DEF IInv
  <2>2. /\ job.pc = "generate" /\ job.old \in RenewCandidate
        /\ UNCHANGED <<host_applications, repointed, lateBound, touched>>
    BY <1>1 DEF JobGenerate, JobGenerateThenFail, history, IInv, TypeOK, Holding
  <2>3. PICK c \in Certs : c = job.old.id
    BY <2>2 DEF RenewCandidate
  <2>4. c \notin touched => Live(c) /\ tls_keys[c].auto_renew
    BY <2>2, <2>3 DEF IInv, PendingInv, Pending
  <2>5. Renewal!InCharge(c)
    BY <2>4 DEF Renewal!InCharge, Stage, CareInv
  <2> QED
    BY <2>1, <2>2, <2>3, <2>5, IssueRefines
<1>2. CASE OperatorIssues
  <2>1. PICK row : Plain(row) /\ Insert(row, Null)
    BY <1>2, OperatorRow DEF IInv
  <2>2. UNCHANGED <<host_applications, repointed, lateBound, touched>>
    BY <1>2, OperatorRow DEF IInv, history
  <2> QED
    BY <2>1, <2>2, IssueRefines
<1>3. CASE JobEnable \/ JobSupersede
  BY <1>3, EnableRefines, SupersedeRefines
<1>4. CASE JobRepoint
  BY <1>4, RepointRefines
<1>5. ASSUME NEW c \in Certs, SetTlsAutoRenew(c) \/ RevokeTls(c) \/ DeleteTlsCert(c)
      PROVE  Renewal!Next
  BY <1>5, ReleaseRefines
<1>6. ASSUME NEW t \in Targets, CreateHostApplication(t) \/ DeleteHostApplication(t)
      PROVE  Renewal!Next \/ UNCHANGED Renewal!vars
  BY <1>6, TargetEditRefines
<1>7. ASSUME NEW r \in Requests, PatchWrite(r)
      PROVE  Renewal!Next \/ UNCHANGED Renewal!vars
  <2>1. requests[r].target \in Targets
    BY <1>7 DEF PatchWrite, IInv, TypeOK
  <2> QED
    BY <1>7, <2>1, TargetEditRefines
<1>8. CASE UNCHANGED vars
  <2>1. UNCHANGED <<tls_keys, renewedFrom, host_applications, repointed, lateBound, touched>>
    BY <1>8 DEF vars, table, history
  <2> QED
    BY <2>1, SameStage, SameServing DEF IInv, Renewal!vars
<1>9. CASE Next /\ ~RowsInserted /\ ~JobEnable /\ ~JobSupersede /\ ~JobRepoint
  BY <1>5, <1>6, <1>7, <1>9, QuietRefines
  DEF RowsInserted, OperatorIssues, Next, JobStep, Operator
<1> QED
  BY <1>1, <1>2, <1>3, <1>4, <1>8, <1>9 DEF RowsInserted

\* What nobody but the operator's hand changes once renew_one has written it.
LEMMA Care == Spec => []CareInv
<1>1. Init => CareInv
  <2> SUFFICES ASSUME Init PROVE CareInv
    OBVIOUS
  <2>1. \A c \in Certs : ~Superseded(c)
    <3>1. PICK window \in RenewDays,
               rows \in UNION {[Seeds -> SeedRows(w)] : w \in RenewDays} :
            /\ rows \in [Seeds -> SeedRows(window)]
            /\ tls_keys = [c \in Certs |-> IF c \in Seeds THEN rows[c] ELSE Null]
      BY DEF Init
    <3> QED
      BY <3>1, SeedRowType DEF Init, Superseded, Live
  <2> QED
    BY <2>1 DEF Init, CareInv, Asleep
<1>2. CareInv /\ UNCHANGED vars => CareInv'
  BY DEF CareInv, Superseded, Live, vars, table, history
<1>3. IInv /\ IInv' /\ CareInv /\ [Next]_vars => CareInv'
  BY <1>2, CareStep
<1> QED
  BY Invariant, <1>1, <1>3, PTL DEF Spec

\* renew_one's three updates (enable, re-point, retire), with every failure, crash and
\* operator's request in between, are a succession: nobody leaves before an heir is in
\* charge and has the targets, and nobody comes back.
THEOREM RenewalIsASuccession == Spec => RenewalIsSuccession
<1>1. IInv /\ IInv' /\ CareInv /\ [Next]_vars => [Renewal!Next]_(Renewal!vars)
  BY NextRefines
<1> QED
  BY InitRefines, Invariant, Care, <1>1, PTL DEF Spec, RenewalIsSuccession, Renewal!Spec

\* What is a succession keeps its invariant.
LEMMA SuccessionKept ==
  ASSUME Renewal!Inv, Renewal!NobodyLeftBehind, [Renewal!Next]_(Renewal!vars)
  PROVE  Renewal!Inv' /\ Renewal!NobodyLeftBehind'
<1> USE NamesAssumption
    DEF Renewal!Inv, Renewal!NobodyLeftBehind, Renewal!Stages, Renewal!InCharge
<1>1. ASSUME NEW n \in Certs, NEW c \in Certs \cup {Null}, Renewal!Issue(n, c)
      PROVE  Renewal!Inv' /\ Renewal!NobodyLeftBehind'
  BY <1>1 DEF Renewal!Issue
<1>2. ASSUME NEW n \in Certs, Renewal!Appoint(n)
      PROVE  Renewal!Inv' /\ Renewal!NobodyLeftBehind'
  BY <1>2 DEF Renewal!Appoint
<1>3. ASSUME NEW c \in Certs, NEW n \in Certs, Renewal!TakeOver(c, n)
      PROVE  Renewal!Inv' /\ Renewal!NobodyLeftBehind'
  BY <1>3 DEF Renewal!TakeOver
<1>4. ASSUME NEW c \in Certs, Renewal!Retire(c)
      PROVE  Renewal!Inv' /\ Renewal!NobodyLeftBehind'
  BY <1>4 DEF Renewal!Retire
<1>5. ASSUME NEW c \in Certs, Renewal!Release(c)
      PROVE  Renewal!Inv' /\ Renewal!NobodyLeftBehind'
  BY <1>5 DEF Renewal!Release
<1>6. ASSUME NEW t \in Targets, NEW c \in Certs \cup {Null}, Renewal!Bind(t, c)
      PROVE  Renewal!Inv' /\ Renewal!NobodyLeftBehind'
  BY <1>6 DEF Renewal!Bind
<1>7. CASE UNCHANGED Renewal!vars
  BY <1>7 DEF Renewal!vars
<1> QED
  BY <1>1, <1>2, <1>3, <1>4, <1>5, <1>6, <1>7 DEF Renewal!Next

\* Whoever retires leaves nobody behind.
COROLLARY RenewalLeavesNobodyBehind == Spec => []Renewal!NobodyLeftBehind
<1>1. Renewal!Init => Renewal!Inv /\ Renewal!NobodyLeftBehind
  BY NamesAssumption
  DEF Renewal!Init, Renewal!Inv, Renewal!NobodyLeftBehind, Renewal!Stages
<1> QED
  BY RenewalIsASuccession, <1>1, SuccessionKept, PTL DEF RenewalIsSuccession, Renewal!Spec

=============================================================================
