----------------------------- MODULE Deployment -----------------------------
(***************************************************************************)
(* run_deployment: the private key, the certificate and the chain of a     *)
(* target are written to its host over SSH, one after the other, by        *)
(* deployments that operators and the renewal task start, several at a     *)
(* time if need be, while targets are re-bound, given other paths and      *)
(* deleted.  Nothing keeps paths apart: two files of a target may have the *)
(* same, as in the built-in applications, and so may files of two targets  *)
(* of a host; then one upload overwrites another.                          *)
(*                                                                         *)
(* A step is journalled before and after what it does to the host.  The    *)
(* journal refers to the job and the job to the target, so a deployment    *)
(* whose target is deleted stops at its next line.                         *)
(***************************************************************************)
EXTENDS Naturals

CONSTANTS
  Targets,    \* host_applications rows
  Files,      \* the places on the hosts where paths lead
  Layouts,    \* the paths that targets have, their own or their application's
  Certs,      \* tls_keys rows
  Jobs,       \* identifiers of deployment_jobs rows, one for each deployment
  MaxEdits,   \* bound: targets edited or deleted, certificates deleted
  MaxFaults,  \* bound: crashes, dropped requests, statements failing at the end
  Torn,       \* a file that was being written when the connection ended
  Null

\* The kinds of files, and the order in which they are written.  There is a chain for every
\* certificate, unless its root is deleted while resolve_target reads the one and then the
\* other: left out here.
Kinds == {"key", "certificate", "chain"}

Plan == <<"key", "certificate", "chain">>

\* A key and a certificate have a path each, or resolve_target fails; a chain need not.
Layout == {p \in [Kinds -> Files \cup {Null}] : p["key"] # Null /\ p["certificate"] # Null}

\* What a whole file holds.
Content == [kind: Kinds, cert: Certs]

ASSUME LayoutsAssumption == Layouts \subseteq Layout

ASSUME NamesAssumption ==
  /\ Torn \notin Content
  /\ Null \notin Targets \cup Certs \cup Jobs \cup Files \cup Layouts \cup Content \cup {Torn}

ASSUME BoundsAssumption == MaxEdits \in Nat /\ MaxFaults \in Nat

VARIABLES
  host_applications,  \* the certificate of a target, its paths and its last_deploy_status
  tls_keys,           \* the certificates that exist
  deployment_jobs,    \* the table of jobs
  run,                \* the deployments: where they are and what they have read
  files,              \* what is in the files on the hosts
  edits,              \* edits so far
  faults,             \* faults so far
  writer,             \* history: the deployment that touched a file last
  reporter,           \* history: the deployment that gave a target its outcome last
  rebound             \* history: jobs whose target was re-bound between their two reads

tables == <<host_applications, tls_keys, deployment_jobs>>
bounds == <<edits, faults>>
history == <<writer, reporter, rebound>>
vars == <<tables, run, files, bounds, history>>

----------------------------------------------------------------------------
(* Rows and records *)

HostApplication == [tls_key_id: Certs \cup {Null}, paths: Layouts,
                    last_deploy_status: {"none", "success", "failed"}]

Job == [target: Targets, tls_key_id: Certs \cup {Null}, job_type: {"deploy", "check"},
        status: {"running", "success", "failed"}]

ASSUME NullAssumption == Null \notin HostApplication \cup Job

Run == [pc: {"unused", "start", "resolve", "connect", "write", "reload", "finish", "status",
             "done"},
        target: Targets \cup {Null}, job_type: {"deploy", "check"},
        bound: Certs \cup {Null},   \* what start_job read
        cert: Certs \cup {Null},    \* what resolve_target read ...
        paths: Layouts \cup {Null}, \* ... and where it is to go
        next: 1..4,                 \* the file to write next
        result: {"success", "failed"}]

Unused == [pc |-> "unused", target |-> Null, job_type |-> "check", bound |-> Null, cert |-> Null,
           paths |-> Null, next |-> 1, result |-> "failed"]

\* Where a deployment waits for the host.
Waiting == {"connect", "write", "reload"}

\* Where its next statement is a line of the journal.
Journalling == {"resolve"} \cup Waiting

Active(j) == run[j].pc \notin {"unused", "done"}

Last(j) == IF run[j].paths["chain"] = Null THEN 2 ELSE 3

\* Where the i-th file of j goes, and what it is.
Place(j, i) == run[j].paths[Plan[i]]

Whole(j, i) == [kind |-> Plan[i], cert |-> run[j].cert]

Edit == edits < MaxEdits /\ edits' = edits + 1 /\ UNCHANGED faults

Fault == faults < MaxFaults /\ faults' = faults + 1 /\ UNCHANGED edits

Goto(j, pc) == run' = [run EXCEPT ![j].pc = pc]

End(j, result) == run' = [run EXCEPT ![j].pc = "finish", ![j].result = result]

----------------------------------------------------------------------------
(* The job *)

\* start_job reads the certificate of the target ...
StartRead(j, t) ==
  /\ run[j].pc = "unused"
  /\ host_applications[t] # Null
  /\ \E type \in {"deploy", "check"} :
       run' = [run EXCEPT ![j] = [Unused EXCEPT !.pc = "start", !.target = t, !.job_type = type,
                                                !.bound = host_applications[t].tls_key_id]]
  /\ UNCHANGED <<tables, files, bounds, history>>

\* Mutant of StartInsert: the job is inserted without its certificate.
StartInsertUnbound(j) ==
  LET t == run[j].target
  IN /\ run[j].pc = "start"
     /\ IF host_applications[t] = Null
          THEN Goto(j, "done") /\ UNCHANGED deployment_jobs
          ELSE /\ Goto(j, "resolve")
               /\ deployment_jobs' = [deployment_jobs EXCEPT ![j] =
                    [target |-> t, tls_key_id |-> Null, job_type |-> run[j].job_type,
                     status |-> "running"]]
     /\ UNCHANGED <<host_applications, tls_keys, files, bounds, history>>

\* ... and inserts the job, or fails when the target is gone.
StartInsert(j) ==
  LET t == run[j].target
  IN /\ run[j].pc = "start"
     /\ IF host_applications[t] = Null
          THEN Goto(j, "done") /\ UNCHANGED deployment_jobs
          ELSE /\ Goto(j, "resolve")
               /\ deployment_jobs' = [deployment_jobs EXCEPT ![j] =
                    [target |-> t, tls_key_id |-> run[j].bound, job_type |-> run[j].job_type,
                     status |-> "running"]]
     /\ UNCHANGED <<host_applications, tls_keys, files, bounds, history>>

\* resolve_target reads the certificate of the target again with its paths, and its key; it
\* fails when there is none.
Resolve(j) ==
  LET t == run[j].target
      c == host_applications[t].tls_key_id
  IN /\ run[j].pc = "resolve"
     /\ deployment_jobs[j] # Null
     /\ IF c \in tls_keys
          THEN run' = [run EXCEPT ![j].pc = "connect", ![j].cert = c,
                                  ![j].paths = host_applications[t].paths]
          ELSE End(j, "failed")
     /\ UNCHANGED <<tables, files, bounds, history>>

\* Mutant of Connect: a check that went well is left running.
ConnectForgetsCheck(j) ==
  /\ run[j].pc = "connect"
  /\ deployment_jobs[j] # Null
  /\ IF run[j].job_type = "check" THEN Goto(j, "done") ELSE Goto(j, "write")
  /\ UNCHANGED <<tables, files, bounds, history>>

\* The connection, sudo and the directories are fine: a check ends here.
Connect(j) ==
  /\ run[j].pc = "connect"
  /\ deployment_jobs[j] # Null
  /\ IF run[j].job_type = "check" THEN End(j, "success") ELSE Goto(j, "write")
  /\ UNCHANGED <<tables, files, bounds, history>>

\* j leaves content where its next file goes, whatever else was there.
Leave(j, content) ==
  LET f == Place(j, run[j].next)
  IN /\ files' = [files EXCEPT ![f] = content]
     /\ writer' = [writer EXCEPT ![f] = j]

Leaves(j) == \E content \in {Torn, Whole(j, run[j].next)} : Leave(j, content)

\* Mutant of Write: the certificate file is read back from the table, and not from what
\* resolve_target returned.
WriteAnew(j) ==
  LET now == host_applications[run[j].target].tls_key_id
  IN /\ run[j].pc = "write"
     /\ deployment_jobs[j] # Null
     /\ Leave(j, IF now \in tls_keys /\ run[j].next = 2 THEN [kind |-> "certificate", cert |-> now]
                 ELSE Whole(j, run[j].next))
     /\ run' = [run EXCEPT ![j].next = @ + 1,
                           ![j].pc = IF run[j].next = Last(j) THEN "reload" ELSE "write"]
     /\ UNCHANGED <<tables, bounds, reporter, rebound>>

\* write_remote_file.
Write(j) ==
  /\ run[j].pc = "write"
  /\ deployment_jobs[j] # Null
  /\ Leave(j, Whole(j, run[j].next))
  /\ run' = [run EXCEPT ![j].next = @ + 1,
                        ![j].pc = IF run[j].next = Last(j) THEN "reload" ELSE "write"]
  /\ UNCHANGED <<tables, bounds, reporter, rebound>>

\* The reload command, if there is one, returns 0.
Reload(j) ==
  /\ run[j].pc = "reload"
  /\ deployment_jobs[j] # Null
  /\ End(j, "success")
  /\ UNCHANGED <<tables, files, bounds, history>>

\* A step fails on the host, or a line of the journal is not written.  An upload that fails
\* may have left the file as it was, complete, or in between.
StepFails(j) ==
  /\ run[j].pc \in Journalling
  /\ deployment_jobs[j] # Null
  /\ End(j, "failed")
  /\ \/ UNCHANGED <<files, writer>>
     \/ run[j].pc = "write" /\ Leaves(j)
  /\ UNCHANGED <<tables, bounds, reporter, rebound>>

\* Mutant of FinishJob: the outcome goes to all the jobs of the target.
FinishAllJobs(j) ==
  /\ run[j].pc = "finish"
  /\ deployment_jobs' = [k \in Jobs |->
       IF deployment_jobs[k] # Null /\ deployment_jobs[k].target = run[j].target
         THEN [deployment_jobs[k] EXCEPT !.status = run[j].result]
         ELSE deployment_jobs[k]]
  /\ Goto(j, IF run[j].job_type = "check" THEN "done" ELSE "status")
  /\ UNCHANGED <<host_applications, tls_keys, files, bounds, history>>

\* finish_job.
FinishJob(j) ==
  /\ run[j].pc = "finish"
  /\ deployment_jobs' = [deployment_jobs EXCEPT ![j] =
       IF @ = Null THEN Null ELSE [@ EXCEPT !.status = run[j].result]]
  /\ Goto(j, IF run[j].job_type = "check" THEN "done" ELSE "status")
  /\ UNCHANGED <<host_applications, tls_keys, files, bounds, history>>

\* Mutant of UpdateStatus: only a success is written to the target.
UpdateStatusIfWell(j) ==
  LET t == run[j].target
  IN /\ run[j].pc = "status"
     /\ host_applications' = [host_applications EXCEPT ![t] =
          IF @ = Null \/ run[j].result = "failed" THEN @
          ELSE [@ EXCEPT !.last_deploy_status = "success"]]
     /\ Goto(j, "done")
     /\ reporter' = [reporter EXCEPT ![t] = j]
     /\ UNCHANGED <<tls_keys, deployment_jobs, files, bounds, writer, rebound>>

\* update_host_app_status.
UpdateStatus(j) ==
  LET t == run[j].target
  IN /\ run[j].pc = "status"
     /\ host_applications' = [host_applications EXCEPT ![t] =
          IF @ = Null THEN Null ELSE [@ EXCEPT !.last_deploy_status = run[j].result]]
     /\ Goto(j, "done")
     /\ reporter' = [reporter EXCEPT ![t] = j]
     /\ UNCHANGED <<tls_keys, deployment_jobs, files, bounds, writer, rebound>>

\* The job is gone with its target: the line of the journal breaks its foreign key, and so
\* does the line that would report the failure.
Orphaned(j) ==
  /\ run[j].pc \in Journalling
  /\ deployment_jobs[j] = Null
  /\ Goto(j, "done")
  /\ \/ UNCHANGED <<files, writer>>
     \/ run[j].pc = "write" /\ Leaves(j)   \* between the two lines of its journal
  /\ UNCHANGED <<tables, bounds, reporter, rebound>>

----------------------------------------------------------------------------
(* Operators, the renewal task and faults *)

\* The renewal task, or a PATCH.
Rebind(t, c) ==
  /\ Edit
  /\ host_applications[t] # Null
  /\ c # host_applications[t].tls_key_id
  /\ host_applications' = [host_applications EXCEPT ![t].tls_key_id = c]
  /\ rebound' = rebound \cup {j \in Jobs : run[j].target = t /\ run[j].pc \in {"start", "resolve"}}
  /\ UNCHANGED <<tls_keys, deployment_jobs, run, files, writer, reporter>>

\* A PATCH of its paths, or one of the paths that its application gives it.
Repath(t, p) ==
  /\ Edit
  /\ host_applications[t] # Null
  /\ p # host_applications[t].paths
  /\ host_applications' = [host_applications EXCEPT ![t].paths = p]
  /\ UNCHANGED <<tls_keys, deployment_jobs, run, files, history>>

DeleteTlsCert(c) ==
  /\ Edit
  /\ c \in tls_keys
  /\ tls_keys' = tls_keys \ {c}
  /\ UNCHANGED <<host_applications, deployment_jobs, run, files, history>>

\* One transaction: the journal, the jobs and the target.
DeleteHostApplication(t) ==
  /\ Edit
  /\ host_applications[t] # Null
  /\ host_applications' = [host_applications EXCEPT ![t] = Null]
  /\ deployment_jobs' = [j \in Jobs |->
       IF deployment_jobs[j] # Null /\ deployment_jobs[j].target = t THEN Null
       ELSE deployment_jobs[j]]
  /\ UNCHANGED <<tls_keys, run, files, history>>

\* The request is dropped by its client, or a statement that reports the outcome fails.
Cut(j) ==
  /\ Fault
  /\ Active(j)
  /\ Goto(j, "done")
  /\ \/ UNCHANGED <<files, writer>>
     \/ run[j].pc = "write" /\ Leaves(j)
  /\ UNCHANGED <<tables, reporter, rebound>>

\* The process stops.  One file at a time is being written by each deployment; those of
\* different deployments are torn one by one, as Cut says, before this.
Crash ==
  /\ Fault
  /\ \E j \in Jobs : Active(j)
  /\ run' = [j \in Jobs |-> IF Active(j) THEN [run[j] EXCEPT !.pc = "done"] ELSE run[j]]
  /\ UNCHANGED <<tables, files, history>>

----------------------------------------------------------------------------
(* The specification *)

\* Targets that were never deployed, bound to a certificate or to none, on hosts that hold none
\* of the files.
Init ==
  /\ tls_keys = Certs
  /\ \E bound \in [Targets -> Certs \cup {Null}], paths \in [Targets -> Layouts] :
       host_applications = [t \in Targets |->
         [tls_key_id |-> bound[t], paths |-> paths[t], last_deploy_status |-> "none"]]
  /\ deployment_jobs = [j \in Jobs |-> Null]
  /\ run = [j \in Jobs |-> Unused]
  /\ files = [f \in Files |-> Null]
  /\ edits = 0 /\ faults = 0
  /\ writer = [f \in Files |-> Null]
  /\ reporter = [t \in Targets |-> Null]
  /\ rebound = {}

\* What run_deployment does once it is called.
Step(j) ==
  \/ StartInsert(j) \/ Resolve(j) \/ Connect(j) \/ Write(j) \/ Reload(j) \/ StepFails(j)
  \/ FinishJob(j) \/ UpdateStatus(j) \/ Orphaned(j)

Next ==
  \/ \E j \in Jobs : Step(j) \/ Cut(j) \/ \E t \in Targets : StartRead(j, t)
  \/ \E t \in Targets : DeleteHostApplication(t) \/ \E c \in Certs : Rebind(t, c)
  \/ \E t \in Targets, p \in Layouts : Repath(t, p)
  \/ \E c \in Certs : DeleteTlsCert(c)
  \/ Crash

Spec == Init /\ [][Next]_vars

\* A deployment is a future that is polled until it ends; deploy.rs sets no timeout where it
\* waits for the host.
FairSpec == Spec /\ \A j \in Jobs : WF_vars(run[j].pc \notin Waiting /\ Step(j))

----------------------------------------------------------------------------
(* Properties *)

TypeOK ==
  /\ host_applications \in [Targets -> HostApplication \cup {Null}]
  /\ tls_keys \subseteq Certs
  /\ deployment_jobs \in [Jobs -> Job \cup {Null}]
  /\ run \in [Jobs -> Run]
  /\ files \in [Files -> Content \cup {Torn, Null}]
  /\ edits \in 0..MaxEdits /\ faults \in 0..MaxFaults
  /\ writer \in [Files -> Jobs \cup {Null}]
  /\ reporter \in [Targets -> Jobs \cup {Null}]
  /\ rebound \subseteq Jobs

\* Of the first n files of j, those are in place that j itself did not overwrite with a later
\* one of the n, and that no other deployment touched since.
InPlace(j, n) ==
  \A i \in 1..n :
    /\ \A k \in (i + 1)..n : Place(j, k) # Place(j, i)
    /\ writer[Place(j, i)] \in {j, Null}
    => files[Place(j, i)] = Whole(j, i)

\* All of them are, of a certificate and where resolve_target said.
Installed(j) ==
  /\ run[j].cert \in Certs
  /\ run[j].paths \in Layouts
  /\ InPlace(j, Last(j))

\* A deployment on record as a success has put all its files there, each whole, of its kind and
\* of the certificate that was resolved, whatever was re-bound, failed or crossed meanwhile.
\* Only two things may hide one: a later file of the same deployment, when the target has one
\* path for both (the built-in nginx has for certificate and chain, and haproxy for key and
\* certificate), and another deployment, of this target or of one that has the path too
\* (run_deployment_inner, write_remote_file).
SuccessIsInstalled ==
  \A j \in Jobs :
    LET job == deployment_jobs[j]
    IN job # Null /\ job.job_type = "deploy" /\ job.status = "success" => Installed(j)

\* j's key and certificate have a path each, no chain takes it, and nobody else touched them.
Apart(j) ==
  /\ run[j].paths["key"] # run[j].paths["certificate"]
  /\ run[j].paths["chain"] \notin {run[j].paths["key"], run[j].paths["certificate"]}
  /\ \A i \in {1, 2} : writer[Place(j, i)] \in {j, Null}

Pair(j) ==
  \E c \in Certs : /\ files[run[j].paths["key"]] = [kind |-> "key", cert |-> c]
                   /\ files[run[j].paths["certificate"]] = [kind |-> "certificate", cert |-> c]

\* A target whose last_deploy_status is "success" owes it to a deployment of its own that has
\* left its files in place: where its paths were apart and no other deployment has touched
\* them since, a key and a certificate that go together.  One that failed between two files and
\* said so after it, over the same files, cannot have left the status "success"
\* (update_host_app_status).
StatusIsTrue ==
  \A t \in Targets :
    host_applications[t] # Null /\ host_applications[t].last_deploy_status = "success" =>
      \E j \in Jobs :
        /\ reporter[t] = j /\ run[j].target = t
        /\ Installed(j)
        /\ Apart(j) => Pair(j)

\* The certificate that the record of a successful deployment names is the one it put on the
\* host, although start_job and resolve_target read it one after the other, unless the target
\* was re-bound between the two.
JobNamesCertificate ==
  \A j \in Jobs :
    LET job == deployment_jobs[j]
    IN job # Null /\ job.job_type = "deploy" /\ job.status = "success" /\ j \notin rebound
       => job.tls_key_id = run[j].cert

\* Hosts answer: no deployment waits for its host for ever.
HostsAnswer == \A j \in Jobs : []<>(run[j].pc \notin Waiting)

\* A job that is running ends, well or badly, or goes with its target, provided that hosts
\* answer; after a crash or a dropped request it is on record as running for ever.
JobEnds ==
  HostsAnswer =>
    \A j \in Jobs :
      (deployment_jobs[j] # Null)
        ~> (deployment_jobs[j] = Null \/ deployment_jobs[j].status # "running" \/ faults > 0)

----------------------------------------------------------------------------
(* The inductive invariant *)

\* A job and the deployment it is the record of.
Recorded ==
  \A j \in Jobs :
    /\ run[j].pc \in {"unused", "start"} => deployment_jobs[j] = Null
    /\ run[j].pc # "unused" => run[j].target \in Targets
    /\ run[j].pc \notin {"unused", "start"} /\ deployment_jobs[j] = Null /\ Active(j)
       => host_applications[run[j].target] = Null
    /\ deployment_jobs[j] # Null
       => /\ host_applications[run[j].target] # Null
          /\ deployment_jobs[j].target = run[j].target
          /\ deployment_jobs[j].job_type = run[j].job_type
          /\ deployment_jobs[j].tls_key_id = run[j].bound
          /\ deployment_jobs[j].status = "success"
             => run[j].pc \in {"status", "done"} /\ run[j].result = "success"
    /\ run[j].result = "success" => run[j].pc \in {"finish", "status", "done"}

\* A deployment goes through its files with what it resolved.
Written ==
  \A j \in Jobs :
       /\ run[j].pc \in {"write", "reload", "status"} => run[j].job_type = "deploy"
       /\ run[j].pc \in Waiting \/ run[j].result = "success"
          => run[j].cert \in Certs /\ run[j].paths \in Layouts
       /\ run[j].pc = "write" => run[j].next \in 1..Last(j)
       /\ run[j].pc \in {"start", "resolve", "connect"} => run[j].next = 1
       /\ j \notin rebound /\ (run[j].pc \in Waiting \/ run[j].result = "success")
          => run[j].cert = run[j].bound
       /\ j \notin rebound /\ run[j].pc \in {"start", "resolve"}
             /\ host_applications[run[j].target] # Null
          => host_applications[run[j].target].tls_key_id = run[j].bound

\* The files of a deployment are in place as it goes, and when it has ended well.
Placed ==
  \A j \in Jobs :
    /\ run[j].pc = "write" => InPlace(j, run[j].next - 1)
    /\ run[j].job_type = "deploy" /\ (run[j].pc = "reload" \/ run[j].result = "success")
       => InPlace(j, Last(j))

\* A target has the outcome of the deployment of its own that reported last.
Reported ==
  \A t \in Targets :
    IF reporter[t] = Null
      THEN host_applications[t] # Null => host_applications[t].last_deploy_status = "none"
      ELSE LET j == reporter[t]
           IN /\ run[j].target = t /\ run[j].job_type = "deploy" /\ run[j].pc = "done"
              /\ host_applications[t] # Null
                 => host_applications[t].last_deploy_status = run[j].result

\* The strengthening that the proofs use: what each deployment knows of the tables and of the
\* files, from the moment it starts (start_job to update_host_app_status).
IInv == TypeOK /\ Recorded /\ Written /\ Placed /\ Reported

\* The outcome on record is the one about to be reported, and there is none before the end.
OutcomesInv ==
  \A j \in Jobs : deployment_jobs[j] # Null =>
    /\ run[j].pc = "status" => deployment_jobs[j].status = run[j].result
    /\ run[j].pc \in Journalling \cup {"finish"} => deployment_jobs[j].status = "running"

----------------------------------------------------------------------------
(* The records as those who read them see them *)

Outcome ==
  [t \in Targets |->
     IF host_applications[t] = Null THEN "gone" ELSE host_applications[t].last_deploy_status]

Standing ==
  [j \in Jobs |->
     IF deployment_jobs[j] # Null THEN deployment_jobs[j].status
     ELSE IF run[j].pc \in {"unused", "start"} THEN "unborn" ELSE "gone"]

Owner == [j \in Jobs |-> IF deployment_jobs[j] = Null THEN Null ELSE deployment_jobs[j].target]

Checks == {j \in Jobs : deployment_jobs[j] # Null /\ deployment_jobs[j].job_type = "check"}

Closed == {j \in Jobs : run[j].pc = "done"}

Records == INSTANCE Ledger WITH
  None <- Null, status <- Outcome, job <- Standing, owner <- Owner, checks <- Checks,
  closed <- Closed

\* finish_job and update_host_app_status write the outcome of a deployment twice, one after
\* the other; beside other deployments, deletions of targets and crashes in between, jobs and
\* targets tell what Ledger promises.
RecordsAreLedger == Records!Spec

=============================================================================
