-------------------------- MODULE DeploymentProofs --------------------------
(***************************************************************************)
(* The safety properties of Deployment, proved for every set of targets,   *)
(* certificates and jobs and for every bound.                              *)
(***************************************************************************)
EXTENDS Deployment, TLAPS

USE DEF tables, bounds, history, Edit, Fault

----------------------------------------------------------------------------
(* What a step does to its deployment *)

\* The deployment j becomes the given record and the others stay.
Becomes(j, pc, target, type, bound, cert, paths, next, result) ==
  /\ run' \in [Jobs -> Run]
  /\ run'[j] = [pc |-> pc, target |-> target, job_type |-> type, bound |-> bound, cert |-> cert,
                paths |-> paths, next |-> next, result |-> result]
  /\ \A k \in Jobs : k # j => run'[k] = run[k]

\* It goes on to pc with what it has.
Keeps(j, pc, next, result) ==
  Becomes(j, pc, run[j].target, run[j].job_type, run[j].bound, run[j].cert, run[j].paths, next,
          result)

LEMMA Moves ==
  ASSUME TypeOK, NEW j \in Jobs, NEW r \in Run, run' = [run EXCEPT ![j] = r]
  PROVE  Becomes(j, r.pc, r.target, r.job_type, r.bound, r.cert, r.paths, r.next, r.result)
<1>1. r = [pc |-> r.pc, target |-> r.target, job_type |-> r.job_type, bound |-> r.bound,
           cert |-> r.cert, paths |-> r.paths, next |-> r.next, result |-> r.result]
  BY DEF Run
<1> QED
  BY <1>1 DEF TypeOK, Becomes

LEMMA RunType ==
  ASSUME TypeOK, NEW j \in Jobs
  PROVE  /\ run[j] \in Run
         /\ run[j].target \in Targets \cup {Null}
         /\ run[j].next \in 1..4
BY DEF TypeOK, Run

\* The four ways in which a step changes the record.
LEMMA GotoKeeps ==
  ASSUME TypeOK, NEW j \in Jobs, NEW pc \in {"resolve", "write", "status", "done"}, Goto(j, pc)
  PROVE  Keeps(j, pc, run[j].next, run[j].result)
<1> DEFINE r == [run[j] EXCEPT !.pc = pc]
<1>1. r \in Run
  BY RunType DEF Run
<1>2. run' = [run EXCEPT ![j] = r]
  BY DEF Goto
<1>3. Becomes(j, r.pc, r.target, r.job_type, r.bound, r.cert, r.paths, r.next, r.result)
  BY <1>1, <1>2, Moves
<1>4. /\ r.pc = pc /\ r.target = run[j].target /\ r.job_type = run[j].job_type
      /\ r.bound = run[j].bound /\ r.cert = run[j].cert /\ r.paths = run[j].paths /\ r.next = run[j].next
      /\ r.result = run[j].result
  BY RunType DEF Run
<1> HIDE DEF r
<1> QED
  BY <1>3, <1>4 DEF Keeps

LEMMA EndKeeps ==
  ASSUME TypeOK, NEW j \in Jobs, NEW result \in {"success", "failed"}, End(j, result)
  PROVE  Keeps(j, "finish", run[j].next, result)
<1> DEFINE r == [run[j] EXCEPT !.pc = "finish", !.result = result]
<1>1. r \in Run
  BY RunType DEF Run
<1>2. run' = [run EXCEPT ![j] = r]
  BY DEF End
<1>3. Becomes(j, r.pc, r.target, r.job_type, r.bound, r.cert, r.paths, r.next, r.result)
  BY <1>1, <1>2, Moves
<1>4. /\ r.pc = "finish" /\ r.target = run[j].target /\ r.job_type = run[j].job_type
      /\ r.bound = run[j].bound /\ r.cert = run[j].cert /\ r.paths = run[j].paths /\ r.next = run[j].next
      /\ r.result = result
  BY RunType DEF Run
<1> HIDE DEF r
<1> QED
  BY <1>3, <1>4 DEF Keeps

LEMMA StartMoves ==
  ASSUME TypeOK, NEW j \in Jobs, NEW t \in Targets, StartRead(j, t)
  PROVE  \E type \in {"deploy", "check"} :
           Becomes(j, "start", t, type, host_applications[t].tls_key_id, Null, Null, 1, "failed")
<1>1. PICK type \in {"deploy", "check"} :
        run' = [run EXCEPT ![j] = [Unused EXCEPT !.pc = "start", !.target = t, !.job_type = type,
                                            !.bound = host_applications[t].tls_key_id]]
  BY DEF StartRead
<1> DEFINE r == [Unused EXCEPT !.pc = "start", !.target = t, !.job_type = type,
                               !.bound = host_applications[t].tls_key_id]
<1>2. host_applications[t].tls_key_id \in Certs \cup {Null}
  BY DEF TypeOK, StartRead, HostApplication
<1>3. r \in Run
  <2>1. Unused \in Run
    BY DEF Unused, Run
  <2> QED
    BY <1>2, <2>1 DEF Run
<1>4. Becomes(j, r.pc, r.target, r.job_type, r.bound, r.cert, r.paths, r.next, r.result)
  BY <1>1, <1>3, Moves
<1>5. /\ r.pc = "start" /\ r.target = t /\ r.job_type = type
      /\ r.bound = host_applications[t].tls_key_id /\ r.cert = Null /\ r.paths = Null /\ r.next = 1
      /\ r.result = "failed"
  BY DEF Unused
<1> HIDE DEF r
<1> QED
  BY <1>4, <1>5

LEMMA ResolveMoves ==
  ASSUME TypeOK, NEW j \in Jobs, Resolve(j), run[j].target \in Targets,
         host_applications[run[j].target] # Null
  PROVE  LET c == host_applications[run[j].target].tls_key_id
             p == host_applications[run[j].target].paths
         IN \/ /\ c \in Certs /\ p \in Layouts
               /\ Becomes(j, "connect", run[j].target, run[j].job_type, run[j].bound, c, p,
                          run[j].next, run[j].result)
            \/ Keeps(j, "finish", run[j].next, "failed")
<1> DEFINE c == host_applications[run[j].target].tls_key_id
           p == host_applications[run[j].target].paths
<1>1. CASE c \in tls_keys
  <2> DEFINE r == [run[j] EXCEPT !.pc = "connect", !.cert = c, !.paths = p]
  <2>1. c \in Certs /\ p \in Layouts
    BY <1>1 DEF TypeOK, HostApplication
  <2>2. r \in Run
    BY <2>1, RunType DEF Run
  <2>3. run' = [run EXCEPT ![j] = r]
    BY <1>1 DEF Resolve
  <2>4. Becomes(j, r.pc, r.target, r.job_type, r.bound, r.cert, r.paths, r.next, r.result)
    BY <2>2, <2>3, Moves
  <2>5. /\ r.pc = "connect" /\ r.target = run[j].target /\ r.job_type = run[j].job_type
        /\ r.bound = run[j].bound /\ r.cert = c /\ r.paths = p /\ r.next = run[j].next
        /\ r.result = run[j].result
    BY RunType DEF Run
  <2> HIDE DEF r
  <2> QED
    BY <2>1, <2>4, <2>5
<1>2. CASE c \notin tls_keys
  BY <1>2, EndKeeps DEF Resolve
<1> QED
  BY <1>1, <1>2

LEMMA WriteKeeps ==
  ASSUME TypeOK, NEW j \in Jobs, Write(j), run[j].next \in 1..Last(j)
  PROVE  Keeps(j, IF run[j].next = Last(j) THEN "reload" ELSE "write", run[j].next + 1,
               run[j].result)
<1> DEFINE pc == IF run[j].next = Last(j) THEN "reload" ELSE "write"
           r == [run[j] EXCEPT !.next = @ + 1, !.pc = pc]
<1>1. pc \in {"reload", "write"} /\ run[j].next + 1 \in 1..4
  BY DEF Last
<1>2. r \in Run
  BY <1>1, RunType DEF Run
<1>3. run' = [run EXCEPT ![j] = r]
  BY DEF Write
<1>4. Becomes(j, r.pc, r.target, r.job_type, r.bound, r.cert, r.paths, r.next, r.result)
  BY <1>2, <1>3, Moves
<1>5. /\ r.pc = pc /\ r.target = run[j].target /\ r.job_type = run[j].job_type
      /\ r.bound = run[j].bound /\ r.cert = run[j].cert /\ r.paths = run[j].paths /\ r.next = run[j].next + 1
      /\ r.result = run[j].result
  BY RunType DEF Run
<1> HIDE DEF r
<1> QED
  BY <1>4, <1>5 DEF Keeps

\* The places of the files of a deployment.
LEMMA Places ==
  ASSUME NEW j \in Jobs, run[j].paths \in Layouts
  PROVE  /\ Last(j) \in {2, 3}
         /\ \A i \in 1..Last(j) : Place(j, i) \in Files /\ Plan[i] \in Kinds
<1>1. run[j].paths \in Layout
  BY LayoutsAssumption
<1>2. Plan[1] = "key" /\ Plan[2] = "certificate" /\ Plan[3] = "chain"
  BY DEF Plan
<1>3. /\ run[j].paths["key"] \in Files /\ run[j].paths["certificate"] \in Files
      /\ run[j].paths["chain"] \in Files \cup {Null}
  BY <1>1 DEF Layout, Kinds
<1>4. \A i \in 1..Last(j) : i = 1 \/ i = 2 \/ (i = 3 /\ run[j].paths["chain"] # Null)
  BY DEF Last
<1> QED
  BY <1>2, <1>3, <1>4 DEF Last, Place, Kinds

\* A file is left where the next one of j goes, and j touched it last.
LEMMA LeaveWrites ==
  ASSUME TypeOK, NEW j \in Jobs, NEW content \in Content \cup {Torn}, Leave(j, content),
         run[j].paths \in Layouts, run[j].next \in 1..Last(j)
  PROVE  LET f == Place(j, run[j].next)
         IN /\ files' \in [Files -> Content \cup {Torn, Null}]
            /\ files'[f] = content
            /\ writer' \in [Files -> Jobs \cup {Null}]
            /\ writer'[f] = j
            /\ \A g \in Files : g # f => files'[g] = files[g] /\ writer'[g] = writer[g]
<1>1. Place(j, run[j].next) \in Files
  BY Places
<1> QED
  BY <1>1 DEF Leave, TypeOK

----------------------------------------------------------------------------
(* The invariant is inductive *)

LEMMA InitInv == Init => IInv
<1> SUFFICES ASSUME Init PROVE IInv
  OBVIOUS
<1>1. PICK b \in [Targets -> Certs \cup {Null}], p \in [Targets -> Layouts] :
        host_applications = [t \in Targets |->
          [tls_key_id |-> b[t], paths |-> p[t], last_deploy_status |-> "none"]]
  BY DEF Init
<1>2. Unused \in Run /\ \A j \in Jobs : run[j] = Unused
  BY DEF Init, Unused, Run
<1>3. TypeOK
  BY <1>1, <1>2, BoundsAssumption DEF Init, TypeOK, HostApplication
<1>4. Recorded
  BY <1>2 DEF Init, Recorded, Unused, Active
<1>5. Written
  BY <1>2, NamesAssumption DEF Init, Written, Unused, Waiting
<1>6. Placed
  BY <1>2 DEF Init, Placed, Unused
<1>7. Reported
  BY <1>1 DEF Init, Reported
<1> QED
  BY <1>3, <1>4, <1>5, <1>6, <1>7 DEF IInv

\* The outcome of a target is that of a deployment that has ended.
LEMMA ReportedStays ==
  ASSUME IInv, UNCHANGED <<host_applications, reporter>>,
         \A k \in Jobs : run[k].pc = "done" => run'[k] = run[k]
  PROVE  Reported'
<1>1. \A t \in Targets : reporter[t] # Null => run'[reporter[t]] = run[reporter[t]]
  BY DEF IInv, TypeOK, Reported
<1> QED
  BY <1>1 DEF IInv, Reported

LEMMA StartReadInv ==
  ASSUME IInv, NEW j \in Jobs, NEW t \in Targets, StartRead(j, t)
  PROVE  IInv'
<1> USE DEF IInv
<1>1. PICK type \in {"deploy", "check"} :
        Becomes(j, "start", t, type, host_applications[t].tls_key_id, Null, Null, 1, "failed")
  BY StartMoves
<1>2. /\ UNCHANGED <<tables, files, bounds, history>>
      /\ run[j].pc = "unused"
  BY DEF StartRead
<1>3. TypeOK'
  BY <1>1, <1>2 DEF TypeOK, Becomes
<1>4. Recorded'
  BY <1>1, <1>2 DEF Recorded, Becomes, Active
<1>5. Written'
  BY <1>1, <1>2 DEF Written, Becomes, Waiting, Last
<1>6. Placed'
  BY <1>1, <1>2 DEF Placed, Written, Becomes, InPlace, Place, Whole, Last
<1>7. Reported'
  BY <1>1, <1>2, ReportedStays DEF Becomes
<1> QED
  BY <1>3, <1>4, <1>5, <1>6, <1>7

LEMMA StartInsertInv ==
  ASSUME IInv, NEW j \in Jobs, StartInsert(j)
  PROVE  IInv'
<1> USE DEF IInv
<1> DEFINE t == run[j].target
<1>1. /\ UNCHANGED <<host_applications, tls_keys, files, bounds, history>>
      /\ run[j].pc = "start" /\ t \in Targets /\ run[j] \in Run
  BY RunType DEF StartInsert, Recorded
<1>2. \/ /\ host_applications[t] = Null
         /\ UNCHANGED deployment_jobs
         /\ Keeps(j, "done", run[j].next, run[j].result)
      \/ /\ host_applications[t] # Null
         /\ deployment_jobs' = [deployment_jobs EXCEPT ![j] =
              [target |-> t, tls_key_id |-> run[j].bound, job_type |-> run[j].job_type,
               status |-> "running"]]
         /\ Keeps(j, "resolve", run[j].next, run[j].result)
  BY GotoKeeps DEF StartInsert
<1>3. TypeOK'
  BY <1>1, <1>2 DEF TypeOK, Keeps, Becomes, Run, Job
<1>4. Recorded'
  <2>1. CASE host_applications[t] = Null
    BY <1>1, <1>2, <2>1 DEF Recorded, Keeps, Becomes, Active
  <2>2. CASE host_applications[t] # Null
    <3> DEFINE job == [target |-> t, tls_key_id |-> run[j].bound, job_type |-> run[j].job_type,
                       status |-> "running"]
    <3>1. job \in Job
      BY <1>1 DEF Job, Run
    <3>2. /\ deployment_jobs'[j] = job /\ job # Null
          /\ \A k \in Jobs : k # j => deployment_jobs'[k] = deployment_jobs[k]
      BY <1>2, <2>2, <3>1, NullAssumption DEF TypeOK
    <3>3. /\ job.target = t /\ job.tls_key_id = run[j].bound /\ job.job_type = run[j].job_type
          /\ job.status = "running"
      OBVIOUS
    <3> HIDE DEF job
    <3> QED
      BY <1>1, <1>2, <2>2, <3>2, <3>3 DEF Recorded, Keeps, Becomes, Active
  <2> QED
    BY <2>1, <2>2
<1>5. Written'
  BY <1>1, <1>2 DEF Written, Keeps, Becomes, Waiting, Last
<1>6. Placed'
  BY <1>1, <1>2 DEF Placed, Written, Keeps, Becomes, InPlace, Place, Whole, Last
<1>7. Reported'
  BY <1>1, <1>2, ReportedStays DEF Keeps, Becomes
<1> QED
  BY <1>3, <1>4, <1>5, <1>6, <1>7

\* The target of a deployment that its job still lets go on is there.
LEMMA TargetThere ==
  ASSUME IInv, NEW j \in Jobs, deployment_jobs[j] # Null
  PROVE  /\ run[j].pc \notin {"unused", "start"}
         /\ run[j].target \in Targets
         /\ run[j] \in Run
         /\ host_applications[run[j].target] # Null
BY RunType DEF IInv, Recorded

LEMMA ResolveInv ==
  ASSUME IInv, NEW j \in Jobs, Resolve(j)
  PROVE  IInv'
<1> USE DEF IInv
<1> DEFINE t == run[j].target
           c == host_applications[t].tls_key_id
           p == host_applications[t].paths
<1>1. /\ UNCHANGED <<tables, files, bounds, history>>
      /\ run[j].pc = "resolve" /\ t \in Targets /\ run[j] \in Run
      /\ host_applications[t] # Null /\ deployment_jobs[j] # Null
  BY TargetThere DEF Resolve
<1>2. \/ /\ c \in Certs /\ p \in Layouts
         /\ Becomes(j, "connect", t, run[j].job_type, run[j].bound, c, p, run[j].next,
                    run[j].result)
      \/ Keeps(j, "finish", run[j].next, "failed")
  BY <1>1, ResolveMoves
<1> HIDE DEF c, p
<1>3. TypeOK'
  BY <1>1, <1>2 DEF TypeOK, Keeps, Becomes
<1>4. Recorded'
  BY <1>1, <1>2 DEF Recorded, Keeps, Becomes, Active
<1>5. Written'
  BY <1>1, <1>2 DEF Written, Recorded, Keeps, Becomes, Waiting, Last, c
<1>6. Placed'
  BY <1>1, <1>2 DEF Placed, Recorded, Written, Keeps, Becomes, InPlace, Place, Whole, Last
<1>7. Reported'
  BY <1>1, <1>2, ReportedStays DEF Keeps, Becomes
<1> QED
  BY <1>3, <1>4, <1>5, <1>6, <1>7

LEMMA ConnectInv ==
  ASSUME IInv, NEW j \in Jobs, Connect(j)
  PROVE  IInv'
<1> USE DEF IInv
<1>1. /\ UNCHANGED <<tables, files, bounds, history>>
      /\ run[j].pc = "connect" /\ run[j].target \in Targets /\ run[j] \in Run
      /\ host_applications[run[j].target] # Null /\ deployment_jobs[j] # Null
  BY TargetThere DEF Connect
<1>2. \/ run[j].job_type = "check" /\ Keeps(j, "finish", run[j].next, "success")
      \/ run[j].job_type = "deploy" /\ Keeps(j, "write", run[j].next, run[j].result)
  BY <1>1, EndKeeps, GotoKeeps DEF Connect, Run
<1>3. TypeOK'
  BY <1>1, <1>2 DEF TypeOK, Keeps, Becomes
<1>4. Recorded'
  BY <1>1, <1>2 DEF Recorded, Keeps, Becomes, Active
<1>5. Written'
  BY <1>1, <1>2 DEF Written, Recorded, Keeps, Becomes, Waiting, Last
<1>6. Placed'
  BY <1>1, <1>2 DEF Placed, Written, Keeps, Becomes, InPlace, Place, Whole, Last
<1>7. Reported'
  BY <1>1, <1>2, ReportedStays DEF Keeps, Becomes
<1> QED
  BY <1>3, <1>4, <1>5, <1>6, <1>7

LEMMA ReloadInv ==
  ASSUME IInv, NEW j \in Jobs, Reload(j)
  PROVE  IInv'
<1> USE DEF IInv
<1>1. /\ UNCHANGED <<tables, files, bounds, history>>
      /\ run[j].pc = "reload" /\ run[j].target \in Targets /\ run[j] \in Run
      /\ host_applications[run[j].target] # Null /\ deployment_jobs[j] # Null
  BY TargetThere DEF Reload
<1>2. Keeps(j, "finish", run[j].next, "success")
  BY EndKeeps DEF Reload
<1>3. TypeOK'
  BY <1>1, <1>2 DEF TypeOK, Keeps, Becomes
<1>4. Recorded'
  BY <1>1, <1>2 DEF Recorded, Keeps, Becomes, Active
<1>5. Written'
  BY <1>1, <1>2 DEF Written, Recorded, Keeps, Becomes, Waiting, Last
<1>6. Placed'
  BY <1>1, <1>2 DEF Placed, Written, Keeps, Becomes, InPlace, Place, Whole, Last
<1>7. Reported'
  BY <1>1, <1>2, ReportedStays DEF Keeps, Becomes
<1> QED
  BY <1>3, <1>4, <1>5, <1>6, <1>7

\* Where j is when it writes.
LEMMA AtWrite ==
  ASSUME IInv, NEW j \in Jobs, run[j].pc = "write"
  PROVE  /\ run[j].target \in Targets /\ run[j] \in Run /\ run[j].paths \in Layouts
         /\ run[j].next \in 1..Last(j) /\ Last(j) \in {2, 3}
         /\ Place(j, run[j].next) \in Files /\ Whole(j, run[j].next) \in Content
         /\ run[j].cert \in Certs /\ run[j].job_type = "deploy" /\ run[j].result = "failed"
<1>1. /\ run[j].target \in Targets /\ run[j] \in Run /\ run[j].paths \in Layouts
      /\ run[j].next \in 1..Last(j) /\ run[j].cert \in Certs /\ run[j].job_type = "deploy"
      /\ run[j].result = "failed"
  BY RunType DEF IInv, Recorded, Written, Waiting, Run
<1>2. /\ Last(j) \in {2, 3} /\ Place(j, run[j].next) \in Files /\ Plan[run[j].next] \in Kinds
  BY <1>1, Places
<1> QED
  BY <1>1, <1>2 DEF Whole, Content

\* Content left by j takes the place of nothing that another deployment still vouches for, and
\* of nothing of j but what it overwrites; when it is what j resolved, j has one file more in
\* place.
LEMMA LeavePlaced ==
  ASSUME IInv, NEW j \in Jobs, run[j].pc = "write", NEW content \in Content \cup {Torn},
         Leave(j, content),
         NEW pc, NEW next, NEW result, Keeps(j, pc, next, result),
         \/ /\ content = Whole(j, run[j].next) /\ next = run[j].next + 1 /\ result = run[j].result
            /\ pc = IF run[j].next = Last(j) THEN "reload" ELSE "write"
         \/ pc \in {"finish", "done"} /\ result = "failed"
  PROVE  Placed'
<1> DEFINE n == run[j].next
           f == Place(j, n)
<1> USE DEF IInv
<1>1. /\ n \in 1..Last(j) /\ Last(j) \in {2, 3} /\ TypeOK /\ run[j].paths \in Layouts
      /\ run[j].result = "failed" /\ f \in Files
  BY AtWrite
<1>2. /\ files'[f] = content /\ writer'[f] = j
      /\ \A g \in Files : g # f => files'[g] = files[g] /\ writer'[g] = writer[g]
  BY <1>1, LeaveWrites
<1>3. /\ run'[j].pc = pc /\ run'[j].cert = run[j].cert /\ run'[j].paths = run[j].paths
      /\ run'[j].next = next /\ run'[j].result = result
      /\ \A k \in Jobs : k # j => run'[k] = run[k]
  BY DEF Keeps, Becomes
<1>4. \A k \in Jobs : Last(k)' = Last(k) /\ \A i : Place(k, i)' = Place(k, i)
                                               /\ Whole(k, i)' = Whole(k, i)
  BY <1>3 DEF Last, Place, Whole
<1> SUFFICES ASSUME NEW k \in Jobs
             PROVE  /\ run'[k].pc = "write" => InPlace(k, run[k].next - 1)'
                    /\ run'[k].job_type = "deploy"
                         /\ (run'[k].pc = "reload" \/ run'[k].result = "success")
                       => InPlace(k, Last(k))'
  BY DEF Placed
<1>5. CASE k = j
  <2>1. CASE pc \in {"finish", "done"} /\ result = "failed"
    BY <1>3, <1>5, <2>1
  <2>2. CASE /\ content = Whole(j, n) /\ next = n + 1 /\ result = run[j].result
             /\ pc = IF n = Last(j) THEN "reload" ELSE "write"
    <3>1. InPlace(j, n - 1)
      BY DEF Placed
    <3>2. ASSUME NEW i \in 1..n, \A m \in (i + 1)..n : Place(j, m) # Place(j, i),
                 writer'[Place(j, i)] \in {j, Null}
          PROVE  files'[Place(j, i)] = Whole(j, i)
      <4>1. CASE i = n
        BY <1>2, <2>2, <4>1
      <4>2. CASE i # n
        <5>1. i \in 1..(n - 1) /\ n \in (i + 1)..n /\ i \in 1..Last(j)
          BY <1>1, <4>2
        <5>2. Place(j, i) \in Files /\ Place(j, i) # f
          BY <1>1, <3>2, <5>1, Places
        <5>3. files'[Place(j, i)] = files[Place(j, i)] /\ writer'[Place(j, i)] = writer[Place(j, i)]
          BY <1>2, <5>2
        <5>4. \A m \in (i + 1)..(n - 1) : Place(j, m) # Place(j, i)
          BY <1>1, <3>2
        <5> QED
          BY <3>1, <3>2, <5>1, <5>3, <5>4 DEF InPlace
      <4> QED
        BY <4>1, <4>2
    <3>3. run'[j].next - 1 = n /\ (run'[j].pc = "reload" => Last(j)' = n)
      BY <1>1, <1>3, <1>4, <2>2
    <3>4. InPlace(j, run[j].next - 1)'
      BY <1>4, <3>2, <3>3 DEF InPlace
    <3>5. run'[j].pc = "reload" => InPlace(j, Last(j))'
      BY <1>4, <3>2, <3>3 DEF InPlace
    <3>6. run'[j].result # "success"
      BY <1>1, <1>3, <2>2
    <3> QED
      BY <1>5, <3>4, <3>5, <3>6
  <2> QED
    BY <2>1, <2>2
<1>6. CASE k # j
  <2>1. run'[k] = run[k]
    BY <1>3, <1>6
  <2>2. ASSUME NEW m \in Nat, run[k].paths \in Layouts, m <= Last(k), InPlace(k, m)
        PROVE  InPlace(k, m)'
    <3>1. ASSUME NEW i \in 1..m, \A l \in (i + 1)..m : Place(k, l) # Place(k, i),
                 writer'[Place(k, i)] \in {k, Null}
          PROVE  files'[Place(k, i)] = Whole(k, i)
      <4>1. Place(k, i) \in Files
        BY <2>2, Places
      <4>2. Place(k, i) # f
        BY <1>2, <1>6, <3>1, NamesAssumption
      <4> QED
        BY <1>2, <2>2, <3>1, <4>1, <4>2 DEF InPlace
    <3> QED
      BY <1>4, <3>1 DEF InPlace
  <2>3. ASSUME run[k].pc = "write" PROVE InPlace(k, run[k].next - 1)'
    <3>1. /\ run[k].next - 1 \in Nat /\ run[k].next - 1 <= Last(k) /\ run[k].paths \in Layouts
      BY <2>3, AtWrite
    <3> QED
      BY <2>1, <2>2, <2>3, <3>1 DEF Placed
  <2>4. ASSUME run[k].job_type = "deploy", run[k].pc = "reload" \/ run[k].result = "success"
        PROVE  InPlace(k, Last(k))'
    <3>1. run[k].paths \in Layouts
      BY <2>4 DEF Written, Waiting
    <3>2. Last(k) \in Nat /\ Last(k)' = Last(k)
      BY <1>4, <3>1, Places
    <3> QED
      BY <2>2, <2>4, <3>1, <3>2 DEF Placed
  <2> QED
    BY <2>1, <2>3, <2>4
<1> QED
  BY <1>5, <1>6

LEMMA WriteInv ==
  ASSUME IInv, NEW j \in Jobs, Write(j)
  PROVE  IInv'
<1> USE DEF IInv
<1> DEFINE pc == IF run[j].next = Last(j) THEN "reload" ELSE "write"
<1>1. /\ UNCHANGED <<tables, bounds, reporter, rebound>>
      /\ run[j].pc = "write" /\ Leave(j, Whole(j, run[j].next))
      /\ deployment_jobs[j] # Null /\ host_applications[run[j].target] # Null
  BY TargetThere DEF Write
<1>2. /\ run[j].target \in Targets /\ run[j] \in Run
      /\ run[j].next \in 1..Last(j) /\ Last(j) \in {2, 3} /\ run[j].paths \in Layouts
      /\ run[j].cert \in Certs /\ run[j].job_type = "deploy" /\ run[j].result = "failed"
      /\ Whole(j, run[j].next) \in Content
  BY <1>1, AtWrite
<1>3. Keeps(j, pc, run[j].next + 1, run[j].result)
  BY <1>2, WriteKeeps
<1>4. files' \in [Files -> Content \cup {Torn, Null}] /\ writer' \in [Files -> Jobs \cup {Null}]
  BY <1>1, <1>2, LeaveWrites
<1>5. TypeOK'
  BY <1>1, <1>3, <1>4 DEF TypeOK, Keeps, Becomes
<1>6. Recorded'
  BY <1>1, <1>2, <1>3 DEF Recorded, Keeps, Becomes, Active
<1>7. Written'
  <2>1. \A k \in Jobs : Last(k)' = Last(k)
    BY <1>3 DEF Keeps, Becomes, Last
  <2>2. pc \in {"write", "reload"} /\ (pc = "write" => run[j].next + 1 \in 1..Last(j))
    BY <1>2
  <2> HIDE DEF pc
  <2>3. /\ run'[j].pc = pc /\ run'[j].next = run[j].next + 1
        /\ run'[j].target = run[j].target /\ run'[j].job_type = run[j].job_type
        /\ run'[j].bound = run[j].bound /\ run'[j].cert = run[j].cert
        /\ run'[j].paths = run[j].paths /\ run'[j].result = run[j].result
        /\ \A k \in Jobs : k # j => run'[k] = run[k]
    BY <1>3 DEF Keeps, Becomes
  <2> QED
    BY <1>1, <1>2, <1>4, <2>1, <2>2, <2>3 DEF Written, Waiting
<1>8. Placed'
  BY <1>1, <1>2, <1>3, LeavePlaced
<1>9. Reported'
  BY <1>1, <1>3, ReportedStays DEF Keeps, Becomes
<1> QED
  BY <1>5, <1>6, <1>7, <1>8, <1>9

\* A deployment of an existing job that fails.
LEMMA StepFailsInv ==
  ASSUME IInv, NEW j \in Jobs, StepFails(j)
  PROVE  IInv'
<1> USE DEF IInv
<1>1. /\ UNCHANGED <<tables, bounds, reporter, rebound>>
      /\ run[j].pc \in {"resolve", "connect", "write", "reload"}
      /\ deployment_jobs[j] # Null /\ host_applications[run[j].target] # Null
      /\ run[j].target \in Targets /\ run[j] \in Run
  BY TargetThere DEF StepFails, Journalling, Waiting
<1>2. Keeps(j, "finish", run[j].next, "failed")
  BY EndKeeps DEF StepFails
<1>3. Recorded'
  BY <1>1, <1>2 DEF Recorded, Keeps, Becomes, Active
<1>4. CASE UNCHANGED <<files, writer>>
  <2>1. TypeOK'
    BY <1>1, <1>2, <1>4 DEF TypeOK, Keeps, Becomes
  <2>2. Written'
    BY <1>1, <1>2, <1>4 DEF Written, Recorded, Keeps, Becomes, Waiting, Last
  <2>3. Placed'
    BY <1>1, <1>2, <1>4 DEF Placed, Written, Keeps, Becomes, InPlace, Place, Whole, Last
  <2>4. Reported'
    BY <1>1, <1>2, ReportedStays DEF Keeps, Becomes, Active
  <2> QED
    BY <1>3, <2>1, <2>2, <2>3, <2>4
<1>5. CASE run[j].pc = "write" /\ Leaves(j)
  <2>1. PICK content \in {Torn, Whole(j, run[j].next)} : Leave(j, content)
    BY <1>5 DEF Leaves
  <2>2. /\ run[j].next \in 1..Last(j) /\ content \in Content \cup {Torn}
        /\ run[j].paths \in Layouts
        /\ run[j].job_type = "deploy"
    BY <1>5, AtWrite
  <2>3. /\ files' \in [Files -> Content \cup {Torn, Null}]
        /\ writer' \in [Files -> Jobs \cup {Null}]
    BY <1>1, <2>1, <2>2, LeaveWrites
  <2>4. TypeOK'
    BY <1>1, <1>2, <2>3 DEF TypeOK, Keeps, Becomes
  <2>5. Written'
    BY <1>1, <1>2, <2>2, <2>3 DEF Written, Recorded, Keeps, Becomes, Waiting, Last
  <2>6. Placed'
    BY <1>2, <1>5, <2>1, <2>2, LeavePlaced
  <2>7. Reported'
    BY <1>1, <1>2, ReportedStays DEF Keeps, Becomes, Active
  <2> QED
    BY <1>3, <2>4, <2>5, <2>6, <2>7
<1> QED
  BY <1>4, <1>5 DEF StepFails

\* The job gets its outcome, when it is still there.
LEMMA FinishJobWrites ==
  ASSUME IInv, NEW j \in Jobs, FinishJob(j)
  PROVE  /\ UNCHANGED <<host_applications, tls_keys, files, bounds, history>>
         /\ run[j].pc = "finish" /\ run[j].target \in Targets /\ run[j] \in Run
         /\ \/ run[j].job_type = "check" /\ Keeps(j, "done", run[j].next, run[j].result)
            \/ run[j].job_type = "deploy" /\ Keeps(j, "status", run[j].next, run[j].result)
         /\ deployment_jobs' \in [Jobs -> Job \cup {Null}]
         /\ \A k \in Jobs : k # j => deployment_jobs'[k] = deployment_jobs[k]
         /\ deployment_jobs[j] = Null => deployment_jobs'[j] = Null
         /\ deployment_jobs[j] # Null
            => /\ deployment_jobs'[j] # Null
               /\ deployment_jobs'[j].target = deployment_jobs[j].target
               /\ deployment_jobs'[j].tls_key_id = deployment_jobs[j].tls_key_id
               /\ deployment_jobs'[j].job_type = deployment_jobs[j].job_type
               /\ deployment_jobs'[j].status = run[j].result
<1> USE DEF IInv
<1>1. /\ UNCHANGED <<host_applications, tls_keys, files, bounds, history>>
      /\ run[j].pc = "finish" /\ run[j].target \in Targets /\ run[j] \in Run
  BY RunType DEF FinishJob, Recorded
<1>2. \/ run[j].job_type = "check" /\ Keeps(j, "done", run[j].next, run[j].result)
      \/ run[j].job_type = "deploy" /\ Keeps(j, "status", run[j].next, run[j].result)
  BY <1>1, GotoKeeps DEF FinishJob, Run
<1>3. /\ deployment_jobs' \in [Jobs -> Job \cup {Null}]
      /\ \A k \in Jobs : k # j => deployment_jobs'[k] = deployment_jobs[k]
      /\ deployment_jobs[j] = Null => deployment_jobs'[j] = Null
      /\ deployment_jobs[j] # Null
         => /\ deployment_jobs'[j] # Null
            /\ deployment_jobs'[j].target = deployment_jobs[j].target
            /\ deployment_jobs'[j].tls_key_id = deployment_jobs[j].tls_key_id
            /\ deployment_jobs'[j].job_type = deployment_jobs[j].job_type
            /\ deployment_jobs'[j].status = run[j].result
  <2> DEFINE job == [deployment_jobs[j] EXCEPT !.status = run[j].result]
  <2>1. CASE deployment_jobs[j] = Null
    BY <2>1 DEF FinishJob, TypeOK
  <2>2. CASE deployment_jobs[j] # Null
    <3>1. deployment_jobs[j] \in Job /\ run[j].result \in {"success", "failed"}
      BY <1>1, <2>2 DEF TypeOK, Run
    <3>2. /\ job \in Job /\ job # Null
          /\ job.target = deployment_jobs[j].target
          /\ job.tls_key_id = deployment_jobs[j].tls_key_id
          /\ job.job_type = deployment_jobs[j].job_type
          /\ job.status = run[j].result
      BY <3>1, NullAssumption DEF Job
    <3>3. deployment_jobs' = [deployment_jobs EXCEPT ![j] = job]
      BY <2>2 DEF FinishJob
    <3> HIDE DEF job
    <3> QED
      BY <2>2, <3>2, <3>3 DEF TypeOK
  <2> QED
    BY <2>1, <2>2
<1> QED
  BY <1>1, <1>2, <1>3

LEMMA FinishJobInv ==
  ASSUME IInv, NEW j \in Jobs, FinishJob(j)
  PROVE  IInv'
<1> USE DEF IInv
<1>1. /\ UNCHANGED <<host_applications, tls_keys, files, bounds, history>>
      /\ run[j].pc = "finish" /\ run[j].target \in Targets /\ run[j] \in Run
  BY FinishJobWrites
<1>2. \/ run[j].job_type = "check" /\ Keeps(j, "done", run[j].next, run[j].result)
      \/ run[j].job_type = "deploy" /\ Keeps(j, "status", run[j].next, run[j].result)
  BY FinishJobWrites
<1>3. /\ deployment_jobs' \in [Jobs -> Job \cup {Null}]
      /\ \A k \in Jobs : k # j => deployment_jobs'[k] = deployment_jobs[k]
      /\ deployment_jobs[j] = Null => deployment_jobs'[j] = Null
      /\ deployment_jobs[j] # Null
         => /\ deployment_jobs'[j] # Null
            /\ deployment_jobs'[j].target = deployment_jobs[j].target
            /\ deployment_jobs'[j].tls_key_id = deployment_jobs[j].tls_key_id
            /\ deployment_jobs'[j].job_type = deployment_jobs[j].job_type
            /\ deployment_jobs'[j].status = run[j].result
  BY FinishJobWrites
<1>4. TypeOK'
  BY <1>1, <1>2, <1>3 DEF TypeOK, Keeps, Becomes
<1>5. Recorded'
  BY <1>1, <1>2, <1>3 DEF Recorded, Keeps, Becomes, Active
<1>6. Written'
  BY <1>1, <1>2 DEF Written, Recorded, Keeps, Becomes, Waiting, Last
<1>7. Placed'
  BY <1>1, <1>2 DEF Placed, Written, Keeps, Becomes, InPlace, Place, Whole, Last
<1>8. Reported'
  BY <1>1, <1>2, ReportedStays DEF Keeps, Becomes
<1> QED
  BY <1>4, <1>5, <1>6, <1>7, <1>8

\* The target gets the outcome, when it is still there.
LEMMA UpdateStatusWrites ==
  ASSUME IInv, NEW j \in Jobs, UpdateStatus(j)
  PROVE  LET t == run[j].target
         IN /\ UNCHANGED <<tls_keys, deployment_jobs, files, bounds, writer, rebound>>
            /\ run[j].pc = "status" /\ t \in Targets /\ run[j] \in Run
            /\ reporter' = [reporter EXCEPT ![t] = j]
            /\ Keeps(j, "done", run[j].next, run[j].result)
            /\ host_applications' \in [Targets -> HostApplication \cup {Null}]
            /\ \A u \in Targets : u # t => host_applications'[u] = host_applications[u]
            /\ host_applications[t] = Null <=> host_applications'[t] = Null
            /\ host_applications[t] # Null
               => /\ host_applications'[t].tls_key_id = host_applications[t].tls_key_id
                  /\ host_applications'[t].last_deploy_status = run[j].result
<1> USE DEF IInv
<1> DEFINE t == run[j].target
<1>1. /\ UNCHANGED <<tls_keys, deployment_jobs, files, bounds, writer, rebound>>
      /\ run[j].pc = "status" /\ t \in Targets /\ run[j] \in Run
      /\ reporter' = [reporter EXCEPT ![t] = j]
  BY RunType DEF UpdateStatus, Recorded
<1>2. Keeps(j, "done", run[j].next, run[j].result)
  BY GotoKeeps DEF UpdateStatus
<1>3. /\ host_applications' \in [Targets -> HostApplication \cup {Null}]
      /\ \A u \in Targets : u # t => host_applications'[u] = host_applications[u]
      /\ host_applications[t] = Null <=> host_applications'[t] = Null
      /\ host_applications[t] # Null
         => /\ host_applications'[t].tls_key_id = host_applications[t].tls_key_id
            /\ host_applications'[t].last_deploy_status = run[j].result
  <2> DEFINE row == [host_applications[t] EXCEPT !.last_deploy_status = run[j].result]
  <2>1. CASE host_applications[t] = Null
    BY <1>1, <2>1 DEF UpdateStatus, TypeOK
  <2>2. CASE host_applications[t] # Null
    <3>1. host_applications[t] \in HostApplication /\ run[j].result \in {"success", "failed"}
      BY <1>1, <2>2 DEF TypeOK, Run
    <3>2. /\ row \in HostApplication /\ row # Null
          /\ row.tls_key_id = host_applications[t].tls_key_id
          /\ row.last_deploy_status = run[j].result
      BY <3>1, NullAssumption DEF HostApplication
    <3>3. host_applications' = [host_applications EXCEPT ![t] = row]
      BY <2>2 DEF UpdateStatus
    <3> HIDE DEF row
    <3> QED
      BY <1>1, <2>2, <3>2, <3>3 DEF TypeOK
  <2> QED
    BY <2>1, <2>2
<1> QED
  BY <1>1, <1>2, <1>3

LEMMA UpdateStatusInv ==
  ASSUME IInv, NEW j \in Jobs, UpdateStatus(j)
  PROVE  IInv'
<1> USE DEF IInv
<1> DEFINE t == run[j].target
<1>1. /\ UNCHANGED <<tls_keys, deployment_jobs, files, bounds, writer, rebound>>
      /\ run[j].pc = "status" /\ t \in Targets /\ run[j] \in Run
      /\ reporter' = [reporter EXCEPT ![t] = j]
  BY UpdateStatusWrites
<1>2. Keeps(j, "done", run[j].next, run[j].result)
  BY UpdateStatusWrites
<1>3. /\ host_applications' \in [Targets -> HostApplication \cup {Null}]
      /\ \A u \in Targets : u # t => host_applications'[u] = host_applications[u]
      /\ host_applications[t] = Null <=> host_applications'[t] = Null
      /\ host_applications[t] # Null
         => /\ host_applications'[t].tls_key_id = host_applications[t].tls_key_id
            /\ host_applications'[t].last_deploy_status = run[j].result
  BY UpdateStatusWrites
<1>4. TypeOK'
  BY <1>1, <1>2, <1>3 DEF TypeOK, Keeps, Becomes
<1>5. Recorded'
  BY <1>1, <1>2, <1>3 DEF Recorded, Keeps, Becomes, Active
<1>6. Written'
  BY <1>1, <1>2, <1>3 DEF Written, Recorded, Keeps, Becomes, Waiting, Last
<1>7. Placed'
  BY <1>1, <1>2 DEF Placed, Written, Keeps, Becomes, InPlace, Place, Whole, Last
<1>8. Reported'
  <2>1. \A k \in Jobs : k # j => run'[k] = run[k]
    BY <1>2 DEF Keeps, Becomes
  <2>2. run'[j].result = run[j].result
    BY <1>2 DEF Keeps, Becomes
  <2> SUFFICES ASSUME NEW u \in Targets
               PROVE  IF reporter'[u] = Null
                        THEN host_applications'[u] # Null
                             => host_applications'[u].last_deploy_status = "none"
                        ELSE LET k == reporter'[u]
                             IN /\ run'[k].target = u /\ run'[k].job_type = "deploy"
                                /\ run'[k].pc = "done"
                                /\ host_applications'[u] # Null
                                   => host_applications'[u].last_deploy_status = run'[k].result
    BY DEF Reported
  <2>3. CASE u = t
    <3>1. reporter'[u] = j /\ j # Null
      BY <1>1, <2>3, NamesAssumption DEF TypeOK
    <3>2. run'[j].target = t /\ run'[j].job_type = "deploy" /\ run'[j].pc = "done"
      BY <1>1, <1>2 DEF Keeps, Becomes, Written
    <3> QED
      BY <1>3, <2>2, <2>3, <3>1, <3>2
  <2>4. CASE u # t
    <3>1. reporter'[u] = reporter[u] /\ host_applications'[u] = host_applications[u]
      BY <1>1, <1>3, <2>4 DEF TypeOK
    <3>2. reporter[u] # Null => reporter[u] \in Jobs /\ run[reporter[u]].pc = "done"
      BY DEF Reported, TypeOK
    <3>3. reporter[u] # Null => run'[reporter[u]] = run[reporter[u]]
      BY <1>1, <2>1, <3>2
    <3> QED
      BY <3>1, <3>2, <3>3 DEF Reported
  <2> QED
    BY <2>3, <2>4
<1> QED
  BY <1>4, <1>5, <1>6, <1>7, <1>8

\* A deployment whose target is gone stops where it is.
LEMMA OrphanedInv ==
  ASSUME IInv, NEW j \in Jobs, Orphaned(j)
  PROVE  IInv'
<1> USE DEF IInv
<1>1. /\ UNCHANGED <<tables, bounds, reporter, rebound>>
      /\ run[j].pc \in {"resolve", "connect", "write", "reload"}
      /\ deployment_jobs[j] = Null /\ host_applications[run[j].target] = Null
      /\ run[j].target \in Targets /\ run[j] \in Run /\ run[j].result = "failed"
  BY RunType DEF Orphaned, Journalling, Waiting, Recorded, Active, Run
<1>2. Keeps(j, "done", run[j].next, run[j].result)
  BY GotoKeeps DEF Orphaned
<1>3. Recorded'
  BY <1>1, <1>2 DEF Recorded, Keeps, Becomes, Active
<1>4. CASE UNCHANGED <<files, writer>>
  <2>1. TypeOK'
    BY <1>1, <1>2, <1>4 DEF TypeOK, Keeps, Becomes
  <2>2. Written'
    BY <1>1, <1>2, <1>4 DEF Written, Recorded, Keeps, Becomes, Waiting, Last
  <2>3. Placed'
    BY <1>1, <1>2, <1>4 DEF Placed, Written, Keeps, Becomes, InPlace, Place, Whole, Last
  <2>4. Reported'
    BY <1>1, <1>2, ReportedStays DEF Keeps, Becomes, Active
  <2> QED
    BY <1>3, <2>1, <2>2, <2>3, <2>4
<1>5. CASE run[j].pc = "write" /\ Leaves(j)
  <2>1. PICK content \in {Torn, Whole(j, run[j].next)} : Leave(j, content)
    BY <1>5 DEF Leaves
  <2>2. /\ run[j].next \in 1..Last(j) /\ content \in Content \cup {Torn}
        /\ run[j].paths \in Layouts
        /\ run[j].job_type = "deploy"
    BY <1>5, AtWrite
  <2>3. /\ files' \in [Files -> Content \cup {Torn, Null}]
        /\ writer' \in [Files -> Jobs \cup {Null}]
    BY <1>1, <2>1, <2>2, LeaveWrites
  <2>4. TypeOK'
    BY <1>1, <1>2, <2>3 DEF TypeOK, Keeps, Becomes
  <2>5. Written'
    BY <1>1, <1>2, <2>2, <2>3 DEF Written, Recorded, Keeps, Becomes, Waiting, Last
  <2>6. Placed'
    BY <1>1, <1>2, <1>5, <2>1, <2>2, LeavePlaced
  <2>7. Reported'
    BY <1>1, <1>2, ReportedStays DEF Keeps, Becomes, Active
  <2> QED
    BY <1>3, <2>4, <2>5, <2>6, <2>7
<1> QED
  BY <1>4, <1>5 DEF Orphaned

\* A deployment that is cut off says no more.
LEMMA CutInv ==
  ASSUME IInv, NEW j \in Jobs, Cut(j)
  PROVE  IInv'
<1> USE DEF IInv
<1>1. /\ UNCHANGED <<tables, reporter, rebound, edits>> /\ faults' \in 0..MaxFaults
      /\ Active(j) /\ run[j].target \in Targets /\ run[j] \in Run
  BY RunType, BoundsAssumption DEF Cut, Recorded, Active, TypeOK
<1>2. Keeps(j, "done", run[j].next, run[j].result)
  BY GotoKeeps DEF Cut
<1>3. Recorded'
  BY <1>1, <1>2 DEF Recorded, Keeps, Becomes, Active
<1>4. CASE UNCHANGED <<files, writer>>
  <2>1. TypeOK'
    BY <1>1, <1>2, <1>4 DEF TypeOK, Keeps, Becomes
  <2>2. Written'
    BY <1>1, <1>2, <1>4 DEF Written, Recorded, Keeps, Becomes, Waiting, Last, Active
  <2>3. Placed'
    BY <1>1, <1>2, <1>4 DEF Placed, Written, Keeps, Becomes, InPlace, Place, Whole, Last
  <2>4. Reported'
    BY <1>1, <1>2, ReportedStays DEF Keeps, Becomes, Active
  <2> QED
    BY <1>3, <2>1, <2>2, <2>3, <2>4
<1>5. CASE run[j].pc = "write" /\ Leaves(j)
  <2>1. PICK content \in {Torn, Whole(j, run[j].next)} : Leave(j, content)
    BY <1>5 DEF Leaves
  <2>2. /\ run[j].next \in 1..Last(j) /\ content \in Content \cup {Torn}
        /\ run[j].paths \in Layouts
        /\ run[j].job_type = "deploy" /\ run[j].result = "failed"
    BY <1>5, AtWrite
  <2>3. /\ files' \in [Files -> Content \cup {Torn, Null}]
        /\ writer' \in [Files -> Jobs \cup {Null}]
    BY <1>1, <2>1, <2>2, LeaveWrites
  <2>4. TypeOK'
    BY <1>1, <1>2, <2>3 DEF TypeOK, Keeps, Becomes
  <2>5. Written'
    BY <1>1, <1>2, <1>5, <2>2, <2>3 DEF Written, Recorded, Keeps, Becomes, Waiting, Last
  <2>6. Placed'
    BY <1>1, <1>2, <1>5, <2>1, <2>2, LeavePlaced
  <2>7. Reported'
    BY <1>1, <1>2, ReportedStays DEF Keeps, Becomes, Active
  <2> QED
    BY <1>3, <2>4, <2>5, <2>6, <2>7
<1> QED
  BY <1>4, <1>5 DEF Cut

\* A crash cuts all of them.
LEMMA CrashInv ==
  ASSUME IInv, Crash
  PROVE  IInv'
<1> USE DEF IInv
<1>1. /\ UNCHANGED <<tables, files, history, edits>>
      /\ faults' \in 0..MaxFaults
  BY BoundsAssumption DEF Crash, TypeOK
<1>2. \A j \in Jobs : run[j] \in Run /\ (Active(j) => [run[j] EXCEPT !.pc = "done"] \in Run)
  BY DEF TypeOK, Run
<1>3. \A j \in Jobs : ~ Active(j) => run'[j] = run[j]
  BY DEF Crash
<1>4. \A j \in Jobs : Active(j) =>
        /\ run'[j].pc = "done" /\ run'[j].target = run[j].target
        /\ run'[j].job_type = run[j].job_type /\ run'[j].bound = run[j].bound
        /\ run'[j].cert = run[j].cert /\ run'[j].paths = run[j].paths
        /\ run'[j].next = run[j].next /\ run'[j].result = run[j].result
  BY <1>2 DEF Crash, Run
<1>5. TypeOK'
  BY <1>1, <1>2 DEF TypeOK, Crash
<1>6. Recorded'
  BY <1>1, <1>3, <1>4 DEF Recorded, Active
<1>7. Written'
  BY <1>1, <1>3, <1>4 DEF Written, Recorded, Active, Waiting, Last
<1>8. Placed'
  BY <1>1, <1>3, <1>4 DEF Placed, InPlace, Place, Whole, Active, Last
<1>9. Reported'
  BY <1>1, <1>3, ReportedStays DEF Active
<1> QED
  BY <1>5, <1>6, <1>7, <1>8, <1>9

\* A deployment between its two reads may find another certificate.
LEMMA RebindWrites ==
  ASSUME IInv, NEW t \in Targets, NEW c \in Certs, Rebind(t, c)
  PROVE  /\ UNCHANGED <<tls_keys, deployment_jobs, run, files, writer, reporter,
                        faults>>
         /\ edits' \in 0..MaxEdits /\ host_applications[t] # Null
         /\ rebound' = rebound \cup {j \in Jobs : run[j].target = t
                                                  /\ run[j].pc \in {"start", "resolve"}}
         /\ host_applications' \in [Targets -> HostApplication \cup {Null}]
         /\ \A u \in Targets : u # t => host_applications'[u] = host_applications[u]
         /\ host_applications'[t] # Null
         /\ host_applications'[t].last_deploy_status = host_applications[t].last_deploy_status
<1> USE DEF IInv
<1>1. /\ UNCHANGED <<tls_keys, deployment_jobs, run, files, writer, reporter,
                     faults>>
      /\ edits' \in 0..MaxEdits /\ host_applications[t] # Null
      /\ rebound' = rebound \cup {j \in Jobs : run[j].target = t
                                               /\ run[j].pc \in {"start", "resolve"}}
  BY BoundsAssumption DEF Rebind, TypeOK
<1>2. /\ host_applications' \in [Targets -> HostApplication \cup {Null}]
      /\ \A u \in Targets : u # t => host_applications'[u] = host_applications[u]
      /\ host_applications'[t] # Null
      /\ host_applications'[t].last_deploy_status = host_applications[t].last_deploy_status
  <2> DEFINE row == [host_applications[t] EXCEPT !.tls_key_id = c]
  <2>1. host_applications[t] \in HostApplication
    BY <1>1 DEF TypeOK
  <2>2. /\ row \in HostApplication /\ row # Null
        /\ row.last_deploy_status = host_applications[t].last_deploy_status
    BY <2>1, NullAssumption DEF HostApplication
  <2>3. host_applications' = [host_applications EXCEPT ![t] = row]
    BY DEF Rebind
  <2> HIDE DEF row
  <2> QED
    BY <2>2, <2>3 DEF TypeOK
<1> QED
  BY <1>1, <1>2

LEMMA RebindInv ==
  ASSUME IInv, NEW t \in Targets, NEW c \in Certs, Rebind(t, c)
  PROVE  IInv'
<1> USE DEF IInv
<1>1. /\ UNCHANGED <<tls_keys, deployment_jobs, run, files, writer, reporter,
                     faults>>
      /\ edits' \in 0..MaxEdits /\ host_applications[t] # Null
      /\ rebound' = rebound \cup {j \in Jobs : run[j].target = t
                                               /\ run[j].pc \in {"start", "resolve"}}
  BY RebindWrites
<1>2. /\ host_applications' \in [Targets -> HostApplication \cup {Null}]
      /\ \A u \in Targets : u # t => host_applications'[u] = host_applications[u]
      /\ host_applications'[t] # Null
      /\ host_applications'[t].last_deploy_status = host_applications[t].last_deploy_status
  BY RebindWrites
<1>3. TypeOK'
  BY <1>1, <1>2 DEF TypeOK
<1>4. Recorded'
  BY <1>1, <1>2 DEF Recorded, Active
<1>5. Written'
  BY <1>1, <1>2 DEF Written, Recorded, Waiting, Last
<1>6. Placed'
  BY <1>1 DEF Placed, InPlace, Place, Whole, Last
<1>7. Reported'
  BY <1>1, <1>2 DEF Reported, Active
<1> QED
  BY <1>3, <1>4, <1>5, <1>6, <1>7

\* Other paths hold for the deployments to come.
LEMMA RepathWrites ==
  ASSUME IInv, NEW t \in Targets, NEW p \in Layouts, Repath(t, p)
  PROVE  /\ UNCHANGED <<tls_keys, deployment_jobs, run, files, history, faults>>
         /\ edits' \in 0..MaxEdits /\ host_applications[t] # Null
         /\ host_applications' \in [Targets -> HostApplication \cup {Null}]
         /\ \A u \in Targets : u # t => host_applications'[u] = host_applications[u]
         /\ host_applications'[t] # Null
         /\ host_applications'[t].tls_key_id = host_applications[t].tls_key_id
         /\ host_applications'[t].last_deploy_status = host_applications[t].last_deploy_status
<1> USE DEF IInv
<1>1. /\ UNCHANGED <<tls_keys, deployment_jobs, run, files, history, faults>>
      /\ edits' \in 0..MaxEdits /\ host_applications[t] # Null
  BY BoundsAssumption DEF Repath, TypeOK
<1> DEFINE row == [host_applications[t] EXCEPT !.paths = p]
<1>2. host_applications[t] \in HostApplication
  BY <1>1 DEF TypeOK
<1>3. /\ row \in HostApplication /\ row # Null
      /\ row.tls_key_id = host_applications[t].tls_key_id
      /\ row.last_deploy_status = host_applications[t].last_deploy_status
  BY <1>2, NullAssumption DEF HostApplication
<1>4. host_applications' = [host_applications EXCEPT ![t] = row]
  BY DEF Repath
<1> HIDE DEF row
<1> QED
  BY <1>1, <1>3, <1>4 DEF TypeOK

LEMMA RepathInv ==
  ASSUME IInv, NEW t \in Targets, NEW p \in Layouts, Repath(t, p)
  PROVE  IInv'
<1> USE DEF IInv
<1>1. /\ UNCHANGED <<tls_keys, deployment_jobs, run, files, history, faults>>
      /\ edits' \in 0..MaxEdits /\ host_applications[t] # Null
  BY RepathWrites
<1>2. /\ host_applications' \in [Targets -> HostApplication \cup {Null}]
      /\ \A u \in Targets : u # t => host_applications'[u] = host_applications[u]
      /\ host_applications'[t] # Null
      /\ host_applications'[t].tls_key_id = host_applications[t].tls_key_id
      /\ host_applications'[t].last_deploy_status = host_applications[t].last_deploy_status
  BY RepathWrites
<1>3. TypeOK'
  BY <1>1, <1>2 DEF TypeOK
<1>4. Recorded'
  BY <1>1, <1>2 DEF Recorded, Active
<1>5. Written'
  BY <1>1, <1>2 DEF Written, Recorded, Waiting, Last
<1>6. Placed'
  <2>1. UNCHANGED <<run, files, writer>> /\ Placed
    BY <1>1
  <2>2. \A j \in Jobs : \A n : InPlace(j, n)' <=> InPlace(j, n)
    BY <2>1 DEF InPlace, Place, Whole
  <2> QED
    BY <2>1, <2>2 DEF Placed, Last
<1>7. Reported'
  BY <1>1, <1>2 DEF Reported
<1> QED
  BY <1>3, <1>4, <1>5, <1>6, <1>7

LEMMA DeleteTlsCertInv ==
  ASSUME IInv, NEW c \in Certs, DeleteTlsCert(c)
  PROVE  IInv'
<1> USE DEF IInv
<1>1. /\ UNCHANGED <<host_applications, deployment_jobs, run, files, history, faults>>
      /\ edits' \in 0..MaxEdits /\ tls_keys' \subseteq Certs
  BY BoundsAssumption DEF DeleteTlsCert, TypeOK
<1>2. TypeOK'
  BY <1>1 DEF TypeOK
<1>3. Recorded' /\ Written' /\ Placed' /\ Reported'
  BY <1>1 DEF Recorded, Written, Placed, Reported, Active, Waiting, InPlace, Place,
     Whole, Last
<1> QED
  BY <1>2, <1>3

\* The jobs of a target go with it.
LEMMA DeleteHostApplicationInv ==
  ASSUME IInv, NEW t \in Targets, DeleteHostApplication(t)
  PROVE  IInv'
<1> USE DEF IInv
<1>1. /\ UNCHANGED <<tls_keys, run, files, history, faults>>
      /\ edits' \in 0..MaxEdits
      /\ host_applications' = [host_applications EXCEPT ![t] = Null]
  BY BoundsAssumption DEF DeleteHostApplication, TypeOK
<1>2. /\ deployment_jobs' \in [Jobs -> Job \cup {Null}]
      /\ \A j \in Jobs :
           deployment_jobs'[j] = IF deployment_jobs[j] # Null /\ run[j].target = t THEN Null
                                 ELSE deployment_jobs[j]
  BY DEF DeleteHostApplication, TypeOK, Recorded
<1>3. /\ host_applications' \in [Targets -> HostApplication \cup {Null}]
      /\ host_applications'[t] = Null
      /\ \A u \in Targets : u # t => host_applications'[u] = host_applications[u]
  BY <1>1 DEF TypeOK
<1>4. TypeOK'
  BY <1>1, <1>2, <1>3 DEF TypeOK
<1>5. Recorded'
  BY <1>1, <1>2, <1>3 DEF Recorded, Active
<1>6. Written'
  BY <1>1, <1>3 DEF Written, Recorded, Waiting, Last
<1>7. Placed'
  BY <1>1 DEF Placed, InPlace, Place, Whole, Last
<1>8. Reported'
  BY <1>1, <1>3 DEF Reported, Active
<1> QED
  BY <1>4, <1>5, <1>6, <1>7, <1>8

\* The invariant is preserved: one step of the proof for each action.
LEMMA NextInv == IInv /\ [Next]_vars => IInv'
<1> SUFFICES ASSUME IInv, [Next]_vars PROVE IInv'
  OBVIOUS
<1>1. ASSUME NEW j \in Jobs, Step(j) PROVE IInv'
  BY <1>1, StartInsertInv, ResolveInv, ConnectInv, WriteInv, ReloadInv, StepFailsInv,
     FinishJobInv, UpdateStatusInv, OrphanedInv DEF Step
<1>2. ASSUME NEW j \in Jobs, NEW t \in Targets, StartRead(j, t) PROVE IInv'
  BY <1>2, StartReadInv
<1>3. ASSUME NEW j \in Jobs, Cut(j) PROVE IInv'
  BY <1>3, CutInv
<1>4. ASSUME NEW t \in Targets, DeleteHostApplication(t) PROVE IInv'
  BY <1>4, DeleteHostApplicationInv
<1>5. ASSUME NEW t \in Targets, NEW c \in Certs, Rebind(t, c) PROVE IInv'
  BY <1>5, RebindInv
<1>6. ASSUME NEW c \in Certs, DeleteTlsCert(c) PROVE IInv'
  BY <1>6, DeleteTlsCertInv
<1>7. CASE Crash
  BY <1>7, CrashInv
<1>8. CASE UNCHANGED vars
  BY <1>8 DEF vars, IInv, TypeOK, Recorded, Written, Placed, Reported, Active, Waiting, InPlace,
     Place, Whole, Last
<1>9. ASSUME NEW t \in Targets, NEW p \in Layouts, Repath(t, p) PROVE IInv'
  BY <1>9, RepathInv
<1> QED
  BY <1>1, <1>2, <1>3, <1>4, <1>5, <1>6, <1>7, <1>8, <1>9 DEF Next

----------------------------------------------------------------------------
(* The theorems *)

\* The variables keep their types and what the deployments know stays true (all the statements
\* of run_deployment, and the edits and faults around it).
THEOREM Inductive == Spec => []IInv
<1>1. Init => IInv
  BY InitInv
<1>2. IInv /\ [Next]_vars => IInv'
  BY NextInv
<1> QED
  BY <1>1, <1>2, PTL DEF Spec

\* What a deployment leaves that ends well.
LEMMA EndsInstalled ==
  ASSUME IInv, NEW j \in Jobs, run[j].job_type = "deploy", run[j].result = "success"
  PROVE  Installed(j)
BY DEF IInv, Written, Placed, Installed

\* A deployment on record as a success has put all its files in place, and but for a later one
\* of its own on the same path, and but for other deployments, they are there still
\* (run_deployment_inner, write_remote_file).
THEOREM RecordedSuccess == Spec => []SuccessIsInstalled
<1>1. IInv => SuccessIsInstalled
  <2> SUFFICES ASSUME IInv, NEW j \in Jobs,
                      deployment_jobs[j] # Null, deployment_jobs[j].job_type = "deploy",
                      deployment_jobs[j].status = "success"
               PROVE  Installed(j)
    BY DEF SuccessIsInstalled
  <2>1. run[j].job_type = "deploy" /\ run[j].result = "success"
    BY DEF IInv, Recorded
  <2> QED
    BY <2>1, EndsInstalled
<1> QED
  BY <1>1, Inductive, PTL

\* With a path for each and nobody else on them, a key and a certificate go together.
LEMMA ApartPairs ==
  ASSUME NEW j \in Jobs, Installed(j), Apart(j)
  PROVE  Pair(j)
<1>1. /\ run[j].cert \in Certs /\ run[j].paths \in Layouts /\ InPlace(j, Last(j))
  BY DEF Installed
<1>2. Plan[1] = "key" /\ Plan[2] = "certificate" /\ Plan[3] = "chain"
  BY DEF Plan
<1>3. Last(j) \in {2, 3}
  BY DEF Last
<1>4. /\ \A k \in 2..Last(j) : k = 2 \/ k = 3
      /\ \A k \in 3..Last(j) : k = 3
      /\ 1 \in 1..Last(j) /\ 2 \in 1..Last(j) /\ 1 + 1 = 2 /\ 2 + 1 = 3
  BY <1>3
<1>5. Place(j, 1) = run[j].paths["key"] /\ Place(j, 2) = run[j].paths["certificate"]
      /\ Place(j, 3) = run[j].paths["chain"]
  BY <1>2 DEF Place
<1>6. files[Place(j, 1)] = Whole(j, 1)
  <2>1. \A k \in 2..Last(j) : Place(j, k) # Place(j, 1)
    BY <1>4, <1>5 DEF Apart
  <2> QED
    BY <1>1, <1>4, <2>1 DEF InPlace, Apart
<1>7. files[Place(j, 2)] = Whole(j, 2)
  <2>1. \A k \in 3..Last(j) : Place(j, k) # Place(j, 2)
    BY <1>4, <1>5 DEF Apart
  <2> QED
    BY <1>1, <1>4, <2>1 DEF InPlace, Apart
<1> QED
  BY <1>1, <1>2, <1>5, <1>6, <1>7 DEF Pair, Whole

\* A target that is said to be deployed has what its last reporter left, a key and a
\* certificate that go together if they have a path each (update_host_app_status).
THEOREM TrueStatus == Spec => []StatusIsTrue
<1>1. IInv => StatusIsTrue
  <2> SUFFICES ASSUME IInv, NEW t \in Targets,
                      host_applications[t] # Null,
                      host_applications[t].last_deploy_status = "success"
               PROVE  \E j \in Jobs : /\ reporter[t] = j /\ run[j].target = t
                                      /\ Installed(j)
                                      /\ Apart(j) => Pair(j)
    BY DEF StatusIsTrue
  <2>1. /\ reporter[t] \in Jobs /\ run[reporter[t]].target = t
        /\ run[reporter[t]].job_type = "deploy" /\ run[reporter[t]].result = "success"
    BY DEF IInv, Reported, TypeOK
  <2>2. Installed(reporter[t])
    BY <2>1, EndsInstalled
  <2> QED
    BY <2>1, <2>2, ApartPairs
<1> QED
  BY <1>1, Inductive, PTL

\* Where a target has one path for its key and its certificate and none for a chain, as the
\* built-in haproxy, a deployment that ends well leaves the certificate there and no key
\* (run_deployment_inner, BUILTIN_APPS).
THEOREM OnePathKeepsTheLast ==
  Spec => [](\A j \in Jobs :
               /\ run[j].job_type = "deploy" /\ run[j].result = "success"
               /\ run[j].paths["key"] = run[j].paths["certificate"]
               /\ run[j].paths["chain"] = Null
               /\ writer[run[j].paths["key"]] = j
               => files[run[j].paths["key"]] = [kind |-> "certificate", cert |-> run[j].cert])
<1> DEFINE Lost(j) == /\ run[j].job_type = "deploy" /\ run[j].result = "success"
                      /\ run[j].paths["key"] = run[j].paths["certificate"]
                      /\ run[j].paths["chain"] = Null
                      /\ writer[run[j].paths["key"]] = j
                      => files[run[j].paths["key"]]
                           = [kind |-> "certificate", cert |-> run[j].cert]
<1>1. IInv => \A j \in Jobs : Lost(j)
  <2> SUFFICES ASSUME IInv, NEW j \in Jobs, run[j].job_type = "deploy",
                      run[j].result = "success",
                      run[j].paths["key"] = run[j].paths["certificate"],
                      run[j].paths["chain"] = Null, writer[run[j].paths["key"]] = j
               PROVE  files[run[j].paths["key"]]
                        = [kind |-> "certificate", cert |-> run[j].cert]
    OBVIOUS
  <2>1. InPlace(j, 2)
    BY EndsInstalled DEF Installed, Last
  <2>2. Place(j, 2) = run[j].paths["key"] /\ Whole(j, 2).kind = "certificate"
    BY DEF Place, Whole, Plan
  <2>3. 2 \in 1..2 /\ \A k \in (2 + 1)..2 : FALSE
    OBVIOUS
  <2>4. files[Place(j, 2)] = Whole(j, 2)
    BY <2>1, <2>2, <2>3 DEF InPlace
  <2> QED
    BY <2>2, <2>4 DEF Whole, Plan
<1> HIDE DEF Lost
<1>2. Spec => [](\A j \in Jobs : Lost(j))
  BY <1>1, Inductive, PTL
<1> QED
  BY <1>2 DEF Lost

\* The certificate on the record of a deployment is the one on the host (start_job,
\* resolve_target).
THEOREM NamedCertificate == Spec => []JobNamesCertificate
<1>1. IInv => JobNamesCertificate
  BY DEF IInv, Recorded, Written, JobNamesCertificate
<1> QED
  BY <1>1, Inductive, PTL

----------------------------------------------------------------------------
(* The records are what Ledger promises *)

\* What start_job writes.
LEMMA StartInsertWrites ==
  ASSUME IInv, NEW j \in Jobs, StartInsert(j), host_applications[run[j].target] # Null
  PROVE  /\ run[j].pc = "start" /\ run[j].target \in Targets
         /\ Keeps(j, "resolve", run[j].next, run[j].result)
         /\ deployment_jobs[j] = Null
         /\ deployment_jobs'[j] # Null
         /\ deployment_jobs'[j].target = run[j].target
         /\ deployment_jobs'[j].status = "running"
         /\ \A k \in Jobs : k # j => deployment_jobs'[k] = deployment_jobs[k]
<1>1. /\ run[j].pc = "start" /\ run[j].target \in Targets /\ run[j] \in Run
      /\ deployment_jobs[j] = Null
  BY RunType DEF StartInsert, Recorded, IInv
<1> DEFINE job == [target |-> run[j].target, tls_key_id |-> run[j].bound,
                   job_type |-> run[j].job_type, status |-> "running"]
<1>2. deployment_jobs' = [deployment_jobs EXCEPT ![j] = job]
  BY DEF StartInsert
<1>3. job \in Job /\ job.target = run[j].target /\ job.status = "running"
  BY <1>1 DEF Job, Run
<1>4. Keeps(j, "resolve", run[j].next, run[j].result)
  BY GotoKeeps DEF StartInsert, IInv
<1> HIDE DEF job
<1> QED
  BY <1>1, <1>2, <1>3, <1>4, NullAssumption DEF IInv, TypeOK

\* Where a deployment goes that neither starts nor reports, and whose job is there.
LEMMA GoesOn ==
  ASSUME IInv, NEW j \in Jobs,
         Resolve(j) \/ Connect(j) \/ Write(j) \/ Reload(j) \/ StepFails(j)
  PROVE  /\ UNCHANGED <<host_applications, deployment_jobs>>
         /\ deployment_jobs[j] # Null
         /\ run[j].pc \in {"resolve", "connect", "write", "reload"}
         /\ run'[j].pc \in {"connect", "write", "reload", "finish"}
         /\ \A k \in Jobs : k # j => run'[k] = run[k]
<1>1. /\ UNCHANGED <<host_applications, deployment_jobs>>
      /\ deployment_jobs[j] # Null /\ run[j].pc \in {"resolve", "connect", "write", "reload"}
  BY DEF Resolve, Connect, Write, Reload, StepFails, Journalling, Waiting
<1>2. run[j].target \in Targets /\ host_applications[run[j].target] # Null /\ TypeOK
  BY <1>1, TargetThere DEF IInv
<1> DEFINE Gone == /\ run'[j].pc \in {"connect", "write", "reload", "finish"}
                   /\ \A k \in Jobs : k # j => run'[k] = run[k]
<1>3. ASSUME Resolve(j) PROVE Gone
  <2>1. \/ \E c \in Certs, p \in Layouts :
             Becomes(j, "connect", run[j].target, run[j].job_type, run[j].bound, c, p, run[j].next,
                     run[j].result)
        \/ Keeps(j, "finish", run[j].next, "failed")
    BY <1>2, <1>3, ResolveMoves
  <2>2. ASSUME Keeps(j, "finish", run[j].next, "failed") PROVE Gone
    BY <2>2 DEF Keeps, Becomes
  <2>3. ASSUME NEW c \in Certs, NEW p \in Layouts,
               Becomes(j, "connect", run[j].target, run[j].job_type, run[j].bound, c, p,
                       run[j].next, run[j].result)
        PROVE  Gone
    BY <2>3 DEF Becomes
  <2> QED
    BY <2>1, <2>2, <2>3
<1>4. ASSUME Connect(j) PROVE Gone
  <2>1. \/ Keeps(j, "finish", run[j].next, "success")
        \/ Keeps(j, "write", run[j].next, run[j].result)
    BY <1>2, <1>4, EndKeeps, GotoKeeps DEF Connect
  <2> QED
    BY <2>1 DEF Keeps, Becomes
<1>5. ASSUME Write(j) PROVE Gone
  <2>1. run[j].pc = "write"
    BY <1>5 DEF Write
  <2>2. run[j].next \in 1..Last(j)
    BY <2>1, AtWrite
  <2> QED
    <3>1. \E pc \in {"write", "reload"} : Keeps(j, pc, run[j].next + 1, run[j].result)
      BY <1>2, <1>5, <2>2, WriteKeeps
    <3> QED
      BY <3>1 DEF Keeps, Becomes
<1>6. ASSUME Reload(j) PROVE Gone
  <2>1. Keeps(j, "finish", run[j].next, "success")
    BY <1>2, <1>6, EndKeeps DEF Reload
  <2> QED
    BY <2>1 DEF Keeps, Becomes
<1>7. ASSUME StepFails(j) PROVE Gone
  <2>1. Keeps(j, "finish", run[j].next, "failed")
    BY <1>2, <1>7, EndKeeps DEF StepFails
  <2> QED
    BY <2>1 DEF Keeps, Becomes
<1> QED
  BY <1>1, <1>3, <1>4, <1>5, <1>6, <1>7

\* Where one stops whose job is gone, or that is cut off, and what a crash leaves.
LEMMA Stops ==
  ASSUME IInv, NEW j \in Jobs,
         \/ StartInsert(j) /\ host_applications[run[j].target] = Null
         \/ Orphaned(j) \/ Cut(j)
  PROVE  /\ UNCHANGED <<host_applications, deployment_jobs>>
         /\ run'[j].pc = "done"
         /\ \A k \in Jobs : k # j => run'[k] = run[k]
<1>1. Keeps(j, "done", run[j].next, run[j].result)
  BY GotoKeeps DEF StartInsert, Orphaned, Cut, IInv
<1> QED
  BY <1>1 DEF StartInsert, Orphaned, Cut, Keeps, Becomes

LEMMA CrashStops ==
  ASSUME IInv, Crash
  PROVE  /\ UNCHANGED <<host_applications, deployment_jobs>>
         /\ \A k \in Jobs : run'[k].pc = IF Active(k) THEN "done" ELSE run[k].pc
<1>1. \A k \in Jobs : run[k] \in Run
  BY DEF IInv, TypeOK
<1> QED
  BY <1>1 DEF Crash, Run

\* start_job, finish_job and update_host_app_status agree on the outcome of a job.
LEMMA OutcomesStep == IInv /\ OutcomesInv /\ [Next]_vars => OutcomesInv'
<1> SUFFICES ASSUME IInv, OutcomesInv, [Next]_vars PROVE OutcomesInv'
  OBVIOUS
<1> DEFINE Same(k) == deployment_jobs'[k] = deployment_jobs[k] /\ run'[k] = run[k]
<1>1. ASSUME NEW j \in Jobs, \A k \in Jobs : k # j => Same(k),
             \/ deployment_jobs'[j] = Null \/ run'[j].pc = "done"
             \/ run'[j].pc \in Journalling \cup {"finish"} /\ deployment_jobs'[j].status = "running"
             \/ run'[j].pc = "status" /\ deployment_jobs'[j].status = run'[j].result
      PROVE  OutcomesInv'
  BY <1>1 DEF OutcomesInv, Journalling, Waiting
<1>2. ASSUME NEW j \in Jobs, StartInsert(j) PROVE OutcomesInv'
  <2>1. CASE host_applications[run[j].target] = Null
    BY <1>1, <1>2, <2>1, Stops
  <2>2. CASE host_applications[run[j].target] # Null
    <3>1. /\ run'[j].pc = "resolve" /\ deployment_jobs'[j].status = "running"
          /\ \A k \in Jobs : k # j => Same(k)
      <4>1. /\ Keeps(j, "resolve", run[j].next, run[j].result)
            /\ deployment_jobs'[j].status = "running"
            /\ \A k \in Jobs : k # j => deployment_jobs'[k] = deployment_jobs[k]
        BY <1>2, <2>2, StartInsertWrites
      <4> QED
        BY <4>1 DEF Keeps, Becomes
    <3> QED
      BY <1>1, <3>1 DEF Journalling
  <2> QED
    BY <2>1, <2>2
<1>3. ASSUME NEW j \in Jobs,
             Resolve(j) \/ Connect(j) \/ Write(j) \/ Reload(j) \/ StepFails(j)
      PROVE  OutcomesInv'
  BY <1>1, <1>3, GoesOn DEF OutcomesInv, Journalling, Waiting
<1>4. ASSUME NEW j \in Jobs, FinishJob(j) PROVE OutcomesInv'
  <2>1. \A k \in Jobs : k # j => Same(k)
    BY <1>4, FinishJobWrites DEF Keeps, Becomes
  <2>2. \/ run'[j].pc = "done"
        \/ run'[j].pc = "status" /\ run'[j].result = run[j].result
    <3>1. \E pc \in {"done", "status"} : Keeps(j, pc, run[j].next, run[j].result)
      BY <1>4, FinishJobWrites
    <3> QED
      BY <3>1 DEF Keeps, Becomes
  <2>3. deployment_jobs'[j] = Null \/ deployment_jobs'[j].status = run[j].result
    BY <1>4, FinishJobWrites
  <2> QED
    BY <1>1, <2>1, <2>2, <2>3
<1>5. ASSUME NEW j \in Jobs, UpdateStatus(j) PROVE OutcomesInv'
  <2>1. UNCHANGED deployment_jobs /\ Keeps(j, "done", run[j].next, run[j].result)
    BY <1>5, UpdateStatusWrites
  <2>2. run'[j].pc = "done" /\ \A k \in Jobs : k # j => Same(k)
    BY <2>1 DEF Keeps, Becomes
  <2> QED
    BY <1>1, <2>2
<1>6. ASSUME NEW j \in Jobs, Orphaned(j) \/ Cut(j) PROVE OutcomesInv'
  BY <1>1, <1>6, Stops
<1>7. ASSUME NEW j \in Jobs, NEW t \in Targets, StartRead(j, t) PROVE OutcomesInv'
  BY <1>1, <1>7, StartMoves DEF StartRead, Becomes, IInv, Recorded
<1>8. ASSUME NEW t \in Targets, DeleteHostApplication(t) PROVE OutcomesInv'
  BY <1>8 DEF DeleteHostApplication, OutcomesInv
<1>9. CASE \E t \in Targets, c \in Certs : Rebind(t, c)
  BY <1>9 DEF Rebind, OutcomesInv
<1>10. CASE \E c \in Certs : DeleteTlsCert(c)
  BY <1>10 DEF DeleteTlsCert, OutcomesInv
<1>11. CASE Crash
  <2>1. \A k \in Jobs : run'[k] = run[k] \/ run'[k].pc = "done"
    BY <1>11, CrashStops DEF Crash
  <2> QED
    BY <1>11, <2>1, CrashStops DEF OutcomesInv, Journalling, Waiting
<1>12. CASE \E t \in Targets, p \in Layouts : Repath(t, p)
  BY <1>12 DEF Repath, OutcomesInv
<1>13. CASE UNCHANGED vars
  BY <1>13 DEF vars, OutcomesInv
<1> QED
  BY <1>2, <1>3, <1>4, <1>5, <1>6, <1>7, <1>8, <1>9, <1>10, <1>11, <1>12, <1>13 DEF Next, Step

LEMMA OutcomesHold == Spec => []OutcomesInv
<1>1. Init => OutcomesInv
  BY DEF Init, OutcomesInv
<1> QED
  BY <1>1, Inductive, OutcomesStep, PTL DEF Spec

\* How the records of a job and of a target look, row by row.
LEMMA Looks ==
  ASSUME IInv
  PROVE  /\ \A j \in Jobs :
              /\ deployment_jobs[j] # Null =>
                   /\ Standing[j] = deployment_jobs[j].status
                   /\ Owner[j] = deployment_jobs[j].target /\ Owner[j] = run[j].target
                   /\ Owner[j] \in Targets /\ Owner[j] # Null
                   /\ j \in Checks <=> run[j].job_type = "check"
              /\ deployment_jobs[j] = Null =>
                   /\ Standing[j] = IF run[j].pc \in {"unused", "start"} THEN "unborn" ELSE "gone"
                   /\ Owner[j] = Null /\ j \notin Checks
              /\ j \in Closed <=> run[j].pc = "done"
         /\ \A t \in Targets :
              Outcome[t] = IF host_applications[t] = Null THEN "gone"
                           ELSE host_applications[t].last_deploy_status
<1>1. \A j \in Jobs : deployment_jobs[j] # Null =>
        /\ deployment_jobs[j].target = run[j].target
        /\ deployment_jobs[j].job_type = run[j].job_type
        /\ run[j].target \in Targets
  BY TargetThere DEF IInv, Recorded
<1> QED
  BY <1>1, NamesAssumption DEF Standing, Owner, Checks, Closed, Outcome

\* The rows that stay as they are.
LEMMA SameJobs ==
  ASSUME UNCHANGED deployment_jobs
  PROVE  UNCHANGED <<Owner, Checks>>
BY DEF Owner, Checks

LEMMA SameTargets ==
  ASSUME UNCHANGED host_applications
  PROVE  UNCHANGED Outcome
BY DEF Outcome

\* Deployments that stop are abandoned.
LEMMA Abandoned ==
  ASSUME IInv, NEW S \in SUBSET Jobs, UNCHANGED <<host_applications, deployment_jobs>>,
         \A k \in Jobs : run'[k].pc = IF k \in S THEN "done" ELSE run[k].pc
  PROVE  Records!Abandon(S)
<1>1. UNCHANGED <<Outcome, Owner, Checks>>
  BY SameJobs, SameTargets
<1>2. Closed' = Closed \cup S
  BY DEF Closed
<1>3. Standing' = [k \in Jobs |-> IF k \in S /\ Standing[k] = "unborn" THEN "gone"
                                  ELSE Standing[k]]
  <2>1. ASSUME NEW k \in Jobs
        PROVE  Standing'[k] = IF k \in S /\ Standing[k] = "unborn" THEN "gone" ELSE Standing[k]
    <3>1. CASE deployment_jobs[k] # Null
      <4>1. deployment_jobs[k].status \in {"running", "success", "failed"}
        BY <3>1 DEF IInv, TypeOK, Job
      <4> QED
        BY <3>1, <4>1 DEF Standing
    <3>2. CASE deployment_jobs[k] = Null
      BY <3>2 DEF Standing
    <3> QED
      BY <3>1, <3>2
  <2> QED
    BY <2>1 DEF Standing
<1> QED
  BY <1>1, <1>2, <1>3 DEF Records!Abandon

\* A step that changes neither rows nor whether a deployment has started or ended is not
\* noticed.
LEMMA NotNoticed ==
  ASSUME UNCHANGED <<host_applications, deployment_jobs>>,
         \A k \in Jobs :
           /\ run'[k].pc = "done" <=> run[k].pc = "done"
           /\ deployment_jobs[k] = Null =>
                (run'[k].pc \in {"unused", "start"} <=> run[k].pc \in {"unused", "start"})
  PROVE  UNCHANGED Records!vars
<1>1. UNCHANGED <<Outcome, Owner, Checks>>
  BY SameJobs, SameTargets
<1>2. Closed' = Closed
  BY DEF Closed
<1>3. Standing' = Standing
  BY DEF Standing
<1> QED
  BY <1>1, <1>2, <1>3 DEF Records!vars

\* start_job.
LEMMA StartInsertRefines ==
  ASSUME IInv, NEW j \in Jobs, StartInsert(j)
  PROVE  Records!Next
<1>1. CASE host_applications[run[j].target] = Null
  <2>1. UNCHANGED <<host_applications, deployment_jobs>>
        /\ \A k \in Jobs : run'[k].pc = IF k \in {j} THEN "done" ELSE run[k].pc
    BY <1>1, Stops
  <2>2. {j} \in SUBSET Jobs
    OBVIOUS
  <2>3. Records!Abandon({j})
    BY <2>1, <2>2, Abandoned
  <2> QED
    BY <2>2, <2>3 DEF Records!Next
<1>2. CASE host_applications[run[j].target] # Null
  <2> DEFINE t == run[j].target
  <2>1. /\ run[j].pc = "start" /\ t \in Targets
        /\ Keeps(j, "resolve", run[j].next, run[j].result)
        /\ deployment_jobs[j] = Null
        /\ deployment_jobs'[j] # Null
        /\ deployment_jobs'[j].target = t
        /\ deployment_jobs'[j].status = "running"
        /\ \A k \in Jobs : k # j => deployment_jobs'[k] = deployment_jobs[k]
    BY <1>2, StartInsertWrites
  <2>2. run'[j].pc = "resolve" /\ \A k \in Jobs : k # j => run'[k] = run[k]
    BY <2>1 DEF Keeps, Becomes
  <2>3. Standing[j] = "unborn" /\ Outcome[t] # "gone"
    <3>1. host_applications[t].last_deploy_status # "gone"
      BY <1>2, <2>1 DEF IInv, TypeOK, HostApplication
    <3> QED
      BY <1>2, <2>1, <3>1 DEF Standing, Outcome
  <2>4. Standing' = [Standing EXCEPT ![j] = "running"]
    BY <2>1, <2>2 DEF Standing
  <2>5. Owner' = [Owner EXCEPT ![j] = t]
    BY <2>1 DEF Owner
  <2>6. Checks' \in {Checks, Checks \cup {j}}
    <3>1. CASE deployment_jobs'[j].job_type = "check"
      BY <2>1, <3>1 DEF Checks
    <3>2. CASE deployment_jobs'[j].job_type # "check"
      BY <2>1, <3>2 DEF Checks
    <3> QED
      BY <3>1, <3>2
  <2>7. Closed' = Closed
    BY <2>1, <2>2 DEF Closed
  <2>8. UNCHANGED Outcome
    BY SameTargets DEF StartInsert
  <2>9. Records!Begin(j, t)
    BY <2>3, <2>4, <2>5, <2>6, <2>7, <2>8 DEF Records!Begin
  <2> QED
    BY <2>1, <2>9 DEF Records!Next
<1> QED
  BY <1>1, <1>2

\* finish_job: a job that is gone has no outcome, and a check is closed with its own.
LEMMA FinishJobRefines ==
  ASSUME IInv, OutcomesInv, NEW j \in Jobs, FinishJob(j)
  PROVE  [Records!Next]_(Records!vars)
<1>1. /\ UNCHANGED host_applications
      /\ run[j].pc = "finish" /\ run[j] \in Run
      /\ deployment_jobs' \in [Jobs -> Job \cup {Null}]
      /\ \A k \in Jobs : k # j => deployment_jobs'[k] = deployment_jobs[k]
      /\ deployment_jobs[j] = Null => deployment_jobs'[j] = Null
      /\ deployment_jobs[j] # Null
         => /\ deployment_jobs'[j] # Null
            /\ deployment_jobs'[j].target = deployment_jobs[j].target
            /\ deployment_jobs'[j].job_type = deployment_jobs[j].job_type
            /\ deployment_jobs'[j].status = run[j].result
  BY FinishJobWrites
<1>2. \/ run[j].job_type = "check" /\ Keeps(j, "done", run[j].next, run[j].result)
      \/ run[j].job_type = "deploy" /\ Keeps(j, "status", run[j].next, run[j].result)
  BY FinishJobWrites
<1>3. \A k \in Jobs : k # j => run'[k] = run[k]
  BY <1>2 DEF Keeps, Becomes
<1>4. run'[j].pc = IF run[j].job_type = "check" THEN "done" ELSE "status"
  <2>1. CASE Keeps(j, "done", run[j].next, run[j].result) /\ run[j].job_type = "check"
    BY <2>1 DEF Keeps, Becomes
  <2>2. CASE Keeps(j, "status", run[j].next, run[j].result) /\ run[j].job_type = "deploy"
    BY <2>2 DEF Keeps, Becomes
  <2> QED
    BY <1>2, <2>1, <2>2
<1>5. CASE deployment_jobs[j] = Null
  <2>1. deployment_jobs' = deployment_jobs
    BY <1>1, <1>5 DEF IInv, TypeOK
  <2>2. CASE run[j].job_type = "check"
    <3>1. \A k \in Jobs : run'[k].pc = IF k \in {j} THEN "done" ELSE run[k].pc
      BY <1>3, <1>4, <2>2
    <3>2. {j} \in SUBSET Jobs
      OBVIOUS
    <3>3. Records!Abandon({j})
      BY <1>1, <2>1, <3>1, <3>2, Abandoned
    <3> QED
      BY <3>2, <3>3 DEF Records!Next
  <2>3. CASE run[j].job_type # "check"
    BY <1>1, <1>3, <1>4, <2>1, <2>3, NotNoticed
  <2> QED
    BY <2>2, <2>3
<1>6. CASE deployment_jobs[j] # Null
  <2>1. Standing[j] = "running" /\ j \notin Closed
    BY <1>1, <1>6 DEF OutcomesInv, Standing, Closed
  <2>2. run[j].result \in Records!Outcomes
    BY <1>1 DEF Run, Records!Outcomes
  <2>3. Standing' = [Standing EXCEPT ![j] = run[j].result]
    BY <1>1, <1>3, <1>6 DEF Standing
  <2>4. j \in Checks <=> run[j].job_type = "check"
    BY <1>6, Looks
  <2>5. Closed' = IF j \in Checks THEN Closed \cup {j} ELSE Closed
    BY <1>1, <1>3, <1>4, <2>4 DEF Closed
  <2>6. Owner' = Owner /\ Checks' = Checks
    BY <1>1, <1>6 DEF Owner, Checks
  <2>7. UNCHANGED Outcome
    BY <1>1, SameTargets
  <2>8. Records!End(j, run[j].result)
    BY <2>1, <2>3, <2>5, <2>6, <2>7 DEF Records!End
  <2> QED
    BY <2>2, <2>8 DEF Records!Next
<1> QED
  BY <1>5, <1>6

\* update_host_app_status: a target that is gone has no status.
LEMMA UpdateStatusRefines ==
  ASSUME IInv, OutcomesInv, NEW j \in Jobs, UpdateStatus(j)
  PROVE  Records!Next
<1> DEFINE t == run[j].target
<1>1. /\ UNCHANGED deployment_jobs
      /\ run[j].pc = "status" /\ t \in Targets /\ run[j] \in Run
      /\ Keeps(j, "done", run[j].next, run[j].result)
      /\ \A u \in Targets : u # t => host_applications'[u] = host_applications[u]
      /\ host_applications[t] = Null <=> host_applications'[t] = Null
      /\ host_applications[t] # Null
         => host_applications'[t].last_deploy_status = run[j].result
      /\ host_applications' \in [Targets -> HostApplication \cup {Null}]
  BY UpdateStatusWrites
<1>2. run'[j].pc = "done" /\ \A k \in Jobs : k # j => run'[k] = run[k]
  BY <1>1 DEF Keeps, Becomes
<1>3. CASE host_applications[t] = Null
  <2>1. host_applications' = host_applications
    BY <1>1, <1>3 DEF IInv, TypeOK
  <2>2. {j} \in SUBSET Jobs
    OBVIOUS
  <2>3. Records!Abandon({j})
    BY <1>1, <1>2, <2>1, <2>2, Abandoned
  <2> QED
    BY <2>2, <2>3 DEF Records!Next
<1>4. CASE host_applications[t] # Null
  <2>1. deployment_jobs[j] # Null
    BY <1>1, <1>4 DEF IInv, Recorded, Active
  <2>2. /\ Standing[j] = run[j].result /\ run[j].result \in Records!Outcomes
        /\ j \notin Closed
        /\ Owner[j] = t
    BY <1>1, <2>1, Looks DEF OutcomesInv, Run, Records!Outcomes
  <2>3. Outcome' = [Outcome EXCEPT ![t] = run[j].result]
    BY <1>1, <1>4 DEF Outcome
  <2>4. Closed' = Closed \cup {j}
    BY <1>2 DEF Closed
  <2>5. Standing' = Standing
    BY <1>1, <1>2, <2>1 DEF Standing
  <2>6. Owner' = Owner /\ Checks' = Checks
    BY <1>1, SameJobs
  <2>7. Records!Report(j)
    BY <2>2, <2>3, <2>4, <2>5, <2>6 DEF Records!Report
  <2> QED
    BY <2>7 DEF Records!Next
<1> QED
  BY <1>3, <1>4

\* delete_host_application.
LEMMA DeleteRefines ==
  ASSUME IInv, NEW t \in Targets, DeleteHostApplication(t)
  PROVE  Records!Next
<1>1. /\ UNCHANGED run /\ host_applications[t] # Null
      /\ host_applications' = [host_applications EXCEPT ![t] = Null]
      /\ \A j \in Jobs :
           deployment_jobs'[j] = IF deployment_jobs[j] # Null /\ deployment_jobs[j].target = t
                                   THEN Null ELSE deployment_jobs[j]
  BY DEF DeleteHostApplication
<1>2. Outcome[t] # "gone"
  BY <1>1 DEF Outcome, IInv, TypeOK, HostApplication
<1>3. Outcome' = [Outcome EXCEPT ![t] = "gone"]
  BY <1>1 DEF Outcome, IInv, TypeOK
<1>4. \A j \in Jobs : Owner[j] = t <=> deployment_jobs[j] # Null /\ deployment_jobs[j].target = t
  BY NamesAssumption DEF Owner
<1>5. Standing' = [j \in Jobs |-> IF Owner[j] = t THEN "gone" ELSE Standing[j]]
  <2>1. ASSUME NEW j \in Jobs
        PROVE  Standing'[j] = IF Owner[j] = t THEN "gone" ELSE Standing[j]
    <3>1. CASE Owner[j] = t
      <4>1. run[j].pc \notin {"unused", "start"} /\ deployment_jobs'[j] = Null
        BY <1>1, <1>4, <3>1, TargetThere
      <4> QED
        BY <1>1, <3>1, <4>1 DEF Standing
    <3>2. CASE Owner[j] # t
      BY <1>1, <1>4, <3>2 DEF Standing
    <3> QED
      BY <3>1, <3>2
  <2> QED
    BY <2>1 DEF Standing
<1>6. Owner' = [j \in Jobs |-> IF Owner[j] = t THEN Null ELSE Owner[j]]
  <2>1. ASSUME NEW j \in Jobs
        PROVE  Owner'[j] = IF Owner[j] = t THEN Null ELSE Owner[j]
    BY <1>1, <1>4 DEF Owner
  <2> QED
    BY <2>1 DEF Owner
<1>7. Checks' = {j \in Checks : Owner[j] # t}
  <2>1. ASSUME NEW j \in Jobs
        PROVE  j \in Checks' <=> j \in Checks /\ Owner[j] # t
    BY <1>1, <1>4 DEF Checks
  <2> QED
    BY <2>1 DEF Checks
<1>8. Closed' = Closed
  BY <1>1 DEF Closed
<1>9. Records!Drop(t)
  BY <1>2, <1>3, <1>5, <1>6, <1>7, <1>8 DEF Records!Drop
<1> QED
  BY <1>9 DEF Records!Next

\* Step by step: what the records of deployments go through is what Ledger allows.
LEMMA NextRefines ==
  IInv /\ OutcomesInv /\ [Next]_vars => [Records!Next]_(Records!vars)
<1> SUFFICES ASSUME IInv, OutcomesInv, [Next]_vars PROVE [Records!Next]_(Records!vars)
  OBVIOUS
<1>1. ASSUME NEW j \in Jobs, StartInsert(j) PROVE Records!Next
  BY <1>1, StartInsertRefines
<1>2. ASSUME NEW j \in Jobs,
             Resolve(j) \/ Connect(j) \/ Write(j) \/ Reload(j) \/ StepFails(j)
      PROVE  UNCHANGED Records!vars
  BY <1>2, GoesOn, NotNoticed
<1>3. ASSUME NEW j \in Jobs, FinishJob(j) PROVE [Records!Next]_(Records!vars)
  BY <1>3, FinishJobRefines
<1>4. ASSUME NEW j \in Jobs, UpdateStatus(j) PROVE Records!Next
  BY <1>4, UpdateStatusRefines
<1>5. ASSUME NEW j \in Jobs, Orphaned(j) \/ Cut(j) PROVE Records!Next
  <2>1. UNCHANGED <<host_applications, deployment_jobs>>
        /\ \A k \in Jobs : run'[k].pc = IF k \in {j} THEN "done" ELSE run[k].pc
    BY <1>5, Stops
  <2>2. {j} \in SUBSET Jobs
    OBVIOUS
  <2>3. Records!Abandon({j})
    BY <2>1, <2>2, Abandoned
  <2> QED
    BY <2>2, <2>3 DEF Records!Next
<1>6. ASSUME NEW j \in Jobs, NEW t \in Targets, StartRead(j, t) PROVE UNCHANGED Records!vars
  <2>1. run[j].pc = "unused" /\ UNCHANGED <<host_applications, deployment_jobs>>
    BY <1>6 DEF StartRead
  <2>2. run'[j].pc = "start" /\ \A k \in Jobs : k # j => run'[k] = run[k]
    <3>1. PICK type \in {"deploy", "check"} :
            Becomes(j, "start", t, type, host_applications[t].tls_key_id, Null, Null, 1, "failed")
      BY <1>6, StartMoves DEF IInv
    <3> QED
      BY <3>1 DEF Becomes
  <2> QED
    BY <2>1, <2>2, NotNoticed
<1>7. ASSUME NEW t \in Targets, DeleteHostApplication(t) PROVE Records!Next
  BY <1>7, DeleteRefines
<1>8. ASSUME NEW t \in Targets, NEW c \in Certs, Rebind(t, c) PROVE UNCHANGED Records!vars
  <2>1. /\ UNCHANGED <<deployment_jobs, run>> /\ host_applications[t] # Null
        /\ \A u \in Targets : u # t => host_applications'[u] = host_applications[u]
        /\ host_applications'[t] # Null
        /\ host_applications'[t].last_deploy_status = host_applications[t].last_deploy_status
    BY <1>8, RebindWrites
  <2>2. Outcome' = Outcome
    BY <2>1 DEF Outcome
  <2>3. UNCHANGED <<Standing, Owner, Checks, Closed>>
    BY <2>1 DEF Standing, Owner, Checks, Closed
  <2> QED
    BY <2>2, <2>3 DEF Records!vars
<1>9. ASSUME NEW c \in Certs, DeleteTlsCert(c) PROVE UNCHANGED Records!vars
  BY <1>9, NotNoticed DEF DeleteTlsCert
<1>10. CASE Crash
  <2> DEFINE S == {k \in Jobs : Active(k)}
  <2>1. UNCHANGED <<host_applications, deployment_jobs>>
        /\ \A k \in Jobs : run'[k].pc = IF k \in S THEN "done" ELSE run[k].pc
    BY <1>10, CrashStops
  <2>2. S \in SUBSET Jobs
    OBVIOUS
  <2> HIDE DEF S
  <2>3. Records!Abandon(S)
    BY <2>1, <2>2, Abandoned
  <2> QED
    BY <2>2, <2>3 DEF Records!Next
<1>11. ASSUME NEW t \in Targets, NEW p \in Layouts, Repath(t, p) PROVE UNCHANGED Records!vars
  <2>1. /\ UNCHANGED <<deployment_jobs, run>> /\ host_applications[t] # Null
        /\ \A u \in Targets : u # t => host_applications'[u] = host_applications[u]
        /\ host_applications'[t] # Null
        /\ host_applications'[t].last_deploy_status = host_applications[t].last_deploy_status
    BY <1>11, RepathWrites
  <2>2. Outcome' = Outcome
    BY <2>1 DEF Outcome
  <2>3. UNCHANGED <<Standing, Owner, Checks, Closed>>
    BY <2>1 DEF Standing, Owner, Checks, Closed
  <2> QED
    BY <2>2, <2>3 DEF Records!vars
<1>12. CASE UNCHANGED vars
  BY <1>12, NotNoticed DEF vars
<1> QED
  BY <1>1, <1>2, <1>3, <1>4, <1>5, <1>6, <1>7, <1>8, <1>9, <1>10, <1>11, <1>12 DEF Next, Step

\* Jobs and targets as start_job, finish_job, update_host_app_status and the deletion of a
\* target write them, one statement after the other, tell what Ledger promises.
THEOREM RecordsHold == Spec => RecordsAreLedger
<1>1. Init => Records!Init
  <2> SUFFICES ASSUME Init PROVE Records!Init
    OBVIOUS
  <2>1. IInv
    BY InitInv
  <2>2. \A t \in Targets :
          host_applications[t] # Null => host_applications[t].last_deploy_status = "none"
    BY DEF Init
  <2>3. \A t \in Targets : host_applications[t] # Null
    <3>1. \A c \in Certs \cup {Null}, p \in Layouts :
            [tls_key_id |-> c, paths |-> p, last_deploy_status |-> "none"] # Null
      BY NullAssumption DEF HostApplication
    <3> QED
      BY <3>1 DEF Init
  <2>4. \A j \in Jobs : deployment_jobs[j] = Null /\ run[j].pc = "unused"
    BY DEF Init, Unused
  <2> QED
    BY <2>2, <2>3, <2>4 DEF Records!Init, Outcome, Standing, Owner, Checks, Closed
<1>2. IInv /\ OutcomesInv /\ [Next]_vars => [Records!Next]_(Records!vars)
  BY NextRefines
<1> QED
  BY <1>1, <1>2, Inductive, OutcomesHold, PTL DEF Spec, RecordsAreLedger, Records!Spec

\* Whoever follows Ledger can tell where a status comes from.
LEMMA LedgerKept ==
  ASSUME Records!Inv, Records!Accounted, [Records!Next]_(Records!vars)
  PROVE  Records!Inv' /\ Records!Accounted'
<1> USE NamesAssumption DEF Records!Inv, Records!Outcomes
<1> DEFINE Goal == Records!Inv' /\ Records!Accounted'
<1>1. ASSUME NEW j \in Jobs, NEW t \in Targets, Records!Begin(j, t) PROVE Goal
  <2>1. Records!Inv'
    BY <1>1 DEF Records!Begin
  <2>2. Records!Accounted'
    BY <1>1 DEF Records!Begin, Records!Accounted
  <2> QED
    BY <2>1, <2>2
<1>2. ASSUME NEW j \in Jobs, NEW outcome \in Records!Outcomes, Records!End(j, outcome)
      PROVE  Goal
  <2>1. Records!Inv'
    BY <1>2 DEF Records!End
  <2>2. Records!Accounted'
    BY <1>2 DEF Records!End, Records!Accounted
  <2> QED
    BY <2>1, <2>2
<1>3. ASSUME NEW j \in Jobs, Records!Report(j) PROVE Goal
  <2>1. Records!Inv'
    BY <1>3 DEF Records!Report
  <2>2. Records!Accounted'
    BY <1>3 DEF Records!Report, Records!Accounted
  <2> QED
    BY <2>1, <2>2
<1>4. ASSUME NEW stopping \in SUBSET Jobs, Records!Abandon(stopping) PROVE Goal
  <2>1. Records!Inv'
    BY <1>4 DEF Records!Abandon
  <2>2. Records!Accounted'
    BY <1>4 DEF Records!Abandon, Records!Accounted
  <2> QED
    BY <2>1, <2>2
<1>5. ASSUME NEW t \in Targets, Records!Drop(t) PROVE Goal
  <2>1. Records!Inv'
    BY <1>5 DEF Records!Drop
  <2>2. Records!Accounted'
    BY <1>5 DEF Records!Drop, Records!Accounted
  <2> QED
    BY <2>1, <2>2
<1>6. CASE UNCHANGED Records!vars
  BY <1>6 DEF Records!vars, Records!Accounted
<1> QED
  BY <1>1, <1>2, <1>3, <1>4, <1>5, <1>6 DEF Records!Next

\* What last_deploy_status says of a target is the outcome that one of its own deployments, a
\* real one and not a check, has on record and has reported, whatever crossed or was cut off
\* (finish_job, update_host_app_status).
COROLLARY StatusIsOnRecord == Spec => []Records!Accounted
<1>1. Records!Init => Records!Inv /\ Records!Accounted
  BY DEF Records!Init, Records!Inv, Records!Accounted, Records!Outcomes
<1>2. Records!Inv /\ Records!Accounted /\ [Records!Next]_(Records!vars)
      => Records!Inv' /\ Records!Accounted'
  BY LedgerKept
<1>3. Records!Spec => []Records!Accounted
  BY <1>1, <1>2, PTL DEF Records!Spec
<1> QED
  BY <1>3, RecordsHold DEF RecordsAreLedger

=============================================================================
