------------------------------- MODULE Ledger -------------------------------
(***************************************************************************)
(* What the records of deployments promise to those who read them: a job   *)
(* runs, ends once, well or badly, and keeps its outcome until it goes     *)
(* with its target.  The status of a target is the outcome of one of its   *)
(* own jobs that has ended, is written once by each job at most, and never *)
(* by a check.                                                             *)
(***************************************************************************)
CONSTANTS Targets, Jobs, None

VARIABLES
  status,  \* the outcome on record for each target
  job,     \* where each job stands
  owner,   \* the target of a job that is on record
  checks,  \* the jobs that only check
  closed   \* those that will report nothing any more

vars == <<status, job, owner, checks, closed>>

Outcomes == {"success", "failed"}

Init ==
  /\ status = [t \in Targets |-> "none"]
  /\ job = [j \in Jobs |-> "unborn"]
  /\ owner = [j \in Jobs |-> None]
  /\ checks = {} /\ closed = {}

Begin(j, t) ==
  /\ job[j] = "unborn"
  /\ status[t] # "gone"
  /\ job' = [job EXCEPT ![j] = "running"]
  /\ owner' = [owner EXCEPT ![j] = t]
  /\ checks' \in {checks, checks \cup {j}}
  /\ UNCHANGED <<status, closed>>

\* A check has nothing to report to its target.
End(j, outcome) ==
  /\ job[j] = "running" /\ j \notin closed
  /\ job' = [job EXCEPT ![j] = outcome]
  /\ closed' = IF j \in checks THEN closed \cup {j} ELSE closed
  /\ UNCHANGED <<status, owner, checks>>

Report(j) ==
  /\ job[j] \in Outcomes /\ j \notin closed
  /\ status' = [status EXCEPT ![owner[j]] = job[j]]
  /\ closed' = closed \cup {j}
  /\ UNCHANGED <<job, owner, checks>>

\* Deployments stop without a word: a job that was running stays so, one that was not on
\* record yet never will be.
Abandon(stopping) ==
  /\ closed' = closed \cup stopping
  /\ job' = [j \in Jobs |-> IF j \in stopping /\ job[j] = "unborn" THEN "gone" ELSE job[j]]
  /\ UNCHANGED <<status, owner, checks>>

\* A target goes with its jobs.
Drop(t) ==
  /\ status[t] # "gone"
  /\ status' = [status EXCEPT ![t] = "gone"]
  /\ job' = [j \in Jobs |-> IF owner[j] = t THEN "gone" ELSE job[j]]
  /\ owner' = [j \in Jobs |-> IF owner[j] = t THEN None ELSE owner[j]]
  /\ checks' = {j \in checks : owner[j] # t}
  /\ UNCHANGED closed

Next ==
  \/ \E j \in Jobs : Report(j) \/ \E t \in Targets : Begin(j, t)
  \/ \E j \in Jobs, outcome \in Outcomes : End(j, outcome)
  \/ \E stopping \in SUBSET Jobs : Abandon(stopping)
  \/ \E t \in Targets : Drop(t)

Spec == Init /\ [][Next]_vars

Inv ==
  /\ status \in [Targets -> {"none", "gone"} \cup Outcomes]
  /\ job \in [Jobs -> {"unborn", "running", "gone"} \cup Outcomes]
  /\ owner \in [Jobs -> Targets \cup {None}]
  /\ \A j \in Jobs : job[j] \in {"running"} \cup Outcomes <=> owner[j] # None
  /\ \A j \in Jobs : owner[j] # None => status[owner[j]] # "gone"
  /\ \A j \in Jobs \cap checks : owner[j] # None /\ (job[j] \in Outcomes => j \in closed)

\* The status of a target can be looked up in the jobs: one of them, not a check, had this
\* outcome and has reported it.
Accounted ==
  \A t \in Targets : status[t] \in Outcomes =>
    \E j \in Jobs \ checks : owner[j] = t /\ job[j] = status[t] /\ j \in closed

=============================================================================
