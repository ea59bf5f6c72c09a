# Akamana: a verification project in TLA+

Akamana is an internal certificate and key lifecycle service: one Rust process (Axum,
SQLx, OpenSSL, russh) in front of a MariaDB database, with five background tasks and
outbound SSH, SMTP, SFTP and webhook traffic.  This directory models the parts of it whose
correctness depends on the order in which things happen, checks the models with TLC on
small instances and proves their safety properties with TLAPS for every value of the constants.

Paths below are relative to `src/backend/src/` unless they start with `src/`.

| File | What it is |
|---|---|
| `Succession.tla` | abstract: what automatic renewal promises of certificates and their targets |
| `TlsLifecycle.tla` | TLS leaf certificates and their hosts, the auto-renewal task, deployment targets |
| `TlsLifecycleProofs.tla` | its inductive invariant, its safety theorems, the refinement of `Succession` |
| `Revocation.tla` | abstract: what revocation promises to those who check certificates |
| `Crl.tla` | certificate authorities, revocation, publication of revocation lists |
| `CrlProofs.tla` | its inductive invariant, its safety theorems, the refinement of `Revocation` |
| `OneTime.tla` | abstract: what a single-use credential promises |
| `SecondFactor.tla` | TOTP enrolment, recovery codes, the second step of a sign-in |
| `SecondFactorProofs.tla` | its inductive invariant, its safety theorems, the refinement of `OneTime` |
| `Ledger.tla` | abstract: what the records of deployments promise to their readers |
| `Deployment.tla` | deployment over SSH: jobs, steps, the files on the hosts |
| `MCDeployment.tla` | the paths of three built-in applications, for the run of `Deployment` |
| `DeploymentProofs.tla` | its inductive invariant, its safety theorems, the refinement of `Ledger` |
| `SshCa.tla` | SSH certificate authorities, keys and certificates: bootstrap, rotation, signing |
| `SshCaProofs.tla` | its inductive invariant and safety theorems |
| `Accounts.tla` | one account: its row, sessions, reset links, passkeys, API tokens, lockout |
| `AccountsProofs.tla` | its inductive invariant, its safety theorems, the refinement of `OneTime` |
| `Backup.tla` | backups: the hourly task, manual runs, encryption, retention, restores |
| `BackupProofs.tla` | its inductive invariant and safety theorems |
| `Alerts.tla` | the three tasks that watch and announce: notifier, security and machine monitor |
| `AlertsProofs.tla` | its inductive invariant and safety theorems |
| `*_<run>.cfg` | one TLC configuration per run, named after its module |
| `PROJECT.json` | components, runs, mutants, the map to source lines, findings, hazards, theorems |

## 1. Inventory of the system

### How the program executes

Every request handler and every background task is an async function that issues SQL statements
through a pool, one at a time, with an `await` after each.  With few exceptions (the deletions of
a root, a certificate and a target) there is no transaction: each statement commits by itself, and
anything else may run between two of them.  What a handler has read stays in its local variables
until it writes.  A statement that fails ends the handler with an error and leaves what it has
already written; a crash does the same to all handlers at once, and the process is restarted by
its container.  Background tasks log the error and go on with the next item or the next period.

This is what every module here has in common: **one action per statement (or
transaction), a record per running handler with a program counter and what it has read,
a `Fail` action and a `Crash` action.**

### Components

| Component | State | Operations | What is hard | Properties that make it correct |
|---|---|---|---|---|
| TLS certificate lifecycle (`lifecycle.rs`, `routes/api.rs` 2989-3132, 3263-3358, 3436-3481, 6617-6959) | `tls_keys`, `tls_key_machines`, `machines`, `host_applications`, the task's batch | issue, import, renew, set auto-renewal, revoke, delete; hosts: delete; targets: create, PATCH, delete; hourly: select, issue, enable, re-point, retire, deploy | the task works for minutes on what one SELECT said, while operators change the same rows; crash between any two statements; the links of certificates to hosts hold no host back | no target on a retired certificate; renewal is always carried on, for the same hosts; no forks; a renewal never shortens; everything due is renewed; targets are redeployed |
| Authorities and revocation lists (`crypto.rs` 454-660, 1481-1537, `routes/api.rs` 2053-2121, 3263-3358, 3564-3625, 7690-7725) | `root_ca`, `tls_keys`, `crl_entries`, the remote files | create and delete roots, sign, import, revoke, delete, generate and upload lists | revocation is two statements; identifiers of deleted roots are reused; uploads are unordered; an import looks neither at lists nor at who signed | a revoked certificate is listed, a listed one is revoked, entries belong to the root that signed, lists only grow; imports are the exception |
| Sign-in and second factor (`auth.rs`, `mfa.rs`, `passkey.rs`, `routes/api.rs` 527-1660) | `users`, `user_recovery_codes`, `webauthn_challenges`, `password_reset_tokens`, `login_attempts` | login, MFA step, enrolment in two requests, disable, recovery codes, passkey ceremonies, reset links, rate limit | two browser windows; check-then-act on rows; single use | codes and links are single-use; only a proven factor is enabled; the factor goes off only on purpose; the limit holds |
| Users, sessions, API tokens (`auth.rs` 282-533, `routes/api.rs` 2154-2190, 4563-5052) | `users`, `api_tokens`; sessions live only in signed tokens | create, change role, delete user; mint, revoke, delete token; authorize | a session has no row and outlives its account; a name may be created again | a token carries no scope its owner could never grant; nothing is left of a deleted account |
| Deployment over SSH (`deploy.rs`) | `deployment_jobs`, `deployment_journal`, files on the host | resolve, check, write key, certificate and chain, reload, journal, report | failure between two files; paths that are the same; two deployments of one target; hosts that do not answer; a crash leaves a job running | the pair on the host matches, or the journal says why not |
| SSH keys, CAs and certificates (`crypto.rs` 965-1408, `routes/api.rs` 3495-3722, 8243-8632) | `ssh_cas`, `ssh_keys`, `ssh_certificates` | bootstrap at every start; rotate; sign; keys and certificates: create, revoke, delete | rotation is two statements; a signature reads its CA and its key long before it inserts; dates of one second | one active CA per kind, and when there is none; no signature by what was retired, or for what was deleted, before the request |
| Certbot configurations (`deploy.rs` 848-1083) | `certbot_configs` | run on the host, record the outcome | as deployment | a status that reflects the last run |
| Backup and restore (`backup*.rs`, `routes/api.rs` 7289-7500, 7919-8019) | the local directory with its signatures, the remote one; `settings`, `backup_recipients`; the whole database on restore | dump, sign, skip if unchanged, encrypt, write, retain, push; save settings; restore | the database is dumped twice; settings are read one by one and saved one by one; a restore runs while everything else does | retention keeps the newest complete backup; a skipped backup is one there is; encryption follows the settings; backups catch up |
| Expiry notifier (`notifier.rs`) | `notification_events` | select, look up the cooldown, deliver, record | a delivery that failed counts; a crash between delivery and record | what expires is announced, again and again, and not twice within the cooldown |
| Security monitor, access log (`security_monitor.rs`, `main.rs`) | `access_logs`, `security_events` | log requests, detect, deliver, record | the first error ends a cycle | the same |
| Machine monitor (`machine_monitor.rs`, `routes/api.rs` 2951-2987) | `machine_monitor_ports`, `notification_events` | batch of due ports, scan, cross-check, deliver to two recipients, record; scans by hand | batches of 100; requests scan the same ports | the same, and every due port has its turn |
| Inventory (`routes/api.rs`) | `machines`, applications, credentials | CRUD | lost updates, dangling links | links point somewhere |
| Database and start-up (`db.rs`, `config.rs`, `addons.rs`, `errors.rs`) | schema | migrate, bootstrap | runs before requests | - |
| Web interface (`src/web`) | none of its own | client of the API | - | - |

Components interact through the tables only, with these exceptions: the renewal task calls
`generate_tls_key` (the issuing handler) and `run_deployment` directly and waits for them;
`revoke_tls` calls `publish_crls`, which uploads; deployment failures call the mailer.

`PROJECT.json` lists the hazards of this code, line by line, with the properties that
cover them; each has one.

## 2. Plan

In the order of what a fault would cost, with what composes what.

1. **`TlsLifecycle`, `TlsLifecycleProofs`** - done.  The service exists for it.  Renewal
   refines **`Succession`** (abstract).
2. **`Crl`, `CrlProofs`** - done.  It refines **`Revocation`** (abstract).
3. **`OneTime`** (abstract), **`SecondFactor`, `SecondFactorProofs`** - done; recovery codes
   refine `OneTime`.
4. **`Deployment`, `DeploymentProofs`** - done: the inside of what is one step with an outcome
   in `TlsLifecycle`.  Its records refine **`Ledger`** (abstract).
5. **`SshCa`, `SshCaProofs`** - done.
6. **`Accounts`, `AccountsProofs`** - done: reset links refine `OneTime` too.
7. **`Backup`, `BackupProofs`** - done.
8. **`Alerts`, `AlertsProofs`** - done: the shape that the three polling tasks share (list, look up,
   send, record), one after the other under one specification.  The action property is proved;
   liveness is checked.
9. Open: the certbot half of the hourly cycle; a clock in `Crl` (a list expires after seven
   days).

## 3. The models

### TlsLifecycle

| In the model | In the code |
|---|---|
| `tls_keys`, `host_applications` | the columns of the two tables that renewal reads or writes; `links` are the rows of `tls_key_machines` that name the certificate, deleted with it |
| `machines` | the table of hosts |
| `job` | where `run_auto_renew` / `renew_one` stand and what they have read: the rest of the batch, the candidate and its hosts, the new certificate, the targets left |
| `requests` | PATCHes of a target between their SELECT and their UPDATE |
| `JobSelect`, `JobNext`, `JobCycleEnd` | the SELECT with `LIMIT 50` and the loop over it |
| `JobGenerate`, `JobCannotIssue`, `JobGenerateThenFail` | the call of `generate_tls_key`: it inserts; it refuses; it inserts and a later statement fails |
| `JobEnable`, `JobRepoint`, `JobSupersede`, `JobTargets` | the four statements of `renew_one` |
| `JobDeploy`, `JobFinishDeploy`, `JobRenewed` | `run_deployment` of each target, begun and ended |
| `GenerateTlsKey` ... `PatchWrite` | the operator requests, in one action each save PATCH, which reads and writes in two |
| `NextDay`, `Crash` | time in days; the process stops and restarts |

Whether a certificate can be issued again is two questions.  That its CA has a key and its
name is valid is the constant field `issuable` of its row; that its hosts exist is compared
with `machines` when `generate_tls_key` is called (`Generate`, `Refused`).  The hosts of a
certificate are the one in its row (`machine_id`, a foreign key) and those linked to it
(`links`, which are none): `DeleteMachine` looks at the first only, as `delete_machine` does,
and goes on although certificates are linked to the host.  The other rows that hold a host
back (targets, ports, credentials) are left out of its guard, so the model deletes more hosts
than the code.  The migration that links each certificate to the host in its row again
(`025_tls_key_machines.sql`, repeated at every start) changes no certificate's `HostsOf`, and
is left out too.

A renewal by an operator (`RenewTlsKey`) issues for the same hosts and moves nothing; an
import (`ImportTlsCertificate`) brings its own dates, and links nothing.  Deleting a root
deletes its certificates, which `DeleteTlsCert` covers one by one.  A PATCH cannot clear the
certificate of a target: `UpdateHostApplicationRequest` wants 36 characters.

`Succession` tells the same without the steps of a renewal: an heir is issued, put in charge
(`Appoint`), takes over all the targets at once (`TakeOver`), and only then does the old
certificate retire (`Retire`), for good; a certificate an operator changes is released from
all this (`Release`).  `TlsLifecycle` maps its state to that of `Succession` at its end:
`Stage` reads the settings and the status of a row (and `touched`), `Serving` the certificate
of each target, and `renewedFrom`, `repointed` and `lateBound` are the rest.

History variables (`renewedFrom`, `repointed`, `lateBound`, `touched`, `interrupted`,
`owed`) are written and never guard an action; they are what the properties speak about.

### Crl

`tls_keys`, `crl_entries` and `root_ca` are the tables, `remote` the file last uploaded for
each root.  A request creates a root (`CreateRootRead`, `CreateRootInsert`), issues
(`IssueSign`, `IssueInsert`), imports (`ImportTlsCertificate`, one statement), revokes
(`RevokeRead`, `RevokeUpdate`, `RevokeInsert`) or publishes (`PublishNow`, then root by root
`PublishGenerate`, `PublishPush`); revocation goes on to publish.  `DeleteRoot` is one action
because it is one transaction.  `generate_crl_der` reads the root and then the entries, here in
one step.  A root's identifier is `MAX(id) + 1`; the history variable `era` counts how many roots have had an
identifier, so that a certificate remembers which of them signed it.  An upload is one step,
but one that fails, or a crash during it, may leave the file truncated.
`create_organization_root` and `import_root_ca` choose identifiers and insert in the same
way.  X.509 contents are left out: a certificate is its serial number.

An import makes a valid row of any certificate whose serial number has none, also of one that
was revoked and deleted: neither `crl_entries` nor the signature is looked at, and the root is
what the request names, or 1.  `rowId` is the identifier of the row, which a revocation reads
and updates by, so that one under way does not mark the row of a later import.  The history
variable `returned` holds the certificates imported while a list, or a revocation or a
publication under way, named them; `Imported` all that ever were.

`Revocation` tells the same to those who only see lists: a certificate is unissued, valid,
revoked, then gone, and goes back by an import only (`Import`); what an authority lists, or the
copy elsewhere names, is withdrawn and was not signed by another authority that is known to have
signed it, unless it was imported; a list shrinks only with its authority.  It knows no requests:
`Status` reads a certificate's row, or whether a request still holds it (`Signing`), `Signer` its
authority, and `Served` the entries of each authority.

### OneTime and SecondFactor

`OneTime` says what a single-use credential promises: unminted, open, then spent once or
withdrawn, and never back.  `SecondFactor` is one local account, since every table involved
is keyed by the user: `user` holds the two columns of `users`, `codes` the rows of
`user_recovery_codes`.  A request keeps what `load_local_user` said until it writes:
set-up (`BeginRead`, `BeginWrite`, `BeginShow`), confirmation (`ConfirmRead`,
`ConfirmWrite`), disabling (`DisableRead`, `DisableWrite`, `DisablePurge`), new codes
(`IssueClear`, `IssueInsert` once per code, `IssueReply`), sign-in with a recovery code
(`LoginMfa`, `LookUp`, `Take`).  The two callers of the enrolment functions, one with a
session and one with an `mfa-setup` token, share the actions and differ in the guard of
`ConfirmRead`.  Passwords and codes typed by the user are right, since wrong ones change
nothing but the rate limit, which is in `Accounts`; an `mfa` token expires at any time
(`TokensExpire`).  `Phase` maps the state to that of `OneTime`.

### Deployment

`run` holds the deployments: where each stands in `run_deployment` and what it has read.  A
deployment reads the certificate of its target twice (`StartRead`, then `Resolve` after
`StartInsert` has put its job on record), goes through the connection and the checks
(`Connect`, one step, where a check ends), uploads file after file (`Write`), reloads
(`Reload`), and then writes its outcome to the job and to the target in two statements
(`FinishJob`, `UpdateStatus`).  `StepFails` is a failure of any of the steps on the host, or
of a line of the journal around it; an upload that fails leaves the file as it was, complete
or torn (`upload_command` truncates it first, except under sudo).  A deployment whose target
was deleted has lost its job, and the foreign key of the journal ends it (`Orphaned`).
`Cut` is a dropped request, or a statement that fails when the outcome is reported; `Crash`
stops the process, and nothing resumes or closes the jobs.

`Files` are the places on the hosts and `files` what each holds: the key, the certificate or the
chain of some row of `tls_keys`, or something torn.  A layout gives a target's path for each of
the three, the chain's being optional; it is read when the deployment resolves its target
(`Resolve`), and `Repath` is a PATCH of the target, or of its application, that changes it.
Nothing in the code compares the paths: a target may have one for two of its files, as three of the
built-in applications have for key and certificate and one for certificate and chain
(`db.rs` 115-186), and two targets of a host may meet (the built-in nginx and apache have one
path for their keys).  Then each upload replaces the one before, and the deployment succeeds.
Modes, staging and the contents of the checks are left out.

The history variables say which deployment touched each file last (`writer`), which one's
outcome a target has (`reporter`), and which jobs were re-bound between their two reads
(`rebound`).  `Installed` says of a deployment that each of its files is in place, but where a
later file of its own took the path or another deployment touched it.

`Ledger` tells what the rows alone promise: a job runs, ends once and keeps its outcome until it
goes with its target (`Drop`); a target gets an outcome from a deployment of its own, once,
after that deployment's job has it (`Report`), and none from a check; deployments may stop
without a word (`Abandon`), which leaves their jobs running.  `Outcome`, `Standing`, `Owner`
and `Checks` read the two tables, `Closed` the deployments that have ended.

### SshCa

`ssh_cas`, `ssh_certificates` and `ssh_keys` are the tables.  `boot` says which kind
`ensure_ssh_cas` looks at next; requests are served when it is "up".  A rotation is
`RotateSelect`, `RotateDeactivate`, `RotateInsert`; a signature is `IssueBegin`,
`IssueResolve` (the CA is read), `IssueSubject` (the key is read, and the signature is made in
memory), `IssueInsert`.  A CA has the date of its creation, which orders those of one kind
with ties (dates are kept in seconds), so that `Newest` is a choice.  A process that dies
(`Crash`) starts again with `boot` at the first kind; a rotation alone may be cut short
(`CutRotation`).  There is no operation that deletes a CA, and none that activates one.

`before` remembers, for each signature, the CAs retired and the keys deleted when its request
began: `IssuedFromLive` is that none of them is in the certificate, although both are read
later.

### Accounts

One name.  `users` is its row, or `Null`; each creation has another identifier, while
sessions, which live in signed tokens only, go on speaking for the name.  `request` holds
what a request has read: a deletion of the account (`DeleteUser` to `DeleteRow`), a new reset
link (`RequestLink`, `Withdraw`, `InsertLink`, for `password_reset_request` and
`create_user_reset_link` alike), its use (`ConfirmSelect`, `Burn`, `ConfirmUser`,
`WithdrawOthers`, `Forget`), the registration of a passkey (`RegisterFinish`, then `Select` and
`Drop` of `take_webauthn_challenge`, or `DropUnread` when it found no row of its purpose and
deletes whatever has the id, then `InsertPasskey`), a sign-in by password or passkey (`Attempt`,
`LoadUser`, for passkeys `Select` and `Drop`, `Verify`, then `RecordFailure` or `SignIn`), and
a new API token (`CreateApiToken`, `InsertToken`).  What is one statement is one action:
creation, change of role, start of a ceremony, deletion of a passkey, revocation and deletion
of a token.  `Cut` ends any request anywhere.

Tables that the account's deletion empties and nothing else here reads (profile, recovery
codes) are left out, and so is what only writes the password.  Ages are flags: a link, a
challenge, all failures at once.  Token scopes are judged one by one, so a token has one.

`Phase` maps the links of one identifier to `OneTime`; the identifiers are interchangeable.

### Backup

`db` is the database by table: the recipients, the settings and all the rest (`rows`, which
any edit changes).  A run (`run`) reads the settings that pace it (`Begin`), dumps (`Dump`),
dumps again for the signature and compares it with the newest one (`Skip`, `Sign`), finds out
how to encrypt (`ReadMode`, `ReadPassphrase`, `ReadRecipients`), creates and fills its file
(`Create`, `Write`), writes the signature and prunes (`Rotate`), and pushes (`Push`).
`list_backups` orders files by name, and a name is the time, so names are numbers.  Requests
save the settings key by key (`SaveBegin` to `SavePassphrase`), edit the recipients, test the
destination, and restore a dump table by table (`RestoreBegin`, `RestoreDrop`,
`RestoreFill`); a table is missing between two of these steps.  Faults tear files, cut runs,
uploads, saves and restores, make a setting unreadable (`Misread`), and stop the process.

The period is one flag: `young` says that the newest file is younger than it, and `Age` ends
it.  The container is the flag `locked`; a locked backup may or may not be opened (`Opened`).

### Alerts

The subjects of one task at a time (`watched` is one of certificates, sources and ports,
chosen at the start): the three share no rows.  A cycle takes the list of subjects
(`NotifierCycle`, `SiemCycle`, `MonitorCycle`), then for each looks for an event within the
cooldown (`Look`), delivers (`Send`, `SendToSiem`), and records (`Record`); ports are scanned
first (`Scan`), announced or not (`Announced`), to one or two recipients, and also by requests
(`ScanRequest`).  `order` is the place of each port by `updated_at`; a batch takes the first places.
A statement that fails ends the cycle, but for the machine monitor, which goes on with the
next port.  Ages (`sent`, `checked`) grow with `Hour` up to the limits that anything compares
them with.

## 4. What is checked

Every run and its properties are in `PROJECT.json`.  All configurations set
`CHECK_DEADLOCK FALSE`: the bounds on days, requests, faults, edits, names and identifiers
make every behaviour stop in the end (in `Alerts`, a system with nothing to watch is at
rest), and none of the stops is the system's own.

| Run | Bounds | What it shows |
|---|---|---|
| `lifecycle_safety` | 1 certificate at the start and 2 to be issued or imported (for days 1 to 2), all for both of 2 hosts (imports: for one or none), 1 target, a lifetime of 3 days, windows of 1 and 2 days, cap of 2 days, 2 days, 2 operator requests, 1 PATCH in flight, 1 fault | `NoStrandedTarget`, `HeirCarriesOn`, `ForkOnlyWhenInterrupted`, `HeirOutlives`, `HeirKeepsHosts`, and the refinement of `Succession` (`RenewalIsSuccession`) |
| `lifecycle_liveness` | 3 certificates in batches of 2, for one host or for two of which one is gone (these cannot be issued again), 2 targets, 1 fault, no requests | `DueIsRenewed`: those that can never be renewed do not starve the others while they leave room in the batch; `RedeployedUnlessFault` |
| `lifecycle_patch` | 1 target, 1 PATCH | violated: `UnsentFieldLeftAlone` |
| `crl_safety` | 2 certificates, 2 root identifiers, 2 requests at a time, 5 requests, 1 fault | `RevokedIsListed`, `ListedIsRevoked`, `StrayOnlyInFlight`, `RemoteLacksOnly`, and the refinement of `Revocation` (`RevocationIsFinal`) |
| `second_factor` | 2 secrets, sets of 2 codes out of 4, 2 requests at a time, 5 requests, 1 fault | `ProvenUnlessContested`, `ShownSetInForce`, `OnlyTurnedOff`, and the refinement of `OneTime` (`RecoveryCodesAreOneTime`) |
| `second_factor_unproven` | 2 secrets, 2 requests at a time | violated: `EnabledIsProven` |
| `deployment` | 1 target with the paths of the built-in apache (all apart), nginx (certificate and chain in one file) or haproxy (key and certificate in one file, no chain), 2 certificates, 2 deployments, 1 edit (re-binding, other paths, or a deletion), 1 crash or cut; failures on the host without a bound | `SuccessIsInstalled`, `StatusIsTrue`, `JobNamesCertificate`, the refinement of `Ledger` (`RecordsAreLedger`); `JobEnds` under fairness |
| `ssh_ca_safety` | 2 rotations, 1 signature, 1 key, 2 faults (crashes, rotations cut short) | `OneActive`, `SomeActive`, `IssuedFromLive`; `Replaced` under fairness |
| `accounts_safety` | 2 identifiers of the name, 2 roles, 1 scope that one of them has, 3 requests (any three of those above), 1 challenge, a limit of 1 failure, 1 creation or change of role; requests are symmetric | `OneOpenLink`, `NothingLeft`, `ChallengeOnce`, `ScopesWithinRoles`, `FailuresBounded`, and the refinement of `OneTime` (`LinksAreOneTime`) |
| `backup_safety` | the task and 1 request (a run, a save or a restore), 1 recipient, 2 modes, 1 file kept here and there, 2 files written, 1 edit, 1 fault | `NewestKept`, `EncryptedAsSet`, `SkipCovered`; `CaughtUp` under fairness |
| `backup_plain` | the task and 1 save, 2 modes, no fault | violated: `PlainOnlyIfUnset` |
| `alerts_safety` | 2 certificates, 2 sources or 2 ports (one of them with a mail recipient), 1 request that scans, batches of 1 port, a cooldown of 1 and a frequency of 1, 1 fault | `NoRepeat`; `KeepsTelling` under fairness |

**Why the bounds are enough.** A violation of the properties needs one renewal to be crossed by
one operator (two requests: one that reads early and one that changes), a second renewal of the
same or the renewed certificate, and one cut; three certificates are the old one, its heir and a
second heir; two hosts are the one in the row and one that is only linked.  In `Crl`, one
identifier is used twice by two roots, and two requests race; five requests revoke, delete,
import, publish and one more; two identifiers let a publication be stopped at the first of them
with the second to come.  In `SecondFactor`, two sets of codes and two windows suffice for
anything of the past to meet anything of the present.  In `Deployment`, two deployments and one
re-binding, or one change of paths, write two certificates to one target in every order; what a
third would meet is the state that one of the two left, and a deployment of another target with
the same path is, to the files, another one of this.  In `SshCa`, two rotations cross each other
and a signature, and two faults are one of each kind, or the same one twice.  In `Accounts`, three
requests are the two that race and the one that made what they race for; a second identifier is
what a session of the first can be mistaken for.  In `Backup`, two files are the newest and the
one that takes its place, with one kept; a restore needs the first.  In `Alerts`, two subjects
wait for each other's place in a cycle or batch.  The theorems of section 5 remove the bounds for
the safety properties.

**Fairness.**  Only liveness properties assume any.  In `TlsLifecycle`, `FairSpec` asks that
the renewal task takes a step whenever it can, except from `push`, where it waits for a host.
The task is an endless loop of its own with an hourly timer (`lifecycle.rs` 4-15) which errors
do not leave, and a crash restarts the process; nothing in the code bounds an SSH session, so
no fairness is assumed of hosts: `DueIsRenewed` and `RedeployedUnlessFault` say
`HostsAnswer =>` instead.  The same holds of deployments: the future of each is polled to its
end except where it waits for a host (`Waiting`), and `JobEnds` says `HostsAnswer =>` as well,
where each deployment leaves `Waiting` again and again, and excepts jobs that a fault has cut.
In `SshCa`, starts and rotations take their steps.  In `Backup`, the hourly task and the
requests under way do, and periods pass; in `Alerts`, the three tasks and the requests do, but
deliveries, on which the code sets no timeout, are answered only by assumption (`Answered`, a
hypothesis of `KeepsTelling`).  There, `Hour` is strongly fair: it is disabled only for the
moments between the computation of a cooldown and the comparisons with it, which end.
Operators, faults and the outside are never assumed to do anything.

**What the violated properties show** (`findings`): each is a sentence of a document or a
comment that the code does not keep.

- `UnsentFieldLeftAlone`: PATCH of a target reads the row, fills in what was not sent, and
  writes every column; the renewal task's own write in between is undone, and the target
  stays on a certificate that is no longer renewed.
- `EnabledIsProven`: confirmation verifies a code against the secret it read and enables
  whatever secret the row holds by then.
- `PlainOnlyIfUnset`: a run reads the encryption mode twice.  A save that switches from
  passphrase to recipients between the two makes the second answer "no passphrase", which is
  taken for no encryption: the dump is written in clear, although every setting that ever was
  in force asks for encryption.

Two more disagreements have no run.  `routes/api.rs` 2180-2181 says that "A token can never exceed
its owner's own authority"; `create_api_token` keeps to it by the role in the session, when it
grants.  A demotion (`update_user_role`) takes nothing back: the tokens made before it, and those
that a session opened before it goes on making, exceed what the role of the owner now is.
`ScopesWithinRoles` is what holds: the scopes of a token are those of a role its owner has or had.
The other one is not a matter of behaviour over time:
`src/docs/ARCHITECTURE.md` 49 says that the expiry notifier sends mail, and the settings have an
address for it (`routes/api.rs` 5258-5303), but `notifier.rs` posts to the webhook only and
nothing reads that address.

The passing properties state what does hold in these situations, and name every exception:
`NoStrandedTarget` allows only targets an operator put back (`lateBound`), `RemoteLacksOnly` lists
the ways the remote copy can be behind, `ListedIsRevoked` excepts certificates imported again
while something still named them (`returned`), and `StrayOnlyInFlight` and the refinement of
`Revocation` all imported ones, `HeirOutlives` excepts certificates that were not valid yet when
they were renewed (imported ones), `HeirKeepsHosts` and `ForkOnlyWhenInterrupted` those an
operator changed, `ProvenUnlessContested` allows only secrets written inside another's
confirmation, `RedeployedUnlessFault` gives up only when something failed (nothing remembers,
after a crash, that targets are owed a deployment), `OneActive` only when two rotations crossed,
`OneOpenLink` only when a link was inserted inside the making of another, `NothingLeft` only for
rows inserted while the account was being emptied or later, `ChallengeOnce` only for challenges
read by two before either deleted them, `ScopesWithinRoles` for roles of the past and for a name
created again under a session in use, `LinksAreOneTime` lets an older link that `OneOpenLink`
excepts be used after a newer one was minted, `NewestKept` only for runs that overlap and for the
probe of a test, `EncryptedAsSet` only for settings that named no key at some time during the run,
or were misread, `NoRepeat` only for workers that look at one port before either records.
`SuccessIsInstalled` and `StatusIsTrue` except files that a later file of the same deployment
replaced, and files that another deployment touched.  The first means that a target of the
built-in haproxy is on record as deployed with a certificate and no key (`OnePathKeepsTheLast`),
unless its reload command notices; the second that two deployments that cross leave the key of one
and the certificate of the other, both on record as a success: the comment at `deploy.rs` 368-370
sets simultaneous deployments apart by the name of their staged files, but the files they install
are the same.  Every property of a passing run has a mutant in `PROJECT.json`: a plausible bug in
one definition, kept beside it, under which TLC finds the property violated.

## 5. What is proved

For every set of certificates, targets, roots, secrets, codes, keys, accounts, backups,
ports and requests, and every bound:

| Module | Theorems |
|---|---|
| `TlsLifecycleProofs` | `TypeCorrect`, `Invariant`, `NoTargetStranded`, `RenewalCarriesOn`, `ForksOnlyWhenInterrupted`, `RenewalOutlives`, `RenewalKeepsHosts`, `RenewalIsASuccession`, `RenewalLeavesNobodyBehind` |
| `CrlProofs` | `TypeCorrect`, `Invariant`, `RevokedAreListed`, `ListedAreRevoked`, `StraysWereInFlight`, `RemoteLacksNothingElse`, `ServedForGood`, `RevocationHolds`, `ListedIsFinal` |
| `SecondFactorProofs` | `TypeCorrect`, `Invariant`, `Proven`, `ShownAreInForce`, `OffOnlyOnPurpose`, `CodesAreOneTime`, `CodesOpenOneSession` |
| `DeploymentProofs` | `Inductive`, `RecordedSuccess`, `TrueStatus`, `OnePathKeepsTheLast`, `NamedCertificate`, `RecordsHold`, `StatusIsOnRecord` |
| `SshCaProofs` | `TypeCorrect`, `Invariance`, `OneActiveHolds`, `SomeActiveHolds`, `IssuedFromLiveHolds` |
| `AccountsProofs` | `TypeCorrect`, `Invariant`, `LinksAreFew`, `DeletionIsComplete`, `ChallengesAreSingleUse`, `TokensStayWithinRoles`, `GuessesAreBounded`, `ResetLinksAreOneTime`, `LinksSetOnePassword` |
| `BackupProofs` | `TypeCorrect`, `Invariant`, `NewestIsKept`, `ClearHasReason`, `SkippedIsCovered` |
| `AlertsProofs` | `TypeCorrect`, `Invariant`, `OneAlertInCooldown` |

Assumptions are those named in the modules: positive lifetimes, renewal windows no longer
than the cap of a renewal (180 and 825 days in the code), roots numbered from 1, a positive
number of codes in a set, at least one failure before a lockout, a destination that keeps at
least one backup, finitely many requests, rotations and ports, natural bounds, and sentinels
distinct from data.

None of the safety properties is inductive.  Each module therefore ends with `IInv`, which
adds what is true of requests in flight (it was checked with TLC before it was proved, and is
no property of a run):

- `TlsLifecycle`: what the task holds (`Pending`, `job.old`, `job.new`) still agrees with
  the tables, or an operator touched the row (`PendingInv`, `NewInv`); a certificate is
  retired only after its targets were moved (`TargetsInv`); a certificate with an heir is
  still renewed automatically only between `JobEnable` and `JobSupersede` (`ForkInv`); the
  hosts the task has read are those of the old certificate, then of the new one, as long as
  both are there (`HostsInv`).  The refinement needs `CareInv` besides: what no operator has
  changed has the settings `renew_one` gave it.
- `Crl`: a certificate being signed is mentioned nowhere (`SignInv`), a row that a revocation
  has not read came by an import (`RowIdInv`), what it has read is what its row says
  (`RevokeInv`), no list in anyone's hands names a valid certificate but one that returned
  (`MentionedInv`), and a request whose root is gone is remembered (`EraInv`).  The
  refinement needs `OwnInv` besides: lists, and what is in hand for them, name no certificate
  of another authority.
- `SecondFactor`: a confirmation under way enables what it verified or what was written
  meanwhile (`ConfirmInv`); a set-up that finds the factor on was overtaken (`StaleInv`);
  codes being issued are all there is and nobody has seen them (`IssuingInv`).
- `Deployment`: a job agrees with its deployment and goes with its target (`Recorded`); a
  deployment goes on with what it resolved (`Written`) and has its files in place as far as it
  came, also when it has ended well (`Placed`); the status of a target is the outcome of the
  deployment of its own that reported last (`Reported`).  The refinement needs `OutcomesInv`
  besides: a job is on record as running until it has ended, and then with the outcome about to be
  reported.
- `SshCa`: a rotation under way has a CA that is there (`RotationsStand`), and until it inserts
  its kind has none active unless another crossed it (`NoneBetween`); a start sees to users
  before hosts (`UsersFirst`); what is retired or deleted stays so (`TooLate`), and what a
  signature has read is of its kind and not among it (`IssueReads`).
- `Accounts`: what each request has read is of its kind (`Reads`); what a deletion has emptied
  stays empty while it goes on (`Emptied`); a link about to be inserted will be the only one
  (`OnlyLink`); a challenge that was accepted is gone, and nobody holds it any more (`Taken`); a
  role that speaks for the name is one its present identifier has had (`Entitled`); an open
  link was not accepted (`Minted`).
- `Backup`: a name belongs to one run, and the signature that goes with it is of what it dumped,
  or the data changed between (`RunsInv`); a run that will write in clear has a reason
  (`ModeInv`); a signature in the directory is of the data in its file (`SigsInv`); a run that
  nobody overlaps has the last name, and its file is there (`AloneInv`); a request has something
  to save or to restore (`RequestsInv`).
- `Alerts`: a worker deals with subjects of its task only, and only ports are shared
  (`WorkersInv`, `CrossedInv`); what is being sent was not announced within the cooldown,
  unless meanwhile by another (`SendInv`).

The proofs follow the same argument: lemmas say what a step does to the record of its own
request and that it leaves the others alone; then each part of `IInv` is preserved by each
action that can disturb it; the temporal theorem combines the two.  Action properties
(`OnlyTurnedOff`, `SkipCovered`, `NoRepeat`, and `ServedStaysServed`, which no run checks since
it is implied by the refinement of `Revocation`) follow from the invariant before the step.
The refinement of recovery codes maps the two deletions of codes to `WithdrawAll`, an insertion
to `Mint`, a successful `Take` to `Redeem`, and everything else to a stutter; that of reset
links does the same with `Withdraw`, `WithdrawOthers` and `DeleteLinks`, `InsertLink`, and a
successful `Burn`.  That of renewal maps whatever inserts a certificate to `Issue`, `JobEnable`
to `Appoint`, `JobRepoint` to `TakeOver`, `JobSupersede` to `Retire`, what operators do to a
certificate to `Release` and to a target to `Bind`; a step on a row that is gone or was changed
by an operator is a stutter.  That nobody is left behind is proved of `Succession` alone
(`Inv`, a lemma), and carried over (`RenewalLeavesNobodyBehind`).

That of revocation maps `IssueInsert` to `Issue`, `ImportTlsCertificate` to `Import`,
`RevokeUpdate` to `Revoke`, `DeleteTlsCert` to `Delete`, `RevokeInsert` to `List`,
`CreateRootInsert` and `DeleteRoot` to `Establish` and `Abolish`, `PublishPush` to `Publish`, and
failures and crashes to `Interrupt`; that what is listed stays withdrawn for good unless it is or
was imported, also when the list is gone, is proved of `Revocation` alone and carried over
(`ListedIsFinal`).  That of deployments maps `StartInsert` to `Begin`, `FinishJob` to `End`,
`UpdateStatus` to `Report`, the deletion of a target to `Drop`, and to `Abandon` all that stops
without a word: `Cut`, `Crash`, `Orphaned`, a job that finds no target to belong to, and an
outcome that finds no target to be written to.  What happens on the host is a stutter.  From
`Ledger` alone it follows that every status is the reported outcome of one of the target's own
deployments (`StatusIsOnRecord`).

**Only model-checked:** the liveness properties, which rest on fairness and on when actions are
enabled; the violated properties are false.  Every safety property of a passing run is proved.

## 6. What is not modelled, and why

- Certbot configurations: a command run over SSH with a status, of the shape of a deployment
  without files that could disagree.  Inventory: create, read, update and delete of independent
  rows, apart from targets and the deletion of hosts.  Database access and start-up: before any
  request, apart from `ensure_ssh_cas`.  Web interface: no state of its own.
- In `TlsLifecycle`: certbot, manual deployments (they are in `Deployment`), what holds a host
  back apart from certificates.
- In `Deployment`: creation of targets (identifiers are never reused), what the reload command
  makes of the files (it succeeds or fails), paths that differ as text and name one file (in the
  model the same file has the same name), the alert mails, a root deleted between the two
  statements with which `resolve_target` reads a certificate and its chain.
- In `Crl`: the expiry of a published list, revoking a root (a flag nothing else reads), two
  writers of one remote file at the same time, restores of the tables (`Backup`), certificates
  of others that have the serial number of one of ours.  A certificate lost between signature
  and INSERT may be imported in the model, although nobody has it.
- In `SecondFactor`: the arithmetic of TOTP (a code of the right secret is accepted; reuse of
  a code within its window is not told apart), deletion of the account.
- In `SshCa`: the contents of keys, certificates and serial numbers, import and export,
  failures of the start itself.
- In `Accounts`: OpenID Connect, failures of other names from the same address, profiles and
  pictures, changes of password and mail address, the use of tokens after they were minted.
- In `Backup`: the cryptographic container, import and export endpoints, two runs that take a
  name in the same millisecond, a change of the destination, and settings of pace that are
  misread (each has a default).
- In `Alerts`: thresholds, the counting of log lines, TLS probes and their verdicts, the second
  kind of security alert, changes of the ports themselves; time does not pass between the
  computation of a cooldown and the comparison with it; all other hosts, not five, are tried
  when a port cannot be reached.
- Everywhere: formatting, logging and audit lines, except that a failing audit line is one of
  the statements that can fail.
