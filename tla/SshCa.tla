------------------------------- MODULE SshCa -------------------------------
(***************************************************************************)
(* The SSH certificate authorities, one active for users and one for       *)
(* hosts: created when the process starts, rotated by administrators, and  *)
(* used to sign the certificates that requests ask for.                    *)
(*                                                                         *)
(* A rotation deactivates the CAs of its kind and inserts the new one in   *)
(* two statements; a signature reads its CA in one statement and records   *)
(* the certificate in a later one.  All of them run beside each other.     *)
(***************************************************************************)
EXTENDS Naturals, FiniteSets

CONSTANTS
  Rotations,  \* requests to rotate a CA
  Issues,     \* requests to sign a certificate, each with the row it may insert
  Keys,       \* ssh_keys rows
  MaxFaults,  \* bound: crashes and rotations cut short
  Null

CaKinds == {"user", "host"}

\* Two CAs to begin with, and one more for each rotation: inserted by it or, when it was cut
\* short, by the next start.
CaIds == 1..(2 + Cardinality(Rotations))

ASSUME RotationsAssumption == IsFiniteSet(Rotations)

ASSUME FaultsAssumption == MaxFaults \in Nat

VARIABLES
  ssh_cas,           \* the table of CAs
  ssh_certificates,  \* the table of certificates
  ssh_keys,          \* the table of keys
  boot,              \* the kind that ensure_ssh_cas looks at next, or "up"
  rotation,          \* the rotations: where they are and the CA they were given
  issue,             \* the signatures: where they are and what they have read
  faults,            \* faults so far
  crossed,           \* history: kinds with a CA inserted amid another rotation
  interrupted,       \* history: kinds whose rotation was cut short since their last CA
  latest,            \* history: the CA inserted last, for each kind
  before             \* history: the CAs (unless one was named) and keys that a signature came
                     \* too late for

tables == <<ssh_cas, ssh_certificates, ssh_keys>>
history == <<crossed, interrupted, latest, before>>
vars == <<tables, boot, rotation, issue, faults, history>>

----------------------------------------------------------------------------
(* Rows and records *)

\* Dates have a resolution of one second; their order among CAs of one kind is what is kept.
SshCa == [ca_type: CaKinds, is_active: BOOLEAN, created_at: Nat]

SshCertificate == [ca_id: CaIds, cert_type: CaKinds, ssh_key_id: Keys \cup {Null},
                   is_revoked: BOOLEAN]

ASSUME NullAssumption == Null \notin SshCa \cup SshCertificate \cup CaIds \cup Keys

Rotation == [pc: {"unused", "deactivate", "insert", "done"}, ca: CaIds \cup {Null}]

Issue == [pc: {"unused", "resolve", "subject", "insert", "done"}, cert_type: CaKinds,
          ca_id: CaIds \cup {Null},      \* the CA asked for, if any
          ssh_key_id: Keys \cup {Null},  \* the key to certify, unless it is new or supplied
          ca: CaIds \cup {Null}]         \* the CA that was read

NoRotation(pc) == [pc |-> pc, ca |-> Null]

NoIssue(pc) == [pc |-> pc, cert_type |-> "user", ca_id |-> Null, ssh_key_id |-> Null, ca |-> Null]

OfKind(k) == {c \in CaIds : ssh_cas[c] # Null /\ ssh_cas[c].ca_type = k}

ActiveCas(k) == {c \in OfKind(k) : ssh_cas[c].is_active}

Retired == {c \in CaIds : ssh_cas[c] # Null /\ ~ ssh_cas[c].is_active}

\* ORDER BY created_at DESC LIMIT 1: among those of the same second, any.
Newest(cas) == {c \in cas : \A d \in cas : ssh_cas[d].created_at <= ssh_cas[c].created_at}

\* An identifier that was never used; they are taken in order for the sake of the model.
FreshCa(c) == ssh_cas[c] = Null /\ \A d \in 1..(c - 1) : ssh_cas[d] # Null

\* The present second: that of the CA of its kind created last, or a later one.
Times(k) ==
  IF OfKind(k) = {} THEN {0}
  ELSE UNION {{ssh_cas[c].created_at, ssh_cas[c].created_at + 1} : c \in Newest(OfKind(k))}

Kind(r) == ssh_cas[rotation[r].ca].ca_type

\* The rotations of a kind that have deactivated its CAs and not inserted one yet.
Rotating(k) == {r \in Rotations : rotation[r].pc = "insert" /\ Kind(r) = k}

Fault == faults < MaxFaults /\ faults' = faults + 1

----------------------------------------------------------------------------
(* Start, and rotation *)

InsertCa(k, c) ==
  /\ FreshCa(c)
  /\ \E t \in Times(k) :
       ssh_cas' = [ssh_cas EXCEPT ![c] = [ca_type |-> k, is_active |-> TRUE, created_at |-> t]]
  /\ interrupted' = interrupted \ {k}
  /\ latest' = [latest EXCEPT ![k] = c]

\* Mutant of EnsureSshCas: any CA of the kind will do.
EnsureAnyCa(k) ==
  /\ boot = k
  /\ boot' = IF k = "user" THEN "host" ELSE "up"
  /\ \/ OfKind(k) # {} /\ UNCHANGED <<ssh_cas, crossed, interrupted, latest>>
     \/ OfKind(k) = {} /\ UNCHANGED crossed /\ \E c \in CaIds : InsertCa(k, c)
  /\ UNCHANGED <<ssh_certificates, ssh_keys, rotation, issue, faults, before>>

\* ensure_ssh_cas, before the first request is served.
EnsureSshCas(k) ==
  /\ boot = k
  /\ boot' = IF k = "user" THEN "host" ELSE "up"
  /\ \/ ActiveCas(k) # {} /\ UNCHANGED <<ssh_cas, crossed, interrupted, latest>>
     \/ ActiveCas(k) = {} /\ UNCHANGED crossed /\ \E c \in CaIds : InsertCa(k, c)
  /\ UNCHANGED <<ssh_certificates, ssh_keys, rotation, issue, faults, before>>

\* rotate_ssh_ca: the kind is that of the CA in the path, active or not ...
RotateSelect(r, c) ==
  /\ boot = "up"
  /\ rotation[r].pc = "unused"
  /\ ssh_cas[c] # Null
  /\ rotation' = [rotation EXCEPT ![r] = [pc |-> "deactivate", ca |-> c]]
  /\ UNCHANGED <<tables, boot, issue, faults, history>>

\* Mutant of RotateDeactivate: only the CA in the path.
RotateDeactivateOne(r) ==
  /\ rotation[r].pc = "deactivate"
  /\ ssh_cas' = [ssh_cas EXCEPT ![rotation[r].ca].is_active = FALSE]
  /\ rotation' = [rotation EXCEPT ![r].pc = "insert"]
  /\ crossed' = crossed \ {Kind(r)}
  /\ UNCHANGED <<ssh_certificates, ssh_keys, boot, issue, faults, interrupted, latest, before>>

\* ... all of its kind are deactivated ...
RotateDeactivate(r) ==
  /\ rotation[r].pc = "deactivate"
  /\ ssh_cas' = [c \in CaIds |->
       IF c \in OfKind(Kind(r)) THEN [ssh_cas[c] EXCEPT !.is_active = FALSE] ELSE ssh_cas[c]]
  /\ rotation' = [rotation EXCEPT ![r].pc = "insert"]
  /\ crossed' = crossed \ {Kind(r)}
  /\ UNCHANGED <<ssh_certificates, ssh_keys, boot, issue, faults, interrupted, latest, before>>

\* Mutant of RotateInsert: the CA is created and left to be activated.
RotateInsertInactive(r) ==
  /\ rotation[r].pc = "insert"
  /\ \E c \in CaIds :
       /\ FreshCa(c)
       /\ \E t \in Times(Kind(r)) : ssh_cas' = [ssh_cas EXCEPT ![c] =
            [ca_type |-> Kind(r), is_active |-> FALSE, created_at |-> t]]
       /\ latest' = [latest EXCEPT ![Kind(r)] = c]
  /\ interrupted' = interrupted \ {Kind(r)}
  /\ rotation' = [rotation EXCEPT ![r] = NoRotation("done")]
  /\ crossed' = IF Rotating(Kind(r)) = {r} THEN crossed ELSE crossed \cup {Kind(r)}
  /\ UNCHANGED <<ssh_certificates, ssh_keys, boot, issue, faults, before>>

\* ... and the new one is inserted.
RotateInsert(r) ==
  /\ rotation[r].pc = "insert"
  /\ \E c \in CaIds : InsertCa(Kind(r), c)
  /\ rotation' = [rotation EXCEPT ![r] = NoRotation("done")]
  /\ crossed' = IF Rotating(Kind(r)) = {r} THEN crossed ELSE crossed \cup {Kind(r)}
  /\ UNCHANGED <<ssh_certificates, ssh_keys, boot, issue, faults, before>>

----------------------------------------------------------------------------
(* Certificates *)

\* issue_ssh_certificate is called, for a given CA or for the active one of its kind, and for a
\* stored key or for another.
IssueBegin(i) ==
  /\ boot = "up"
  /\ issue[i].pc = "unused"
  /\ \E k \in CaKinds, c \in {d \in CaIds : ssh_cas[d] # Null} \cup {Null},
        key \in Keys \cup {Null} :
       /\ issue' = [issue EXCEPT ![i] = [pc |-> "resolve", cert_type |-> k, ca_id |-> c,
                                         ssh_key_id |-> key, ca |-> Null]]
       /\ before' = [before EXCEPT ![i] =
            [cas |-> IF c = Null THEN Retired ELSE {},
             keys |-> {d \in Keys : ssh_keys[d] = "deleted"}]]
  /\ UNCHANGED <<tables, boot, rotation, faults, crossed, interrupted, latest>>

\* Mutant of Signing: the newest CA of the kind, active or not.
SigningNewest(i) ==
  IF issue[i].ca_id # Null THEN {issue[i].ca_id} ELSE Newest(OfKind(issue[i].cert_type))

\* The CAs that may be read: the one asked for, active or not, or the newest active one.
Signing(i) ==
  IF issue[i].ca_id # Null THEN {issue[i].ca_id} ELSE Newest(ActiveCas(issue[i].cert_type))

\* The CA is read; it must be there and be of the kind of the certificate.
IssueResolve(i) ==
  /\ issue[i].pc = "resolve"
  /\ \/ \E c \in Signing(i) \cap OfKind(issue[i].cert_type) :
          issue' = [issue EXCEPT ![i].pc = "subject", ![i].ca = c]
     \/ /\ Signing(i) \cap OfKind(issue[i].cert_type) = {}
        /\ issue' = [issue EXCEPT ![i] = NoIssue("done")]
  /\ UNCHANGED <<tables, boot, rotation, faults, history>>

\* So is the stored key, if it is one, revoked or not; what follows signs in memory.
IssueSubject(i) ==
  /\ issue[i].pc = "subject"
  /\ issue' = [issue EXCEPT ![i] =
       IF issue[i].ssh_key_id # Null /\ ssh_keys[issue[i].ssh_key_id] \notin {"valid", "revoked"}
         THEN NoIssue("done") ELSE [issue[i] EXCEPT !.pc = "insert"]]
  /\ UNCHANGED <<tables, boot, rotation, faults, history>>

IssueInsert(i) ==
  /\ issue[i].pc = "insert"
  /\ ssh_certificates' = [ssh_certificates EXCEPT ![i] =
       [ca_id |-> issue[i].ca, cert_type |-> issue[i].cert_type,
        ssh_key_id |-> issue[i].ssh_key_id, is_revoked |-> FALSE]]
  /\ issue' = [issue EXCEPT ![i] = NoIssue("done")]
  /\ UNCHANGED <<ssh_cas, ssh_keys, boot, rotation, faults, history>>

RevokeSshCertificate(i) ==
  /\ boot = "up"
  /\ ssh_certificates[i] # Null
  /\ ssh_certificates' = [ssh_certificates EXCEPT ![i].is_revoked = TRUE]
  /\ UNCHANGED <<ssh_cas, ssh_keys, boot, rotation, issue, faults, history>>

DeleteSshCertificate(i) ==
  /\ boot = "up"
  /\ ssh_certificates[i] # Null
  /\ ssh_certificates' = [ssh_certificates EXCEPT ![i] = Null]
  /\ UNCHANGED <<ssh_cas, ssh_keys, boot, rotation, issue, faults, history>>

----------------------------------------------------------------------------
(* Keys *)

SetKey(key, status) ==
  /\ boot = "up"
  /\ ssh_keys' = [ssh_keys EXCEPT ![key] = status]
  /\ UNCHANGED <<ssh_cas, ssh_certificates, boot, rotation, issue, faults, history>>

GenerateSshKey(key) == ssh_keys[key] = "unused" /\ SetKey(key, "valid")

RevokeSshKey(key) == ssh_keys[key] = "valid" /\ SetKey(key, "revoked")

DeleteSshCert(key) == ssh_keys[key] \in {"valid", "revoked"} /\ SetKey(key, "deleted")

----------------------------------------------------------------------------
(* Faults *)

\* The new CA is not made or not inserted, or the client leaves before it is.
CutRotation(r) ==
  /\ Fault
  /\ rotation[r].pc = "insert"
  /\ rotation' = [rotation EXCEPT ![r] = NoRotation("done")]
  /\ interrupted' = interrupted \cup {Kind(r)}
  /\ UNCHANGED <<tables, boot, issue, crossed, latest, before>>

\* The process stops and is started again.
Crash ==
  /\ Fault
  /\ boot' = "user"
  /\ rotation' = [r \in Rotations |->
       IF rotation[r].pc = "unused" THEN rotation[r] ELSE NoRotation("done")]
  /\ issue' = [i \in Issues |->
       IF issue[i].pc = "unused" THEN issue[i] ELSE NoIssue("done")]
  /\ UNCHANGED <<tables, history>>

----------------------------------------------------------------------------
(* The specification *)

\* An empty database, before the first start.
Init ==
  /\ ssh_cas = [c \in CaIds |-> Null]
  /\ ssh_certificates = [i \in Issues |-> Null]
  /\ ssh_keys = [key \in Keys |-> "unused"]
  /\ boot = "user"
  /\ rotation = [r \in Rotations |-> NoRotation("unused")]
  /\ issue = [i \in Issues |-> NoIssue("unused")]
  /\ faults = 0
  /\ crossed = {} /\ interrupted = {}
  /\ latest = [k \in CaKinds |-> Null]
  /\ before = [i \in Issues |-> [cas |-> {}, keys |-> {}]]

RotateStep(r) == RotateDeactivate(r) \/ RotateInsert(r)

IssueStep(i) == IssueResolve(i) \/ IssueSubject(i) \/ IssueInsert(i)

Next ==
  \/ \E k \in CaKinds : EnsureSshCas(k)
  \/ \E r \in Rotations : RotateStep(r) \/ CutRotation(r) \/ \E c \in CaIds : RotateSelect(r, c)
  \/ \E i \in Issues :
       IssueBegin(i) \/ IssueStep(i) \/ RevokeSshCertificate(i) \/ DeleteSshCertificate(i)
  \/ \E key \in Keys : GenerateSshKey(key) \/ RevokeSshKey(key) \/ DeleteSshCert(key)
  \/ Crash

Spec == Init /\ [][Next]_vars

\* A start and a request are futures that are polled until they end.
FairSpec ==
  /\ Spec
  /\ WF_vars(\E k \in CaKinds : EnsureSshCas(k))
  /\ \A r \in Rotations : WF_vars(RotateStep(r))

----------------------------------------------------------------------------
(* Properties *)

TypeOK ==
  /\ ssh_cas \in [CaIds -> SshCa \cup {Null}]
  /\ ssh_certificates \in [Issues -> SshCertificate \cup {Null}]
  /\ ssh_keys \in [Keys -> {"unused", "valid", "revoked", "deleted"}]
  /\ boot \in CaKinds \cup {"up"}
  /\ rotation \in [Rotations -> Rotation]
  /\ issue \in [Issues -> Issue]
  /\ faults \in 0..MaxFaults
  /\ crossed \subseteq CaKinds /\ interrupted \subseteq CaKinds
  /\ latest \in [CaKinds -> CaIds \cup {Null}]
  /\ before \in [Issues -> [cas: SUBSET CaIds, keys: SUBSET Keys]]

\* The only CA of a kind that may be active is the one created last, whichever CA a rotation
\* was given and however many failed or were lost with the process, unless one was inserted
\* between the two statements of another rotation (rotate_ssh_ca, ensure_ssh_cas).
OneActive == \A k \in CaKinds : k \notin crossed => ActiveCas(k) \subseteq {latest[k]}

\* While requests are served a kind is without an active CA only as long as a rotation of it
\* is between its two statements, or after one was cut short there and nothing was rotated or
\* restarted since: a start always repairs it (ensure_ssh_cas).
SomeActive ==
  boot = "up" =>
    \A k \in CaKinds : ActiveCas(k) = {} => Rotating(k) # {} \/ k \in interrupted

\* A certificate is signed by a CA of its own kind and, unless the request named it, one that
\* had not been rotated away when the request began, whatever was rotated while it was served;
\* a key that had been deleted by then is not certified (issue_ssh_certificate).
IssuedFromLive ==
  \A i \in Issues :
    LET cert == ssh_certificates[i]
    IN cert # Null =>
         /\ cert.ca_id \in OfKind(cert.cert_type)
         /\ cert.ca_id \notin before[i].cas
         /\ cert.ssh_key_id \notin before[i].keys

\* A kind that has lost its active CA gets one, unless its rotation is cut short while the
\* process goes on.
Replaced == \A k \in CaKinds : ActiveCas(k) = {} ~> (ActiveCas(k) # {} \/ k \in interrupted)

----------------------------------------------------------------------------
(* The inductive invariant *)

\* A rotation under way has a CA that is there, and the process is serving.
RotationsStand ==
  \A r \in Rotations :
    rotation[r].pc \in {"deactivate", "insert"} =>
      /\ boot = "up"
      /\ rotation[r].ca \in CaIds
      /\ ssh_cas[rotation[r].ca] # Null

\* Between its statements nothing of its kind is active, unless another rotation came between.
NoneBetween == \A k \in CaKinds \ crossed : Rotating(k) # {} => ActiveCas(k) = {}

\* A start has seen to users before it turns to hosts.
UsersFirst == boot = "host" => ActiveCas("user") # {}

\* What a signature came too late for stays out of its reach: neither retired CAs nor deleted
\* keys come back.
TooLate ==
  \A i \in Issues :
    /\ before[i].cas \subseteq Retired
    /\ \A key \in before[i].keys : ssh_keys[key] = "deleted"

\* What a signature under way has read.
IssueReads(i) ==
  LET r == issue[i]
  IN /\ r.pc = "unused" => ssh_certificates[i] = Null
     /\ r.pc = "resolve" /\ r.ca_id # Null => before[i].cas = {}
     /\ r.pc \in {"subject", "insert"} => r.ca \in OfKind(r.cert_type) \ before[i].cas
     /\ r.pc = "insert" => r.ssh_key_id \notin before[i].keys

IInv ==
  /\ TypeOK
  /\ RotationsStand
  /\ NoneBetween
  /\ OneActive
  /\ UsersFirst
  /\ SomeActive
  /\ TooLate
  /\ \A i \in Issues : IssueReads(i)
  /\ IssuedFromLive

=============================================================================
