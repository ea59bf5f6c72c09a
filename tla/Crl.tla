-------------------------------- MODULE Crl --------------------------------
(***************************************************************************)
(* Certificate authorities, revocation and the publication of revocation   *)
(* lists: root_ca, tls_keys and crl_entries, the requests that change them *)
(* and the copies pushed to the remote distribution point.                 *)
(*                                                                         *)
(* A root's identifier is MAX(id) + 1, so the identifier of a deleted root *)
(* can be given out again; the history variable era tells the two apart.   *)
(* A certificate that was deleted can be imported again, with a new row.   *)
(***************************************************************************)
EXTENDS Integers

CONSTANTS
  Certs,       \* certificates, by their serial numbers: a row of tls_keys each, at most
  RootIds,     \* identifiers root_ca may give out
  Requests,    \* requests running at the same time
  MaxEdits,    \* bound: requests received
  MaxFaults,   \* bound: crashes, failing statements and failing uploads
  Null

\* Roots are numbered from 1.
ASSUME RootsAssumption == RootIds \subseteq Nat \ {0} /\ 1 \in RootIds

ASSUME BoundsAssumption == MaxEdits \in Nat /\ MaxFaults \in Nat

ASSUME NamesAssumption == Null \notin Certs \cup RootIds

VARIABLES
  root_ca,      \* the identifiers of the roots that exist
  tls_keys,     \* the certificates
  rowId,        \* the id of a certificate's row, or of its last one: each import gives a new one
  crl_entries,  \* the revocation entries
  remote,       \* the list last uploaded for each root
  requests,     \* the requests in progress
  edits,        \* requests received so far
  faults,       \* faults so far
  issued,       \* history: certificates signed or imported so far
  era,          \* history: how many roots had this identifier
  cut,          \* history: certificates marked revoked by a request that then failed
  late,         \* history: certificates a request held when their root was deleted
  missed,       \* history: roots whose publication was cut or failed since the last good one
  overtaken,    \* history: roots whose list was replaced by an older one since then
  returned      \* history: certificates imported while a list or a revocation named them

tables == <<root_ca, tls_keys, rowId, crl_entries>>
history == <<issued, era, cut, late, missed, overtaken, returned>>
vars == <<tables, remote, requests, edits, faults, history>>

----------------------------------------------------------------------------
(* Rows and records *)

TlsKey == [root_ca_id: RootIds, era: Nat, is_revoked: BOOLEAN]

ASSUME NullAssumption == Null \notin TlsKey

CrlEntry == [serial: Certs, root_ca_id: RootIds, era: Nat]

Request == [pc: {"idle", "create", "sign", "update", "insert", "roots", "generate", "push"},
            cert: Certs \cup {Null}, id: Nat, root: RootIds \cup {Null}, era: Nat,
            todo: SUBSET RootIds, crl: SUBSET Certs]

Idle == [pc |-> "idle", cert |-> Null, id |-> 0, root |-> Null, era |-> 0, todo |-> {},
         crl |-> {}]

Live(c) == tls_keys[c] # Null

\* What generate_crl_der lists for a root, and GET /crl/<root_id>.crl serves.
Listed(r) == {e.serial : e \in {x \in crl_entries : x.root_ca_id = r}}

\* i is the identifier publish_crls handles first.
Lowest(i, ids) == i \in ids /\ \A j \in ids : i <= j

\* i is COALESCE(MAX(id), 0) + 1.
NextRootId(i) ==
  /\ i = 1 \/ i - 1 \in root_ca
  /\ \A j \in root_ca : j < i

FreshId == CHOOSE c \in Certs : c \notin issued

Edit == edits < MaxEdits /\ edits' = edits + 1

Fault == faults < MaxFaults /\ faults' = faults + 1

Finish(q) == requests' = [requests EXCEPT ![q] = Idle]

----------------------------------------------------------------------------
(* Authorities and certificates *)

\* create_root_ca reads MAX(id) and generates a key pair ...
CreateRootRead(q) ==
  /\ Edit
  /\ requests[q].pc = "idle"
  /\ \E r \in RootIds :
       /\ NextRootId(r)
       /\ requests' = [requests EXCEPT ![q] = [Idle EXCEPT !.pc = "create", !.root = r]]
  /\ UNCHANGED <<tables, remote, faults, history>>

\* ... then inserts the root, or breaks the primary key and changes nothing when another
\* request has inserted one with the same identifier.
CreateRootInsert(q) ==
  LET r == requests[q].root
  IN /\ requests[q].pc = "create"
     /\ root_ca' = root_ca \cup {r}
     /\ era' = IF r \in root_ca THEN era ELSE [era EXCEPT ![r] = @ + 1]
     /\ Finish(q)
     /\ UNCHANGED <<tls_keys, rowId, crl_entries, remote, edits, faults, issued, cut, late,
                    missed, overtaken, returned>>

\* The certificates of root r that requests in progress hold in their hands.
HeldBy(r) == {requests[q].cert : q \in {p \in Requests : requests[p].root = r
                                          /\ requests[p].pc \in {"sign", "update", "insert"}}}

\* Mutant of DeleteRoot: the entries stay.
DeleteRootKeepsEntries(r) ==
  /\ Edit
  /\ r \in root_ca
  /\ tls_keys' = [c \in Certs |->
       IF Live(c) /\ tls_keys[c].root_ca_id = r THEN Null ELSE tls_keys[c]]
  /\ root_ca' = root_ca \ {r}
  /\ late' = late \cup HeldBy(r)
  /\ UNCHANGED <<crl_entries, rowId, remote, requests, faults, issued, era, cut, missed,
                 overtaken, returned>>

\* One transaction: the entries, the certificates and the root.
DeleteRoot(r) ==
  /\ Edit
  /\ r \in root_ca
  /\ crl_entries' = {e \in crl_entries : e.root_ca_id # r}
  /\ tls_keys' = [c \in Certs |->
       IF Live(c) /\ tls_keys[c].root_ca_id = r THEN Null ELSE tls_keys[c]]
  /\ root_ca' = root_ca \ {r}
  /\ late' = late \cup HeldBy(r)
  /\ UNCHANGED <<rowId, remote, requests, faults, issued, era, cut, missed, overtaken, returned>>

\* generate_tls_key loads the key of the root and signs ...
IssueSign(q, r) ==
  /\ Edit
  /\ requests[q].pc = "idle"
  /\ r \in root_ca
  /\ ~(Certs \subseteq issued)
  /\ issued' = issued \cup {FreshId}
  /\ requests' = [requests EXCEPT ![q] =
       [Idle EXCEPT !.pc = "sign", !.cert = FreshId, !.root = r, !.era = era[r]]]
  /\ UNCHANGED <<tables, remote, faults, era, cut, late, missed, overtaken, returned>>

\* ... and inserts the row afterwards, whether the root still exists or not.
IssueInsert(q) ==
  /\ requests[q].pc = "sign"
  /\ tls_keys' = [tls_keys EXCEPT ![requests[q].cert] =
       [root_ca_id |-> requests[q].root, era |-> requests[q].era, is_revoked |-> FALSE]]
  /\ Finish(q)
  /\ UNCHANGED <<root_ca, rowId, crl_entries, remote, edits, faults, history>>

\* Mutant of DeleteTlsCert: the foreign key of the schema before migration 026, with a
\* cascade.
DeleteTlsCertCascade(c) ==
  /\ Edit
  /\ Live(c)
  /\ tls_keys' = [tls_keys EXCEPT ![c] = Null]
  /\ crl_entries' = {e \in crl_entries : e.serial # c}
  /\ UNCHANGED <<root_ca, rowId, remote, requests, faults, history>>

\* The revocation entry stays: the serial number is revoked until it expires.
DeleteTlsCert(c) ==
  /\ Edit
  /\ Live(c)
  /\ tls_keys' = [tls_keys EXCEPT ![c] = Null]
  /\ UNCHANGED <<root_ca, rowId, crl_entries, remote, requests, faults, history>>

\* q has signed c and not yet inserted it.
Signing(q, c) == requests[q].pc = "sign" /\ requests[q].cert = c

Holds(q, c) == requests[q].pc \in {"sign", "update", "insert"} /\ requests[q].cert = c

Mentioned(c) == (\E r \in RootIds : c \in Listed(r) \cup remote[r])
                \/ \E q \in Requests : c \in requests[q].crl

\* What the operator has in a file becomes a valid row of root r, whoever signed it, whether
\* r exists and whatever lists say of it: only the serial number must not be in the table.
\* A certificate generate_tls_key has yet to insert is in nobody's file.
ImportTlsCertificate(c, r) ==
  /\ Edit
  /\ ~Live(c)
  /\ \A q \in Requests : ~Signing(q, c)
  /\ tls_keys' = [tls_keys EXCEPT ![c] =
       [root_ca_id |-> r, era |-> era[r], is_revoked |-> FALSE]]
  /\ rowId' = [rowId EXCEPT ![c] = @ + 1]
  /\ issued' = issued \cup {c}
  /\ cut' = cut \ {c}
  /\ returned' = IF Mentioned(c) \/ \E q \in Requests : Holds(q, c)
                 THEN returned \cup {c} ELSE returned
  /\ UNCHANGED <<root_ca, crl_entries, remote, requests, faults, era, late, missed, overtaken>>

----------------------------------------------------------------------------
(* Revocation *)

RevokeRead(q, c) ==
  /\ Edit
  /\ requests[q].pc = "idle"
  /\ Live(c)
  /\ requests' = [requests EXCEPT ![q] =
       [Idle EXCEPT !.pc = "update", !.cert = c, !.id = rowId[c],
                    !.root = tls_keys[c].root_ca_id, !.era = tls_keys[c].era]]
  /\ UNCHANGED <<tables, remote, faults, history>>

\* Mutant of RevokeUpdate: the date and the reason are written, the flag is not.
RevokeUpdateNoFlag(q) ==
  /\ requests[q].pc = "update"
  /\ requests' = [requests EXCEPT ![q].pc = "insert"]
  /\ UNCHANGED <<tables, remote, edits, faults, history>>

\* WHERE id = ?: the row that was read, if it is still there.
RevokeUpdate(q) ==
  LET c == requests[q].cert
  IN /\ requests[q].pc = "update"
     /\ tls_keys' = [tls_keys EXCEPT ![c] =
          IF Live(c) /\ requests[q].id = rowId[c] THEN [@ EXCEPT !.is_revoked = TRUE] ELSE @]
     /\ requests' = [requests EXCEPT ![q].pc = "insert"]
     /\ UNCHANGED <<root_ca, rowId, crl_entries, remote, edits, faults, history>>

\* Mutant of RevokeInsert: INSERT ... SELECT from root_ca, nothing when the root is gone.
RevokeInsertIfRoot(q) ==
  /\ requests[q].pc = "insert"
  /\ crl_entries' = crl_entries \cup
       {[serial |-> requests[q].cert, root_ca_id |-> r, era |-> requests[q].era] :
          r \in root_ca \cap {requests[q].root}}
  /\ requests' = [requests EXCEPT ![q].pc = "roots"]
  /\ UNCHANGED <<root_ca, tls_keys, rowId, remote, edits, faults, history>>

\* Mutant of RevokeInsert: the list is not published after a revocation.
RevokeInsertQuietly(q) ==
  /\ requests[q].pc = "insert"
  /\ crl_entries' = crl_entries \cup
       {[serial |-> requests[q].cert, root_ca_id |-> requests[q].root, era |-> requests[q].era]}
  /\ Finish(q)
  /\ UNCHANGED <<root_ca, tls_keys, rowId, remote, edits, faults, history>>

\* The entry copies the root from the SELECT.  Publication follows.
RevokeInsert(q) ==
  /\ requests[q].pc = "insert"
  /\ crl_entries' = crl_entries \cup
       {[serial |-> requests[q].cert, root_ca_id |-> requests[q].root, era |-> requests[q].era]}
  /\ requests' = [requests EXCEPT ![q].pc = "roots"]
  /\ UNCHANGED <<root_ca, tls_keys, rowId, remote, edits, faults, history>>

----------------------------------------------------------------------------
(* Publication: publish_crls *)

PublishNow(q) ==
  /\ Edit
  /\ requests[q].pc = "idle"
  /\ requests' = [requests EXCEPT ![q] = [Idle EXCEPT !.pc = "roots"]]
  /\ UNCHANGED <<tables, remote, faults, history>>

PublishRoots(q) ==
  /\ requests[q].pc = "roots"
  /\ requests' = [requests EXCEPT ![q] = [Idle EXCEPT !.pc = "generate", !.todo = root_ca]]
  /\ UNCHANGED <<tables, remote, edits, faults, history>>

\* generate_crl_der for the next root, in the order of the identifiers.
PublishGenerate(q) ==
  /\ requests[q].pc = "generate"
  /\ \E r \in root_ca :
       /\ Lowest(r, requests[q].todo)
       /\ requests' = [requests EXCEPT ![q] =
            [requests[q] EXCEPT !.pc = "push", !.root = r, !.todo = requests[q].todo \ {r},
                                !.crl = Listed(r)]]
  /\ UNCHANGED <<tables, remote, edits, faults, history>>

\* The next root has been deleted meanwhile: the error ends the whole publication, the
\* roots still to be published included.
PublishAbort(q) ==
  /\ requests[q].pc = "generate"
  /\ \E r \in RootIds \ root_ca : Lowest(r, requests[q].todo)
  /\ missed' = missed \cup requests[q].todo
  /\ Finish(q)
  /\ UNCHANGED <<tables, remote, edits, faults, issued, era, cut, late, overtaken, returned>>

\* The upload replaces the file, whatever it holds.
PublishPush(q) ==
  LET r == requests[q].root
      crl == requests[q].crl
      current == crl = Listed(r)
  IN /\ requests[q].pc = "push"
     /\ remote' = [remote EXCEPT ![r] = crl]
     /\ missed' = IF current THEN missed \ {r} ELSE missed
     /\ overtaken' = IF current THEN overtaken \ {r}
                     ELSE IF remote[r] \subseteq crl THEN overtaken ELSE overtaken \cup {r}
     /\ requests' = [requests EXCEPT ![q] =
          [@ EXCEPT !.pc = "generate", !.root = Null, !.crl = {}]]
     /\ UNCHANGED <<tables, edits, faults, issued, era, cut, late, returned>>

PublishDone(q) ==
  /\ requests[q].pc = "generate"
  /\ requests[q].todo = {}
  /\ Finish(q)
  /\ UNCHANGED <<tables, remote, edits, faults, history>>

----------------------------------------------------------------------------
(* Faults *)

\* What is left undone when q stops where it is: the row it has marked may be there still.
Cut(q) == {c \in {requests[q].cert} : requests[q].pc = "insert" /\ requests[q].id = rowId[c]}

Missed(q) ==
  CASE requests[q].pc = "roots" -> root_ca
    [] requests[q].pc = "generate" -> requests[q].todo
    [] requests[q].pc = "push" -> requests[q].todo \cup {requests[q].root}
    [] OTHER -> {}

\* Files being written are truncated first: what stops the upload may leave some of them
\* unreadable, which lists nothing.
Spoil(writers) ==
  \E spoilt \in SUBSET {requests[q].root : q \in {p \in writers : requests[p].pc = "push"}} :
    remote' = [r \in RootIds |-> IF r \in spoilt THEN {} ELSE remote[r]]

\* A statement or an upload fails: the request answers with an error, or, in the
\* publication that follows a revocation, with a warning in the log.  Nothing retries.
Fail(q) ==
  /\ Fault
  /\ requests[q].pc # "idle"
  /\ cut' = cut \cup Cut(q)
  /\ missed' = missed \cup Missed(q)
  /\ Spoil({q})
  /\ Finish(q)
  /\ UNCHANGED <<tables, edits, issued, era, late, overtaken, returned>>

Crash ==
  /\ Fault
  /\ \E q \in Requests : requests[q].pc # "idle"
  /\ cut' = cut \cup UNION {Cut(q) : q \in Requests}
  /\ missed' = missed \cup UNION {Missed(q) : q \in Requests}
  /\ Spoil(Requests)
  /\ requests' = [q \in Requests |-> Idle]
  /\ UNCHANGED <<tables, edits, issued, era, late, overtaken, returned>>

----------------------------------------------------------------------------
(* The specification *)

\* One root, some of its certificates, none revoked, and empty lists published.
Init ==
  /\ root_ca = {1}
  /\ \E seeds \in SUBSET Certs :
       /\ issued = seeds
       /\ tls_keys = [c \in Certs |->
            IF c \in seeds THEN [root_ca_id |-> 1, era |-> 1, is_revoked |-> FALSE] ELSE Null]
  /\ rowId = [c \in Certs |-> 0]
  /\ crl_entries = {}
  /\ remote = [r \in RootIds |-> {}]
  /\ requests = [q \in Requests |-> Idle]
  /\ edits = 0 /\ faults = 0
  /\ era = [r \in RootIds |-> IF r = 1 THEN 1 ELSE 0]
  /\ cut = {} /\ late = {} /\ missed = {} /\ overtaken = {} /\ returned = {}

RequestStep(q) ==
  \/ CreateRootRead(q) \/ CreateRootInsert(q)
  \/ \E r \in RootIds : IssueSign(q, r)
  \/ IssueInsert(q)
  \/ \E c \in Certs : RevokeRead(q, c)
  \/ RevokeUpdate(q) \/ RevokeInsert(q)
  \/ PublishNow(q) \/ PublishRoots(q) \/ PublishGenerate(q) \/ PublishAbort(q)
  \/ PublishPush(q) \/ PublishDone(q)
  \/ Fail(q)

Next ==
  \/ \E r \in RootIds : DeleteRoot(r)
  \/ \E c \in Certs : DeleteTlsCert(c) \/ \E r \in RootIds : ImportTlsCertificate(c, r)
  \/ \E q \in Requests : RequestStep(q)
  \/ Crash

Spec == Init /\ [][Next]_vars

----------------------------------------------------------------------------
(* Properties *)

TypeOK ==
  /\ root_ca \subseteq RootIds
  /\ tls_keys \in [Certs -> TlsKey \cup {Null}]
  /\ rowId \in [Certs -> Nat]
  /\ crl_entries \subseteq CrlEntry
  /\ remote \in [RootIds -> SUBSET Certs]
  /\ requests \in [Requests -> Request]
  /\ edits \in Nat /\ faults \in Nat
  /\ issued \subseteq Certs
  /\ era \in [RootIds -> Nat]
  /\ cut \subseteq Certs /\ late \subseteq Certs
  /\ missed \subseteq RootIds /\ overtaken \subseteq RootIds
  /\ returned \subseteq Certs

\* Every certificate marked revoked is on the list its authority serves, or about to be,
\* or the request that marked it failed between the two statements: no concurrent
\* deletion or second revocation loses the entry.
RevokedIsListed ==
  \A c \in Certs :
    Live(c) /\ tls_keys[c].is_revoked =>
      \/ c \in Listed(tls_keys[c].root_ca_id)
      \/ \E q \in Requests :
           requests[q].pc = "insert" /\ requests[q].cert = c /\ requests[q].id = rowId[c]
      \/ c \in cut

\* No valid certificate is on a list, neither the one served nor an uploaded one, since the
\* row is marked first and nothing takes the mark back.  The one exception: a certificate
\* deleted while a list or a revocation in progress named it, and imported again, has a row
\* that says it is valid (import_tls_certificate does not look at crl_entries).
ListedIsRevoked ==
  \A c \in Certs, r \in RootIds :
    Live(c) /\ (c \in Listed(r) \/ c \in remote[r]) => tls_keys[c].is_revoked \/ c \in returned

\* Brought in by import_tls_certificate, now or before.
Imported == {c \in Certs : rowId[c] > 0}

\* Certificates and entries belong to the root that signed them, and not to another that
\* was given its identifier, or to none.  The only exceptions are certificates a request
\* held between two statements when their root was deleted, and imported ones, which
\* belong to the root the request names, or else to root 1, and nobody asks who signed.
Stray(root, signed) == root \notin root_ca \/ era[root] # signed

StrayOnlyInFlight ==
  /\ \A c \in Certs :
       Live(c) /\ Stray(tls_keys[c].root_ca_id, tls_keys[c].era) => c \in late \cup Imported
  /\ \A e \in crl_entries : Stray(e.root_ca_id, e.era) => e.serial \in late \cup Imported

\* What the remote copy of a root's list lacks is on its way, or was lost in one of three
\* ways: a failure, a publication that stopped at a deleted root, or an upload overtaken
\* by another that had read the entries earlier.
OnItsWay(c, r) ==
  \E q \in Requests :
    \/ requests[q].pc = "roots"
    \/ requests[q].pc \in {"generate", "push"} /\ r \in requests[q].todo
    \/ requests[q].pc = "push" /\ requests[q].root = r /\ c \in requests[q].crl

RemoteLacksOnly ==
  \A e \in crl_entries :
    ~Stray(e.root_ca_id, e.era) =>
      \/ e.serial \in remote[e.root_ca_id]
      \/ OnItsWay(e.serial, e.root_ca_id)
      \/ e.root_ca_id \in missed \cup overtaken

\* migration 026 and delete_tls_cert: a revocation, once served, is served as long as its
\* authority exists; deleting the certificate does not withdraw it.
ServedStaysServed ==
  [][\A r \in RootIds :
       r \in root_ca /\ r \in root_ca' /\ era'[r] = era[r] => Listed(r) \subseteq Listed(r)']_vars

----------------------------------------------------------------------------
(* The inductive invariant: what the requests hold in their hands. *)

RequestsInv ==
  \A q \in Requests :
    /\ requests[q].pc \in {"sign", "update", "insert"} =>
         requests[q].cert \in issued /\ requests[q].root \in RootIds
    /\ requests[q].pc \in {"create", "push"} => requests[q].root \in RootIds

\* A certificate being signed is nowhere else yet.
SignInv ==
  \A q \in Requests : requests[q].pc = "sign" =>
    /\ ~Live(requests[q].cert)
    /\ ~Mentioned(requests[q].cert)
    /\ \A p \in Requests : Holds(p, requests[q].cert) => p = q

\* Only identifiers given out are in use.
IdsInv == \A c \in Certs : Live(c) \/ Mentioned(c) => c \in issued

\* A row with another id than the one a revocation has read came in by an import since.
RowIdInv ==
  /\ returned \subseteq Imported
  /\ \A q \in Requests : requests[q].pc \in {"update", "insert"} =>
       \/ requests[q].id = rowId[requests[q].cert]
       \/ requests[q].id < rowId[requests[q].cert] /\ requests[q].cert \in returned

\* What a revocation has read still says what the row says, if it is the row that was read.
Current(q) == Live(requests[q].cert) /\ requests[q].id = rowId[requests[q].cert]

RevokeInv ==
  \A q \in Requests : requests[q].pc \in {"update", "insert"} /\ Current(q) =>
    /\ tls_keys[requests[q].cert].root_ca_id = requests[q].root
    /\ tls_keys[requests[q].cert].era = requests[q].era
    /\ requests[q].pc = "insert" => tls_keys[requests[q].cert].is_revoked

\* No list, not even one about to be uploaded, names a valid certificate, except one that
\* was imported again meanwhile.
MentionedInv ==
  \A c \in Certs : Live(c) /\ Mentioned(c) => tls_keys[c].is_revoked \/ c \in returned

\* What belongs to a root was signed by it or by an earlier root of the same identifier,
\* and requests whose root is gone are remembered as late.
EraInv ==
  /\ \A c \in Certs : Live(c) => tls_keys[c].era <= era[tls_keys[c].root_ca_id]
  /\ \A e \in crl_entries : e.era <= era[e.root_ca_id]
  /\ \A q \in Requests : requests[q].pc \in {"sign", "update", "insert"} =>
       /\ requests[q].era <= era[requests[q].root]
       /\ Stray(requests[q].root, requests[q].era) => requests[q].cert \in late \cup Imported

IInv ==
  /\ TypeOK
  /\ RequestsInv /\ SignInv /\ IdsInv /\ RowIdInv /\ RevokeInv /\ MentionedInv /\ EraInv
  /\ RevokedIsListed /\ StrayOnlyInFlight /\ RemoteLacksOnly

\* A list, served, uploaded or about to be, names no certificate of another authority.
OwnInv ==
  /\ \A r \in RootIds : \A c \in Listed(r) \cup remote[r] :
       Live(c) => tls_keys[c].root_ca_id = r \/ c \in returned
  /\ \A q \in Requests : requests[q].pc = "push" =>
       \A c \in requests[q].crl :
         Live(c) => tls_keys[c].root_ca_id = requests[q].root \/ c \in returned

----------------------------------------------------------------------------
(* Revocation as those who check certificates see it *)

Status ==
  [c \in Certs |->
     IF Live(c) THEN IF tls_keys[c].is_revoked THEN "revoked" ELSE "valid"
     ELSE IF c \notin issued \/ \E q \in Requests : Signing(q, c) THEN "unissued"
     ELSE "gone"]

Signer == [c \in Certs |-> IF Live(c) THEN tls_keys[c].root_ca_id ELSE Null]

Served == [r \in RootIds |-> Listed(r)]

Register == INSTANCE Revocation WITH
  Roots <- RootIds, None <- Null, status <- Status, signer <- Signer,
  standing <- root_ca, served <- Served, copy <- remote, imported <- Imported

\* revoke_tls, delete_tls_cert, delete_root, generate_tls_key, import_tls_certificate and
\* publish_crls, beside each other and cut anywhere, show those who check certificates
\* nothing but what Revocation promises: nothing is listed while it is valid, becomes valid
\* again or is listed by another authority than its own, unless it was imported, and lists
\* shrink only with their authority.
RevocationIsFinal == Register!Spec

=============================================================================
