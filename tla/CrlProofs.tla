----------------------------- MODULE CrlProofs -----------------------------
(***************************************************************************)
(* The safety properties of Crl, proved for every set of certificates,     *)
(* root identifiers and requests and every value of the bounds.            *)
(***************************************************************************)
EXTENDS Crl, TLAPS

\* A row is deleted or imported.
RowEdit ==
  \E c \in Certs : DeleteTlsCert(c) \/ \E r \in RootIds : ImportTlsCertificate(c, r)

USE DEF tables, history, Edit, Fault, Finish, RowEdit

----------------------------------------------------------------------------
(* Type correctness *)

\* The steps of a request, as updates of its record.
LEMMA RequestTypes ==
  ASSUME NEW req \in Request
  PROVE  /\ Idle \in Request
         /\ [req EXCEPT !.pc = "insert"] \in Request
         /\ [req EXCEPT !.pc = "roots"] \in Request
         /\ \A ids \in SUBSET RootIds :
              [Idle EXCEPT !.pc = "generate", !.todo = ids] \in Request
         /\ [req EXCEPT !.pc = "generate", !.root = Null, !.crl = {}] \in Request
BY DEF Request, Idle

LEMMA RowTypes ==
  /\ \A row \in TlsKey : [row EXCEPT !.is_revoked = TRUE] \in TlsKey
  /\ \A r \in RootIds, n \in Nat :
       [root_ca_id |-> r, era |-> n, is_revoked |-> FALSE] \in TlsKey
BY DEF TlsKey

LEMMA ListedType == ASSUME TypeOK, NEW r PROVE Listed(r) \subseteq Certs
BY DEF TypeOK, Listed, CrlEntry

LEMMA FreshIdType ==
  ASSUME ~(Certs \subseteq issued)
  PROVE  FreshId \in Certs /\ FreshId \notin issued
BY DEF FreshId

LEMMA InitType == Init => TypeOK
<1> SUFFICES ASSUME Init PROVE TypeOK
  OBVIOUS
<1>1. PICK seeds \in SUBSET Certs :
        /\ issued = seeds
        /\ tls_keys = [c \in Certs |->
             IF c \in seeds THEN [root_ca_id |-> 1, era |-> 1, is_revoked |-> FALSE] ELSE Null]
  BY DEF Init
<1>3. [root_ca_id |-> 1, era |-> 1, is_revoked |-> FALSE] \in TlsKey
  BY RootsAssumption DEF TlsKey
<1>2. requests \in [Requests -> Request]
  BY DEF Init, Request, Idle
<1> QED
  BY <1>1, <1>2, <1>3, RootsAssumption DEF Init, TypeOK

\* A request that holds something holds it typed.
LEMMA HeldTypes ==
  ASSUME TypeOK, RequestsInv, NEW q \in Requests
  PROVE  /\ requests[q] \in Request
         /\ requests[q].pc \in {"sign", "update", "insert"} =>
              /\ requests[q].cert \in Certs
              /\ requests[q].root \in RootIds
              /\ requests[q].era \in Nat /\ requests[q].id \in Nat
         /\ requests[q].pc \in {"create", "push"} => requests[q].root \in RootIds
         /\ requests[q].crl \subseteq Certs
         /\ requests[q].todo \subseteq RootIds
BY DEF TypeOK, RequestsInv, Request

LEMMA CutTypes ==
  ASSUME TypeOK, RequestsInv, NEW q \in Requests
  PROVE  Cut(q) \subseteq Certs /\ Missed(q) \subseteq RootIds
<1>1. Cut(q) \subseteq Certs
  BY HeldTypes DEF Cut
<1>2. Missed(q) \subseteq RootIds
  BY HeldTypes DEF Missed, TypeOK
<1> QED
  BY <1>1, <1>2

LEMMA SpoilType ==
  ASSUME TypeOK, NEW writers \in SUBSET Requests, Spoil(writers)
  PROVE  remote' \in [RootIds -> SUBSET Certs]
<1>1. PICK spoilt :
        remote' = [r \in RootIds |-> IF r \in spoilt THEN {} ELSE remote[r]]
  BY DEF Spoil
<1> QED
  BY <1>1 DEF TypeOK

LEMMA TypeStep ==
  ASSUME TypeOK, RequestsInv, Next
  PROVE  TypeOK'
<1> USE DEF TypeOK
<1>1. ASSUME NEW r \in RootIds, DeleteRoot(r) PROVE TypeOK'
  <2>1. HeldBy(r) \subseteq Certs
    BY HeldTypes DEF HeldBy
  <2>2. tls_keys' \in [Certs -> TlsKey \cup {Null}]
    BY <1>1 DEF DeleteRoot
  <2> QED
    BY <1>1, <2>1, <2>2 DEF DeleteRoot
<1>2. ASSUME NEW c \in Certs, DeleteTlsCert(c) PROVE TypeOK'
  BY <1>2 DEF DeleteTlsCert
<1>3. ASSUME NEW q \in Requests, CreateRootRead(q) PROVE TypeOK'
  <2>1. PICK r \in RootIds :
          requests' = [requests EXCEPT ![q] = [Idle EXCEPT !.pc = "create", !.root = r]]
    BY <1>3 DEF CreateRootRead
  <2>2. [Idle EXCEPT !.pc = "create", !.root = r] \in Request
    BY DEF Request, Idle
  <2> QED
    BY <1>3, <2>1, <2>2 DEF CreateRootRead
<1>4. ASSUME NEW q \in Requests, CreateRootInsert(q) PROVE TypeOK'
  <2>1. requests[q].root \in RootIds
    BY <1>4, HeldTypes DEF CreateRootInsert
  <2>2. era' \in [RootIds -> Nat]
    BY <1>4, <2>1 DEF CreateRootInsert
  <2> QED
    BY <1>4, <2>1, <2>2, RequestTypes DEF CreateRootInsert
<1>5. ASSUME NEW q \in Requests, NEW r \in RootIds, IssueSign(q, r) PROVE TypeOK'
  <2>1. FreshId \in Certs
    BY <1>5, FreshIdType DEF IssueSign
  <2>2. [Idle EXCEPT !.pc = "sign", !.cert = FreshId, !.root = r, !.era = era[r]] \in Request
    BY <2>1 DEF Request, Idle
  <2> QED
    BY <1>5, <2>1, <2>2 DEF IssueSign
<1>6. ASSUME NEW q \in Requests, IssueInsert(q) PROVE TypeOK'
  BY <1>6, RequestTypes, RowTypes, HeldTypes DEF IssueInsert
<1>7. ASSUME NEW q \in Requests, NEW c \in Certs, RevokeRead(q, c) PROVE TypeOK'
  <2>1. tls_keys[c].root_ca_id \in RootIds /\ tls_keys[c].era \in Nat
    BY <1>7 DEF RevokeRead, Live, TlsKey
  <2>2. [Idle EXCEPT !.pc = "update", !.cert = c, !.id = rowId[c],
                    !.root = tls_keys[c].root_ca_id, !.era = tls_keys[c].era] \in Request
    BY <2>1 DEF Request, Idle
  <2> QED
    BY <1>7, <2>2 DEF RevokeRead
<1>8. ASSUME NEW q \in Requests, RevokeUpdate(q) PROVE TypeOK'
  <2>1. tls_keys' \in [Certs -> TlsKey \cup {Null}]
    BY <1>8, RowTypes, HeldTypes DEF RevokeUpdate, Live
  <2> QED
    BY <1>8, <2>1, RequestTypes DEF RevokeUpdate
<1>9. ASSUME NEW q \in Requests, RevokeInsert(q) PROVE TypeOK'
  <2>1. crl_entries' \subseteq CrlEntry
    BY <1>9, HeldTypes DEF RevokeInsert, CrlEntry
  <2> QED
    BY <1>9, <2>1, RequestTypes DEF RevokeInsert
<1>10. ASSUME NEW q \in Requests, PublishNow(q) PROVE TypeOK'
  <2>1. [Idle EXCEPT !.pc = "roots"] \in Request
    BY DEF Request, Idle
  <2> QED
    BY <1>10, <2>1 DEF PublishNow
<1>11. ASSUME NEW q \in Requests, PublishRoots(q) PROVE TypeOK'
  BY <1>11, RequestTypes DEF PublishRoots
<1>12. ASSUME NEW q \in Requests, PublishGenerate(q) PROVE TypeOK'
  <2>1. PICK r \in root_ca :
          requests' = [requests EXCEPT ![q] =
            [requests[q] EXCEPT !.pc = "push", !.root = r, !.todo = requests[q].todo \ {r},
                                !.crl = Listed(r)]]
    BY <1>12 DEF PublishGenerate
  <2>2. requests[q] \in Request /\ r \in RootIds /\ Listed(r) \subseteq Certs
    BY <2>1, ListedType
  <2>3. [requests[q] EXCEPT !.pc = "push", !.root = r, !.todo = requests[q].todo \ {r},
                            !.crl = Listed(r)] \in Request
    BY <2>2 DEF Request
  <2>4. requests' \in [Requests -> Request]
    BY <2>1, <2>3
  <2> QED
    BY <1>12, <2>4 DEF PublishGenerate
<1>13. ASSUME NEW q \in Requests, PublishAbort(q) PROVE TypeOK'
  BY <1>13, RequestTypes, HeldTypes DEF PublishAbort
<1>14. ASSUME NEW q \in Requests, PublishPush(q) PROVE TypeOK'
  <2>1. requests' \in [Requests -> Request]
    BY <1>14, RequestTypes DEF PublishPush
  <2>2. remote' \in [RootIds -> SUBSET Certs]
    BY <1>14, HeldTypes DEF PublishPush
  <2>3. missed' \subseteq RootIds /\ overtaken' \subseteq RootIds
    BY <1>14, HeldTypes DEF PublishPush
  <2> QED
    BY <1>14, <2>1, <2>2, <2>3 DEF PublishPush
<1>15. ASSUME NEW q \in Requests, PublishDone(q) PROVE TypeOK'
  BY <1>15, RequestTypes DEF PublishDone
<1>16. ASSUME NEW q \in Requests, Fail(q) PROVE TypeOK'
  <2>1. remote' \in [RootIds -> SUBSET Certs]
    BY <1>16, SpoilType DEF Fail
  <2>2. requests' \in [Requests -> Request]
    BY <1>16, RequestTypes DEF Fail
  <2>3. cut' \subseteq Certs /\ missed' \subseteq RootIds
    BY <1>16, CutTypes DEF Fail
  <2> QED
    BY <1>16, <2>1, <2>2, <2>3 DEF Fail
<1>17. CASE Crash
  <2>1. requests' \in [Requests -> Request]
    BY <1>17, RequestTypes DEF Crash
  <2>2. cut' \subseteq Certs /\ missed' \subseteq RootIds
    BY <1>17, CutTypes DEF Crash
  <2> QED
    BY <1>17, <2>1, <2>2, SpoilType DEF Crash
<1>18. ASSUME NEW c \in Certs, NEW r \in RootIds, ImportTlsCertificate(c, r) PROVE TypeOK'
  <2>1. tls_keys' \in [Certs -> TlsKey \cup {Null}] /\ rowId' \in [Certs -> Nat]
    BY <1>18, RowTypes DEF ImportTlsCertificate
  <2> QED
    BY <1>18, <2>1 DEF ImportTlsCertificate
<1> QED
  BY <1>1, <1>2, <1>3, <1>4, <1>5, <1>6, <1>7, <1>8, <1>9, <1>10, <1>11, <1>12, <1>13,
     <1>14, <1>15, <1>16, <1>17, <1>18 DEF Next, RequestStep

----------------------------------------------------------------------------
(* What one step does to each table and to each request *)

LEMMA OthersStay ==
  ASSUME TypeOK, NEW q \in Requests, RequestStep(q), NEW p \in Requests \ {q}
  PROVE  requests'[p] = requests[p]
BY DEF TypeOK, RequestStep, CreateRootRead, CreateRootInsert, IssueSign, IssueInsert, RevokeRead,
       RevokeUpdate, RevokeInsert, PublishNow, PublishRoots, PublishGenerate, PublishAbort,
       PublishPush, PublishDone, Fail

\* How a request comes to hold a certificate.
LEMMA HeldStep ==
  ASSUME TypeOK, Next, NEW p \in Requests,
         requests'[p].pc \in {"sign", "update", "insert"}
  PROVE  \/ requests'[p] = requests[p]
         \/ RevokeUpdate(p)
         \/ \E r \in RootIds : IssueSign(p, r)
         \/ \E c \in Certs : RevokeRead(p, c)
<1>1. CASE \E r \in RootIds : DeleteRoot(r)
  BY <1>1 DEF DeleteRoot
<1>2. CASE RowEdit
  BY <1>2 DEF DeleteTlsCert, ImportTlsCertificate
<1>3. ASSUME NEW q \in Requests, RequestStep(q), q # p
      PROVE  requests'[p] = requests[p]
  BY <1>3, OthersStay
<1>4. CASE RequestStep(p)
  <2>1. requests[p] \in Request /\ p \in DOMAIN requests
    BY DEF TypeOK
  <2>2. ASSUME CreateRootInsert(p) \/ IssueInsert(p) \/ PublishAbort(p) \/ PublishDone(p)
               \/ Fail(p)
        PROVE  FALSE
    BY <2>1, <2>2 DEF CreateRootInsert, IssueInsert, PublishAbort, PublishDone, Fail, Idle
  <2>4. ASSUME NEW r, requests' = [requests EXCEPT ![p] =
                        [Idle EXCEPT !.pc = "create", !.root = r]]
        PROVE  FALSE
    BY <2>1, <2>4 DEF Idle
  <2>5. ASSUME PublishNow(p) \/ PublishRoots(p) PROVE FALSE
    BY <2>1, <2>5 DEF PublishNow, PublishRoots, Idle
  <2>3. ASSUME RevokeInsert(p) \/ PublishGenerate(p) \/ PublishPush(p) PROVE FALSE
    BY <2>1, <2>3 DEF RevokeInsert, PublishGenerate, PublishPush, Request
  <2> QED
    BY <1>4, <2>2, <2>3, <2>4, <2>5 DEF RequestStep, CreateRootRead
<1>5. CASE Crash
  BY <1>5 DEF Crash, Idle
<1> QED
  BY <1>1, <1>2, <1>3, <1>4, <1>5 DEF Next

\* How a row comes to exist as it does.
LEMMA RowStep ==
  ASSUME TypeOK, RequestsInv, Next, NEW c \in Certs, Live(c)'
  PROVE  \/ Live(c) /\ tls_keys'[c] = tls_keys[c]
         \/ /\ Live(c)
            /\ tls_keys'[c] = [tls_keys[c] EXCEPT !.is_revoked = TRUE]
            /\ \E q \in Requests :
                 RevokeUpdate(q) /\ requests[q].cert = c /\ requests[q].id = rowId[c]
         \/ \E r \in RootIds :
              /\ ImportTlsCertificate(c, r)
              /\ tls_keys'[c] = [root_ca_id |-> r, era |-> era[r], is_revoked |-> FALSE]
         \/ \E q \in Requests :
              /\ IssueInsert(q)
              /\ requests[q].cert = c
              /\ tls_keys'[c] = [root_ca_id |-> requests[q].root, era |-> requests[q].era,
                                 is_revoked |-> FALSE]
<1>1. CASE \E r \in RootIds : DeleteRoot(r)
  BY <1>1 DEF DeleteRoot, Live
<1>2. CASE \E d \in Certs : DeleteTlsCert(d)
  BY <1>2 DEF DeleteTlsCert, Live, TypeOK
<1>3. ASSUME NEW q \in Requests, RequestStep(q), ~IssueInsert(q), ~RevokeUpdate(q)
      PROVE  tls_keys' = tls_keys
  BY <1>3 DEF RequestStep, CreateRootRead, CreateRootInsert, IssueSign, RevokeRead,
       RevokeInsert, PublishNow, PublishRoots, PublishGenerate, PublishAbort,
       PublishPush, PublishDone, Fail
<1>4. ASSUME NEW q \in Requests, IssueInsert(q), requests[q].cert # c
      PROVE  tls_keys'[c] = tls_keys[c]
  BY <1>4 DEF IssueInsert, TypeOK
<1>5. ASSUME NEW q \in Requests, IssueInsert(q), requests[q].cert = c
      PROVE  tls_keys'[c] = [root_ca_id |-> requests[q].root, era |-> requests[q].era,
                             is_revoked |-> FALSE]
  BY <1>5 DEF IssueInsert, TypeOK
<1>6. ASSUME NEW q \in Requests, RevokeUpdate(q), requests[q].cert # c
      PROVE  tls_keys'[c] = tls_keys[c]
  BY <1>6 DEF RevokeUpdate, TypeOK
<1>7. ASSUME NEW q \in Requests, RevokeUpdate(q), requests[q].cert = c
      PROVE  \/ tls_keys'[c] = tls_keys[c]
             \/ /\ Live(c) /\ requests[q].id = rowId[c]
                /\ tls_keys'[c] = [tls_keys[c] EXCEPT !.is_revoked = TRUE]
  BY <1>7 DEF RevokeUpdate, TypeOK, Live
<1>8. CASE Crash
  BY <1>8 DEF Crash, Live
<1>9. ASSUME NEW d \in Certs, NEW r \in RootIds, ImportTlsCertificate(d, r)
      PROVE  tls_keys'[c] = IF d = c THEN [root_ca_id |-> r, era |-> era[r], is_revoked |-> FALSE]
                                     ELSE tls_keys[c]
  BY <1>9 DEF ImportTlsCertificate, TypeOK
<1> QED
  BY <1>1, <1>2, <1>3, <1>4, <1>5, <1>6, <1>7, <1>8, <1>9 DEF Next, Live

\* An import touches one row, and notes whether a list or a request named it.
LEMMA Importing ==
  ASSUME TypeOK, NEW c \in Certs, NEW r \in RootIds, ImportTlsCertificate(c, r)
  PROVE  /\ ~Live(c) /\ Live(c)'
         /\ \A q \in Requests : ~Signing(q, c)
         /\ tls_keys'[c].root_ca_id = r /\ tls_keys'[c].era = era[r]
         /\ tls_keys'[c].is_revoked = FALSE
         /\ rowId'[c] = rowId[c] + 1
         /\ \A d \in Certs \ {c} : tls_keys'[d] = tls_keys[d] /\ rowId'[d] = rowId[d]
         /\ Mentioned(c) \/ (\E q \in Requests : Holds(q, c)) => c \in returned'
         /\ UNCHANGED <<root_ca, crl_entries, remote, requests, era, late>>
<1>1. [root_ca_id |-> r, era |-> era[r], is_revoked |-> FALSE] # Null
  BY RowTypes, NullAssumption DEF TypeOK
<1>2. tls_keys'[c] = [root_ca_id |-> r, era |-> era[r], is_revoked |-> FALSE]
  BY DEF ImportTlsCertificate, TypeOK
<1> QED
  BY <1>1, <1>2 DEF ImportTlsCertificate, TypeOK, Live

\* Only an import changes the id of a row.
LEMMA RowIdKept ==
  ASSUME TypeOK, Next
  PROVE  /\ returned \subseteq returned'
         /\ Imported \subseteq Imported'
         /\ \A c \in Certs : rowId'[c] = rowId[c] \/ \E r \in RootIds : ImportTlsCertificate(c, r)
<1>1. ASSUME NEW c \in Certs, NEW r \in RootIds, ImportTlsCertificate(c, r)
      PROVE  /\ returned \subseteq returned'
             /\ rowId'[c] = rowId[c] + 1 /\ \A d \in Certs \ {c} : rowId'[d] = rowId[d]
  BY <1>1, Importing DEF ImportTlsCertificate
<1>2. CASE RowEdit
  BY <1>1, <1>2 DEF DeleteTlsCert, Imported, TypeOK
<1>3. CASE ~RowEdit
  <2>1. rowId' = rowId /\ returned' = returned
    BY <1>3 DEF Next, RequestStep, DeleteRoot, CreateRootRead, CreateRootInsert, IssueSign,
       IssueInsert, RevokeRead, RevokeUpdate, RevokeInsert, PublishNow, PublishRoots,
       PublishGenerate, PublishAbort, PublishPush, PublishDone, Fail, Crash
  <2> QED
    BY <2>1 DEF Imported
<1> QED
  BY <1>2, <1>3

\* How an entry comes to be there ...
LEMMA EntryStep ==
  ASSUME Next, NEW e \in crl_entries'
  PROVE  \/ e \in crl_entries
         \/ \E q \in Requests :
              /\ RevokeInsert(q)
              /\ e = [serial |-> requests[q].cert, root_ca_id |-> requests[q].root,
                      era |-> requests[q].era]
<1>1. ASSUME NEW q \in Requests, RequestStep(q), ~RevokeInsert(q)
      PROVE  crl_entries' = crl_entries
  BY <1>1 DEF RequestStep, CreateRootRead, CreateRootInsert, IssueSign, IssueInsert, RevokeRead,
       RevokeUpdate, PublishNow, PublishRoots, PublishGenerate, PublishAbort,
       PublishPush, PublishDone, Fail
<1>2. ASSUME NEW q \in Requests, RevokeInsert(q)
      PROVE  crl_entries' = crl_entries \cup
               {[serial |-> requests[q].cert, root_ca_id |-> requests[q].root,
                 era |-> requests[q].era]}
  BY <1>2 DEF RevokeInsert
<1>3. CASE \E r \in RootIds : DeleteRoot(r)
  BY <1>3 DEF DeleteRoot
<1>4. CASE RowEdit
  BY <1>4 DEF DeleteTlsCert, ImportTlsCertificate
<1>5. CASE Crash
  BY <1>5 DEF Crash
<1> QED
  BY <1>1, <1>2, <1>3, <1>4, <1>5 DEF Next

\* ... and what makes it go.
LEMMA EntryStays ==
  ASSUME Next, NEW e \in crl_entries
  PROVE  e \in crl_entries' \/ \E r \in RootIds : DeleteRoot(r) /\ r = e.root_ca_id
<1>1. ASSUME NEW q \in Requests, RequestStep(q) PROVE e \in crl_entries'
  BY <1>1 DEF RequestStep, CreateRootRead, CreateRootInsert, IssueSign, IssueInsert, RevokeRead,
       RevokeUpdate, RevokeInsert, PublishNow, PublishRoots, PublishGenerate, PublishAbort,
       PublishPush, PublishDone, Fail
<1>2. ASSUME NEW r \in RootIds, DeleteRoot(r), r # e.root_ca_id PROVE e \in crl_entries'
  BY <1>2 DEF DeleteRoot
<1>3. CASE RowEdit
  BY <1>3 DEF DeleteTlsCert, ImportTlsCertificate
<1>4. CASE Crash
  BY <1>4 DEF Crash
<1> QED
  BY <1>1, <1>2, <1>3, <1>4 DEF Next

----------------------------------------------------------------------------
(* What requests hold in their hands *)

\* The record of a request that takes a certificate.
LEMMA Taken ==
  ASSUME TypeOK, NEW p \in Requests
  PROVE  /\ \A r \in RootIds : IssueSign(p, r) =>
              /\ requests'[p].pc = "sign" /\ requests'[p].cert = FreshId
              /\ requests'[p].root = r /\ requests'[p].era = era[r]
              /\ requests'[p].crl = {}
         /\ \A c \in Certs : RevokeRead(p, c) =>
              /\ requests'[p].pc = "update" /\ requests'[p].cert = c
              /\ requests'[p].root = tls_keys[c].root_ca_id
              /\ requests'[p].era = tls_keys[c].era /\ requests'[p].id = rowId[c]
              /\ requests'[p].crl = {}
         /\ RevokeUpdate(p) =>
              /\ requests[p].pc = "update" /\ requests'[p].pc = "insert"
              /\ requests'[p].cert = requests[p].cert
              /\ requests'[p].root = requests[p].root
              /\ requests'[p].era = requests[p].era /\ requests'[p].id = requests[p].id
              /\ requests'[p].crl = requests[p].crl
         /\ RevokeInsert(p) =>
              /\ requests[p].pc = "insert" /\ requests'[p].pc = "roots"
         /\ IssueInsert(p) =>
              /\ requests[p].pc = "sign" /\ requests'[p].pc = "idle"
<1>1. requests[p] \in Request /\ p \in DOMAIN requests
  BY DEF TypeOK
<1>2. ASSUME NEW r \in RootIds, IssueSign(p, r)
      PROVE  /\ requests'[p].pc = "sign" /\ requests'[p].cert = FreshId
             /\ requests'[p].root = r /\ requests'[p].era = era[r]
             /\ requests'[p].crl = {}
  <2>1. requests'[p] = [Idle EXCEPT !.pc = "sign", !.cert = FreshId, !.root = r, !.era = era[r]]
    BY <1>1, <1>2 DEF IssueSign
  <2> QED
    BY <2>1 DEF Idle
<1>3. ASSUME NEW c \in Certs, RevokeRead(p, c)
      PROVE  /\ requests'[p].pc = "update" /\ requests'[p].cert = c
             /\ requests'[p].root = tls_keys[c].root_ca_id
             /\ requests'[p].era = tls_keys[c].era /\ requests'[p].id = rowId[c]
             /\ requests'[p].crl = {}
  <2>1. requests'[p] = [Idle EXCEPT !.pc = "update", !.cert = c, !.id = rowId[c],
                                    !.root = tls_keys[c].root_ca_id, !.era = tls_keys[c].era]
    BY <1>1, <1>3 DEF RevokeRead
  <2> QED
    BY <2>1 DEF Idle
<1>4. ASSUME RevokeUpdate(p)
      PROVE  /\ requests[p].pc = "update" /\ requests'[p].pc = "insert"
             /\ requests'[p].cert = requests[p].cert
             /\ requests'[p].root = requests[p].root
             /\ requests'[p].era = requests[p].era /\ requests'[p].id = requests[p].id
             /\ requests'[p].crl = requests[p].crl
  <2>1. requests'[p] = [requests[p] EXCEPT !.pc = "insert"] /\ requests[p].pc = "update"
    BY <1>1, <1>4 DEF RevokeUpdate
  <2> QED
    BY <1>1, <2>1 DEF Request
<1>5. ASSUME RevokeInsert(p)
      PROVE  requests[p].pc = "insert" /\ requests'[p].pc = "roots"
  <2>1. requests'[p] = [requests[p] EXCEPT !.pc = "roots"] /\ requests[p].pc = "insert"
    BY <1>1, <1>5 DEF RevokeInsert
  <2> QED
    BY <1>1, <2>1 DEF Request
<1>6. ASSUME IssueInsert(p) PROVE requests[p].pc = "sign" /\ requests'[p].pc = "idle"
  BY <1>1, <1>6 DEF IssueInsert, Idle
<1> QED
  BY <1>2, <1>3, <1>4, <1>5, <1>6

\* Where the lists requests carry come from.
LEMMA CarriedStep ==
  ASSUME TypeOK, Next, NEW p \in Requests, NEW c, c \in requests'[p].crl
  PROVE  c \in requests[p].crl \/ \E r \in RootIds : c \in Listed(r)
<1>1. requests[p] \in Request /\ p \in DOMAIN requests
  BY DEF TypeOK
<1>2. ASSUME NEW q \in Requests, RequestStep(q), q # p
      PROVE  c \in requests[p].crl
  BY <1>2, OthersStay
<1>3. CASE RequestStep(p)
  <2>1. ASSUME NEW r \in RootIds, IssueSign(p, r) PROVE FALSE
    BY <2>1, Taken
  <2>2. ASSUME NEW d \in Certs, RevokeRead(p, d) PROVE FALSE
    BY <2>2, Taken
  <2>3. ASSUME RevokeUpdate(p) PROVE c \in requests[p].crl
    BY <2>3, Taken
  <2>4. ASSUME CreateRootInsert(p) \/ IssueInsert(p) \/ PublishAbort(p) \/ PublishDone(p)
               \/ Fail(p)
        PROVE  FALSE
    BY <1>1, <2>4 DEF CreateRootInsert, IssueInsert, PublishAbort, PublishDone, Fail, Idle
  <2>5. ASSUME NEW r, requests' = [requests EXCEPT ![p] =
                        [Idle EXCEPT !.pc = "create", !.root = r]]
        PROVE  FALSE
    BY <1>1, <2>5 DEF Idle
  <2>6. ASSUME PublishNow(p) \/ PublishRoots(p) PROVE FALSE
    BY <1>1, <2>6 DEF PublishNow, PublishRoots, Idle
  <2>7. ASSUME RevokeInsert(p) PROVE c \in requests[p].crl
    BY <1>1, <2>7 DEF RevokeInsert, Request
  <2>8. ASSUME PublishPush(p) PROVE FALSE
    BY <1>1, <2>8 DEF PublishPush, Request
  <2>9. ASSUME PublishGenerate(p) PROVE \E r \in RootIds : c \in Listed(r)
    <3>1. PICK r \in root_ca :
            requests' = [requests EXCEPT ![p] =
              [requests[p] EXCEPT !.pc = "push", !.root = r, !.todo = requests[p].todo \ {r},
                                  !.crl = Listed(r)]]
      BY <2>9 DEF PublishGenerate
    <3>2. requests'[p].crl = Listed(r) /\ r \in RootIds
      BY <1>1, <3>1 DEF Request, TypeOK
    <3> QED
      BY <3>2
  <2> QED
    BY <1>3, <2>1, <2>2, <2>3, <2>4, <2>5, <2>6, <2>7, <2>8, <2>9
    DEF RequestStep, CreateRootRead
<1>4. CASE Crash
  BY <1>4 DEF Crash, Idle
<1>5. CASE \E r \in RootIds : DeleteRoot(r)
  BY <1>5 DEF DeleteRoot
<1>6. CASE RowEdit
  BY <1>6 DEF DeleteTlsCert, ImportTlsCertificate
<1> QED
  BY <1>2, <1>3, <1>4, <1>5, <1>6 DEF Next

\* A list, served or uploaded, comes to name a certificate only when it is revoked.
LEMMA ListedDef ==
  ASSUME NEW c, NEW r
  PROVE  c \in Listed(r) <=> \E e \in crl_entries : e.root_ca_id = r /\ e.serial = c
BY DEF Listed

LEMMA RemoteStep ==
  ASSUME TypeOK, RequestsInv, Next, NEW r \in RootIds, NEW c, c \in remote'[r]
  PROVE  \/ c \in remote[r]
         \/ \E q \in Requests : c \in requests[q].crl
<1>1. ASSUME NEW q \in Requests, RequestStep(q), ~PublishPush(q), ~Fail(q)
      PROVE  remote' = remote
  BY <1>1 DEF RequestStep, CreateRootRead, CreateRootInsert, IssueSign, IssueInsert, RevokeRead,
       RevokeUpdate, RevokeInsert, PublishNow, PublishRoots, PublishGenerate, PublishAbort,
       PublishDone
<1>2. ASSUME NEW q \in Requests, PublishPush(q)
      PROVE  remote'[r] = remote[r] \/ remote'[r] = requests[q].crl
  BY <1>2, HeldTypes DEF PublishPush, TypeOK
<1>3. ASSUME NEW writers \in SUBSET Requests, Spoil(writers)
      PROVE  remote'[r] = remote[r] \/ remote'[r] = {}
  BY <1>3 DEF Spoil, TypeOK
<1>4. ASSUME NEW q \in Requests, Fail(q)
      PROVE  remote'[r] = remote[r] \/ remote'[r] = {}
  BY <1>3, <1>4 DEF Fail
<1>5. CASE Crash
  BY <1>3, <1>5 DEF Crash
<1>6. CASE \E s \in RootIds : DeleteRoot(s)
  BY <1>6 DEF DeleteRoot
<1>7. CASE RowEdit
  BY <1>7 DEF DeleteTlsCert, ImportTlsCertificate
<1> QED
  BY <1>1, <1>2, <1>4, <1>5, <1>6, <1>7 DEF Next

LEMMA MentionedStep ==
  ASSUME TypeOK, RequestsInv, Next, NEW c \in Certs, Mentioned(c)'
  PROVE  Mentioned(c) \/ \E q \in Requests : RevokeInsert(q) /\ requests[q].cert = c
<1>1. ASSUME NEW r \in RootIds, c \in Listed(r)'
      PROVE  \/ c \in Listed(r)
             \/ \E q \in Requests : RevokeInsert(q) /\ requests[q].cert = c
  <2>1. PICK e \in crl_entries' : e.root_ca_id = r /\ e.serial = c
    BY <1>1 DEF Listed
  <2>2. CASE e \in crl_entries
    BY <2>1, <2>2, ListedDef
  <2> QED
    BY <2>1, <2>2, EntryStep
<1>2. ASSUME NEW r \in RootIds, c \in remote'[r] PROVE Mentioned(c)
  BY <1>2, RemoteStep DEF Mentioned
<1>3. ASSUME NEW q \in Requests, c \in requests'[q].crl PROVE Mentioned(c)
  BY <1>3, CarriedStep DEF Mentioned
<1> QED
  BY <1>1, <1>2, <1>3 DEF Mentioned

----------------------------------------------------------------------------
(* What the requests hold stays true of the tables *)

LEMMA IssuedGrows == ASSUME Next PROVE issued \subseteq issued'
BY DEF Next, RequestStep, DeleteRoot, DeleteTlsCert, ImportTlsCertificate, CreateRootRead,
   CreateRootInsert, IssueSign, IssueInsert, RevokeRead, RevokeUpdate, RevokeInsert, PublishNow,
   PublishRoots, PublishGenerate, PublishAbort, PublishPush, PublishDone, Fail, Crash

\* The root of a request that creates one or uploads a list.
LEMMA RootStep ==
  ASSUME TypeOK, RequestsInv, Next, NEW p \in Requests, requests'[p].pc \in {"create", "push"}
  PROVE  requests'[p].root \in RootIds
<1>1. requests[p] \in Request /\ p \in DOMAIN requests
  BY DEF TypeOK
<1>2. ASSUME requests'[p] = requests[p] PROVE requests'[p].root \in RootIds
  BY <1>2 DEF RequestsInv
<1>3. ASSUME NEW q \in Requests, RequestStep(q), q # p
      PROVE  requests'[p] = requests[p]
  BY <1>3, OthersStay
<1>4. CASE RequestStep(p)
  <2>1. ASSUME NEW r \in RootIds, IssueSign(p, r) PROVE FALSE
    BY <2>1, Taken
  <2>2. ASSUME NEW d \in Certs, RevokeRead(p, d) PROVE FALSE
    BY <2>2, Taken
  <2>3. ASSUME RevokeUpdate(p) \/ RevokeInsert(p) \/ IssueInsert(p) PROVE FALSE
    BY <2>3, Taken
  <2>4. ASSUME CreateRootInsert(p) \/ PublishAbort(p) \/ PublishDone(p) \/ Fail(p)
        PROVE  FALSE
    BY <1>1, <2>4 DEF CreateRootInsert, PublishAbort, PublishDone, Fail, Idle
  <2>5. ASSUME NEW r \in RootIds,
               requests' = [requests EXCEPT ![p] =
                 [Idle EXCEPT !.pc = "create", !.root = r]]
        PROVE  requests'[p].root \in RootIds
    BY <1>1, <2>5 DEF Idle
  <2>6. ASSUME PublishNow(p) \/ PublishRoots(p) PROVE FALSE
    BY <1>1, <2>6 DEF PublishNow, PublishRoots, Idle
  <2>7. ASSUME PublishPush(p) PROVE FALSE
    BY <1>1, <2>7 DEF PublishPush, Request
  <2>8. ASSUME PublishGenerate(p) PROVE requests'[p].root \in RootIds
    <3>1. PICK r \in root_ca :
            requests' = [requests EXCEPT ![p] =
              [requests[p] EXCEPT !.pc = "push", !.root = r, !.todo = requests[p].todo \ {r},
                                  !.crl = Listed(r)]]
      BY <2>8 DEF PublishGenerate
    <3>2. requests'[p].root = r /\ r \in RootIds
      BY <1>1, <3>1 DEF Request, TypeOK
    <3> QED
      BY <3>2
  <2> QED
    BY <1>4, <2>1, <2>2, <2>3, <2>4, <2>5, <2>6, <2>7, <2>8 DEF RequestStep, CreateRootRead
<1>5. CASE Crash
  BY <1>5 DEF Crash, Idle
<1>6. CASE \E r \in RootIds : DeleteRoot(r)
  BY <1>2, <1>6 DEF DeleteRoot
<1>7. CASE RowEdit
  BY <1>2, <1>7 DEF DeleteTlsCert, ImportTlsCertificate
<1> QED
  BY <1>2, <1>3, <1>4, <1>5, <1>6, <1>7 DEF Next

LEMMA RequestsStep ==
  ASSUME IInv, Next
  PROVE  RequestsInv'
<1> USE DEF IInv
<1>1. ASSUME NEW p \in Requests, requests'[p].pc \in {"sign", "update", "insert"}
      PROVE  requests'[p].cert \in issued' /\ requests'[p].root \in RootIds
  <2>1. CASE requests'[p] = requests[p]
    BY <1>1, <2>1, IssuedGrows DEF RequestsInv
  <2>2. CASE RevokeUpdate(p)
    BY <2>2, Taken, IssuedGrows DEF RequestsInv
  <2>3. ASSUME NEW r \in RootIds, IssueSign(p, r)
        PROVE  requests'[p].cert \in issued' /\ requests'[p].root \in RootIds
    <3>1. requests'[p].cert = FreshId /\ requests'[p].root = r
      BY <2>3, Taken
    <3>2. FreshId \in issued'
      BY <2>3 DEF IssueSign
    <3> QED
      BY <3>1, <3>2
  <2>4. ASSUME NEW c \in Certs, RevokeRead(p, c)
        PROVE  requests'[p].cert \in issued' /\ requests'[p].root \in RootIds
    <3>1. Live(c) /\ tls_keys[c] \in TlsKey
      BY <2>4 DEF RevokeRead, Live, TypeOK
    <3>2. c \in issued /\ tls_keys[c].root_ca_id \in RootIds
      BY <3>1 DEF IdsInv, TlsKey
    <3> QED
      BY <2>4, <3>2, Taken, IssuedGrows
  <2> QED
    BY <1>1, <2>1, <2>2, <2>3, <2>4, HeldStep
<1> QED
  BY <1>1, RootStep DEF RequestsInv

LEMMA IdsStep ==
  ASSUME IInv, Next
  PROVE  IdsInv'
<1> USE DEF IInv
<1>1. ASSUME NEW c \in Certs, Live(c)' PROVE c \in issued'
  <2>1. CASE Live(c)
    BY <2>1, IssuedGrows DEF IdsInv
  <2>2. ASSUME NEW q \in Requests, IssueInsert(q), requests[q].cert = c PROVE c \in issued'
    BY <2>2, Taken, IssuedGrows DEF RequestsInv
  <2>3. ASSUME NEW r \in RootIds, ImportTlsCertificate(c, r) PROVE c \in issued'
    BY <2>3 DEF ImportTlsCertificate
  <2> QED
    BY <1>1, <2>1, <2>2, <2>3, RowStep
<1>2. ASSUME NEW c \in Certs, Mentioned(c)' PROVE c \in issued
  BY <1>2, MentionedStep, Taken DEF IdsInv, RequestsInv
<1> QED
  BY <1>1, <1>2, IssuedGrows DEF IdsInv

LEMMA RowIdStep ==
  ASSUME IInv, Next
  PROVE  RowIdInv'
<1> TypeOK /\ TypeOK' /\ RequestsInv /\ RowIdInv
  BY TypeStep DEF IInv
<1>1. returned' \subseteq Imported'
  <2>1. CASE returned' = returned
    BY <2>1, RowIdKept DEF RowIdInv
  <2>2. ASSUME NEW c \in Certs, NEW r \in RootIds, ImportTlsCertificate(c, r)
        PROVE  returned' \subseteq Imported'
    <3>1. returned' \subseteq returned \cup {c}
      BY <2>2 DEF ImportTlsCertificate
    <3>3. rowId'[c] = rowId[c] + 1 /\ rowId[c] \in Nat
      BY <2>2, Importing DEF TypeOK
    <3>2. c \in Imported'
      BY <3>3 DEF Imported
    <3> QED
      BY <3>1, <3>2, RowIdKept DEF RowIdInv
  <2>3. (\A c \in Certs, r \in RootIds : ~ImportTlsCertificate(c, r)) => returned' = returned
    BY DEF Next, RequestStep, DeleteRoot, DeleteTlsCert, CreateRootRead, CreateRootInsert,
       IssueSign, IssueInsert, RevokeRead, RevokeUpdate, RevokeInsert, PublishNow, PublishRoots,
       PublishGenerate, PublishAbort, PublishPush, PublishDone, Fail, Crash
  <2> QED
    BY <2>1, <2>2, <2>3
<1>2. ASSUME NEW p \in Requests, requests'[p].pc \in {"update", "insert"}
      PROVE  \/ requests'[p].id = rowId'[requests'[p].cert]
             \/ /\ requests'[p].id < rowId'[requests'[p].cert]
                /\ requests'[p].cert \in returned'
  <2>1. ASSUME requests[p].pc \in {"update", "insert"},
               requests'[p].cert = requests[p].cert, requests'[p].id = requests[p].id
        PROVE  \/ requests'[p].id = rowId'[requests'[p].cert]
               \/ /\ requests'[p].id < rowId'[requests'[p].cert]
                  /\ requests'[p].cert \in returned'
    <3>1. PICK c \in Certs : c = requests[p].cert /\ requests[p].id \in Nat
      BY <2>1, HeldTypes
    <3>2. rowId[c] \in Nat /\ Holds(p, c)
      BY <2>1, <3>1 DEF TypeOK, Holds
    <3>3. requests[p].id = rowId[c] \/ (requests[p].id < rowId[c] /\ c \in returned)
      BY <2>1, <3>1 DEF RowIdInv
    <3>4. CASE rowId'[c] = rowId[c]
      BY <2>1, <3>1, <3>3, <3>4, RowIdKept
    <3>5. ASSUME NEW r \in RootIds, ImportTlsCertificate(c, r)
          PROVE  rowId'[c] = rowId[c] + 1 /\ c \in returned'
      BY <3>2, <3>5, Importing
    <3> QED
      BY <2>1, <3>1, <3>2, <3>3, <3>4, <3>5, RowIdKept
  <2>2. CASE RevokeUpdate(p)
    BY <2>1, <2>2, Taken
  <2>3. ASSUME NEW c \in Certs, RevokeRead(p, c)
        PROVE  requests'[p].id = rowId'[requests'[p].cert]
    <3>1. rowId' = rowId
      BY <2>3 DEF RevokeRead
    <3> QED
      BY <2>3, <3>1, Taken
  <2>4. \A r \in RootIds : ~IssueSign(p, r)
    BY <1>2, Taken
  <2> QED
    BY <1>2, <2>1, <2>2, <2>3, <2>4, HeldStep
<1> QED
  BY <1>1, <1>2 DEF RowIdInv, Imported

LEMMA SignStep ==
  ASSUME IInv, Next
  PROVE  SignInv'
<1> USE DEF IInv
<1> SUFFICES ASSUME NEW p \in Requests, requests'[p].pc = "sign",
                    NEW c \in Certs, c = requests'[p].cert
             PROVE  /\ ~Live(c)'
                    /\ ~Mentioned(c)'
                    /\ \A q \in Requests : Holds(q, c)' => q = p
  BY TypeStep, RequestsStep DEF SignInv, RequestsInv, TypeOK, Live, Mentioned, Holds, Listed
<1>1. CASE requests'[p] = requests[p]
  <2>1. /\ requests[p].pc = "sign" /\ requests[p].cert = c /\ c \in issued /\ c \in Certs
        /\ ~Live(c) /\ ~Mentioned(c)
        /\ \A q \in Requests : Holds(q, c) => q = p
    BY <1>1 DEF SignInv, RequestsInv, TypeOK
  <2>2. ~Live(c)'
    <3> SUFFICES ASSUME Live(c)' PROVE FALSE
      OBVIOUS
    <3>3. \A r \in RootIds : ~ImportTlsCertificate(c, r)
      BY <2>1, Importing DEF Signing
    <3>1. PICK q \in Requests : IssueInsert(q) /\ requests[q].cert = c
      BY <2>1, <3>3, RowStep
    <3>2. q = p
      BY <2>1, <3>1, Taken DEF Holds
    <3> QED
      BY <3>1, <3>2, Taken
  <2>3. ~Mentioned(c)'
    <3> SUFFICES ASSUME Mentioned(c)' PROVE FALSE
      OBVIOUS
    <3>1. PICK q \in Requests : RevokeInsert(q) /\ requests[q].cert = c
      BY <2>1, MentionedStep
    <3> QED
      BY <2>1, <3>1, Taken DEF Holds
  <2>4. ASSUME NEW q \in Requests, Holds(q, c)' PROVE q = p
    <3>1. requests'[q].pc \in {"sign", "update", "insert"} /\ requests'[q].cert = c
      BY <2>4 DEF Holds
    <3>2. CASE requests'[q] = requests[q]
      BY <2>1, <3>1, <3>2 DEF Holds
    <3>3. CASE RevokeUpdate(q)
      BY <2>1, <3>1, <3>3, Taken DEF Holds
    <3>4. ASSUME NEW r \in RootIds, IssueSign(q, r) PROVE FALSE
      <4>1. c = FreshId
        BY <3>1, <3>4, Taken
      <4>2. FreshId \notin issued
        BY <3>4, FreshIdType DEF IssueSign
      <4> QED
        BY <2>1, <4>1, <4>2
    <3>5. ASSUME NEW d \in Certs, RevokeRead(q, d) PROVE FALSE
      <4>1. c = d
        BY <3>1, <3>5, Taken
      <4>2. Live(d)
        BY <3>5 DEF RevokeRead
      <4> QED
        BY <2>1, <4>1, <4>2
    <3> QED
      BY <3>1, <3>2, <3>3, <3>4, <3>5, HeldStep
  <2> QED
    BY <2>2, <2>3, <2>4
<1>2. ASSUME NEW r \in RootIds, IssueSign(p, r)
      PROVE  ~Live(c)' /\ ~Mentioned(c)' /\ \A q \in Requests : Holds(q, c)' => q = p
  <2>1. c \in Certs /\ c \notin issued /\ tls_keys' = tls_keys
    BY <1>2, Taken, FreshIdType DEF IssueSign
  <2>2. ~Live(c) /\ ~Mentioned(c)
    BY <2>1 DEF IdsInv
  <2>3. ~Live(c)'
    BY <2>1, <2>2 DEF Live
  <2>4. ~Mentioned(c)'
    <3> SUFFICES ASSUME Mentioned(c)' PROVE FALSE
      OBVIOUS
    <3>1. PICK q \in Requests : RevokeInsert(q) /\ requests[q].cert = c
      BY <2>1, <2>2, MentionedStep
    <3> QED
      BY <2>1, <3>1, Taken DEF RequestsInv
  <2>5. ASSUME NEW q \in Requests, Holds(q, c)', q # p PROVE FALSE
    <3>1. requests'[q] = requests[q]
      BY <1>2, <2>5, OthersStay DEF RequestStep
    <3> QED
      BY <2>1, <2>5, <3>1 DEF Holds, RequestsInv
  <2> QED
    BY <2>3, <2>4, <2>5
<1>3. ~RevokeUpdate(p) /\ \A d \in Certs : ~RevokeRead(p, d)
  BY Taken
<1> QED
  BY <1>1, <1>2, <1>3, HeldStep

LEMMA RevokeStep ==
  ASSUME IInv, Next
  PROVE  RevokeInv'
<1> TypeOK /\ TypeOK' /\ RequestsInv /\ RequestsInv' /\ RowIdInv /\ RevokeInv /\ SignInv
  BY TypeStep, RequestsStep DEF IInv
<1> SUFFICES ASSUME NEW p \in Requests, requests'[p].pc \in {"update", "insert"},
                    NEW c \in Certs, c = requests'[p].cert, Live(c)', requests'[p].id = rowId'[c]
             PROVE  /\ tls_keys'[c].root_ca_id = requests'[p].root
                    /\ tls_keys'[c].era = requests'[p].era
                    /\ requests'[p].pc = "insert" => tls_keys'[c].is_revoked
  BY DEF RevokeInv, Current, RequestsInv, TypeOK, Live
<1>1. ASSUME Live(c), tls_keys'[c] = [tls_keys[c] EXCEPT !.is_revoked = TRUE]
      PROVE  /\ tls_keys'[c].root_ca_id = tls_keys[c].root_ca_id
             /\ tls_keys'[c].era = tls_keys[c].era
             /\ tls_keys'[c].is_revoked
  BY <1>1 DEF Live, TypeOK, TlsKey
\* An import gives an id no request has read.
<1>2. ASSUME requests[p].pc \in {"update", "insert"}, requests[p].cert = c,
             requests'[p].id = requests[p].id, NEW r \in RootIds, ImportTlsCertificate(c, r)
      PROVE  FALSE
  <2>1. requests[p].id = rowId[c] \/ requests[p].id < rowId[c]
    BY <1>2 DEF RowIdInv
  <2>2. rowId[c] \in Nat /\ requests[p].id \in Nat
    BY <1>2, HeldTypes DEF TypeOK
  <2>3. rowId'[c] = rowId[c] + 1
    BY <1>2, Importing
  <2>4. requests[p].id = rowId[c] + 1
    BY <1>2, <2>3
  <2> QED
    BY <2>1, <2>2, <2>4
<1>3. ASSUME requests[p].pc \in {"update", "insert"}, requests[p].cert = c,
             requests'[p].id = requests[p].id
      PROVE  rowId'[c] = rowId[c]
  BY <1>2, <1>3, RowIdKept
<1>4. CASE requests'[p] = requests[p]
  <2>1. Holds(p, c) /\ requests[p].cert = c /\ rowId'[c] = rowId[c]
    BY <1>3, <1>4 DEF Holds
  <2>2. ~\E q \in Requests : IssueInsert(q) /\ requests[q].cert = c
    BY <1>4, <2>1, Taken DEF SignInv
  <2>3. Live(c) =>
          /\ tls_keys[c].root_ca_id = requests'[p].root
          /\ tls_keys[c].era = requests'[p].era
          /\ requests'[p].pc = "insert" => tls_keys[c].is_revoked
    BY <1>4, <2>1 DEF RevokeInv, Current
  <2>4. \A r \in RootIds : ~ImportTlsCertificate(c, r)
    BY <1>2, <1>4
  <2> QED
    BY <1>1, <2>2, <2>3, <2>4, RowStep
<1>5. CASE RevokeUpdate(p)
  <2>1. requests[p].cert = c /\ requests[p].pc = "update" /\ rowId'[c] = rowId[c]
        /\ requests'[p].id = requests[p].id
    BY <1>3, <1>5, Taken
  <2>2. Live(c) /\ tls_keys'[c] = [tls_keys[c] EXCEPT !.is_revoked = TRUE]
    BY <1>5, <2>1 DEF RevokeUpdate, TypeOK, Live
  <2>3. tls_keys[c].root_ca_id = requests[p].root /\ tls_keys[c].era = requests[p].era
    BY <2>1, <2>2 DEF RevokeInv, Current
  <2> QED
    BY <1>1, <1>5, <2>2, <2>3, Taken
<1>6. ASSUME NEW d \in Certs, RevokeRead(p, d)
      PROVE  /\ tls_keys'[c].root_ca_id = requests'[p].root
             /\ tls_keys'[c].era = requests'[p].era
             /\ requests'[p].pc # "insert"
  BY <1>6, Taken DEF RevokeRead
<1>7. \A r \in RootIds : ~IssueSign(p, r)
  BY Taken
<1> QED
  BY <1>4, <1>5, <1>6, <1>7, HeldStep

LEMMA MentionedInvStep ==
  ASSUME IInv, Next
  PROVE  MentionedInv'
<1> USE DEF IInv
<1> SUFFICES ASSUME NEW c \in Certs, Live(c)', Mentioned(c)'
             PROVE  tls_keys'[c].is_revoked \/ c \in returned'
  BY DEF MentionedInv
<1>1. CASE Live(c) /\ tls_keys'[c] = tls_keys[c]
  <2>1. CASE Mentioned(c)
    BY <1>1, <2>1, RowIdKept DEF MentionedInv
  <2>2. ASSUME NEW q \in Requests, RevokeInsert(q), requests[q].cert = c
        PROVE  tls_keys[c].is_revoked \/ c \in returned
    BY <1>1, <2>2, Taken DEF RevokeInv, RowIdInv, Current
  <2> QED
    BY <1>1, <2>1, <2>2, MentionedStep, RowIdKept
<1>2. CASE Live(c) /\ tls_keys'[c] = [tls_keys[c] EXCEPT !.is_revoked = TRUE]
  BY <1>2 DEF Live, TypeOK, TlsKey
<1>3. ASSUME NEW q \in Requests, IssueInsert(q), requests[q].cert = c PROVE FALSE
  <2>1. ~Mentioned(c)
    BY <1>3, Taken DEF SignInv
  <2>2. PICK p \in Requests : RevokeInsert(p) /\ requests[p].cert = c
    BY <2>1, MentionedStep
  <2> QED
    BY <1>3, <2>2, Taken DEF SignInv, Holds
<1>4. ASSUME NEW r \in RootIds, ImportTlsCertificate(c, r) PROVE c \in returned'
  <2>1. CASE Mentioned(c)
    BY <1>4, <2>1, Importing
  <2>2. ASSUME NEW q \in Requests, RevokeInsert(q), requests[q].cert = c PROVE c \in returned'
    <3>1. Holds(q, c)
      BY <2>2, Taken DEF Holds
    <3> QED
      BY <1>4, <3>1, Importing
  <2> QED
    BY <2>1, <2>2, MentionedStep
<1> QED
  BY <1>1, <1>2, <1>3, <1>4, RowStep

----------------------------------------------------------------------------
(* Roots and their successors of the same identifier *)

\* A root comes by insertion and goes by deletion; only an insertion counts the era up.
LEMMA RootsStep ==
  ASSUME IInv, Next, NEW r \in RootIds
  PROVE  /\ era'[r] >= era[r]
         /\ r \in root_ca =>
              (r \in root_ca' /\ era'[r] = era[r]) \/ DeleteRoot(r)
         /\ r \notin root_ca /\ r \in root_ca' => era'[r] > era[r]
<1> USE DEF IInv
<1>0. era \in [RootIds -> Nat] /\ era[r] \in Nat
  BY DEF TypeOK
<1>1. ASSUME NEW q \in Requests, RequestStep(q), ~CreateRootInsert(q)
      PROVE  root_ca' = root_ca /\ era' = era
  BY <1>1 DEF RequestStep, CreateRootRead, IssueSign, IssueInsert, RevokeRead, RevokeUpdate,
     RevokeInsert, PublishNow, PublishRoots, PublishGenerate, PublishAbort, PublishPush,
     PublishDone, Fail
<1>2. ASSUME NEW q \in Requests, CreateRootInsert(q)
      PROVE  /\ root_ca' = root_ca \cup {requests[q].root}
             /\ era' = IF requests[q].root \in root_ca
                         THEN era
                         ELSE [era EXCEPT ![requests[q].root] = era[requests[q].root] + 1]
             /\ requests[q].root \in RootIds
  BY <1>2, HeldTypes DEF CreateRootInsert
<1>3. ASSUME NEW s \in RootIds, DeleteRoot(s)
      PROVE  root_ca' = root_ca \ {s} /\ era' = era
  BY <1>3 DEF DeleteRoot
<1>4. CASE Crash \/ RowEdit
  BY <1>0, <1>4 DEF DeleteTlsCert, ImportTlsCertificate, Crash
<1>5. CASE \E q \in Requests : RequestStep(q)
  BY <1>0, <1>1, <1>2, <1>5
<1>6. CASE \E s \in RootIds : DeleteRoot(s)
  BY <1>0, <1>3, <1>6
<1> QED
  BY <1>4, <1>5, <1>6 DEF Next

\* What has lost its root does not get it back, and loses it only by deletion.
LEMMA StrayStep ==
  ASSUME IInv, Next, NEW r \in RootIds, NEW n \in Nat, n <= era[r]
  PROVE  /\ Stray(r, n) => Stray(r, n)'
         /\ ~Stray(r, n) /\ Stray(r, n)' => DeleteRoot(r)
<1>1. era[r] \in Nat /\ era'[r] \in Nat
  BY TypeStep DEF IInv, TypeOK
<1> QED
  BY <1>1, RootsStep DEF Stray

LEMMA LateGrows ==
  ASSUME Next
  PROVE  /\ late \subseteq late'
         /\ \A c \in cut \cap Certs :
              c \in cut' \/ \E r \in RootIds : ImportTlsCertificate(c, r)
<1>1. ASSUME NEW c \in Certs, NEW r \in RootIds, ImportTlsCertificate(c, r)
      PROVE  late' = late /\ \A d \in cut : d \in cut' \/ d = c
  BY <1>1 DEF ImportTlsCertificate
<1>2. CASE RowEdit
  BY <1>1, <1>2 DEF DeleteTlsCert
<1>3. CASE ~RowEdit
  BY <1>3 DEF Next, RequestStep, DeleteRoot, CreateRootRead, CreateRootInsert, IssueSign,
     IssueInsert, RevokeRead, RevokeUpdate, RevokeInsert, PublishNow, PublishRoots,
     PublishGenerate, PublishAbort, PublishPush, PublishDone, Fail, Crash
<1> QED
  BY <1>2, <1>3

\* A row keeps its root; a new row takes the root of the request that inserts it, or the one
\* named by the import.
LEMMA RowRoot ==
  ASSUME IInv, Next, NEW c \in Certs, Live(c)'
  PROVE  \/ /\ Live(c)
            /\ tls_keys'[c].root_ca_id = tls_keys[c].root_ca_id
            /\ tls_keys'[c].era = tls_keys[c].era
         \/ \E q \in Requests :
              /\ IssueInsert(q)
              /\ requests[q].pc = "sign"
              /\ requests[q].cert = c
              /\ tls_keys'[c].root_ca_id = requests[q].root
              /\ tls_keys'[c].era = requests[q].era
              /\ tls_keys'[c].is_revoked = FALSE
         \/ \E r \in RootIds :
              /\ ImportTlsCertificate(c, r)
              /\ tls_keys'[c].root_ca_id = r
              /\ tls_keys'[c].era = era[r]
<1> USE DEF IInv
<1>1. ASSUME Live(c), tls_keys'[c] = [tls_keys[c] EXCEPT !.is_revoked = TRUE]
      PROVE  /\ tls_keys'[c].root_ca_id = tls_keys[c].root_ca_id
             /\ tls_keys'[c].era = tls_keys[c].era
  BY <1>1 DEF Live, TypeOK, TlsKey
<1>2. ASSUME NEW q \in Requests, IssueInsert(q), requests[q].cert = c,
             tls_keys'[c] = [root_ca_id |-> requests[q].root, era |-> requests[q].era,
                             is_revoked |-> FALSE]
      PROVE  /\ requests[q].pc = "sign"
             /\ tls_keys'[c].root_ca_id = requests[q].root
             /\ tls_keys'[c].era = requests[q].era
             /\ tls_keys'[c].is_revoked = FALSE
  BY <1>2, Taken
<1>3. \A r \in RootIds : ImportTlsCertificate(c, r) =>
        tls_keys'[c].root_ca_id = r /\ tls_keys'[c].era = era[r]
  BY Importing
<1> QED
  BY <1>1, <1>2, <1>3, RowStep

\* Deleting a root takes its rows along.
LEMMA DeleteRootRows ==
  ASSUME NEW r \in RootIds, DeleteRoot(r), NEW c \in Certs, Live(c)'
  PROVE  Live(c) /\ tls_keys'[c] = tls_keys[c] /\ tls_keys'[c].root_ca_id # r
BY DEF DeleteRoot, Live

LEMMA EraStep ==
  ASSUME IInv, Next
  PROVE  EraInv'
<1> USE DEF IInv
<1>1. ASSUME NEW c \in Certs, Live(c)'
      PROVE  tls_keys'[c].era <= era'[tls_keys'[c].root_ca_id]
  <2>1. CASE /\ Live(c)
             /\ tls_keys'[c].root_ca_id = tls_keys[c].root_ca_id
             /\ tls_keys'[c].era = tls_keys[c].era
    <3>1. tls_keys[c] \in TlsKey /\ tls_keys[c].era <= era[tls_keys[c].root_ca_id]
      BY <2>1 DEF EraInv, Live, TypeOK
    <3>2. tls_keys[c].root_ca_id \in RootIds /\ tls_keys[c].era \in Nat
      BY <3>1 DEF TlsKey
    <3> QED
      BY <2>1, <3>1, <3>2, RootsStep, TypeStep DEF TypeOK
  <2>2. ASSUME NEW q \in Requests, requests[q].pc = "sign",
               tls_keys'[c].root_ca_id = requests[q].root, tls_keys'[c].era = requests[q].era
        PROVE  tls_keys'[c].era <= era'[tls_keys'[c].root_ca_id]
    <3>1. requests[q].era <= era[requests[q].root] /\ requests[q].root \in RootIds
          /\ requests[q].era \in Nat
      BY <2>2, HeldTypes DEF EraInv
    <3> QED
      BY <2>2, <3>1, RootsStep, TypeStep DEF TypeOK
  <2>3. ASSUME NEW r \in RootIds, tls_keys'[c].root_ca_id = r, tls_keys'[c].era = era[r]
        PROVE  tls_keys'[c].era <= era'[tls_keys'[c].root_ca_id]
    BY <2>3, RootsStep, TypeStep DEF TypeOK
  <2> QED
    BY <1>1, <2>1, <2>2, <2>3, RowRoot
<1>2. ASSUME NEW e \in crl_entries' PROVE e.era <= era'[e.root_ca_id]
  <2>1. CASE e \in crl_entries
    <3>1. e \in CrlEntry /\ e.era <= era[e.root_ca_id]
      BY <2>1 DEF EraInv, TypeOK
    <3>2. e.root_ca_id \in RootIds /\ e.era \in Nat
      BY <3>1 DEF CrlEntry
    <3> QED
      BY <3>1, <3>2, RootsStep, TypeStep DEF TypeOK
  <2>2. ASSUME NEW q \in Requests, RevokeInsert(q),
               e = [serial |-> requests[q].cert, root_ca_id |-> requests[q].root,
                    era |-> requests[q].era]
        PROVE  e.era <= era'[e.root_ca_id]
    <3>1. requests[q].pc = "insert"
      BY <2>2, Taken
    <3>2. requests[q].era <= era[requests[q].root] /\ requests[q].root \in RootIds
          /\ requests[q].era \in Nat
      BY <3>1, HeldTypes DEF EraInv
    <3> QED
      BY <2>2, <3>2, RootsStep, TypeStep DEF TypeOK
  <2> QED
    BY <1>2, <2>1, <2>2, EntryStep
<1>3. ASSUME NEW p \in Requests, requests'[p].pc \in {"sign", "update", "insert"}
      PROVE  /\ requests'[p].era <= era'[requests'[p].root]
             /\ requests'[p].root \notin root_ca' \/ era'[requests'[p].root] # requests'[p].era
                  => requests'[p].cert \in late' \cup Imported'
  <2>1. ASSUME requests[p].pc \in {"sign", "update", "insert"},
               requests'[p].cert = requests[p].cert, requests'[p].root = requests[p].root,
               requests'[p].era = requests[p].era
        PROVE  /\ requests'[p].era <= era'[requests'[p].root]
               /\ requests'[p].root \notin root_ca' \/ era'[requests'[p].root] # requests'[p].era
                    => requests'[p].cert \in late' \cup Imported'
    <3>1. /\ requests[p].era <= era[requests[p].root] /\ requests[p].root \in RootIds
          /\ requests[p].era \in Nat
          /\ Stray(requests[p].root, requests[p].era) => requests[p].cert \in late \cup Imported
      BY <2>1, HeldTypes DEF EraInv
    <3>2. requests[p].era <= era'[requests[p].root]
      BY <3>1, RootsStep, TypeStep DEF TypeOK
    <3>3. ASSUME DeleteRoot(requests[p].root) PROVE requests[p].cert \in late'
      BY <2>1, <3>1, <3>3 DEF DeleteRoot, HeldBy
    <3> QED
      BY <2>1, <3>1, <3>2, <3>3, StrayStep, LateGrows, RowIdKept DEF Stray
  <2>2. ASSUME NEW r \in RootIds, IssueSign(p, r)
        PROVE  /\ requests'[p].era <= era'[requests'[p].root]
               /\ requests'[p].root \in root_ca'
               /\ era'[requests'[p].root] = requests'[p].era
    <3>1. requests'[p].root = r /\ requests'[p].era = era[r]
      BY <2>2, Taken
    <3>2. r \in root_ca' /\ era' = era /\ era[r] \in Nat
      BY <2>2 DEF IssueSign, TypeOK
    <3> QED
      BY <3>1, <3>2
  <2>3. ASSUME NEW c \in Certs, RevokeRead(p, c)
        PROVE  /\ requests'[p].era <= era'[requests'[p].root]
               /\ requests'[p].root \notin root_ca' \/ era'[requests'[p].root] # requests'[p].era
                    => requests'[p].cert \in late' \cup Imported'
    <3>1. /\ requests'[p].root = tls_keys[c].root_ca_id
          /\ requests'[p].era = tls_keys[c].era
          /\ requests'[p].cert = c
      BY <2>3, Taken
    <3>2. Live(c) /\ era' = era /\ root_ca' = root_ca /\ late' = late /\ rowId' = rowId
      BY <2>3 DEF RevokeRead
    <3> QED
      BY <3>1, <3>2 DEF EraInv, StrayOnlyInFlight, Stray, Imported
  <2> QED
    BY <1>3, <2>1, <2>2, <2>3, HeldStep, Taken
<1> QED
  BY <1>1, <1>2, <1>3 DEF EraInv, Stray, Live

LEMMA StrayInvStep ==
  ASSUME IInv, Next
  PROVE  StrayOnlyInFlight'
<1> USE DEF IInv
<1>1. ASSUME NEW c \in Certs, Live(c)',
             \/ tls_keys'[c].root_ca_id \notin root_ca'
             \/ era'[tls_keys'[c].root_ca_id] # tls_keys'[c].era
      PROVE  c \in late' \cup Imported'
  <2>1. CASE /\ Live(c)
             /\ tls_keys'[c].root_ca_id = tls_keys[c].root_ca_id
             /\ tls_keys'[c].era = tls_keys[c].era
    <3>1. tls_keys[c] \in TlsKey /\ tls_keys[c].era <= era[tls_keys[c].root_ca_id]
      BY <2>1 DEF EraInv, Live, TypeOK
    <3>2. tls_keys[c].root_ca_id \in RootIds /\ tls_keys[c].era \in Nat
      BY <3>1 DEF TlsKey
    <3>3. ~DeleteRoot(tls_keys[c].root_ca_id)
      BY <1>1, <2>1, <3>2, DeleteRootRows
    <3> QED
      BY <1>1, <2>1, <3>1, <3>2, <3>3, StrayStep, LateGrows, RowIdKept DEF StrayOnlyInFlight, Stray
  <2>2. ASSUME NEW q \in Requests, IssueInsert(q), requests[q].pc = "sign",
               requests[q].cert = c,
               tls_keys'[c].root_ca_id = requests[q].root, tls_keys'[c].era = requests[q].era
        PROVE  c \in late' \cup Imported'
    <3>1. Stray(requests[q].root, requests[q].era)
      BY <1>1, <2>2 DEF IssueInsert, Stray
    <3> QED
      BY <2>2, <3>1, LateGrows, RowIdKept DEF EraInv
  <2>3. ASSUME NEW r \in RootIds, ImportTlsCertificate(c, r) PROVE c \in Imported'
    <3>1. rowId'[c] = rowId[c] + 1 /\ rowId[c] \in Nat
      BY <2>3, Importing DEF TypeOK
    <3> QED
      BY <3>1 DEF Imported
  <2> QED
    BY <1>1, <2>1, <2>2, <2>3, RowRoot
<1>2. ASSUME NEW e \in crl_entries', Stray(e.root_ca_id, e.era)'
      PROVE  e.serial \in late' \cup Imported'
  <2>1. CASE e \in crl_entries
    <3>1. e \in CrlEntry /\ e.era <= era[e.root_ca_id]
      BY <2>1 DEF EraInv, TypeOK
    <3>2. e.root_ca_id \in RootIds /\ e.era \in Nat
      BY <3>1 DEF CrlEntry
    <3>3. ~DeleteRoot(e.root_ca_id)
      BY <1>2 DEF DeleteRoot
    <3> QED
      BY <1>2, <2>1, <3>1, <3>2, <3>3, StrayStep, LateGrows, RowIdKept DEF StrayOnlyInFlight
  <2>2. ASSUME NEW q \in Requests, RevokeInsert(q),
               e = [serial |-> requests[q].cert, root_ca_id |-> requests[q].root,
                    era |-> requests[q].era]
        PROVE  e.serial \in late' \cup Imported'
    <3>1. Stray(requests[q].root, requests[q].era)
      BY <1>2, <2>2 DEF RevokeInsert, Stray
    <3>2. requests[q].pc = "insert"
      BY <2>2, Taken
    <3> QED
      BY <2>2, <3>1, <3>2, LateGrows, RowIdKept DEF EraInv
  <2> QED
    BY <1>2, <2>1, <2>2, EntryStep
<1> QED
  BY <1>1, <1>2 DEF StrayOnlyInFlight, Stray, Live

----------------------------------------------------------------------------
(* No revocation is lost between the row and the list *)

LEMMA InsertStep ==
  ASSUME TypeOK, Next, NEW q \in Requests, requests[q].pc = "insert",
         requests[q].id = rowId[requests[q].cert]
  PROVE  \/ requests'[q] = requests[q]
         \/ RevokeInsert(q)
         \/ requests[q].cert \in cut'
<1>1. ASSUME NEW p \in Requests, RequestStep(p), p # q PROVE requests'[q] = requests[q]
  BY <1>1, OthersStay
<1>2. CASE RequestStep(q)
  <2>1. RevokeInsert(q) \/ Fail(q)
    BY <1>2 DEF RequestStep, CreateRootRead, CreateRootInsert, IssueSign, IssueInsert, RevokeRead,
       RevokeUpdate, PublishNow, PublishRoots, PublishGenerate, PublishAbort, PublishPush,
       PublishDone
  <2> QED
    BY <2>1 DEF Fail, Cut
<1>3. CASE Crash
  BY <1>3 DEF Crash, Cut
<1>4. CASE (\E r \in RootIds : DeleteRoot(r)) \/ RowEdit
  BY <1>4 DEF DeleteRoot, DeleteTlsCert, ImportTlsCertificate
<1> QED
  BY <1>1, <1>2, <1>3, <1>4 DEF Next

LEMMA ListedStep ==
  ASSUME IInv, Next
  PROVE  RevokedIsListed'
<1> USE DEF IInv
<1> SUFFICES ASSUME NEW c \in Certs, Live(c)', tls_keys'[c].is_revoked
             PROVE  \/ \E e \in crl_entries' :
                          e.root_ca_id = tls_keys'[c].root_ca_id /\ e.serial = c
                    \/ \E q \in Requests : /\ requests'[q].pc = "insert"
                                         /\ requests'[q].cert = c
                                         /\ requests'[q].id = rowId'[c]
                    \/ c \in cut'
  BY DEF RevokedIsListed, Live, Listed
<1>5. Live(c) => rowId'[c] = rowId[c] /\ (c \in cut => c \in cut')
  BY RowIdKept, LateGrows, Importing
<1>1. CASE Live(c) /\ tls_keys'[c] = tls_keys[c]
  <2>1. CASE c \in Listed(tls_keys[c].root_ca_id)
    <3>1. PICK e \in crl_entries : e.root_ca_id = tls_keys[c].root_ca_id /\ e.serial = c
      BY <2>1, ListedDef
    <3>2. \A r \in RootIds : DeleteRoot(r) => r # e.root_ca_id
      BY <1>1, <3>1, DeleteRootRows
    <3> QED
      BY <1>1, <3>1, <3>2, EntryStays
  <2>2. ASSUME NEW q \in Requests, requests[q].pc = "insert", requests[q].cert = c,
               requests[q].id = rowId[c]
        PROVE  \/ \E e \in crl_entries' :
                     e.root_ca_id = tls_keys'[c].root_ca_id /\ e.serial = c
               \/ \E p \in Requests : /\ requests'[p].pc = "insert"
                                      /\ requests'[p].cert = c
                                      /\ requests'[p].id = rowId'[c]
               \/ c \in cut'
    <3>1. CASE RevokeInsert(q)
      <4>1. tls_keys'[c].root_ca_id = requests[q].root
        BY <1>1, <2>2 DEF RevokeInv, Current
      <4>2. [serial |-> c, root_ca_id |-> requests[q].root, era |-> requests[q].era]
              \in crl_entries'
        BY <2>2, <3>1 DEF RevokeInsert
      <4> QED
        BY <4>1, <4>2
    <3> QED
      BY <1>1, <1>5, <2>2, <3>1, InsertStep
  <2>3. CASE c \in cut
    BY <1>1, <1>5, <2>3
  <2> QED
    BY <1>1, <2>1, <2>2, <2>3 DEF RevokedIsListed
<1>2. ASSUME NEW q \in Requests, RevokeUpdate(q), requests[q].cert = c,
             requests[q].id = rowId[c]
      PROVE  /\ requests'[q].pc = "insert" /\ requests'[q].cert = c
             /\ requests'[q].id = rowId'[c]
  <2>1. rowId' = rowId
    BY <1>2 DEF RevokeUpdate
  <2> QED
    BY <1>2, <2>1, Taken
<1>3. ASSUME NEW q \in Requests,
             tls_keys'[c] = [root_ca_id |-> requests[q].root, era |-> requests[q].era,
                             is_revoked |-> FALSE]
      PROVE  FALSE
  BY <1>3
<1>4. \/ Live(c) /\ tls_keys'[c] = tls_keys[c]
      \/ \E q \in Requests :
           RevokeUpdate(q) /\ requests[q].cert = c /\ requests[q].id = rowId[c]
  BY <1>3, RowStep, Importing
<1> QED
  BY <1>1, <1>2, <1>4

----------------------------------------------------------------------------
(* What the remote copy lacks *)

\* A publication under way reaches the remote copy, or is remembered as missed.
LEMMA WayStep ==
  ASSUME IInv, Next, NEW c \in Certs, NEW r \in root_ca, c \in Listed(r), OnItsWay(c, r)
  PROVE  OnItsWay(c, r)' \/ c \in remote'[r] \/ r \in missed'
<1> USE DEF IInv
<1>1. PICK q \in Requests :
        \/ requests[q].pc = "roots"
        \/ requests[q].pc \in {"generate", "push"} /\ r \in requests[q].todo
        \/ requests[q].pc = "push" /\ requests[q].root = r /\ c \in requests[q].crl
  BY DEF OnItsWay
<1>2. requests[q] \in Request /\ q \in DOMAIN requests /\ r \in RootIds
  BY DEF TypeOK
<1>3. CASE requests'[q] = requests[q]
  BY <1>1, <1>3 DEF OnItsWay
<1>4. r \in Missed(q)
        \/ requests[q].pc \notin {"roots", "generate", "push"}
  BY <1>1 DEF Missed
<1>5. CASE RequestStep(q)
  <2>1. \/ PublishRoots(q) \/ PublishGenerate(q) \/ PublishAbort(q)
        \/ PublishPush(q) \/ PublishDone(q) \/ Fail(q)
    BY <1>1, <1>5 DEF RequestStep, CreateRootRead, CreateRootInsert, IssueSign, IssueInsert,
       RevokeRead, RevokeUpdate, RevokeInsert, PublishNow
  <2>2. CASE PublishRoots(q)
    <3>1. requests'[q] = [Idle EXCEPT !.pc = "generate", !.todo = root_ca]
      BY <1>2, <2>2 DEF PublishRoots
    <3>2. requests'[q].pc = "generate" /\ r \in requests'[q].todo
      BY <3>1 DEF Idle
    <3> QED
      BY <3>2 DEF OnItsWay
  <2>3. CASE PublishGenerate(q)
    <3>1. PICK s \in root_ca :
            requests' = [requests EXCEPT ![q] =
              [requests[q] EXCEPT !.pc = "push", !.root = s, !.todo = requests[q].todo \ {s},
                                  !.crl = Listed(s)]]
      BY <2>3 DEF PublishGenerate
    <3>2. /\ requests'[q].pc = "push" /\ requests'[q].root = s
          /\ requests'[q].todo = requests[q].todo \ {s} /\ requests'[q].crl = Listed(s)
      BY <1>2, <3>1 DEF Request
    <3>3. r \in requests[q].todo
      BY <1>1, <2>3 DEF PublishGenerate
    <3>4. r = s \/ r \in requests'[q].todo
      BY <3>2, <3>3
    <3> QED
      BY <3>2, <3>4 DEF OnItsWay
  <2>4. CASE PublishAbort(q)
    BY <1>1, <2>4 DEF PublishAbort
  <2>5. CASE PublishPush(q)
    <3>1. requests'[q] = [requests[q] EXCEPT !.pc = "generate", !.root = Null, !.crl = {}]
      BY <1>2, <2>5 DEF PublishPush
    <3>2. requests'[q].pc = "generate" /\ requests'[q].todo = requests[q].todo
      BY <1>2, <3>1 DEF Request
    <3>3. CASE r \in requests[q].todo
      BY <3>2, <3>3 DEF OnItsWay
    <3>4. CASE requests[q].root = r /\ c \in requests[q].crl
      BY <1>2, <2>5, <3>4 DEF PublishPush, TypeOK
    <3> QED
      BY <1>1, <2>5, <3>3, <3>4 DEF PublishPush
  <2>6. CASE PublishDone(q)
    BY <1>1, <2>6 DEF PublishDone
  <2>7. CASE Fail(q)
    BY <1>1, <1>4, <2>7 DEF Fail
  <2> QED
    BY <2>1, <2>2, <2>3, <2>4, <2>5, <2>6, <2>7
<1>6. ASSUME NEW p \in Requests, RequestStep(p), p # q PROVE requests'[q] = requests[q]
  BY <1>6, OthersStay
<1>7. CASE Crash
  BY <1>1, <1>4, <1>7 DEF Crash
<1>8. ASSUME (\E s \in RootIds : DeleteRoot(s)) \/ RowEdit
      PROVE  requests'[q] = requests[q]
  BY <1>8 DEF DeleteRoot, DeleteTlsCert, ImportTlsCertificate
<1> QED
  BY <1>3, <1>5, <1>6, <1>7, <1>8 DEF Next

\* What the remote copy has it keeps, unless an older list or a spoilt file replaces it.
LEMMA RemoteKeeps ==
  ASSUME IInv, Next, NEW c \in Certs, NEW r \in RootIds, c \in Listed(r), c \in remote[r]
  PROVE  c \in remote'[r] \/ r \in missed' \cup overtaken'
<1> USE DEF IInv
<1>1. ASSUME NEW q \in Requests, RequestStep(q), ~PublishPush(q), ~Fail(q)
      PROVE  remote' = remote
  BY <1>1 DEF RequestStep, CreateRootRead, CreateRootInsert, IssueSign, IssueInsert, RevokeRead,
       RevokeUpdate, RevokeInsert, PublishNow, PublishRoots, PublishGenerate, PublishAbort,
       PublishDone
<1>2. ASSUME NEW q \in Requests, PublishPush(q)
      PROVE  c \in remote'[r] \/ r \in overtaken'
  <2>1. CASE requests[q].root # r
    BY <1>2, <2>1 DEF PublishPush, TypeOK
  <2>2. CASE requests[q].root = r /\ c \in requests[q].crl
    BY <1>2, <2>2 DEF PublishPush, TypeOK
  <2>3. CASE requests[q].root = r /\ c \notin requests[q].crl
    BY <1>2, <2>3 DEF PublishPush, TypeOK
  <2> QED
    BY <2>1, <2>2, <2>3
<1>3. ASSUME NEW writers \in SUBSET Requests, Spoil(writers)
      PROVE  \/ remote'[r] = remote[r]
             \/ \E q \in writers : requests[q].pc = "push" /\ requests[q].root = r
  BY <1>3 DEF Spoil, TypeOK
<1>4. ASSUME NEW q \in Requests, requests[q].pc = "push", requests[q].root = r
      PROVE  r \in Missed(q)
  BY <1>4 DEF Missed
<1>5. ASSUME NEW q \in Requests, Fail(q) PROVE c \in remote'[r] \/ r \in missed'
  BY <1>3, <1>4, <1>5 DEF Fail
<1>6. CASE Crash
  BY <1>3, <1>4, <1>6 DEF Crash
<1>7. CASE (\E s \in RootIds : DeleteRoot(s)) \/ RowEdit
  BY <1>7 DEF DeleteRoot, DeleteTlsCert, ImportTlsCertificate
<1> QED
  BY <1>1, <1>2, <1>5, <1>6, <1>7 DEF Next

\* Only an upload of the current list makes good what was missed.
LEMMA ExcuseStep ==
  ASSUME IInv, Next, NEW c \in Certs, NEW r \in RootIds, c \in Listed(r),
         r \in missed \cup overtaken
  PROVE  c \in remote'[r] \/ r \in missed' \cup overtaken'
<1> USE DEF IInv
<1>1. ASSUME NEW q \in Requests, RequestStep(q), ~PublishPush(q)
      PROVE  missed \subseteq missed' /\ overtaken' = overtaken
  BY <1>1 DEF RequestStep, CreateRootRead, CreateRootInsert, IssueSign, IssueInsert, RevokeRead,
       RevokeUpdate, RevokeInsert, PublishNow, PublishRoots, PublishGenerate, PublishAbort,
       PublishDone, Fail
<1>2. ASSUME NEW q \in Requests, PublishPush(q)
      PROVE  c \in remote'[r] \/ r \in missed' \cup overtaken'
  <2>1. CASE requests[q].root = r /\ requests[q].crl = Listed(r)
    BY <1>2, <2>1 DEF PublishPush, TypeOK
  <2>2. CASE ~(requests[q].root = r /\ requests[q].crl = Listed(r))
    BY <1>2, <2>2 DEF PublishPush, TypeOK
  <2> QED
    BY <2>1, <2>2
<1>3. CASE Crash
  BY <1>3 DEF Crash
<1>4. CASE (\E s \in RootIds : DeleteRoot(s)) \/ RowEdit
  BY <1>4 DEF DeleteRoot, DeleteTlsCert, ImportTlsCertificate
<1> QED
  BY <1>1, <1>2, <1>3, <1>4 DEF Next

LEMMA RemoteInvStep ==
  ASSUME IInv, Next
  PROVE  RemoteLacksOnly'
<1> USE DEF IInv
<1> SUFFICES ASSUME NEW e \in crl_entries', ~Stray(e.root_ca_id, e.era)'
             PROVE  \/ e.serial \in remote'[e.root_ca_id]
                    \/ OnItsWay(e.serial, e.root_ca_id)'
                    \/ e.root_ca_id \in missed' \cup overtaken'
  BY DEF RemoteLacksOnly
<1>1. CASE e \in crl_entries
  <2>1. e \in CrlEntry /\ e.era <= era[e.root_ca_id]
    BY <1>1 DEF EraInv, TypeOK
  <2>2. e.serial \in Certs /\ e.root_ca_id \in RootIds /\ e.era \in Nat
    BY <2>1 DEF CrlEntry
  <2>3. ~Stray(e.root_ca_id, e.era) /\ e.root_ca_id \in root_ca
    BY <2>1, <2>2, StrayStep DEF Stray
  <2>4. e.serial \in Listed(e.root_ca_id)
    BY <1>1, ListedDef
  <2> QED
    BY <1>1, <2>2, <2>3, <2>4, WayStep, RemoteKeeps, ExcuseStep DEF RemoteLacksOnly
<1>2. ASSUME NEW q \in Requests, RevokeInsert(q)
      PROVE  OnItsWay(e.serial, e.root_ca_id)'
  BY <1>2, Taken DEF OnItsWay
<1> QED
  BY <1>1, <1>2, EntryStep

----------------------------------------------------------------------------
(* The theorems *)

LEMMA InitInv == Init => IInv
<1> SUFFICES ASSUME Init PROVE IInv
  OBVIOUS
<1>1. TypeOK
  BY InitType
<1>2. PICK seeds \in SUBSET Certs :
        /\ issued = seeds
        /\ tls_keys = [c \in Certs |->
             IF c \in seeds THEN [root_ca_id |-> 1, era |-> 1, is_revoked |-> FALSE] ELSE Null]
  BY DEF Init
<1>3. \A q \in Requests : requests[q].pc = "idle" /\ requests[q].crl = {}
  BY DEF Init, Idle
<1>4. \A r \in RootIds : Listed(r) = {} /\ remote[r] = {}
  BY DEF Init, Listed
<1>5. \A c \in Certs : ~Mentioned(c)
  BY <1>3, <1>4 DEF Mentioned
<1>6. ASSUME NEW c \in Certs, Live(c)
      PROVE  /\ c \in issued /\ tls_keys[c].root_ca_id = 1 /\ tls_keys[c].era = 1
             /\ tls_keys[c].is_revoked = FALSE
  BY <1>2, <1>6 DEF Live
<1>7. 1 \in root_ca /\ era[1] = 1 /\ crl_entries = {}
  BY RootsAssumption DEF Init
<1>8. RequestsInv /\ SignInv /\ RevokeInv
  BY <1>3 DEF RequestsInv, SignInv, RevokeInv
<1>9. IdsInv /\ MentionedInv /\ RowIdInv
  BY <1>3, <1>5, <1>6 DEF IdsInv, MentionedInv, RowIdInv, Init
<1>10. ASSUME NEW c \in Certs, Live(c)
       PROVE  /\ tls_keys[c].era <= era[tls_keys[c].root_ca_id]
              /\ ~Stray(tls_keys[c].root_ca_id, tls_keys[c].era)
  <2>1. tls_keys[c].root_ca_id = 1 /\ tls_keys[c].era = 1
    BY <1>6, <1>10
  <2>2. era[tls_keys[c].root_ca_id] = 1 /\ tls_keys[c].root_ca_id \in root_ca
    BY <1>7, <2>1
  <2> QED
    BY <2>1, <2>2 DEF Stray
<1>11. EraInv
  BY <1>3, <1>7, <1>10 DEF EraInv
<1>12. StrayOnlyInFlight
  BY <1>7, <1>10 DEF StrayOnlyInFlight
<1>13. RevokedIsListed /\ RemoteLacksOnly
  BY <1>6, <1>7 DEF RevokedIsListed, RemoteLacksOnly
<1> QED
  BY <1>1, <1>8, <1>9, <1>11, <1>12, <1>13 DEF IInv

LEMMA StutterInv == IInv /\ UNCHANGED vars => IInv'
BY DEF IInv, vars, TypeOK, RequestsInv, SignInv, IdsInv, RowIdInv, RevokeInv, MentionedInv, EraInv,
   RevokedIsListed, StrayOnlyInFlight, RemoteLacksOnly, Live, Mentioned, Listed, Holds, Stray,
   OnItsWay, Current, Imported

LEMMA NextInv == IInv /\ Next => IInv'
<1> SUFFICES ASSUME IInv, Next PROVE IInv'
  OBVIOUS
<1>1. TypeOK'
  BY TypeStep DEF IInv
<1> QED
  BY <1>1, RequestsStep, SignStep, IdsStep, RevokeStep, MentionedInvStep, EraStep, ListedStep,
     RowIdStep, StrayInvStep, RemoteInvStep DEF IInv

\* The inductive invariant of revocation and publication (api.rs, revoke_tls and
\* publish_crls), for every set of certificates, roots and concurrent requests.
THEOREM Invariant == Spec => []IInv
<1>1. IInv /\ [Next]_vars => IInv'
  BY NextInv, StutterInv
<1> QED
  BY InitInv, <1>1, PTL DEF Spec

\* The state keeps its type.
THEOREM TypeCorrect == Spec => []TypeOK
<1>1. IInv => TypeOK
  BY DEF IInv
<1> QED
  BY Invariant, <1>1, PTL

\* A certificate revoke_tls has marked is on the list of its authority, or the request
\* is at its INSERT, or it failed there.
THEOREM RevokedAreListed == Spec => []RevokedIsListed
<1>1. IInv => RevokedIsListed
  BY DEF IInv
<1> QED
  BY Invariant, <1>1, PTL

\* generate_crl_der never lists a certificate that is still valid, and no upload does.
THEOREM ListedAreRevoked == Spec => []ListedIsRevoked
<1>1. IInv => ListedIsRevoked
  BY DEF IInv, MentionedInv, Mentioned, ListedIsRevoked
<1> QED
  BY Invariant, <1>1, PTL

\* Rows and entries belong to the root that signed them, unless delete_root_cert ran while
\* a request held the certificate.
THEOREM StraysWereInFlight == Spec => []StrayOnlyInFlight
<1>1. IInv => StrayOnlyInFlight
  BY DEF IInv
<1> QED
  BY Invariant, <1>1, PTL

\* What the remote copy lacks is on its way, or publish_crls failed, stopped at a deleted
\* root or was overtaken.
THEOREM RemoteLacksNothingElse == Spec => []RemoteLacksOnly
<1>1. IInv => RemoteLacksOnly
  BY DEF IInv
<1> QED
  BY Invariant, <1>1, PTL

\* As long as an authority exists, the list it serves only grows.
THEOREM ServedForGood == Spec => ServedStaysServed
<1>1. ASSUME [Next]_vars, NEW r \in RootIds, r \in root_ca, r \in root_ca'
      PROVE  Listed(r) \subseteq Listed(r)'
  <2>1. CASE Next
    <3> SUFFICES ASSUME NEW e \in crl_entries, e.root_ca_id = r PROVE e \in crl_entries'
      BY DEF Listed
    <3>1. ~DeleteRoot(r)
      BY <1>1 DEF DeleteRoot
    <3> QED
      BY <2>1, <3>1, EntryStays
  <2>2. CASE UNCHANGED vars
    BY <2>2 DEF vars, Listed
  <2> QED
    BY <1>1, <2>1, <2>2
<1>2. [Next]_vars =>
        [\A r \in RootIds :
           r \in root_ca /\ r \in root_ca' /\ era'[r] = era[r]
             => Listed(r) \subseteq Listed(r)']_vars
  BY <1>1
<1> QED
  BY <1>2, PTL DEF Spec, ServedStaysServed

----------------------------------------------------------------------------
(* Lists keep to their own authority *)

\* The list a request is about to upload is of the root it names.
LEMMA PushStep ==
  ASSUME TypeOK, Next, NEW p \in Requests, requests'[p].pc = "push"
  PROVE  \/ requests'[p] = requests[p]
         \/ requests'[p].root \in RootIds /\ requests'[p].crl = Listed(requests'[p].root)
<1>1. requests[p] \in Request /\ p \in DOMAIN requests
  BY DEF TypeOK
<1>2. ASSUME NEW q \in Requests, RequestStep(q), q # p
      PROVE  requests'[p] = requests[p]
  BY <1>2, OthersStay
<1>3. CASE RequestStep(p)
  <2>1. ASSUME NEW r \in RootIds, IssueSign(p, r) PROVE FALSE
    BY <2>1, Taken
  <2>2. ASSUME NEW d \in Certs, RevokeRead(p, d) PROVE FALSE
    BY <2>2, Taken
  <2>3. ASSUME RevokeUpdate(p) \/ RevokeInsert(p) PROVE FALSE
    BY <2>3, Taken
  <2>4. ASSUME CreateRootInsert(p) \/ IssueInsert(p) \/ PublishAbort(p) \/ PublishDone(p)
               \/ Fail(p)
        PROVE  FALSE
    BY <1>1, <2>4 DEF CreateRootInsert, IssueInsert, PublishAbort, PublishDone, Fail, Idle
  <2>5. ASSUME NEW r, requests' = [requests EXCEPT ![p] =
                        [Idle EXCEPT !.pc = "create", !.root = r]]
        PROVE  FALSE
    BY <1>1, <2>5 DEF Idle
  <2>6. ASSUME PublishNow(p) \/ PublishRoots(p) PROVE FALSE
    BY <1>1, <2>6 DEF PublishNow, PublishRoots, Idle
  <2>7. ASSUME PublishPush(p) PROVE FALSE
    BY <1>1, <2>7 DEF PublishPush, Request
  <2>8. ASSUME PublishGenerate(p)
        PROVE  requests'[p].root \in RootIds /\ requests'[p].crl = Listed(requests'[p].root)
    <3>1. PICK r \in root_ca :
            requests' = [requests EXCEPT ![p] =
              [requests[p] EXCEPT !.pc = "push", !.root = r, !.todo = requests[p].todo \ {r},
                                  !.crl = Listed(r)]]
      BY <2>8 DEF PublishGenerate
    <3>2. requests'[p].crl = Listed(r) /\ requests'[p].root = r /\ r \in RootIds
      BY <1>1, <3>1 DEF Request, TypeOK
    <3> QED
      BY <3>2
  <2> QED
    BY <1>3, <2>1, <2>2, <2>3, <2>4, <2>5, <2>6, <2>7, <2>8 DEF RequestStep, CreateRootRead
<1>4. CASE Crash
  BY <1>4 DEF Crash, Idle
<1>5. CASE \E r \in RootIds : DeleteRoot(r)
  BY <1>5 DEF DeleteRoot
<1>6. CASE RowEdit
  BY <1>6 DEF DeleteTlsCert, ImportTlsCertificate
<1> QED
  BY <1>2, <1>3, <1>4, <1>5, <1>6 DEF Next

\* A copy comes from a request that uploads it.
LEMMA CopyStep ==
  ASSUME TypeOK, RequestsInv, Next, NEW r \in RootIds, NEW c, c \in remote'[r]
  PROVE  \/ c \in remote[r]
         \/ \E q \in Requests :
              requests[q].pc = "push" /\ requests[q].root = r /\ c \in requests[q].crl
<1>1. ASSUME NEW q \in Requests, RequestStep(q), ~PublishPush(q), ~Fail(q)
      PROVE  remote' = remote
  BY <1>1 DEF RequestStep, CreateRootRead, CreateRootInsert, IssueSign, IssueInsert, RevokeRead,
       RevokeUpdate, RevokeInsert, PublishNow, PublishRoots, PublishGenerate, PublishAbort,
       PublishDone
<1>2. ASSUME NEW q \in Requests, PublishPush(q)
      PROVE  \/ remote'[r] = remote[r]
             \/ /\ requests[q].pc = "push" /\ requests[q].root = r
                /\ remote'[r] = requests[q].crl
  BY <1>2, HeldTypes DEF PublishPush, TypeOK
<1>3. ASSUME NEW writers \in SUBSET Requests, Spoil(writers)
      PROVE  remote'[r] = remote[r] \/ remote'[r] = {}
  BY <1>3 DEF Spoil, TypeOK
<1>4. ASSUME NEW q \in Requests, Fail(q)
      PROVE  remote'[r] = remote[r] \/ remote'[r] = {}
  BY <1>3, <1>4 DEF Fail
<1>5. CASE Crash
  BY <1>3, <1>5 DEF Crash
<1>6. CASE \E s \in RootIds : DeleteRoot(s)
  BY <1>6 DEF DeleteRoot
<1>7. CASE RowEdit
  BY <1>7 DEF DeleteTlsCert, ImportTlsCertificate
<1> QED
  BY <1>1, <1>2, <1>4, <1>5, <1>6, <1>7 DEF Next

\* What a list names already keeps its authority: it is not issued again, but may be
\* imported again.
LEMMA MentionedKeeps ==
  ASSUME IInv, Next, NEW c \in Certs, Mentioned(c), Live(c)'
  PROVE  \/ Live(c) /\ tls_keys'[c].root_ca_id = tls_keys[c].root_ca_id
         \/ c \in returned'
<1>1. ASSUME NEW q \in Requests, requests[q].pc = "sign", requests[q].cert = c
      PROVE  FALSE
  BY <1>1 DEF IInv, SignInv
<1>2. \A r \in RootIds : ImportTlsCertificate(c, r) => c \in returned'
  BY Importing DEF IInv
<1> QED
  BY <1>1, <1>2, RowRoot

LEMMA OwnStep ==
  ASSUME IInv, Next, OwnInv
  PROVE  OwnInv'
<1> TypeOK /\ RequestsInv
  BY DEF IInv
<1>1. ASSUME NEW r \in RootIds, NEW c \in Certs, c \in Listed(r)', Live(c)'
      PROVE  tls_keys'[c].root_ca_id = r \/ c \in returned'
  <2>1. CASE c \in Listed(r)
    <3>1. Mentioned(c)
      BY <2>1 DEF Mentioned
    <3> QED
      BY <1>1, <2>1, <3>1, MentionedKeeps, RowIdKept DEF OwnInv
  <2>2. CASE c \notin Listed(r)
    <3>1. PICK e \in crl_entries' : e.root_ca_id = r /\ e.serial = c
      BY <1>1 DEF Listed
    <3>2. e \notin crl_entries
      BY <2>2, <3>1, ListedDef
    <3>3. PICK q \in Requests :
            /\ RevokeInsert(q)
            /\ e = [serial |-> requests[q].cert, root_ca_id |-> requests[q].root,
                    era |-> requests[q].era]
      BY <3>2, EntryStep
    <3>4. requests[q].pc = "insert" /\ requests[q].cert = c /\ requests[q].root = r
      BY <3>1, <3>3 DEF RevokeInsert
    <3>5. Live(c) => tls_keys[c].root_ca_id = r \/ c \in returned
      BY <3>4 DEF IInv, RevokeInv, RowIdInv, Current
    <3>7. \A t \in RootIds : ImportTlsCertificate(c, t) => c \in returned'
      BY <3>4, Importing DEF Holds
    <3>6. ASSUME NEW p \in Requests, requests[p].pc = "sign", requests[p].cert = c
          PROVE  FALSE
      <4>1. q = p
        BY <3>4, <3>6 DEF IInv, SignInv, Holds
      <4> QED
        BY <3>4, <3>6, <4>1
    <3> QED
      BY <1>1, <3>5, <3>6, <3>7, RowRoot, RowIdKept
  <2> QED
    BY <2>1, <2>2
<1>2. ASSUME NEW r \in RootIds, NEW c \in Certs, c \in remote'[r], Live(c)'
      PROVE  tls_keys'[c].root_ca_id = r \/ c \in returned'
  <2>1. CASE c \in remote[r]
    <3>1. Mentioned(c)
      BY <2>1 DEF Mentioned
    <3> QED
      BY <1>2, <2>1, <3>1, MentionedKeeps, RowIdKept DEF OwnInv
  <2>2. ASSUME NEW q \in Requests,
               requests[q].pc = "push" /\ requests[q].root = r /\ c \in requests[q].crl
        PROVE  tls_keys'[c].root_ca_id = r \/ c \in returned'
    <3>1. Mentioned(c)
      BY <2>2 DEF Mentioned
    <3> QED
      BY <1>2, <2>2, <3>1, MentionedKeeps, RowIdKept DEF OwnInv
  <2> QED
    BY <1>2, <2>1, <2>2, CopyStep
<1>3. ASSUME NEW q \in Requests, requests'[q].pc = "push",
             NEW c \in Certs, c \in requests'[q].crl, Live(c)'
      PROVE  tls_keys'[c].root_ca_id = requests'[q].root \/ c \in returned'
  <2>1. CASE requests'[q] = requests[q]
    <3>1. Mentioned(c)
      BY <1>3, <2>1 DEF Mentioned
    <3> QED
      BY <1>3, <2>1, <3>1, MentionedKeeps, RowIdKept DEF OwnInv
  <2>2. CASE requests'[q].root \in RootIds /\ requests'[q].crl = Listed(requests'[q].root)
    <3>1. Mentioned(c)
      BY <1>3, <2>2 DEF Mentioned
    <3> QED
      BY <1>3, <2>2, <3>1, MentionedKeeps, RowIdKept DEF OwnInv
  <2> QED
    BY <1>3, <2>1, <2>2, PushStep
<1>4. \A r \in RootIds : \A c \in Listed(r)' \cup remote'[r] : c \in Certs
  <2>1. TypeOK'
    BY TypeStep
  <2> QED
    BY <2>1, ListedType DEF TypeOK, Listed, CrlEntry
<1>5. \A q \in Requests : requests'[q].crl \subseteq Certs
  BY TypeStep DEF TypeOK, Request
<1> QED
  BY <1>1, <1>2, <1>3, <1>4, <1>5 DEF OwnInv, Live, Listed

\* No list names a certificate of another authority.
LEMMA OwnLists == Spec => []OwnInv
<1>1. Init => OwnInv
  <2> SUFFICES ASSUME Init PROVE OwnInv
    OBVIOUS
  <2>1. \A q \in Requests : requests[q].pc = "idle"
    BY DEF Init, Idle
  <2>2. \A r \in RootIds : Listed(r) = {} /\ remote[r] = {}
    BY DEF Init, Listed
  <2> QED
    BY <2>1, <2>2 DEF OwnInv
<1>2. IInv /\ OwnInv /\ [Next]_vars => OwnInv'
  <2>1. OwnInv /\ UNCHANGED vars => OwnInv'
    BY DEF OwnInv, vars, Live, Listed
  <2> QED
    BY <2>1, OwnStep
<1> QED
  BY Invariant, <1>1, <1>2, PTL DEF Spec

----------------------------------------------------------------------------
(* Revocation as those who check certificates see it *)

USE DEF Signing

\* No step but those of a signature changes who is being signed.
LEMMA SameSigners ==
  ASSUME TypeOK, NEW q \in Requests, RequestStep(q), requests[q].pc # "sign",
         \A r \in RootIds : ~IssueSign(q, r),
         NEW p \in Requests, NEW c \in Certs
  PROVE  Signing(p, c)' <=> Signing(p, c)
<1>1. requests'[q].pc # "sign"
  <2> SUFFICES ASSUME requests'[q].pc = "sign" PROVE FALSE
    OBVIOUS
  <2>1. Next
    BY DEF Next
  <2>2. requests'[q] # requests[q]
    OBVIOUS
  <2>3. ~RevokeUpdate(q) /\ \A d \in Certs : ~RevokeRead(q, d)
    BY Taken
  <2> QED
    BY <2>1, <2>2, <2>3, HeldStep
<1>2. p # q => requests'[p] = requests[p]
  BY OthersStay
<1> QED
  BY <1>1, <1>2

\* What Status depends on.
LEMMA SameStatus ==
  ASSUME UNCHANGED <<tls_keys, issued>>,
         \A p \in Requests, c \in Certs : Signing(p, c)' <=> Signing(p, c)
  PROVE  UNCHANGED <<Status, Signer>>
BY DEF Status, Signer, Live

LEMMA StatusIsFunction ==
  /\ Status = [c \in Certs |-> Status[c]]
  /\ Status' = [c \in Certs |-> Status'[c]]
BY DEF Status

LEMMA SameServed ==
  ASSUME UNCHANGED crl_entries
  PROVE  UNCHANGED Served
BY DEF Served, Listed

\* A certificate that is there was given out, and is not being signed.
LEMMA Present ==
  ASSUME IInv, NEW c \in Certs, Live(c)
  PROVE  /\ c \in issued
         /\ \A q \in Requests : ~Signing(q, c)
         /\ Status[c] = IF tls_keys[c].is_revoked THEN "revoked" ELSE "valid"
         /\ Signer[c] = tls_keys[c].root_ca_id
         /\ Signer[c] \in RootIds
BY DEF IInv, TypeOK, TlsKey, IdsInv, SignInv, Status, Signer, Live

LEMMA Absent ==
  ASSUME NEW c \in Certs, ~Live(c)
  PROVE  /\ Status[c] = IF c \notin issued \/ \E q \in Requests : Signing(q, c)
                          THEN "unissued" ELSE "gone"
         /\ Signer[c] = Null
BY DEF Status, Signer

LEMMA SameImported ==
  ASSUME UNCHANGED rowId
  PROVE  UNCHANGED Imported
BY DEF Imported

\* What is mentioned anywhere is withdrawn, or was imported.
LEMMA MentionedIsWithdrawn ==
  ASSUME IInv, NEW c \in Certs, Mentioned(c), c \notin Imported
  PROVE  c \in Register!Withdrawn
<1>1. CASE Live(c)
  <2>1. tls_keys[c].is_revoked
    BY <1>1 DEF IInv, MentionedInv, RowIdInv
  <2> QED
    BY <1>1, <2>1, Present DEF Register!Withdrawn
<1>2. CASE ~Live(c)
  <2>1. c \in issued /\ \A q \in Requests : ~Signing(q, c)
    BY DEF IInv, IdsInv, SignInv
  <2> QED
    BY <1>2, <2>1, Absent DEF Register!Withdrawn
<1> QED
  BY <1>1, <1>2

LEMMA IssueRefines ==
  ASSUME IInv, NEW q \in Requests, IssueInsert(q)
  PROVE  Register!Next
<1>0. PICK c \in Certs, r \in RootIds, row \in TlsKey :
        /\ c = requests[q].cert /\ r = requests[q].root
        /\ row = [root_ca_id |-> r, era |-> requests[q].era, is_revoked |-> FALSE]
  BY HeldTypes DEF IssueInsert, IInv, TlsKey
<1>1. row.root_ca_id = r /\ row.is_revoked = FALSE
  BY <1>0
<1>2. /\ tls_keys' = [tls_keys EXCEPT ![c] = row]
      /\ UNCHANGED <<root_ca, rowId, crl_entries, remote, issued>>
  BY <1>0 DEF IssueInsert
<1>3. ~Live(c) /\ Signing(q, c)
  BY <1>0 DEF IInv, SignInv, IssueInsert
<1>4. ASSUME NEW p \in Requests, NEW d \in Certs \ {c}
      PROVE  Signing(p, d)' <=> Signing(p, d)
  <2>1. p # q => requests'[p] = requests[p]
    BY OthersStay DEF RequestStep, IInv
  <2>2. requests'[q].pc = "idle"
    BY Taken DEF IInv
  <2> QED
    BY <1>0, <2>1, <2>2
<1>5. Live(c)' /\ tls_keys'[c] = row
  BY <1>1, <1>2, NullAssumption DEF IInv, TypeOK, Live
<1>6. \A d \in Certs \ {c} : (Live(d)' <=> Live(d)) /\ tls_keys'[d] = tls_keys[d]
  BY <1>2 DEF IInv, TypeOK, Live
<1>7. Status[c] = "unissued"
  BY <1>1, <1>3, Absent
<1>8. Status' = [Status EXCEPT ![c] = "valid"]
  <2>1. Status'[c] = "valid"
    BY <1>1, <1>5 DEF Status
  <2>2. \A d \in Certs \ {c} : Status'[d] = Status[d]
    BY <1>2, <1>4, <1>6 DEF Status
  <2> QED
    BY <2>1, <2>2, StatusIsFunction
<1>9. Signer' = [Signer EXCEPT ![c] = r]
  <2>1. Signer'[c] = r
    BY <1>1, <1>5 DEF Signer
  <2>2. \A d \in Certs \ {c} : Signer'[d] = Signer[d]
    BY <1>6 DEF Signer
  <2> QED
    BY <1>1, <2>1, <2>2 DEF Signer
<1>10. Register!Issue(c, r)
  BY <1>2, <1>7, <1>8, <1>9, SameServed, SameImported DEF Register!Issue
<1> QED
  BY <1>1, <1>10 DEF Register!Next

LEMMA RevokeRefines ==
  ASSUME IInv, NEW q \in Requests, RevokeUpdate(q)
  PROVE  Register!Next \/ UNCHANGED Register!vars
<1>0. PICK c \in Certs : c = requests[q].cert
  BY HeldTypes DEF RevokeUpdate, IInv
<1>1. c \in DOMAIN tls_keys
  BY DEF IInv, TypeOK
<1>2. /\ tls_keys'[c] = IF Live(c) /\ requests[q].id = rowId[c]
                           THEN [tls_keys[c] EXCEPT !.is_revoked = TRUE] ELSE tls_keys[c]
      /\ \A d \in Certs \ {c} : tls_keys'[d] = tls_keys[d]
      /\ UNCHANGED <<root_ca, rowId, crl_entries, remote, issued>>
  BY <1>0, <1>1 DEF RevokeUpdate, Live
<1>3. \A p \in Requests, d \in Certs : Signing(p, d)' <=> Signing(p, d)
  BY SameSigners DEF RevokeUpdate, IssueSign, RequestStep, IInv
<1>4. \A d \in Certs \ {c} : Status'[d] = Status[d] /\ Signer'[d] = Signer[d]
  BY <1>2, <1>3 DEF Status, Signer, Live
<1>5. CASE ~(Live(c) /\ requests[q].id = rowId[c])
  <2>1. Status'[c] = Status[c] /\ Signer'[c] = Signer[c]
    BY <1>1, <1>2, <1>3, <1>5 DEF Status, Signer, Live
  <2>2. UNCHANGED <<Status, Signer>>
    BY <1>4, <2>1 DEF Status, Signer
  <2> QED
    BY <1>2, <2>2, SameServed, SameImported DEF Register!vars
<1>6. CASE Live(c) /\ requests[q].id = rowId[c]
  <2>1. tls_keys[c] \in TlsKey
    BY <1>1, <1>6 DEF IInv, TypeOK, Live
  <2>2. /\ tls_keys'[c].root_ca_id = tls_keys[c].root_ca_id
        /\ tls_keys'[c].is_revoked = TRUE
        /\ tls_keys'[c] \in TlsKey
    BY <1>2, <1>6, <2>1, RowTypes DEF TlsKey
  <2>3. Live(c)'
    BY <2>2, NullAssumption DEF Live
  <2>4. Status'[c] = "revoked" /\ Signer'[c] = Signer[c]
    BY <1>1, <1>6, <2>2, <2>3 DEF Status, Signer
  <2>5. Signer' = Signer
    BY <1>4, <2>4 DEF Signer
  <2>6. CASE tls_keys[c].is_revoked
    <3>1. Status' = Status
      BY <1>1, <1>4, <1>6, <2>4, <2>6, Present DEF Status
    <3> QED
      BY <1>2, <2>5, <3>1, SameServed, SameImported DEF Register!vars
  <2>7. CASE ~tls_keys[c].is_revoked
    <3>1. Status' = [Status EXCEPT ![c] = "revoked"]
      BY <1>4, <2>4, StatusIsFunction
    <3>2. Status[c] = "valid"
      BY <1>1, <1>6, <2>7, Present
    <3>3. Register!Revoke(c)
      BY <1>2, <2>5, <3>1, <3>2, SameServed, SameImported DEF Register!Revoke
    <3> QED
      BY <1>1, <3>3 DEF Register!Next
  <2> QED
    BY <2>6, <2>7
<1> QED
  BY <1>5, <1>6

\* The row of an imported certificate says it is valid, whatever became of it before.
LEMMA ImportRefines ==
  ASSUME IInv, NEW c \in Certs, NEW r \in RootIds, ImportTlsCertificate(c, r)
  PROVE  Register!Next
<1>1. /\ ~Live(c) /\ Live(c)' /\ \A q \in Requests : ~Signing(q, c)
      /\ tls_keys'[c].root_ca_id = r /\ tls_keys'[c].is_revoked = FALSE
      /\ rowId'[c] = rowId[c] + 1 /\ rowId[c] \in Nat
      /\ \A d \in Certs \ {c} : tls_keys'[d] = tls_keys[d] /\ rowId'[d] = rowId[d]
      /\ UNCHANGED <<root_ca, crl_entries, remote, requests>>
  BY Importing DEF IInv, TypeOK
<1>2. issued' = issued \cup {c}
  BY DEF ImportTlsCertificate
<1>3. Status[c] \in {"unissued", "gone"}
  BY <1>1, Absent
<1>4. Status' = [Status EXCEPT ![c] = "valid"]
  <2>1. Status'[c] = "valid"
    BY <1>1 DEF Status
  <2>2. \A d \in Certs \ {c} : Status'[d] = Status[d]
    BY <1>1, <1>2 DEF Status, Live
  <2> QED
    BY <2>1, <2>2, StatusIsFunction
<1>5. Signer' = [Signer EXCEPT ![c] = r]
  <2>1. Signer'[c] = r
    BY <1>1 DEF Signer
  <2>2. \A d \in Certs \ {c} : Signer'[d] = Signer[d]
    BY <1>1 DEF Signer, Live
  <2> QED
    BY <2>1, <2>2 DEF Signer
<1>6. Imported' = Imported \cup {c}
  BY <1>1 DEF Imported
<1>7. Register!Import(c, r)
  BY <1>1, <1>3, <1>4, <1>5, <1>6, SameServed DEF Register!Import
<1> QED
  BY <1>7 DEF Register!Next

LEMMA DeleteRefines ==
  ASSUME IInv, NEW c \in Certs, DeleteTlsCert(c)
  PROVE  Register!Next
<1>1. /\ Live(c) /\ tls_keys' = [tls_keys EXCEPT ![c] = Null]
      /\ UNCHANGED <<root_ca, rowId, crl_entries, remote, issued, requests>>
  BY DEF DeleteTlsCert
<1>2. ~Live(c)' /\ \A d \in Certs \ {c} : tls_keys'[d] = tls_keys[d]
  BY <1>1 DEF IInv, TypeOK, Live
<1>3. Status' = [Status EXCEPT ![c] = "gone"]
  <2>1. Status'[c] = "gone"
    BY <1>1, <1>2, Present DEF Status
  <2>2. \A d \in Certs \ {c} : Status'[d] = Status[d]
    BY <1>1, <1>2 DEF Status, Live
  <2> QED
    BY <2>1, <2>2, StatusIsFunction
<1>4. Signer' = [Signer EXCEPT ![c] = Null]
  BY <1>2 DEF Signer, Live
<1>5. Register!Delete(c)
  BY <1>1, <1>3, <1>4, Present, SameServed, SameImported DEF Register!Delete
<1> QED
  BY <1>5 DEF Register!Next

LEMMA ListRefines ==
  ASSUME IInv, NEW q \in Requests, RevokeInsert(q)
  PROVE  Register!Next
<1> DEFINE c == requests[q].cert
           r == requests[q].root
           e == [serial |-> c, root_ca_id |-> r, era |-> requests[q].era]
<1>1. c \in Certs /\ r \in RootIds /\ requests[q].pc = "insert"
  BY HeldTypes DEF RevokeInsert, IInv
<1>2. crl_entries' = crl_entries \cup {e} /\ UNCHANGED <<root_ca, tls_keys, rowId, remote, issued>>
  BY DEF RevokeInsert
<1>3. \A p \in Requests, d \in Certs : Signing(p, d)' <=> Signing(p, d)
  BY SameSigners DEF RevokeInsert, IssueSign, RequestStep, IInv
<1>4. c \in Register!Listable(r)
  <2>3. CASE c \in Imported
    BY <2>3 DEF Register!Listable
  <2>1. CASE Live(c) /\ c \notin Imported
    <3>0. Current(q)
      BY <1>1, <2>1 DEF IInv, RowIdInv, Current
    <3>1. tls_keys[c].root_ca_id = r /\ tls_keys[c].is_revoked
      BY <1>1, <3>0 DEF IInv, RevokeInv
    <3> QED
      BY <1>1, <2>1, <3>1, Present DEF Register!Listable, Register!Withdrawn
  <2>2. CASE ~Live(c)
    <3>1. c \in issued
      BY <1>1 DEF IInv, RequestsInv
    <3>2. ASSUME NEW p \in Requests, Signing(p, c) PROVE FALSE
      <4>1. q = p
        BY <1>1, <3>2 DEF IInv, SignInv, Holds
      <4> QED
        BY <1>1, <3>2, <4>1
    <3> QED
      BY <1>1, <2>2, <3>1, <3>2, Absent DEF Register!Listable, Register!Withdrawn
  <2> QED
    BY <2>1, <2>2, <2>3
<1>5. Served' = [Served EXCEPT ![r] = @ \cup {c}]
  <2>1. \A s \in RootIds : Listed(s)' = Listed(s) \cup (IF s = r THEN {c} ELSE {})
    <3>1. \A s \in RootIds : \A x : x \in Listed(s)' <=>
            \E k \in crl_entries' : k.root_ca_id = s /\ k.serial = x
      BY DEF Listed
    <3>2. e.root_ca_id = r /\ e.serial = c
      OBVIOUS
    <3> HIDE DEF c, r, e
    <3>3. ASSUME NEW s \in RootIds, NEW x
          PROVE  x \in Listed(s)' <=> x \in Listed(s) \/ (s = r /\ x = c)
      <4>1. x \in Listed(s)' <=> \E k \in crl_entries \cup {e} : k.root_ca_id = s /\ k.serial = x
        BY <1>2, <3>1
      <4>2. x \in Listed(s) <=> \E k \in crl_entries : k.root_ca_id = s /\ k.serial = x
        BY ListedDef
      <4> QED
        BY <3>2, <4>1, <4>2
    <3> QED
      BY <3>3
  <2> QED
    BY <1>1, <2>1 DEF Served
<1>6. Register!List(r, c)
  BY <1>2, <1>3, <1>4, <1>5, SameStatus, SameImported DEF Register!List
<1> QED
  BY <1>1, <1>6 DEF Register!Next

LEMMA AbolishRefines ==
  ASSUME IInv, NEW r \in RootIds, DeleteRoot(r)
  PROVE  Register!Next
<1>1. /\ r \in root_ca /\ root_ca' = root_ca \ {r}
      /\ crl_entries' = {e \in crl_entries : e.root_ca_id # r}
      /\ tls_keys' = [c \in Certs |->
           IF Live(c) /\ tls_keys[c].root_ca_id = r THEN Null ELSE tls_keys[c]]
      /\ UNCHANGED <<rowId, remote, issued, requests>>
  BY DEF DeleteRoot
<1>2. ASSUME NEW c \in Certs
      PROVE  /\ Status'[c] = IF Signer[c] = r THEN "gone" ELSE Status[c]
             /\ Signer'[c] = IF Signer[c] = r THEN Null ELSE Signer[c]
  <2>1. CASE Live(c) /\ tls_keys[c].root_ca_id = r
    <3>1. ~Live(c)'
      BY <1>1, <2>1 DEF Live
    <3> QED
      BY <1>1, <2>1, <3>1, Present DEF Status, Signer
  <2>2. CASE ~(Live(c) /\ tls_keys[c].root_ca_id = r)
    <3>1. tls_keys'[c] = tls_keys[c] /\ (Live(c)' <=> Live(c))
      BY <1>1, <2>2 DEF Live
    <3>2. Signer[c] # r
      BY <2>2, NamesAssumption DEF Signer
    <3> QED
      BY <1>1, <3>1, <3>2 DEF Status, Signer
  <2> QED
    BY <2>1, <2>2
<1>3. Status' = [c \in Certs |-> IF Signer[c] = r THEN "gone" ELSE Status[c]]
  BY <1>2 DEF Status
<1>4. Signer' = [c \in Certs |-> IF Signer[c] = r THEN Null ELSE Signer[c]]
  BY <1>2 DEF Signer
<1>5. Served' = [Served EXCEPT ![r] = {}]
  <2>1. \A s \in RootIds : Listed(s)' = IF s = r THEN {} ELSE Listed(s)
    BY <1>1 DEF Listed
  <2> QED
    BY <2>1 DEF Served
<1>6. Register!Abolish(r)
  BY <1>1, <1>3, <1>4, <1>5, SameImported DEF Register!Abolish
<1> QED
  BY <1>6 DEF Register!Next

LEMMA PublishRefines ==
  ASSUME IInv, OwnInv, NEW q \in Requests, PublishPush(q)
  PROVE  Register!Next
<1> DEFINE r == requests[q].root
           crl == requests[q].crl
<1>1. r \in RootIds /\ crl \subseteq Certs /\ requests[q].pc = "push"
  BY HeldTypes DEF PublishPush, IInv
<1>2. remote' = [remote EXCEPT ![r] = crl]
      /\ UNCHANGED <<root_ca, tls_keys, rowId, crl_entries, issued>>
  BY DEF PublishPush
<1>3. \A p \in Requests, d \in Certs : Signing(p, d)' <=> Signing(p, d)
  BY SameSigners DEF PublishPush, IssueSign, RequestStep, IInv
<1>4. ASSUME NEW c \in crl PROVE c \in Register!Listable(r)
  <2>1. Mentioned(c) /\ c \in Certs
    BY <1>1 DEF Mentioned
  <2>2. Signer[c] \in {r, Null} \/ c \in returned
    BY <1>1, <2>1, Present, Absent DEF OwnInv
  <2> QED
    BY <2>1, <2>2, MentionedIsWithdrawn DEF Register!Listable, IInv, RowIdInv
<1>5. Register!Publish(r, crl)
  BY <1>2, <1>3, <1>4, SameStatus, SameServed, SameImported DEF Register!Publish
<1> QED
  BY <1>1, <1>5 DEF Register!Next

\* A request, or all of them, stop where they are.
LEMMA InterruptRefines ==
  ASSUME IInv, NEW writers \in SUBSET Requests, Spoil(writers),
         UNCHANGED <<tables, issued>>,
         \A p \in Requests : requests'[p] \in {requests[p], Idle}
  PROVE  Register!Next
<1> DEFINE lost == {c \in Certs : Status[c] = "unissued" /\ Status'[c] # "unissued"}
<1>1. PICK spoilt \in SUBSET {requests[q].root : q \in {p \in writers : requests[p].pc = "push"}} :
        remote' = [r \in RootIds |-> IF r \in spoilt THEN {} ELSE remote[r]]
  BY DEF Spoil
<1>2. spoilt \in SUBSET RootIds
  BY HeldTypes DEF IInv
<1>3. \A c \in Certs : (Live(c)' <=> Live(c)) /\ tls_keys'[c] = tls_keys[c]
  BY DEF Live
<1>4. \A p \in Requests, c \in Certs : Signing(p, c)' => Signing(p, c)
  BY DEF Idle
<1>5. ASSUME NEW c \in Certs
      PROVE  Status'[c] = IF c \in lost THEN "gone" ELSE Status[c]
  BY <1>3, <1>4 DEF Status
<1>6. Status' = [c \in Certs |-> IF c \in lost THEN "gone" ELSE Status[c]]
  BY <1>5 DEF Status
<1>7. Signer' = Signer
  BY <1>3 DEF Signer
<1>8. Register!Interrupt(lost, spoilt)
  BY <1>1, <1>6, <1>7, SameServed, SameImported DEF Register!Interrupt
<1> QED
  BY <1>2, <1>8 DEF Register!Next

\* Signing takes a certificate nobody has seen.
LEMMA SignRefines ==
  ASSUME IInv, NEW q \in Requests, NEW r \in RootIds, IssueSign(q, r)
  PROVE  UNCHANGED Register!vars
<1>1. PICK c \in Certs : c = FreshId /\ c \notin issued
  BY FreshIdType DEF IssueSign
<1>2. issued' = issued \cup {c} /\ UNCHANGED <<tables, remote>> /\ requests[q].pc = "idle"
  BY <1>1 DEF IssueSign
<1>3. Signing(q, c)'
  BY <1>1, Taken DEF IInv
<1>4. ASSUME NEW d \in Certs \ {c}, NEW p \in Requests PROVE Signing(p, d)' <=> Signing(p, d)
  <2>1. p # q => requests'[p] = requests[p]
    BY OthersStay DEF RequestStep, IInv
  <2>2. requests'[q].cert = c
    BY <1>1, Taken DEF IInv
  <2> QED
    BY <1>2, <2>1, <2>2
<1>5. ASSUME NEW d \in Certs
      PROVE  Status'[d] = Status[d] /\ Signer'[d] = Signer[d]
  BY <1>1, <1>2, <1>3, <1>4 DEF Status, Signer, Live
<1>6. UNCHANGED <<Status, Signer>>
  BY <1>5 DEF Status, Signer
<1> QED
  BY <1>2, <1>6, SameServed, SameImported DEF Register!vars

\* What those who check certificates do not notice, and a root that is created.
LEMMA QuietRefines ==
  ASSUME IInv, NEW q \in Requests, RequestStep(q),
         requests[q].pc # "sign", \A r \in RootIds : ~IssueSign(q, r),
         ~RevokeUpdate(q), ~RevokeInsert(q), ~PublishPush(q), ~Fail(q)
  PROVE  Register!Next \/ UNCHANGED Register!vars
<1>1. \A p \in Requests, d \in Certs : Signing(p, d)' <=> Signing(p, d)
  BY SameSigners DEF IInv
<1>2. CASE CreateRootInsert(q)
  <2> DEFINE r == requests[q].root
  <2>1. r \in RootIds /\ root_ca' = root_ca \cup {r}
        /\ UNCHANGED <<tls_keys, rowId, issued, crl_entries, remote>>
    BY <1>2, HeldTypes DEF CreateRootInsert, IInv
  <2>2. UNCHANGED <<Status, Signer, Served, remote, Imported>>
    BY <1>1, <2>1, SameStatus, SameServed, SameImported
  <2>3. CASE r \in root_ca
    BY <2>1, <2>2, <2>3 DEF Register!vars
  <2>4. CASE r \notin root_ca
    BY <2>1, <2>2, <2>4 DEF Register!Next, Register!Establish
  <2> QED
    BY <2>3, <2>4
<1>3. CASE ~CreateRootInsert(q)
  <2>1. UNCHANGED <<tables, remote, issued>>
    BY <1>3 DEF RequestStep, CreateRootRead, IssueInsert, RevokeRead, PublishNow, PublishRoots,
       PublishGenerate, PublishAbort, PublishDone
  <2> QED
    BY <1>1, <2>1, SameStatus, SameServed, SameImported DEF Register!vars
<1> QED
  BY <1>2, <1>3

LEMMA NextRefines ==
  ASSUME IInv, OwnInv, [Next]_vars
  PROVE  [Register!Next]_(Register!vars)
<1>1. ASSUME NEW r \in RootIds, DeleteRoot(r) PROVE Register!Next
  BY <1>1, AbolishRefines
<1>2. ASSUME NEW c \in Certs, DeleteTlsCert(c) PROVE Register!Next
  BY <1>2, DeleteRefines
<1>6. ASSUME NEW c \in Certs, NEW r \in RootIds, ImportTlsCertificate(c, r) PROVE Register!Next
  BY <1>6, ImportRefines
<1>3. ASSUME NEW q \in Requests, RequestStep(q)
      PROVE  Register!Next \/ UNCHANGED Register!vars
  <2>1. ASSUME Fail(q) PROVE Register!Next
    <3>1. Spoil({q}) /\ UNCHANGED <<tables, issued>>
          /\ \A p \in Requests : requests'[p] \in {requests[p], Idle}
      BY <2>1 DEF Fail, IInv, TypeOK
    <3> QED
      BY <3>1, InterruptRefines
  <2>2. ASSUME NEW r \in RootIds, IssueSign(q, r) PROVE UNCHANGED Register!vars
    BY <2>2, SignRefines
  <2>3. CASE requests[q].pc = "sign" /\ ~Fail(q)
    <3>1. IssueInsert(q)
      BY <1>3, <2>3 DEF RequestStep, CreateRootRead, CreateRootInsert, IssueSign, RevokeRead,
         RevokeUpdate, RevokeInsert, PublishNow, PublishRoots, PublishGenerate, PublishAbort,
         PublishPush, PublishDone
    <3> QED
      BY <3>1, IssueRefines
  <2> QED
    BY <1>3, <2>1, <2>2, <2>3, RevokeRefines, ListRefines, PublishRefines, QuietRefines
<1>4. CASE Crash
  <2>1. Spoil(Requests) /\ UNCHANGED <<tables, issued>>
        /\ \A p \in Requests : requests'[p] \in {requests[p], Idle}
    BY <1>4 DEF Crash
  <2> QED
    BY <2>1, InterruptRefines
<1>5. CASE UNCHANGED vars
  BY <1>5, SameStatus, SameServed, SameImported DEF vars, Register!vars
<1> QED
  BY <1>1, <1>2, <1>3, <1>4, <1>5, <1>6 DEF Next

LEMMA InitRefines == Init => Register!Init
<1> SUFFICES ASSUME Init PROVE Register!Init
  OBVIOUS
<1>1. IInv
  BY InitInv
<1>2. ASSUME NEW c \in Certs PROVE Status[c] \in {"unissued", "valid"}
  <2>1. CASE Live(c)
    <3>1. tls_keys[c].is_revoked = FALSE
      <4>1. PICK seeds \in SUBSET Certs :
              tls_keys = [d \in Certs |->
                IF d \in seeds THEN [root_ca_id |-> 1, era |-> 1, is_revoked |-> FALSE]
                               ELSE Null]
        BY DEF Init
      <4> QED
        BY <2>1, <4>1 DEF Live
    <3> QED
      BY <1>1, <2>1, <3>1, Present
  <2>2. CASE ~Live(c)
    <3>1. c \notin issued
      <4>1. PICK seeds \in SUBSET Certs :
              /\ issued = seeds
              /\ tls_keys = [d \in Certs |->
                   IF d \in seeds THEN [root_ca_id |-> 1, era |-> 1, is_revoked |-> FALSE]
                                  ELSE Null]
        BY DEF Init
      <4>2. c \in seeds => tls_keys[c] \in TlsKey
        BY <4>1, RootsAssumption DEF TlsKey
      <4> QED
        BY <2>2, <4>1, <4>2, NullAssumption DEF Live
    <3> QED
      BY <2>2, <3>1, Absent
  <2> QED
    BY <2>1, <2>2
<1>3. ASSUME NEW c \in Certs PROVE Signer[c] \in RootIds \cup {Null}
  BY <1>1, Present, Absent
<1>4. Served = [r \in RootIds |-> {}]
  BY DEF Init, Served, Listed
<1>5. Status \in [Certs -> {"unissued", "valid"}]
  BY <1>2 DEF Status
<1>6. Signer \in [Certs -> RootIds \cup {Null}]
  BY <1>3 DEF Signer
<1>7. \A c \in Certs : Status[c] = "unissued" => Signer[c] = Null
  BY <1>1, Present, Absent
<1>8. Imported = {}
  BY DEF Init, Imported
<1> QED
  BY <1>1, <1>4, <1>5, <1>6, <1>7, <1>8, RootsAssumption DEF Init, Register!Init

\* revoke_tls, delete_tls_cert, delete_root_cert, generate_tls_key and publish_crls keep
\* what Revocation promises: every step of theirs is one of it or is not noticed.
THEOREM RevocationHolds == Spec => RevocationIsFinal
<1>1. IInv /\ OwnInv /\ [Next]_vars => [Register!Next]_(Register!vars)
  BY NextRefines
<1> QED
  BY InitRefines, Invariant, OwnLists, <1>1, PTL DEF Spec, RevocationIsFinal, Register!Spec

\* What is withdrawn stays so, unless it is imported, and what may be listed may always be.
LEMMA RegisterKept ==
  ASSUME Register!Inv, [Register!Next]_(Register!vars)
  PROVE  /\ Register!Inv'
         /\ Register!Withdrawn \cup Imported \subseteq Register!Withdrawn' \cup Imported'
<1> USE NamesAssumption DEF Register!Inv, Register!Withdrawn, Register!Listable
<1> DEFINE Kept == Register!Withdrawn \cup Imported \subseteq Register!Withdrawn' \cup Imported'
           Goal == Register!Inv' /\ Kept
<1>1. ASSUME NEW c \in Certs, NEW r \in RootIds, Register!Issue(c, r) PROVE Goal
  BY <1>1 DEF Register!Issue
<1>2. ASSUME NEW c \in Certs, Register!Revoke(c) PROVE Goal
  BY <1>2 DEF Register!Revoke
<1>3. ASSUME NEW c \in Certs, Register!Delete(c) PROVE Goal
  <2>1. /\ Status[c] \in {"valid", "revoked"}
        /\ Status' = [Status EXCEPT ![c] = "gone"]
        /\ Signer' = [Signer EXCEPT ![c] = Null]
        /\ Served' = Served /\ remote' = remote /\ Imported' = Imported
    BY <1>3 DEF Register!Delete
  <2>2. \A d \in Certs : Signer'[d] = IF d = c THEN Null ELSE Signer[d]
    BY <2>1 DEF Signer
  <2> HIDE DEF Register!Withdrawn, Register!Listable
  <2>3. ASSUME NEW d \in Register!Withdrawn PROVE d \in Register!Withdrawn'
    BY <2>1 DEF Register!Withdrawn
  <2>4. ASSUME NEW s \in RootIds, NEW d \in Register!Listable(s)
        PROVE  d \in Register!Listable(s)'
    BY <2>1, <2>2, <2>3 DEF Register!Listable, Register!Withdrawn
  <2>5. Status' \in [Certs -> {"unissued", "valid", "revoked", "gone"}]
    BY <2>1
  <2>6. \A d \in Certs : Signer'[d] # Null => Status'[d] \in {"valid", "revoked"}
    BY <2>1, <2>2
  <2>7. \A s \in RootIds : Served'[s] \cup remote'[s] \subseteq Register!Listable(s)'
    BY <2>1, <2>4
  <2> QED
    BY <2>1, <2>3, <2>5, <2>6, <2>7
<1>4. ASSUME NEW c \in Certs, NEW r \in RootIds, Register!List(r, c) PROVE Goal
  BY <1>4 DEF Register!List
<1>5. ASSUME NEW r \in RootIds, Register!Establish(r) PROVE Goal
  BY <1>5 DEF Register!Establish
<1>6. ASSUME NEW r \in RootIds, Register!Abolish(r) PROVE Goal
  <2>1. /\ Status' = [c \in Certs |-> IF Signer[c] = r THEN "gone" ELSE Status[c]]
        /\ Signer' = [c \in Certs |-> IF Signer[c] = r THEN Null ELSE Signer[c]]
        /\ Served' = [Served EXCEPT ![r] = {}]
        /\ remote' = remote /\ Imported' = Imported
    BY <1>6 DEF Register!Abolish
  <2> HIDE DEF Register!Withdrawn, Register!Listable
  <2>2. ASSUME NEW c \in Register!Withdrawn PROVE c \in Register!Withdrawn'
    BY <2>1 DEF Register!Withdrawn
  <2>3. ASSUME NEW s \in RootIds, NEW c \in Register!Listable(s)
        PROVE  c \in Register!Listable(s)'
    BY <2>1, <2>2 DEF Register!Listable, Register!Withdrawn
  <2>4. \A s \in RootIds : Served'[s] \subseteq Served[s]
    BY <2>1 DEF Served
  <2>5. Status' \in [Certs -> {"unissued", "valid", "revoked", "gone"}]
    BY <2>1
  <2>6. \A c \in Certs : Signer'[c] # Null => Status'[c] \in {"valid", "revoked"}
    BY <2>1
  <2>7. \A s \in RootIds : Served'[s] \cup remote'[s] \subseteq Register!Listable(s)'
    BY <2>1, <2>3, <2>4
  <2> QED
    BY <2>1, <2>2, <2>5, <2>6, <2>7
<1>7. ASSUME NEW r \in RootIds, NEW list \in SUBSET Certs,
             Register!Publish(r, list)
      PROVE  Goal
  BY <1>7 DEF Register!Publish
<1>8. ASSUME NEW lost \in SUBSET Certs, NEW spoilt \in SUBSET RootIds,
             Register!Interrupt(lost, spoilt)
      PROVE  Goal
  BY <1>8 DEF Register!Interrupt
<1>9. CASE UNCHANGED Register!vars
  BY <1>9 DEF Register!vars
<1>10. ASSUME NEW c \in Certs, NEW r \in RootIds, Register!Import(c, r) PROVE Goal
  BY <1>10 DEF Register!Import
<1> QED
  BY <1>1, <1>2, <1>3, <1>4, <1>5, <1>6, <1>7, <1>8, <1>9, <1>10 DEF Register!Next

\* Who has seen a certificate on a list of generate_crl_der, or on an uploaded one, never
\* meets it valid again, even if the list was deleted or the upload overwritten since,
\* unless import_tls_certificate brought it in, before or afterwards.
COROLLARY ListedIsFinal ==
  ASSUME NEW c \in Certs, NEW r \in RootIds
  PROVE  Spec => Register!ListedForGood(c, r)
<1> DEFINE Out == c \in Register!Withdrawn \cup Imported
<1>1. Register!Init => Register!Inv
  BY DEF Register!Init, Register!Inv
<1>2. Register!Inv /\ [Register!Next]_(Register!vars) => Register!Inv'
  BY RegisterKept
<1>3. Register!Inv => (c \in Served[r] \cup remote[r] => Out)
  BY DEF Register!Inv, Register!Listable
<1>4. Out /\ Register!Inv /\ [Register!Next]_(Register!vars) => Out'
  BY RegisterKept
<1>5. Spec => []Register!Inv /\ [][Register!Next]_(Register!vars)
  BY RevocationHolds, <1>1, <1>2, PTL DEF RevocationIsFinal, Register!Spec
<1>6. Spec => [](c \in Served[r] \cup remote[r] => []Out)
  BY <1>3, <1>4, <1>5, PTL
<1> QED
  BY <1>6 DEF Register!ListedForGood

=============================================================================
