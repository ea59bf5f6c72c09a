------------------------- MODULE SecondFactorProofs -------------------------
(***************************************************************************)
(* The safety properties of SecondFactor, proved for every number of       *)
(* concurrent requests, every size of a set of codes and every bound, and  *)
(* that recovery codes implement OneTime.                                  *)
(***************************************************************************)
EXTENDS SecondFactor, TLAPS

USE DEF bounds, display, ids, history, Edit, Fault

----------------------------------------------------------------------------
(* What a step does to the record of its request *)

\* The record of q becomes the given one and the others stay.
Becomes(q, pc, secret, code, left, batch) ==
  /\ requests' \in [Requests -> Request]
  /\ requests'[q] = [pc |-> pc, secret |-> secret, code |-> code, left |-> left,
                     batch |-> batch]
  /\ \A p \in Requests : p # q => requests'[p] = requests[p]

LEMMA FreshSecretType ==
  ASSUME ~(Secrets \subseteq secretsOut)
  PROVE  FreshSecret \in Secrets /\ FreshSecret \notin secretsOut
BY DEF FreshSecret

LEMMA FreshCodeType ==
  ASSUME ~(Codes \subseteq codesOut)
  PROVE  FreshCode \in Codes /\ FreshCode \notin codesOut
BY DEF FreshCode

\* The record of q becomes one of the right type.
LEMMA Moves ==
  ASSUME TypeOK, NEW q \in Requests, NEW req \in Request,
         requests' = [requests EXCEPT ![q] = req]
  PROVE  Becomes(q, req.pc, req.secret, req.code, req.left, req.batch)
<1>1. req = [pc |-> req.pc, secret |-> req.secret, code |-> req.code, left |-> req.left,
             batch |-> req.batch]
  BY DEF Request
<1> QED
  BY <1>1 DEF TypeOK, Becomes

\* A request that starts holds what its record says, one that ends holds nothing.
LEMMA StartMoves ==
  ASSUME TypeOK, NEW q \in Requests
  PROVE  /\ Finish(q) => Becomes(q, "idle", Null, Null, 0, {})
         /\ BeginRead(q) => Becomes(q, "begin", FreshSecret, Null, 0, {})
         /\ ConfirmRead(q) => Becomes(q, "enable", user.secret, Null, 0, {})
         /\ DisableRead(q) => Becomes(q, "disable", Null, Null, 0, {})
         /\ RegenerateRead(q) => Becomes(q, "clear", Null, Null, 0, {})
         /\ IssueClear(q) => Becomes(q, "insert", Null, Null, CodeCount, {})
<1>1. Idle \in Request
  BY CountAssumption DEF Idle, Request
<1>2. Finish(q) => Becomes(q, "idle", Null, Null, 0, {})
  BY <1>1, Moves DEF Finish, Idle
<1>3. ASSUME BeginRead(q) PROVE Becomes(q, "begin", FreshSecret, Null, 0, {})
  <2> DEFINE req == [Idle EXCEPT !.pc = "begin", !.secret = FreshSecret]
  <2>1. FreshSecret \in Secrets
    BY <1>3, FreshSecretType DEF BeginRead
  <2>2. req \in Request
    BY <1>1, <2>1 DEF Request
  <2>3. Becomes(q, req.pc, req.secret, req.code, req.left, req.batch)
    BY <1>3, <2>2, Moves DEF BeginRead, Start
  <2>4. /\ req.pc = "begin" /\ req.secret = FreshSecret /\ req.code = Null
        /\ req.left = 0 /\ req.batch = {}
    BY DEF Idle
  <2> HIDE DEF req
  <2> QED
    BY <2>3, <2>4
<1>4. ASSUME ConfirmRead(q) PROVE Becomes(q, "enable", user.secret, Null, 0, {})
  <2> DEFINE req == [Idle EXCEPT !.pc = "enable", !.secret = user.secret]
  <2>1. user.secret \in Secrets \cup {Null}
    BY DEF TypeOK, User
  <2>2. req \in Request
    BY <1>1, <2>1 DEF Request
  <2>3. Becomes(q, req.pc, req.secret, req.code, req.left, req.batch)
    BY <1>4, <2>2, Moves DEF ConfirmRead, Start
  <2>4. /\ req.pc = "enable" /\ req.secret = user.secret /\ req.code = Null
        /\ req.left = 0 /\ req.batch = {}
    BY DEF Idle
  <2> HIDE DEF req
  <2> QED
    BY <2>3, <2>4
<1>5. ASSUME DisableRead(q) PROVE Becomes(q, "disable", Null, Null, 0, {})
  <2> DEFINE req == [Idle EXCEPT !.pc = "disable"]
  <2>2. req \in Request
    BY <1>1 DEF Request
  <2>3. Becomes(q, req.pc, req.secret, req.code, req.left, req.batch)
    BY <1>5, <2>2, Moves DEF DisableRead, Start
  <2>4. /\ req.pc = "disable" /\ req.secret = Null /\ req.code = Null
        /\ req.left = 0 /\ req.batch = {}
    BY DEF Idle
  <2> HIDE DEF req
  <2> QED
    BY <2>3, <2>4
<1>6. ASSUME RegenerateRead(q) PROVE Becomes(q, "clear", Null, Null, 0, {})
  <2> DEFINE req == [Idle EXCEPT !.pc = "clear"]
  <2>2. req \in Request
    BY <1>1 DEF Request
  <2>3. Becomes(q, req.pc, req.secret, req.code, req.left, req.batch)
    BY <1>6, <2>2, Moves DEF RegenerateRead, Start
  <2>4. /\ req.pc = "clear" /\ req.secret = Null /\ req.code = Null
        /\ req.left = 0 /\ req.batch = {}
    BY DEF Idle
  <2> HIDE DEF req
  <2> QED
    BY <2>3, <2>4
<1>7. ASSUME IssueClear(q) PROVE Becomes(q, "insert", Null, Null, CodeCount, {})
  <2> DEFINE req == [Idle EXCEPT !.pc = "insert", !.left = CodeCount]
  <2>1. CodeCount \in 0..CodeCount
    BY CountAssumption
  <2>2. req \in Request
    BY <1>1, <2>1 DEF Request
  <2>3. Becomes(q, req.pc, req.secret, req.code, req.left, req.batch)
    BY <1>7, <2>2, Moves DEF IssueClear
  <2>4. /\ req.pc = "insert" /\ req.secret = Null /\ req.code = Null
        /\ req.left = CodeCount /\ req.batch = {}
    BY DEF Idle
  <2> HIDE DEF req
  <2> QED
    BY <2>3, <2>4
<1> QED
  BY <1>2, <1>3, <1>4, <1>5, <1>6, <1>7

\* A request that goes on keeps what it holds.
LEMMA GotoMoves ==
  ASSUME TypeOK, NEW q \in Requests, NEW pc \in {"show", "clear", "purge", "take"},
         Goto(q, pc)
  PROVE  Becomes(q, pc, requests[q].secret, requests[q].code, requests[q].left,
                 requests[q].batch)
<1>1. requests[q] \in Request /\ [requests[q] EXCEPT !.pc = pc] \in Request
  BY DEF TypeOK, Request
<1>2. requests' = [requests EXCEPT ![q] = [requests[q] EXCEPT !.pc = pc]]
  BY DEF Goto
<1>3. [requests[q] EXCEPT !.pc = pc] =
        [pc |-> pc, secret |-> requests[q].secret, code |-> requests[q].code,
         left |-> requests[q].left, batch |-> requests[q].batch]
  BY <1>1 DEF Request
<1> QED
  BY <1>1, <1>2, <1>3 DEF TypeOK, Becomes

LEMMA InsertMoves ==
  ASSUME TypeOK, RequestsInv, NEW q \in Requests, IssueInsert(q)
  PROVE  \E pc \in {"insert", "reply"}, left \in Nat :
           /\ pc = "insert" => left > 0
           /\ Becomes(q, pc, Null, Null, left, requests[q].batch \cup {FreshCode})
<1> DEFINE left == requests[q].left - 1
           pc == IF left = 0 THEN "reply" ELSE "insert"
           batch == requests[q].batch \cup {FreshCode}
           req == [Idle EXCEPT !.pc = pc, !.left = left, !.batch = batch]
<1>1. FreshCode \in Codes
  BY FreshCodeType DEF IssueInsert
<1>2. requests[q] \in Request /\ requests[q].left > 0
  BY DEF TypeOK, RequestsInv, IssueInsert
<1>3. left \in 0..CodeCount /\ batch \in SUBSET Codes
  BY <1>1, <1>2, CountAssumption DEF Request
<1>4. left \in Nat /\ (pc = "insert" => left > 0) /\ pc \in {"insert", "reply"}
  <2>1. left \in Nat
    BY <1>3, CountAssumption
  <2> HIDE DEF left
  <2>2. CASE left = 0
    BY <2>2
  <2>3. CASE left # 0
    <3>1. left > 0
      BY <2>1, <2>3
    <3>2. pc = "insert"
      BY <2>3
    <3> QED
      BY <2>1, <3>1, <3>2
  <2> QED
    BY <2>2, <2>3
<1>5. requests' = [requests EXCEPT ![q] = req]
  BY DEF IssueInsert
<1>6. Idle \in Request
  BY CountAssumption DEF Idle, Request
<1> HIDE DEF pc, left, batch
<1>7. req \in Request
  BY <1>3, <1>4, <1>6 DEF Request
<1>8. Becomes(q, req.pc, req.secret, req.code, req.left, req.batch)
  BY <1>5, <1>7, Moves
<1>9. /\ req.pc = pc /\ req.secret = Null /\ req.code = Null /\ req.left = left
      /\ req.batch = batch
  BY DEF Idle
<1>10. Becomes(q, pc, Null, Null, left, batch)
  BY <1>8, <1>9
<1> QED
  BY <1>4, <1>10 DEF batch

LEMMA LoginMoves ==
  ASSUME TypeOK, NEW q \in Requests, LoginMfa(q)
  PROVE  \E c \in handed : Becomes(q, "login", Null, c, 0, {})
<1>1. PICK c \in handed : Start(q, [Idle EXCEPT !.pc = "login", !.code = c])
  BY DEF LoginMfa
<1> DEFINE req == [Idle EXCEPT !.pc = "login", !.code = c]
<1>2. c \in Codes /\ Idle \in Request
  BY CountAssumption DEF TypeOK, Idle, Request
<1>3. req \in Request
  BY <1>2 DEF Request
<1>4. Becomes(q, req.pc, req.secret, req.code, req.left, req.batch)
  BY <1>1, <1>3, Moves DEF Start
<1>5. /\ req.pc = "login" /\ req.secret = Null /\ req.code = c /\ req.left = 0
      /\ req.batch = {}
  BY DEF Idle
<1> HIDE DEF req
<1>6. Becomes(q, "login", Null, c, 0, {})
  BY <1>4, <1>5
<1> QED
  BY <1>6

----------------------------------------------------------------------------
(* The inductive invariant *)

LEMMA InitInv == Init => IInv
<1> SUFFICES ASSUME Init PROVE IInv
  OBVIOUS
<1>1. /\ user \in User /\ secretsOut \subseteq Secrets /\ codesOut \subseteq Codes
      /\ user.enabled => user.secret \in secretsOut
  <2>1. CASE user = [secret |-> Null, enabled |-> FALSE] /\ secretsOut = {} /\ codesOut = {}
    BY <2>1 DEF User
  <2>2. ASSUME NEW s \in Secrets, NEW set \in SUBSET Codes,
               user = [secret |-> s, enabled |-> TRUE], secretsOut = {s}, codesOut = set
        PROVE  /\ user \in User /\ secretsOut \subseteq Secrets /\ codesOut \subseteq Codes
               /\ user.enabled => user.secret \in secretsOut
    BY <2>2 DEF User
  <2> QED
    BY <2>1, <2>2 DEF Init
<1>2. Idle \in Request
  BY CountAssumption DEF Idle, Request
<1>3. /\ requests \in [Requests -> Request]
      /\ \A q \in Requests : requests[q].pc = "idle" /\ requests[q].batch = {}
  BY <1>2 DEF Init, Idle
<1>4. codes \in [Codes -> {"none", "unused", "used"}] /\ redeemed \in [Codes -> Nat]
  BY DEF Init
<1>5. TypeOK
  BY <1>1, <1>3, <1>4 DEF Init, TypeOK
<1>6. RequestsInv /\ ConfirmInv /\ StaleInv /\ IssuingInv
  BY <1>3 DEF RequestsInv, ConfirmInv, StaleInv, IssuingInv, Issuing
<1>7. CodesInv
  BY DEF Init, CodesInv
<1>8. ProvenUnlessContested
  BY <1>1 DEF Init, ProvenUnlessContested
<1> QED
  BY <1>5, <1>6, <1>7, <1>8 DEF IInv

LEMMA StutterInv == IInv /\ UNCHANGED vars => IInv'
BY DEF IInv, vars, TypeOK, RequestsInv, CodesInv, ConfirmInv, StaleInv, IssuingInv, Issuing,
   InForce, ProvenUnlessContested

\* Every step of a request keeps the invariant.
LEMMA RequestStep ==
  ASSUME IInv, NEW q \in Requests
  PROVE  /\ BeginRead(q) => IInv'
         /\ BeginWrite(q) => IInv'
         /\ BeginShow(q) => IInv'
         /\ ConfirmRead(q) => IInv'
         /\ ConfirmWrite(q) => IInv'
         /\ DisableRead(q) => IInv'
         /\ DisableWrite(q) => IInv'
         /\ DisablePurge(q) => IInv'
         /\ RegenerateRead(q) => IInv'
         /\ IssueClear(q) => IInv'
         /\ IssueInsert(q) => IInv'
         /\ IssueReply(q) => IInv'
         /\ LoginMfa(q) => IInv'
         /\ LookUp(q) => IInv'
         /\ Take(q) => IInv'
         /\ Fail(q) => IInv'
<1> USE CountAssumption, NamesAssumption DEF IInv
<1>1. ASSUME BeginRead(q) PROVE IInv'
  <2>0. Becomes(q, "begin", FreshSecret, Null, 0, {})
    BY <1>1, StartMoves DEF BeginRead
  <2>1. TypeOK'
    BY <1>1, <2>0, FreshSecretType DEF BeginRead, TypeOK, Becomes, User, CrossedBy, Request
  <2>2. RequestsInv'
    BY <1>1, <2>0, FreshSecretType DEF BeginRead, RequestsInv, Becomes, TypeOK
  <2>3. CodesInv'
    BY <1>1, <2>0, FreshSecretType DEF BeginRead, CodesInv, Becomes, TypeOK, RequestsInv
  <2>4. ConfirmInv'
    BY <1>1, <2>0, FreshSecretType DEF BeginRead, ConfirmInv, Becomes, TypeOK
  <2>5. StaleInv'
    BY <1>1, <2>0, FreshSecretType DEF BeginRead, StaleInv, Becomes
  <2>6. IssuingInv'
    BY <1>1, <2>0, FreshSecretType DEF BeginRead, IssuingInv, Becomes, Issuing, InForce,
       CrossedBy, TypeOK
  <2>7. ProvenUnlessContested'
    BY <1>1, <2>0, FreshSecretType DEF BeginRead, ProvenUnlessContested, Becomes, TypeOK
  <2> QED
    BY <2>1, <2>2, <2>3, <2>4, <2>5, <2>6, <2>7
<1>2. ASSUME BeginWrite(q) PROVE IInv'
  <2>0. Becomes(q, "show", requests[q].secret, requests[q].code, requests[q].left,
              requests[q].batch)
    BY <1>2, GotoMoves DEF BeginWrite
  <2>1. TypeOK'
    BY <1>2, <2>0 DEF BeginWrite, TypeOK, Becomes, User, CrossedBy, Request, Contest
  <2>2. RequestsInv'
    BY <1>2, <2>0 DEF BeginWrite, RequestsInv, Becomes, TypeOK
  <2>3. CodesInv'
    BY <1>2, <2>0 DEF BeginWrite, CodesInv, Becomes, TypeOK, RequestsInv
  <2>4. ConfirmInv'
    BY <1>2, <2>0 DEF BeginWrite, ConfirmInv, Becomes, TypeOK, Contest
  <2>5. StaleInv'
    BY <1>2, <2>0 DEF BeginWrite, StaleInv, Becomes
  <2>6. IssuingInv'
    BY <1>2, <2>0 DEF BeginWrite, IssuingInv, Becomes, Issuing, InForce, CrossedBy, TypeOK
  <2>7. ProvenUnlessContested'
    BY <1>2, <2>0 DEF BeginWrite, ProvenUnlessContested, Becomes, TypeOK, Contest
  <2> QED
    BY <2>1, <2>2, <2>3, <2>4, <2>5, <2>6, <2>7
<1>3. ASSUME BeginShow(q) PROVE IInv'
  <2>0. Becomes(q, "idle", Null, Null, 0, {})
    BY <1>3, StartMoves DEF BeginShow
  <2>1. TypeOK'
    BY <1>3, <2>0 DEF BeginShow, TypeOK, Becomes, User, CrossedBy, Request, RequestsInv
  <2>2. RequestsInv'
    BY <1>3, <2>0 DEF BeginShow, RequestsInv, Becomes, TypeOK
  <2>3. CodesInv'
    BY <1>3, <2>0 DEF BeginShow, CodesInv, Becomes, TypeOK, RequestsInv
  <2>4. ConfirmInv'
    BY <1>3, <2>0 DEF BeginShow, ConfirmInv, Becomes, TypeOK
  <2>5. StaleInv'
    BY <1>3, <2>0 DEF BeginShow, StaleInv, Becomes
  <2>6. IssuingInv'
    BY <1>3, <2>0 DEF BeginShow, IssuingInv, Becomes, Issuing, InForce, CrossedBy, TypeOK
  <2>7. ProvenUnlessContested'
    BY <1>3, <2>0 DEF BeginShow, ProvenUnlessContested, Becomes, TypeOK
  <2> QED
    BY <2>1, <2>2, <2>3, <2>4, <2>5, <2>6, <2>7
<1>4. ASSUME ConfirmRead(q) PROVE IInv'
  <2>0. Becomes(q, "enable", user.secret, Null, 0, {})
    BY <1>4, StartMoves DEF ConfirmRead
  <2>1. TypeOK'
    BY <1>4, <2>0 DEF ConfirmRead, TypeOK, Becomes, User, CrossedBy, Request
  <2>2. RequestsInv'
    BY <1>4, <2>0 DEF ConfirmRead, RequestsInv, Becomes, TypeOK
  <2>3. CodesInv'
    BY <1>4, <2>0 DEF ConfirmRead, CodesInv, Becomes, TypeOK, RequestsInv
  <2>4. ConfirmInv'
    BY <1>4, <2>0 DEF ConfirmRead, ConfirmInv, Becomes, TypeOK
  <2>5. StaleInv'
    BY <1>4, <2>0 DEF ConfirmRead, StaleInv, Becomes
  <2>6. IssuingInv'
    BY <1>4, <2>0 DEF ConfirmRead, IssuingInv, Becomes, Issuing, InForce, CrossedBy, TypeOK
  <2>7. ProvenUnlessContested'
    BY <1>4, <2>0 DEF ConfirmRead, ProvenUnlessContested, Becomes, TypeOK
  <2> QED
    BY <2>1, <2>2, <2>3, <2>4, <2>5, <2>6, <2>7
<1>5. ASSUME ConfirmWrite(q) PROVE IInv'
  <2>0. Becomes(q, "clear", requests[q].secret, requests[q].code, requests[q].left,
              requests[q].batch)
    BY <1>5, GotoMoves DEF ConfirmWrite
  <2>1. TypeOK'
    BY <1>5, <2>0 DEF ConfirmWrite, TypeOK, Becomes, User, CrossedBy, Request
  <2>2. RequestsInv'
    BY <1>5, <2>0 DEF ConfirmWrite, RequestsInv, Becomes, TypeOK
  <2>3. CodesInv'
    BY <1>5, <2>0 DEF ConfirmWrite, CodesInv, Becomes, TypeOK, RequestsInv
  <2>4. ConfirmInv'
    BY <1>5, <2>0 DEF ConfirmWrite, ConfirmInv, Becomes, TypeOK
  <2>5. StaleInv'
    BY <1>5, <2>0 DEF ConfirmWrite, StaleInv, Becomes
  <2>6. IssuingInv'
    BY <1>5, <2>0 DEF ConfirmWrite, IssuingInv, Becomes, Issuing, InForce, CrossedBy, TypeOK
  <2>7. ProvenUnlessContested'
    BY <1>5, <2>0 DEF ConfirmWrite, ProvenUnlessContested, Becomes, TypeOK, ConfirmInv
  <2> QED
    BY <2>1, <2>2, <2>3, <2>4, <2>5, <2>6, <2>7
<1>6. ASSUME DisableRead(q) PROVE IInv'
  <2>0. Becomes(q, "disable", Null, Null, 0, {})
    BY <1>6, StartMoves DEF DisableRead
  <2>1. TypeOK'
    BY <1>6, <2>0 DEF DisableRead, TypeOK, Becomes, User, CrossedBy, Request
  <2>2. RequestsInv'
    BY <1>6, <2>0 DEF DisableRead, RequestsInv, Becomes, TypeOK
  <2>3. CodesInv'
    BY <1>6, <2>0 DEF DisableRead, CodesInv, Becomes, TypeOK, RequestsInv
  <2>4. ConfirmInv'
    BY <1>6, <2>0 DEF DisableRead, ConfirmInv, Becomes, TypeOK
  <2>5. StaleInv'
    BY <1>6, <2>0 DEF DisableRead, StaleInv, Becomes
  <2>6. IssuingInv'
    BY <1>6, <2>0 DEF DisableRead, IssuingInv, Becomes, Issuing, InForce, CrossedBy, TypeOK
  <2>7. ProvenUnlessContested'
    BY <1>6, <2>0 DEF DisableRead, ProvenUnlessContested, Becomes, TypeOK
  <2> QED
    BY <2>1, <2>2, <2>3, <2>4, <2>5, <2>6, <2>7
<1>7. ASSUME DisableWrite(q) PROVE IInv'
  <2>0. Becomes(q, "purge", requests[q].secret, requests[q].code, requests[q].left,
              requests[q].batch)
    BY <1>7, GotoMoves DEF DisableWrite
  <2>1. TypeOK'
    BY <1>7, <2>0 DEF DisableWrite, TypeOK, Becomes, User, CrossedBy, Request, Contest
  <2>2. RequestsInv'
    BY <1>7, <2>0 DEF DisableWrite, RequestsInv, Becomes, TypeOK
  <2>3. CodesInv'
    BY <1>7, <2>0 DEF DisableWrite, CodesInv, Becomes, TypeOK, RequestsInv
  <2>4. ConfirmInv'
    BY <1>7, <2>0 DEF DisableWrite, ConfirmInv, Becomes, TypeOK, Contest
  <2>5. StaleInv'
    BY <1>7, <2>0 DEF DisableWrite, StaleInv, Becomes
  <2>6. IssuingInv'
    BY <1>7, <2>0 DEF DisableWrite, IssuingInv, Becomes, Issuing, InForce, CrossedBy, TypeOK
  <2>7. ProvenUnlessContested'
    BY <1>7, <2>0 DEF DisableWrite, ProvenUnlessContested, Becomes, TypeOK, Contest
  <2> QED
    BY <2>1, <2>2, <2>3, <2>4, <2>5, <2>6, <2>7
<1>8. ASSUME DisablePurge(q) PROVE IInv'
  <2>0. Becomes(q, "idle", Null, Null, 0, {})
    BY <1>8, StartMoves DEF DisablePurge
  <2>1. TypeOK'
    BY <1>8, <2>0 DEF DisablePurge, TypeOK, Becomes, User, CrossedBy, Request
  <2>2. RequestsInv'
    BY <1>8, <2>0 DEF DisablePurge, RequestsInv, Becomes, TypeOK
  <2>3. CodesInv'
    BY <1>8, <2>0 DEF DisablePurge, CodesInv, Becomes, TypeOK, RequestsInv
  <2>4. ConfirmInv'
    BY <1>8, <2>0 DEF DisablePurge, ConfirmInv, Becomes, TypeOK
  <2>5. StaleInv'
    BY <1>8, <2>0 DEF DisablePurge, StaleInv, Becomes
  <2>6. IssuingInv'
    BY <1>8, <2>0 DEF DisablePurge, IssuingInv, Becomes, Issuing, InForce, CrossedBy, TypeOK
  <2>7. ProvenUnlessContested'
    BY <1>8, <2>0 DEF DisablePurge, ProvenUnlessContested, Becomes, TypeOK
  <2> QED
    BY <2>1, <2>2, <2>3, <2>4, <2>5, <2>6, <2>7
<1>9. ASSUME RegenerateRead(q) PROVE IInv'
  <2>0. Becomes(q, "clear", Null, Null, 0, {})
    BY <1>9, StartMoves DEF RegenerateRead
  <2>1. TypeOK'
    BY <1>9, <2>0 DEF RegenerateRead, TypeOK, Becomes, User, CrossedBy, Request
  <2>2. RequestsInv'
    BY <1>9, <2>0 DEF RegenerateRead, RequestsInv, Becomes, TypeOK
  <2>3. CodesInv'
    BY <1>9, <2>0 DEF RegenerateRead, CodesInv, Becomes, TypeOK, RequestsInv
  <2>4. ConfirmInv'
    BY <1>9, <2>0 DEF RegenerateRead, ConfirmInv, Becomes, TypeOK
  <2>5. StaleInv'
    BY <1>9, <2>0 DEF RegenerateRead, StaleInv, Becomes
  <2>6. IssuingInv'
    BY <1>9, <2>0 DEF RegenerateRead, IssuingInv, Becomes, Issuing, InForce, CrossedBy, TypeOK
  <2>7. ProvenUnlessContested'
    BY <1>9, <2>0 DEF RegenerateRead, ProvenUnlessContested, Becomes, TypeOK
  <2> QED
    BY <2>1, <2>2, <2>3, <2>4, <2>5, <2>6, <2>7
<1>10. ASSUME IssueClear(q) PROVE IInv'
  <2>0. Becomes(q, "insert", Null, Null, CodeCount, {})
    BY <1>10, StartMoves DEF IssueClear
  <2>1. TypeOK'
    BY <1>10, <2>0 DEF IssueClear, TypeOK, Becomes, User, CrossedBy, Request
  <2>2. RequestsInv'
    <3>1. CodeCount > 0
      BY CountAssumption
    <3>2. handed' = handed /\ codesOut' = codesOut
      BY <1>10 DEF IssueClear
    <3> QED
      BY <2>0, <3>1, <3>2 DEF RequestsInv, Becomes
  <2>3. CodesInv'
    BY <1>10, <2>0 DEF IssueClear, CodesInv, Becomes, TypeOK, RequestsInv
  <2>4. ConfirmInv'
    BY <1>10, <2>0 DEF IssueClear, ConfirmInv, Becomes, TypeOK
  <2>5. StaleInv'
    BY <1>10, <2>0 DEF IssueClear, StaleInv, Becomes
  <2>6. IssuingInv'
    <3>1. InForce' = {}
      BY <1>10 DEF IssueClear, InForce
    <3>2. \A p \in Requests : p # q /\ Issuing(p)' => p \in crossed'
      BY <1>10, <2>0 DEF IssueClear, CrossedBy, Issuing, Becomes
    <3>3. requests'[q].batch = {}
      BY <2>0 DEF Becomes
    <3> QED
      BY <3>1, <3>2, <3>3 DEF IssuingInv
  <2>7. ProvenUnlessContested'
    BY <1>10, <2>0 DEF IssueClear, ProvenUnlessContested, Becomes, TypeOK
  <2> QED
    BY <2>1, <2>2, <2>3, <2>4, <2>5, <2>6, <2>7
<1>11. ASSUME IssueInsert(q) PROVE IInv'
  <2>0. PICK pc \in {"insert", "reply"}, left \in Nat :
          /\ pc = "insert" => left > 0
          /\ Becomes(q, pc, Null, Null, left, requests[q].batch \cup {FreshCode})
    BY <1>11, InsertMoves
  <2>1. TypeOK'
    BY <1>11, <2>0, FreshCodeType DEF IssueInsert, TypeOK, Becomes, User, CrossedBy, Request
  <2>2. RequestsInv'
    <3>1. handed' = handed /\ codesOut' = codesOut \cup {FreshCode}
      BY <1>11 DEF IssueInsert
    <3>2. requests'[q].batch \subseteq codesOut'
      BY <2>0, <3>1 DEF Becomes, RequestsInv
    <3> QED
      BY <2>0, <3>1, <3>2 DEF RequestsInv, Becomes
  <2>3. CodesInv'
    BY <1>11, <2>0, FreshCodeType DEF IssueInsert, CodesInv, Becomes, TypeOK, RequestsInv
  <2>4. ConfirmInv'
    BY <1>11, <2>0, FreshCodeType DEF IssueInsert, ConfirmInv, Becomes, TypeOK
  <2>5. StaleInv'
    BY <1>11, <2>0, FreshCodeType DEF IssueInsert, StaleInv, Becomes
  <2>6. IssuingInv'
    <3> SUFFICES ASSUME crossed = {}, NEW p \in Requests, Issuing(p)'
                 PROVE  /\ requests'[p].batch = InForce'
                        /\ requests'[p].batch \cap handed' = {}
                        /\ \A r \in Requests : Issuing(r)' => r = p
      BY <1>11 DEF IssueInsert, IssuingInv
    <3>1. Issuing(q) /\ \A r \in Requests : Issuing(r)' => Issuing(r)
      BY <1>11, <2>0 DEF IssueInsert, Becomes, Issuing
    <3>2. p = q /\ \A r \in Requests : Issuing(r)' => r = p
      BY <3>1 DEF IssuingInv
    <3>3. requests[q].batch = InForce /\ requests[q].batch \cap handed = {}
      BY <3>1 DEF IssuingInv
    <3>4. FreshCode \in Codes /\ FreshCode \notin codesOut
      BY <1>11, FreshCodeType DEF IssueInsert
    <3>5. InForce' = InForce \cup {FreshCode}
      BY <1>11, <3>4 DEF IssueInsert, InForce, TypeOK
    <3>6. FreshCode \notin handed /\ handed' = handed
      BY <1>11, <3>4 DEF IssueInsert, CodesInv
    <3> QED
      BY <2>0, <3>2, <3>3, <3>5, <3>6 DEF Becomes
  <2>7. ProvenUnlessContested'
    BY <1>11, <2>0, FreshCodeType DEF IssueInsert, ProvenUnlessContested, Becomes, TypeOK
  <2> QED
    BY <2>1, <2>2, <2>3, <2>4, <2>5, <2>6, <2>7
<1>12. ASSUME IssueReply(q) PROVE IInv'
  <2>0. Becomes(q, "idle", Null, Null, 0, {})
    BY <1>12, StartMoves DEF IssueReply
  <2>1. TypeOK'
    BY <1>12, <2>0 DEF IssueReply, TypeOK, Becomes, User, CrossedBy, Request
  <2>2. RequestsInv'
    BY <1>12, <2>0 DEF IssueReply, RequestsInv, Becomes, TypeOK
  <2>3. CodesInv'
    BY <1>12, <2>0 DEF IssueReply, CodesInv, Becomes, TypeOK, RequestsInv
  <2>4. ConfirmInv'
    BY <1>12, <2>0 DEF IssueReply, ConfirmInv, Becomes, TypeOK
  <2>5. StaleInv'
    BY <1>12, <2>0 DEF IssueReply, StaleInv, Becomes
  <2>6. IssuingInv'
    BY <1>12, <2>0 DEF IssueReply, IssuingInv, Becomes, Issuing, InForce, CrossedBy, TypeOK
  <2>7. ProvenUnlessContested'
    BY <1>12, <2>0 DEF IssueReply, ProvenUnlessContested, Becomes, TypeOK
  <2> QED
    BY <2>1, <2>2, <2>3, <2>4, <2>5, <2>6, <2>7
<1>13. ASSUME LoginMfa(q) PROVE IInv'
  <2>0. \E c \in handed : Becomes(q, "login", Null, c, 0, {})
    BY <1>13, LoginMoves
  <2>1. TypeOK'
    BY <1>13, <2>0 DEF LoginMfa, TypeOK, Becomes, User, CrossedBy, Request
  <2>2. RequestsInv'
    BY <1>13, <2>0 DEF LoginMfa, RequestsInv, Becomes, TypeOK
  <2>3. CodesInv'
    BY <1>13, <2>0 DEF LoginMfa, CodesInv, Becomes, TypeOK, RequestsInv
  <2>4. ConfirmInv'
    BY <1>13, <2>0 DEF LoginMfa, ConfirmInv, Becomes, TypeOK
  <2>5. StaleInv'
    BY <1>13, <2>0 DEF LoginMfa, StaleInv, Becomes
  <2>6. IssuingInv'
    BY <1>13, <2>0 DEF LoginMfa, IssuingInv, Becomes, Issuing, InForce, CrossedBy, TypeOK
  <2>7. ProvenUnlessContested'
    BY <1>13, <2>0 DEF LoginMfa, ProvenUnlessContested, Becomes, TypeOK
  <2> QED
    BY <2>1, <2>2, <2>3, <2>4, <2>5, <2>6, <2>7
<1>14. ASSUME LookUp(q) PROVE IInv'
  <2>0. \/ Becomes(q, "idle", Null, Null, 0, {})
        \/ Becomes(q, "take", requests[q].secret, requests[q].code, requests[q].left,
                   requests[q].batch)
    BY <1>14, StartMoves, GotoMoves DEF LookUp
  <2>1. TypeOK'
    BY <1>14, <2>0 DEF LookUp, TypeOK, Becomes, User, CrossedBy, Request, InForce
  <2>2. RequestsInv'
    BY <1>14, <2>0 DEF LookUp, RequestsInv, Becomes, InForce, TypeOK
  <2>3. CodesInv'
    BY <1>14, <2>0 DEF LookUp, CodesInv, Becomes, TypeOK, RequestsInv, InForce
  <2>4. ConfirmInv'
    BY <1>14, <2>0 DEF LookUp, ConfirmInv, Becomes, TypeOK, InForce
  <2>5. StaleInv'
    BY <1>14, <2>0 DEF LookUp, StaleInv, Becomes, InForce
  <2>6. IssuingInv'
    BY <1>14, <2>0 DEF LookUp, IssuingInv, Becomes, Issuing, InForce, CrossedBy, TypeOK
  <2>7. ProvenUnlessContested'
    BY <1>14, <2>0 DEF LookUp, ProvenUnlessContested, Becomes, TypeOK, InForce
  <2> QED
    BY <2>1, <2>2, <2>3, <2>4, <2>5, <2>6, <2>7
<1>15. ASSUME Take(q) PROVE IInv'
  <2>0. Becomes(q, "idle", Null, Null, 0, {})
    BY <1>15, StartMoves DEF Take
  <2>1. TypeOK'
    BY <1>15, <2>0 DEF Take, TypeOK, Becomes, User, CrossedBy, Request, InForce
  <2>2. RequestsInv'
    BY <1>15, <2>0 DEF Take, RequestsInv, Becomes, InForce, TypeOK
  <2>3. CodesInv'
    BY <1>15, <2>0 DEF Take, CodesInv, Becomes, TypeOK, RequestsInv, InForce
  <2>4. ConfirmInv'
    BY <1>15, <2>0 DEF Take, ConfirmInv, Becomes, TypeOK, InForce
  <2>5. StaleInv'
    BY <1>15, <2>0 DEF Take, StaleInv, Becomes, InForce
  <2>6. IssuingInv'
    <3> SUFFICES ASSUME crossed = {}, NEW p \in Requests, Issuing(p)'
                 PROVE  /\ requests'[p].batch = InForce'
                        /\ requests'[p].batch \cap handed' = {}
                        /\ \A r \in Requests : Issuing(r)' => r = p
      BY <1>15 DEF Take, IssuingInv
    <3>1. p # q /\ requests'[p] = requests[p] /\ Issuing(p)
      BY <2>0 DEF Becomes, Issuing
    <3>2. requests[q].code \in handed
      BY <1>15 DEF Take, RequestsInv
    <3>3. requests[q].code \notin InForce
      BY <3>1, <3>2 DEF IssuingInv
    <3>4. codes' = codes /\ handed' = handed
      BY <1>15, <3>3 DEF Take
    <3> QED
      BY <2>0, <3>1, <3>4 DEF IssuingInv, Issuing, InForce, Becomes
  <2>7. ProvenUnlessContested'
    BY <1>15, <2>0 DEF Take, ProvenUnlessContested, Becomes, TypeOK, InForce
  <2> QED
    BY <2>1, <2>2, <2>3, <2>4, <2>5, <2>6, <2>7
<1>16. ASSUME Fail(q) PROVE IInv'
  <2>0. Becomes(q, "idle", Null, Null, 0, {})
    BY <1>16, StartMoves DEF Fail
  <2>1. TypeOK'
    BY <1>16, <2>0 DEF Fail, TypeOK, Becomes, User, CrossedBy, Request
  <2>2. RequestsInv'
    BY <1>16, <2>0 DEF Fail, RequestsInv, Becomes, TypeOK
  <2>3. CodesInv'
    BY <1>16, <2>0 DEF Fail, CodesInv, Becomes, TypeOK, RequestsInv
  <2>4. ConfirmInv'
    BY <1>16, <2>0 DEF Fail, ConfirmInv, Becomes, TypeOK
  <2>5. StaleInv'
    BY <1>16, <2>0 DEF Fail, StaleInv, Becomes
  <2>6. IssuingInv'
    BY <1>16, <2>0 DEF Fail, IssuingInv, Becomes, Issuing, InForce, CrossedBy, TypeOK
  <2>7. ProvenUnlessContested'
    BY <1>16, <2>0 DEF Fail, ProvenUnlessContested, Becomes, TypeOK
  <2> QED
    BY <2>1, <2>2, <2>3, <2>4, <2>5, <2>6, <2>7
<1> QED
  BY <1>1, <1>2, <1>3, <1>4, <1>5, <1>6, <1>7, <1>8, <1>9, <1>10, <1>11, <1>12, <1>13,
     <1>14, <1>15, <1>16

LEMMA NextInv == IInv /\ Next => IInv'
<1> SUFFICES ASSUME IInv, Next PROVE IInv'
  OBVIOUS
<1>1. ASSUME Login \/ TokensExpire PROVE IInv'
  <2>3. tokens' \subseteq {"mfa", "mfa-setup"} /\ edits' \in Nat /\ faults' = faults
    <3>1. tokens \subseteq {"mfa", "mfa-setup"} /\ edits \in Nat
      BY DEF IInv, TypeOK
    <3>2. CASE Login
      BY <3>1, <3>2 DEF Login
    <3>3. CASE TokensExpire
      BY <3>1, <3>3 DEF TokensExpire
    <3> QED
      BY <1>1, <3>2, <3>3
  <2>2. UNCHANGED <<user, codes, requests, display, ids, history>>
    BY <1>1 DEF Login, TokensExpire
  <2>1. TypeOK'
    BY <2>2, <2>3 DEF IInv, TypeOK
  <2> QED
    BY <2>1, <2>2 DEF IInv, RequestsInv, CodesInv, ConfirmInv, StaleInv, IssuingInv, Issuing,
       InForce, ProvenUnlessContested
<1>2. ASSUME Crash PROVE IInv'
  <2>1. /\ requests' \in [Requests -> Request]
        /\ \A q \in Requests : requests'[q].pc = "idle" /\ requests'[q].batch = {}
    BY <1>2, CountAssumption DEF Crash, Idle, Request
  <2>2. TypeOK' /\ CodesInv' /\ ProvenUnlessContested'
    BY <1>2, <2>1 DEF Crash, IInv, TypeOK, CodesInv, ProvenUnlessContested
  <2>3. RequestsInv' /\ ConfirmInv' /\ StaleInv' /\ IssuingInv'
    BY <2>1 DEF RequestsInv, ConfirmInv, StaleInv, IssuingInv, Issuing
  <2> QED
    BY <2>2, <2>3 DEF IInv
<1> QED
  BY <1>1, <1>2, RequestStep DEF Next

\* The inductive invariant of enrolment and recovery codes (api.rs,
\* begin_totp_enrollment, confirm_totp_enrollment, issue_recovery_codes), for any number
\* of concurrent requests.
THEOREM Invariant == Spec => []IInv
<1>1. IInv /\ [Next]_vars => IInv'
  BY NextInv, StutterInv
<1> QED
  BY InitInv, <1>1, PTL DEF Spec

\* The state keeps its type; in particular a request never issues more codes than a set has.
THEOREM TypeCorrect == Spec => []TypeOK
<1>1. IInv => TypeOK
  BY DEF IInv
<1> QED
  BY Invariant, <1>1, PTL

\* A secret is used unproven only if it was written while a confirmation was between its
\* SELECT and its UPDATE.
THEOREM Proven == Spec => []ProvenUnlessContested
<1>1. IInv => ProvenUnlessContested
  BY DEF IInv
<1> QED
  BY Invariant, <1>1, PTL

\* The codes a response shows are those in force, unless another DELETE crossed it.
THEOREM ShownAreInForce == Spec => []ShownSetInForce
<1>1. IInv => ShownSetInForce
  BY DEF IInv, IssuingInv, Issuing, ShownSetInForce
<1> QED
  BY Invariant, <1>1, PTL

\* A factor that is on goes off by totp_disable or by a set-up older than its confirmation.
THEOREM OffOnlyOnPurpose == Spec => OnlyTurnedOff
<1>1. ASSUME IInv, [Next]_vars, user.enabled, ~user'.enabled
      PROVE  \E q \in Requests :
               \/ requests[q].pc = "disable"
               \/ requests[q].pc = "begin" /\ q \in stale
  <2>1. user' # user
    BY <1>1
  <2>2. PICK q \in Requests : BeginWrite(q) \/ ConfirmWrite(q) \/ DisableWrite(q)
    BY <1>1, <2>1 DEF Next, vars, BeginRead, BeginShow, ConfirmRead, DisableRead, DisablePurge,
       RegenerateRead, IssueClear, IssueInsert, IssueReply, LoginMfa, LookUp, Take, Fail, Login,
       TokensExpire, Crash
  <2>3. ~ConfirmWrite(q)
    BY <1>1 DEF ConfirmWrite, IInv, TypeOK, User
  <2> QED
    BY <1>1, <2>2, <2>3 DEF BeginWrite, DisableWrite, IInv, StaleInv
<1>2. IInv /\ [Next]_vars =>
        [user.enabled /\ ~user'.enabled =>
           \E q \in Requests :
             \/ requests[q].pc = "disable"
             \/ requests[q].pc = "begin" /\ q \in stale]_vars
  BY <1>1
<1> QED
  BY Invariant, <1>2, PTL DEF Spec, OnlyTurnedOff

----------------------------------------------------------------------------
(* Recovery codes implement OneTime *)

LEMMA PhaseOf ==
  ASSUME NEW c \in Codes
  PROVE  /\ codes[c] = "unused" => Phase[c] = "open"
         /\ codes[c] # "unused" /\ redeemed[c] > 0 => Phase[c] = "spent"
         /\ codes[c] # "unused" /\ ~(redeemed[c] > 0) /\ c \in codesOut => Phase[c] = "withdrawn"
         /\ codes[c] # "unused" /\ ~(redeemed[c] > 0) /\ c \notin codesOut
              => Phase[c] = "unminted"
BY DEF Phase

LEMMA InitRefines == Init => SingleUse!Init
<1> SUFFICES ASSUME Init PROVE SingleUse!Init
  OBVIOUS
<1>1. \A c \in Codes : Phase[c] \in {"unminted", "open"}
  BY DEF Init, Phase
<1>2. Phase \in [Codes -> {"unminted", "open"}]
  BY <1>1 DEF Phase
<1> QED
  BY <1>2 DEF Init, SingleUse!Init

\* Nothing happens to the credentials.
LEMMA StutterRefines ==
  ASSUME codes' = codes, redeemed' = redeemed, codesOut' = codesOut
  PROVE  UNCHANGED SingleUse!vars
BY DEF Phase, SingleUse!vars

\* A DELETE of all codes withdraws those that are open.
LEMMA DeleteRefines ==
  ASSUME IInv, codes' = [c \in Codes |-> "none"], redeemed' = redeemed, codesOut' = codesOut
  PROVE  SingleUse!WithdrawAll
<1>1. \A c \in Codes : Phase'[c] = IF Phase[c] = "open" THEN "withdrawn" ELSE Phase[c]
  BY DEF Phase, IInv, CodesInv, TypeOK
<1>2. Phase' = [c \in Codes |-> IF Phase[c] = "open" THEN "withdrawn" ELSE Phase[c]]
  BY <1>1 DEF Phase
<1> QED
  BY <1>2 DEF SingleUse!WithdrawAll

LEMMA InsertRefines ==
  ASSUME IInv, NEW q \in Requests, IssueInsert(q)
  PROVE  \E c \in Codes : SingleUse!Mint(c)
<1>1. FreshCode \in Codes /\ FreshCode \notin codesOut
  BY FreshCodeType DEF IssueInsert
<1>2. codes[FreshCode] = "none" /\ ~(redeemed[FreshCode] > 0)
  BY <1>1 DEF IInv, CodesInv, TypeOK
<1>3. \A c \in Codes : Phase'[c] = IF c = FreshCode THEN "open" ELSE Phase[c]
  BY <1>1 DEF IssueInsert, Phase, IInv, TypeOK
<1>4. Phase' = [Phase EXCEPT ![FreshCode] = "open"]
  BY <1>1, <1>3 DEF Phase
<1>5. Phase[FreshCode] = "unminted"
  BY <1>1, <1>2 DEF Phase
<1> QED
  BY <1>1, <1>4, <1>5 DEF SingleUse!Mint, IssueInsert

LEMMA TakeRefines ==
  ASSUME IInv, NEW q \in Requests, Take(q)
  PROVE  UNCHANGED SingleUse!vars \/ \E c \in Codes : SingleUse!Redeem(c)
<1> DEFINE k == requests[q].code
<1>1. CASE k \in InForce
  <2>1. k \in Codes /\ codes[k] = "unused" /\ redeemed[k] = 0
    BY <1>1 DEF InForce, IInv, CodesInv, TypeOK
  <2>2. codes' = [codes EXCEPT ![k] = "used"] /\ redeemed' = [redeemed EXCEPT ![k] = @ + 1]
        /\ codesOut' = codesOut
    BY <1>1 DEF Take
  <2>3. \A c \in Codes : Phase'[c] = IF c = k THEN "spent" ELSE Phase[c]
    BY <2>1, <2>2 DEF Phase, IInv, TypeOK
  <2>4. Phase' = [Phase EXCEPT ![k] = "spent"]
    BY <2>1, <2>3 DEF Phase
  <2>5. Phase[k] = "open"
    BY <2>1 DEF Phase
  <2> QED
    BY <2>1, <2>2, <2>4, <2>5 DEF SingleUse!Redeem
<1>2. CASE k \notin InForce
  BY <1>2, StutterRefines DEF Take
<1> QED
  BY <1>1, <1>2

LEMMA NextRefines ==
  ASSUME IInv, [Next]_vars
  PROVE  [SingleUse!Next]_(SingleUse!vars)
<1>1. ASSUME NEW q \in Requests, DisablePurge(q) \/ IssueClear(q) PROVE SingleUse!Next
  BY <1>1, DeleteRefines DEF DisablePurge, IssueClear, SingleUse!Next
<1>2. ASSUME NEW q \in Requests, IssueInsert(q) PROVE SingleUse!Next
  BY <1>2, InsertRefines DEF SingleUse!Next
<1>3. ASSUME NEW q \in Requests, Take(q) PROVE UNCHANGED SingleUse!vars \/ SingleUse!Next
  BY <1>3, TakeRefines DEF SingleUse!Next
<1>4. \/ \E q \in Requests : \/ DisablePurge(q) \/ IssueClear(q) \/ IssueInsert(q) \/ Take(q)
      \/ codes' = codes /\ redeemed' = redeemed /\ codesOut' = codesOut
  BY DEF Next, vars, BeginRead, BeginWrite, BeginShow, ConfirmRead, ConfirmWrite, DisableRead,
     DisableWrite, RegenerateRead, IssueReply, LoginMfa, LookUp, Fail, Login, TokensExpire, Crash
<1> QED
  BY <1>1, <1>2, <1>3, <1>4, StutterRefines

\* consume_recovery_code makes a code single-use "even if two requests race": however
\* sign-ins, enrolments and failures interleave, recovery codes behave as OneTime promises.
THEOREM CodesAreOneTime == Spec => RecoveryCodesAreOneTime
<1>1. IInv /\ [Next]_vars => [SingleUse!Next]_(SingleUse!vars)
  BY NextRefines
<1> QED
  BY InitRefines, <1>1, Invariant, PTL DEF Spec, RecoveryCodesAreOneTime, SingleUse!Spec

\* What behaves as OneTime promises is accepted at most once.
LEMMA RedeemedOnce ==
  ASSUME SingleUse!Inv, [SingleUse!Next]_(SingleUse!vars)
  PROVE  SingleUse!Inv'
<1> USE DEF SingleUse!Inv, SingleUse!Phases
<1>1. ASSUME NEW c \in Codes, SingleUse!Mint(c)
      PROVE  SingleUse!Inv'
  BY <1>1 DEF SingleUse!Mint
<1>2. ASSUME NEW c \in Codes, SingleUse!Redeem(c)
      PROVE  SingleUse!Inv'
  BY <1>2 DEF SingleUse!Redeem
<1>3. CASE SingleUse!WithdrawAll
  BY <1>3 DEF SingleUse!WithdrawAll
<1>4. CASE UNCHANGED SingleUse!vars
  BY <1>4 DEF SingleUse!vars
<1> QED
  BY <1>1, <1>2, <1>3, <1>4 DEF SingleUse!Next

\* No recovery code opens two sessions.
COROLLARY CodesOpenOneSession == Spec => []SingleUse!AtMostOnce
<1>1. SingleUse!Init => SingleUse!Inv
  BY DEF SingleUse!Init, SingleUse!Inv, SingleUse!Phases
<1>2. SingleUse!Inv => SingleUse!AtMostOnce
  BY DEF SingleUse!Inv, SingleUse!AtMostOnce
<1> QED
  BY CodesAreOneTime, <1>1, <1>2, RedeemedOnce, PTL DEF RecoveryCodesAreOneTime, SingleUse!Spec

=============================================================================
