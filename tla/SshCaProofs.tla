---------------------------- MODULE SshCaProofs ----------------------------
(***************************************************************************)
(* The safety properties of SshCa, proved for any number of rotations,     *)
(* signatures, keys and faults.                                            *)
(*                                                                         *)
(* The actions on CAs and rotations leave the certificates alone, and the  *)
(* other way round: the invariant is proved in two halves, and each half   *)
(* holds by one lemma of every action that belongs to the other.           *)
(***************************************************************************)
EXTENDS SshCa, TLAPS

USE DEF tables, history, Fault

----------------------------------------------------------------------------
(* The two halves of the invariant *)

CasInv ==
  /\ RotationsStand
  /\ NoneBetween
  /\ OneActive
  /\ UsersFirst
  /\ SomeActive

IssuesInv ==
  /\ TooLate
  /\ \A i \in Issues : IssueReads(i)
  /\ IssuedFromLive

\* What certificates rely on: CAs keep their kind, and what is retired or deleted stays so.
CasEndure ==
  /\ \A k \in CaKinds : OfKind(k) \subseteq OfKind(k)'
  /\ Retired \subseteq Retired'
  /\ \A key \in Keys : ssh_keys[key] = "deleted" => ssh_keys'[key] = "deleted"

LEMMA CasLeftAlone ==
  ASSUME CasInv, UNCHANGED <<ssh_cas, boot, rotation, crossed, interrupted, latest>>
  PROVE  CasInv'
<1>1. \A k \in CaKinds : OfKind(k)' = OfKind(k) /\ ActiveCas(k)' = ActiveCas(k)
                         /\ Rotating(k)' = Rotating(k)
  BY DEF OfKind, ActiveCas, Rotating, Kind
<1>2. RotationsStand'
  BY DEF CasInv, RotationsStand
<1>3. NoneBetween'
  BY <1>1 DEF CasInv, NoneBetween
<1>4. OneActive'
  BY <1>1 DEF CasInv, OneActive
<1>5. UsersFirst'
  BY <1>1 DEF CasInv, UsersFirst, CaKinds
<1>6. SomeActive'
  BY <1>1 DEF CasInv, SomeActive
<1> QED
  BY <1>2, <1>3, <1>4, <1>5, <1>6 DEF CasInv

LEMMA IssuesLeftAlone ==
  ASSUME TypeOK, IssuesInv, CasEndure, UNCHANGED <<issue, before, ssh_certificates>>
  PROVE  IssuesInv'
<1>1. TooLate'
  BY DEF IssuesInv, TooLate, CasEndure, TypeOK
<1>2. ASSUME NEW i \in Issues PROVE IssueReads(i)'
  <2>1. issue[i].cert_type \in CaKinds
    BY DEF TypeOK, Issue
  <2> QED
    BY <2>1 DEF IssuesInv, IssueReads, CasEndure
<1>3. IssuedFromLive'
  <2> SUFFICES ASSUME NEW i \in Issues, ssh_certificates[i] # Null
               PROVE  /\ ssh_certificates[i].ca_id \in OfKind(ssh_certificates[i].cert_type)'
                      /\ ssh_certificates[i].ca_id \notin before[i].cas
                      /\ ssh_certificates[i].ssh_key_id \notin before[i].keys
    BY DEF IssuedFromLive
  <2>1. ssh_certificates[i].cert_type \in CaKinds
    BY DEF TypeOK, SshCertificate
  <2> QED
    BY <2>1 DEF IssuesInv, IssuedFromLive, CasEndure
<1> QED
  BY <1>1, <1>2, <1>3 DEF IssuesInv

----------------------------------------------------------------------------
(* The table of CAs *)

\* The dates of a new CA are dates.
LEMMA TimesType ==
  ASSUME TypeOK, NEW k \in CaKinds
  PROVE  Times(k) \subseteq Nat
BY DEF Times, Newest, OfKind, TypeOK, SshCa

\* An insertion adds an active CA to those of its kind, and does nothing else.
LEMMA Inserts ==
  ASSUME TypeOK, NEW k \in CaKinds, NEW c \in CaIds, InsertCa(k, c)
  PROVE  /\ ssh_cas' \in [CaIds -> SshCa \cup {Null}]
         /\ interrupted' = interrupted \ {k}
         /\ latest' \in [CaKinds -> CaIds \cup {Null}]
         /\ latest'[k] = c
         /\ \A m \in CaKinds \ {k} : latest'[m] = latest[m]
         /\ OfKind(k)' = OfKind(k) \cup {c}
         /\ ActiveCas(k)' = ActiveCas(k) \cup {c}
         /\ \A m \in CaKinds \ {k} : OfKind(m)' = OfKind(m) /\ ActiveCas(m)' = ActiveCas(m)
         /\ Retired' = Retired
         /\ \A d \in CaIds : ssh_cas[d] # Null => ssh_cas'[d] = ssh_cas[d]
<1>1. PICK t \in Times(k) :
        ssh_cas' = [ssh_cas EXCEPT ![c] = [ca_type |-> k, is_active |-> TRUE, created_at |-> t]]
  BY DEF InsertCa
<1> DEFINE ca == [ca_type |-> k, is_active |-> TRUE, created_at |-> t]
<1>2. ca \in SshCa
  BY TimesType DEF SshCa
<1>3. ca # Null /\ ca.ca_type = k /\ ca.is_active
  BY <1>2, NullAssumption
<1>4. ssh_cas[c] = Null
  BY DEF InsertCa, FreshCa
<1>5. ssh_cas' = [ssh_cas EXCEPT ![c] = ca]
  BY <1>1
<1> HIDE DEF ca
<1>6. ssh_cas' \in [CaIds -> SshCa \cup {Null}]
  BY <1>2, <1>5 DEF TypeOK
<1>7. ssh_cas'[c] = ca /\ \A d \in CaIds : d # c => ssh_cas'[d] = ssh_cas[d]
  BY <1>5 DEF TypeOK
<1>8. OfKind(k)' = OfKind(k) \cup {c} /\ \A m \in CaKinds \ {k} : OfKind(m)' = OfKind(m)
  BY <1>3, <1>4, <1>7 DEF OfKind
<1>9. /\ ActiveCas(k)' = ActiveCas(k) \cup {c}
      /\ \A m \in CaKinds \ {k} : ActiveCas(m)' = ActiveCas(m)
  BY <1>3, <1>4, <1>7, <1>8 DEF ActiveCas, OfKind
<1>10. Retired' = Retired
  BY <1>3, <1>4, <1>7 DEF Retired
<1> QED
  BY <1>4, <1>6, <1>7, <1>8, <1>9, <1>10 DEF InsertCa, TypeOK

\* A deactivation retires all CAs of the kind, and does nothing else.
LEMMA Deactivates ==
  ASSUME TypeOK, NEW k \in CaKinds,
         ssh_cas' = [c \in CaIds |->
           IF c \in OfKind(k) THEN [ssh_cas[c] EXCEPT !.is_active = FALSE] ELSE ssh_cas[c]]
  PROVE  /\ ssh_cas' \in [CaIds -> SshCa \cup {Null}]
         /\ \A m \in CaKinds : OfKind(m)' = OfKind(m)
         /\ ActiveCas(k)' = {}
         /\ \A m \in CaKinds \ {k} : ActiveCas(m)' = ActiveCas(m)
         /\ Retired \subseteq Retired'
         /\ \A d \in CaIds : ssh_cas[d] # Null =>
              ssh_cas'[d] # Null /\ ssh_cas'[d].ca_type = ssh_cas[d].ca_type
<1>1. ASSUME NEW c \in OfKind(k)
      PROVE  /\ ssh_cas'[c] \in SshCa
             /\ ssh_cas'[c] # Null
             /\ ssh_cas'[c].ca_type = k
             /\ ~ ssh_cas'[c].is_active
  <2>1. c \in CaIds /\ ssh_cas[c] \in SshCa /\ ssh_cas[c].ca_type = k
    BY <1>1 DEF OfKind, TypeOK
  <2>2. ssh_cas'[c] = [ssh_cas[c] EXCEPT !.is_active = FALSE]
    BY <1>1, <2>1
  <2>3. [ssh_cas[c] EXCEPT !.is_active = FALSE] \in SshCa
    BY <2>1 DEF SshCa
  <2>4. ssh_cas'[c].ca_type = k /\ ~ ssh_cas'[c].is_active
    BY <2>1, <2>2 DEF SshCa
  <2> QED
    BY <2>2, <2>3, <2>4, NullAssumption
<1>2. \A c \in CaIds \ OfKind(k) : ssh_cas'[c] = ssh_cas[c]
  OBVIOUS
<1>3. ssh_cas' \in [CaIds -> SshCa \cup {Null}]
  BY <1>1 DEF TypeOK, OfKind
<1>4. \A m \in CaKinds : OfKind(m)' = OfKind(m)
  BY <1>1, <1>2 DEF OfKind
<1>5. ActiveCas(k)' = {}
  BY <1>1, <1>4 DEF ActiveCas
<1>6. \A m \in CaKinds \ {k} : ActiveCas(m)' = ActiveCas(m)
  <2>1. \A m \in CaKinds \ {k} : \A c \in OfKind(m) : c \in CaIds \ OfKind(k)
    BY DEF OfKind
  <2> QED
    BY <1>2, <1>4, <2>1 DEF ActiveCas
<1>7. Retired \subseteq Retired'
  BY <1>1, <1>2 DEF Retired
<1>8. \A d \in CaIds : ssh_cas[d] # Null =>
        ssh_cas'[d] # Null /\ ssh_cas'[d].ca_type = ssh_cas[d].ca_type
  BY <1>1, <1>2 DEF OfKind
<1> QED
  BY <1>3, <1>4, <1>5, <1>6, <1>7, <1>8

----------------------------------------------------------------------------
(* The rotations *)

LEMMA KindType ==
  ASSUME TypeOK, RotationsStand, NEW r \in Rotations,
         rotation[r].pc \in {"deactivate", "insert"}
  PROVE  Kind(r) \in CaKinds
BY DEF RotationsStand, TypeOK, SshCa, Kind

\* The records that rotations are given.
LEMMA RotationType ==
  /\ \A pc \in {"unused", "deactivate", "insert", "done"} : NoRotation(pc) \in Rotation
  /\ \A c \in CaIds : [pc |-> "deactivate", ca |-> c] \in Rotation
BY DEF NoRotation, Rotation

\* When CAs keep their kind and one rotation moves on, or none, the others are where they were.
LEMMA OthersRotate ==
  ASSUME RotationsStand, NEW k \in CaKinds, NEW moved \in SUBSET Rotations,
         \A d \in CaIds : ssh_cas[d] # Null =>
           ssh_cas'[d] # Null /\ ssh_cas'[d].ca_type = ssh_cas[d].ca_type,
         \A r \in Rotations \ moved : rotation'[r] = rotation[r]
  PROVE  \A r \in Rotations \ moved : r \in Rotating(k)' <=> r \in Rotating(k)
BY DEF Rotating, Kind, RotationsStand

LEMMA EnsureCas ==
  ASSUME IInv, NEW k \in CaKinds, EnsureSshCas(k)
  PROVE  TypeOK' /\ CasInv' /\ CasEndure
<1>1. boot = k /\ boot # "up"
  BY DEF EnsureSshCas, CaKinds
<1>2. \A r \in Rotations : rotation[r].pc \notin {"deactivate", "insert"}
  BY <1>1 DEF IInv, RotationsStand
<1>3. RotationsStand' /\ NoneBetween' /\ \A m \in CaKinds : Rotating(m)' = {}
  BY <1>2 DEF RotationsStand, NoneBetween, Rotating, EnsureSshCas
<1>4. CASE ActiveCas(k) # {} /\ UNCHANGED <<ssh_cas, crossed, interrupted, latest>>
  <2>1. \A m \in CaKinds : OfKind(m)' = OfKind(m) /\ ActiveCas(m)' = ActiveCas(m)
    BY <1>4 DEF OfKind, ActiveCas
  <2>2. TypeOK'
    BY <1>4 DEF IInv, TypeOK, EnsureSshCas, CaKinds
  <2>3. OneActive'
    BY <1>4, <2>1 DEF IInv, OneActive
  <2>4. UsersFirst' /\ SomeActive'
    BY <1>1, <1>4, <2>1 DEF IInv, UsersFirst, SomeActive, EnsureSshCas, CaKinds
  <2>5. CasEndure
    BY <1>4, <2>1 DEF CasEndure, Retired, EnsureSshCas
  <2> QED
    BY <1>3, <2>2, <2>3, <2>4, <2>5 DEF CasInv
<1>5. ASSUME ActiveCas(k) = {}, UNCHANGED crossed, NEW c \in CaIds, InsertCa(k, c)
      PROVE  TypeOK' /\ CasInv' /\ CasEndure
  <2>1. ActiveCas(k)' = {c} /\ latest'[k] = c
    BY <1>5, Inserts DEF IInv
  <2>2. \A m \in CaKinds \ {k} : ActiveCas(m)' = ActiveCas(m) /\ latest'[m] = latest[m]
    BY <1>5, Inserts DEF IInv
  <2>3. TypeOK'
    <3>1. /\ ssh_cas' \in [CaIds -> SshCa \cup {Null}]
          /\ latest' \in [CaKinds -> CaIds \cup {Null}]
          /\ interrupted' = interrupted \ {k}
      BY <1>5, Inserts DEF IInv
    <3>2. boot' \in CaKinds \cup {"up"} /\ crossed' = crossed
      BY <1>5 DEF EnsureSshCas, CaKinds
    <3> QED
      BY <3>1, <3>2 DEF IInv, TypeOK, EnsureSshCas
  <2>4. OneActive'
    BY <1>5, <2>1, <2>2 DEF IInv, OneActive
  <2>5. UsersFirst' /\ SomeActive'
    BY <1>1, <2>1, <2>2 DEF IInv, UsersFirst, SomeActive, EnsureSshCas, CaKinds
  <2>6. CasEndure
    BY <1>5, Inserts DEF IInv, CasEndure, EnsureSshCas
  <2> QED
    BY <1>3, <2>3, <2>4, <2>5, <2>6 DEF CasInv
<1> QED
  BY <1>4, <1>5 DEF EnsureSshCas

LEMMA RotateSelectCas ==
  ASSUME IInv, NEW r \in Rotations, NEW c \in CaIds, RotateSelect(r, c)
  PROVE  TypeOK' /\ CasInv' /\ CasEndure
<1>1. rotation'[r] = [pc |-> "deactivate", ca |-> c]
  BY DEF IInv, TypeOK, RotateSelect
<1>2. \A q \in Rotations \ {r} : rotation'[q] = rotation[q]
  BY DEF IInv, TypeOK, RotateSelect
<1>3. \A m \in CaKinds : OfKind(m)' = OfKind(m) /\ ActiveCas(m)' = ActiveCas(m)
  BY DEF OfKind, ActiveCas, RotateSelect
<1>4. \A m \in CaKinds : Rotating(m)' = Rotating(m)
  <2> SUFFICES ASSUME NEW m \in CaKinds PROVE Rotating(m)' = Rotating(m)
    OBVIOUS
  <2>1. r \notin Rotating(m)' /\ r \notin Rotating(m)
    BY <1>1 DEF Rotating, RotateSelect
  <2>2. \A q \in Rotations \ {r} : q \in Rotating(m)' <=> q \in Rotating(m)
    BY <1>2 DEF Rotating, Kind, RotateSelect
  <2> QED
    BY <2>1, <2>2 DEF Rotating
<1>5. TypeOK'
  BY RotationType DEF IInv, TypeOK, RotateSelect
<1>6. RotationsStand'
  BY <1>1, <1>2 DEF IInv, RotationsStand, RotateSelect
<1>7. NoneBetween' /\ OneActive' /\ UsersFirst' /\ SomeActive'
  BY <1>3, <1>4 DEF IInv, NoneBetween, OneActive, UsersFirst, SomeActive, RotateSelect, CaKinds
<1>8. CasEndure
  BY <1>3 DEF CasEndure, Retired, RotateSelect
<1> QED
  BY <1>5, <1>6, <1>7, <1>8 DEF CasInv

LEMMA RotateDeactivateCas ==
  ASSUME IInv, NEW r \in Rotations, RotateDeactivate(r)
  PROVE  TypeOK' /\ CasInv' /\ CasEndure
<1>1. TypeOK /\ RotationsStand /\ rotation[r].pc = "deactivate" /\ boot = "up" /\ boot' = "up"
  BY DEF IInv, RotationsStand, RotateDeactivate
<1>2. PICK k \in CaKinds : k = Kind(r)
  BY <1>1, KindType
<1>3. ssh_cas' = [c \in CaIds |->
        IF c \in OfKind(k) THEN [ssh_cas[c] EXCEPT !.is_active = FALSE] ELSE ssh_cas[c]]
  BY <1>2 DEF RotateDeactivate
<1>4. /\ rotation'[r].pc = "insert" /\ rotation'[r].ca = rotation[r].ca
      /\ \A q \in Rotations \ {r} : rotation'[q] = rotation[q]
      /\ rotation' \in [Rotations -> Rotation]
  BY <1>1 DEF TypeOK, Rotation, RotateDeactivate
<1>5. crossed' = crossed \ {k}
  BY <1>2 DEF RotateDeactivate
<1>6. Kind(r)' = k
  BY <1>1, <1>2, <1>3, <1>4, Deactivates DEF Kind, RotationsStand
<1>7. r \in Rotating(k)'
  BY <1>4, <1>6 DEF Rotating
<1>8. ASSUME NEW m \in CaKinds \ {k} PROVE Rotating(m)' = Rotating(m)
  <2>1. r \notin Rotating(m)' /\ r \notin Rotating(m)
    BY <1>1, <1>6, <1>8 DEF Rotating
  <2>2. \A q \in Rotations \ {r} : q \in Rotating(m)' <=> q \in Rotating(m)
    <3>1. \A d \in CaIds : ssh_cas[d] # Null =>
            ssh_cas'[d] # Null /\ ssh_cas'[d].ca_type = ssh_cas[d].ca_type
      BY <1>1, <1>2, <1>3, Deactivates
    <3> QED
      BY <1>1, <1>4, <3>1, OthersRotate
  <2> QED
    BY <2>1, <2>2 DEF Rotating
<1>9. ActiveCas(k)' = {} /\ \A m \in CaKinds \ {k} : ActiveCas(m)' = ActiveCas(m)
  BY <1>1, <1>2, <1>3, Deactivates
<1>10. TypeOK'
  BY <1>1, <1>2, <1>3, <1>4, Deactivates DEF TypeOK, RotateDeactivate
<1>11. RotationsStand'
  BY <1>1, <1>2, <1>3, <1>4, Deactivates DEF RotationsStand, RotateDeactivate
<1>12. NoneBetween'
  BY <1>5, <1>8, <1>9 DEF IInv, NoneBetween
<1>13. OneActive'
  BY <1>5, <1>9 DEF IInv, OneActive, RotateDeactivate
<1>14. UsersFirst'
  BY <1>1 DEF UsersFirst
<1>15. SomeActive'
  BY <1>1, <1>7, <1>8, <1>9 DEF IInv, SomeActive, RotateDeactivate
<1>16. CasEndure
  BY <1>1, <1>2, <1>3, Deactivates DEF CasEndure, RotateDeactivate
<1> QED
  BY <1>10, <1>11, <1>12, <1>13, <1>14, <1>15, <1>16 DEF CasInv

LEMMA RotateInsertCas ==
  ASSUME IInv, NEW r \in Rotations, RotateInsert(r)
  PROVE  TypeOK' /\ CasInv' /\ CasEndure
<1>1. TypeOK /\ RotationsStand /\ rotation[r].pc = "insert" /\ boot = "up" /\ boot' = "up"
  BY DEF IInv, RotationsStand, RotateInsert
<1>2. PICK k \in CaKinds : k = Kind(r)
  BY <1>1, KindType
<1>3. PICK c \in CaIds : InsertCa(k, c)
  BY <1>2 DEF RotateInsert
<1>4. /\ rotation'[r].pc = "done"
      /\ \A q \in Rotations \ {r} : rotation'[q] = rotation[q]
      /\ rotation' \in [Rotations -> Rotation]
  BY <1>1, RotationType DEF TypeOK, NoRotation, RotateInsert
<1>5. crossed' = IF Rotating(k) = {r} THEN crossed ELSE crossed \cup {k}
  BY <1>2 DEF RotateInsert
<1>6. r \in Rotating(k)
  BY <1>1, <1>2 DEF Rotating
<1>7. ASSUME NEW m \in CaKinds PROVE Rotating(m)' = Rotating(m) \ {r}
  <2>1. r \notin Rotating(m)'
    BY <1>4 DEF Rotating
  <2>2. \A d \in CaIds : ssh_cas[d] # Null =>
          ssh_cas'[d] # Null /\ ssh_cas'[d].ca_type = ssh_cas[d].ca_type
    BY <1>1, <1>2, <1>3, Inserts
  <2>3. \A q \in Rotations \ {r} : q \in Rotating(m)' <=> q \in Rotating(m)
    BY <1>1, <1>4, <2>2, OthersRotate
  <2> QED
    BY <2>1, <2>3 DEF Rotating
<1>8. \A m \in CaKinds \ {k} : r \notin Rotating(m)
  BY <1>2 DEF Rotating
<1>9. /\ ActiveCas(k)' = ActiveCas(k) \cup {c} /\ latest'[k] = c
      /\ \A m \in CaKinds \ {k} : ActiveCas(m)' = ActiveCas(m) /\ latest'[m] = latest[m]
      /\ interrupted' = interrupted \ {k}
  BY <1>1, <1>2, <1>3, Inserts
<1>10. TypeOK'
  BY <1>1, <1>2, <1>3, <1>4, Inserts DEF TypeOK, RotateInsert
<1>11. RotationsStand'
  BY <1>1, <1>2, <1>3, <1>4, Inserts DEF RotationsStand
<1>12. NoneBetween'
  BY <1>5, <1>7, <1>8, <1>9 DEF IInv, NoneBetween
<1>13. OneActive'
  <2>1. k \notin crossed' => ActiveCas(k) = {}
    BY <1>2, <1>5, <1>6 DEF IInv, NoneBetween
  <2> QED
    BY <1>5, <1>9, <2>1 DEF IInv, OneActive
<1>14. UsersFirst'
  BY <1>1 DEF UsersFirst
<1>15. SomeActive'
  BY <1>1, <1>7, <1>8, <1>9 DEF IInv, SomeActive
<1>16. CasEndure
  BY <1>1, <1>2, <1>3, Inserts DEF CasEndure, RotateInsert
<1> QED
  BY <1>10, <1>11, <1>12, <1>13, <1>14, <1>15, <1>16 DEF CasInv

LEMMA CutRotationCas ==
  ASSUME IInv, NEW r \in Rotations, CutRotation(r)
  PROVE  TypeOK' /\ CasInv' /\ CasEndure
<1>1. TypeOK /\ RotationsStand /\ rotation[r].pc = "insert" /\ boot = "up" /\ boot' = "up"
  BY DEF IInv, RotationsStand, CutRotation
<1>2. PICK k \in CaKinds : k = Kind(r)
  BY <1>1, KindType
<1>3. /\ rotation'[r].pc = "done"
      /\ \A q \in Rotations \ {r} : rotation'[q] = rotation[q]
      /\ rotation' \in [Rotations -> Rotation]
  BY <1>1, RotationType DEF TypeOK, NoRotation, CutRotation
<1>4. interrupted' = interrupted \cup {k}
  BY <1>2 DEF CutRotation
<1>5. \A m \in CaKinds \ {k} : r \notin Rotating(m)
  BY <1>2 DEF Rotating
<1>6. \A m \in CaKinds : OfKind(m)' = OfKind(m) /\ ActiveCas(m)' = ActiveCas(m)
  BY DEF OfKind, ActiveCas, CutRotation
<1>7. ASSUME NEW m \in CaKinds PROVE Rotating(m)' = Rotating(m) \ {r}
  BY <1>1, <1>3, OthersRotate DEF Rotating, Kind, CutRotation
<1>8. TypeOK'
  <2>1. faults' \in 0..MaxFaults
    BY <1>1, FaultsAssumption DEF TypeOK, CutRotation
  <2>2. interrupted' \subseteq CaKinds
    BY <1>1, <1>2, <1>4 DEF TypeOK
  <2> QED
    BY <1>1, <1>3, <2>1, <2>2 DEF TypeOK, CutRotation
<1>9. RotationsStand'
  BY <1>1, <1>3 DEF RotationsStand, CutRotation
<1>10. NoneBetween' /\ OneActive' /\ UsersFirst'
  BY <1>1, <1>6, <1>7 DEF IInv, NoneBetween, OneActive, UsersFirst, CutRotation
<1>11. SomeActive'
  BY <1>1, <1>4, <1>5, <1>6, <1>7 DEF IInv, SomeActive
<1>12. CasEndure
  BY <1>6 DEF CasEndure, Retired, CutRotation
<1> QED
  BY <1>8, <1>9, <1>10, <1>11, <1>12 DEF CasInv

LEMMA CrashCas ==
  ASSUME IInv, Crash
  PROVE  TypeOK' /\ CasInv' /\ IssuesInv'
<1>1. /\ boot' = "user"
      /\ rotation' \in [Rotations -> Rotation]
      /\ \A r \in Rotations : rotation'[r].pc \notin {"deactivate", "insert"}
  <2>1. \A r \in Rotations : rotation'[r] =
          IF rotation[r].pc = "unused" THEN rotation[r] ELSE NoRotation("done")
    BY DEF Crash
  <2> QED
    BY <2>1, RotationType DEF IInv, TypeOK, Crash, NoRotation
<1>2. /\ issue' \in [Issues -> Issue]
      /\ \A i \in Issues : /\ issue'[i].pc \in {"unused", "done"}
                           /\ issue'[i].pc = "unused" => issue[i].pc = "unused"
  <2>1. NoIssue("done") \in Issue /\ NoIssue("done").pc = "done"
    BY DEF NoIssue, Issue, CaKinds
  <2>2. \A i \in Issues : issue'[i] =
          IF issue[i].pc = "unused" THEN issue[i] ELSE NoIssue("done")
    BY DEF Crash
  <2> QED
    BY <2>1, <2>2 DEF IInv, TypeOK, Crash
<1>3. TypeOK'
  <2>1. faults' \in 0..MaxFaults
    BY FaultsAssumption DEF IInv, TypeOK, Crash
  <2> QED
    BY <1>1, <1>2, <2>1 DEF IInv, TypeOK, Crash, CaKinds
<1>4. CasInv'
  <2>1. \A m \in CaKinds : ActiveCas(m)' = ActiveCas(m)
    BY DEF ActiveCas, OfKind, Crash
  <2>2. RotationsStand' /\ NoneBetween' /\ UsersFirst' /\ SomeActive'
    BY <1>1 DEF RotationsStand, NoneBetween, Rotating, UsersFirst, SomeActive
  <2>3. OneActive'
    BY <2>1 DEF IInv, OneActive, Crash
  <2> QED
    BY <2>2, <2>3 DEF CasInv
<1>5. IssuesInv'
  <2>1. TooLate'
    BY DEF IInv, TooLate, Retired, Crash
  <2>2. \A i \in Issues : IssueReads(i)'
    BY <1>2 DEF IInv, IssueReads, Crash
  <2>3. IssuedFromLive'
    BY DEF IInv, IssuedFromLive, OfKind, Crash
  <2> QED
    BY <2>1, <2>2, <2>3 DEF IssuesInv
<1> QED
  BY <1>3, <1>4, <1>5

----------------------------------------------------------------------------
(* The certificates *)

\* The actions on certificates leave all the rest alone.
LEMMA CertificateSteps ==
  ASSUME IInv, NEW i \in Issues,
         \/ IssueBegin(i) \/ IssueResolve(i) \/ IssueSubject(i) \/ IssueInsert(i)
         \/ RevokeSshCertificate(i) \/ DeleteSshCertificate(i)
  PROVE  /\ UNCHANGED <<ssh_cas, ssh_keys, boot, rotation, faults, crossed, interrupted, latest>>
         /\ \A k \in CaKinds : OfKind(k)' = OfKind(k)
         /\ Retired' = Retired
<1>1. UNCHANGED <<ssh_cas, ssh_keys, boot, rotation, faults, crossed, interrupted, latest>>
  BY DEF IssueBegin, IssueResolve, IssueSubject, IssueInsert, RevokeSshCertificate,
         DeleteSshCertificate
<1> QED
  BY <1>1 DEF OfKind, Retired

\* It is enough to look at the signature that takes the step.
LEMMA OneSignature ==
  ASSUME IInv, NEW i \in Issues,
         UNCHANGED <<ssh_cas, ssh_keys>>,
         \A j \in Issues \ {i} : /\ issue'[j] = issue[j]
                                 /\ before'[j] = before[j]
                                 /\ ssh_certificates'[j] = ssh_certificates[j],
         before'[i].cas \subseteq Retired,
         \A key \in before'[i].keys : ssh_keys[key] = "deleted",
         IssueReads(i)',
         ssh_certificates'[i] # Null =>
           /\ ssh_certificates'[i].ca_id \in OfKind(ssh_certificates'[i].cert_type)
           /\ ssh_certificates'[i].ca_id \notin before'[i].cas
           /\ ssh_certificates'[i].ssh_key_id \notin before'[i].keys
  PROVE  IssuesInv'
<1>1. TooLate'
  BY DEF IInv, TooLate, Retired
<1>2. ASSUME NEW j \in Issues \ {i} PROVE IssueReads(j)'
  <2>1. IssueReads(j)
    BY DEF IInv
  <2> QED
    BY <2>1 DEF IssueReads, OfKind
<1>3. IssuedFromLive'
  BY DEF IInv, IssuedFromLive, OfKind
<1> QED
  BY <1>1, <1>2, <1>3 DEF IssuesInv

LEMMA IssueBeginInv ==
  ASSUME IInv, NEW i \in Issues, IssueBegin(i)
  PROVE  TypeOK' /\ IssuesInv'
<1>1. PICK k \in CaKinds, c \in {d \in CaIds : ssh_cas[d] # Null} \cup {Null},
           key \in Keys \cup {Null} :
        /\ issue' = [issue EXCEPT ![i] = [pc |-> "resolve", cert_type |-> k, ca_id |-> c,
                                          ssh_key_id |-> key, ca |-> Null]]
        /\ before' = [before EXCEPT ![i] =
             [cas |-> IF c = Null THEN Retired ELSE {},
              keys |-> {d \in Keys : ssh_keys[d] = "deleted"}]]
  BY DEF IssueBegin
<1> DEFINE rec == [pc |-> "resolve", cert_type |-> k, ca_id |-> c, ssh_key_id |-> key,
                   ca |-> Null]
<1>2. rec \in Issue /\ rec.pc = "resolve" /\ rec.ca_id = c
  BY DEF Issue
<1>3. issue' = [issue EXCEPT ![i] = rec]
  BY <1>1
<1> HIDE DEF rec
<1>4. /\ issue'[i] = rec /\ \A j \in Issues \ {i} : issue'[j] = issue[j]
      /\ issue' \in [Issues -> Issue]
  BY <1>2, <1>3 DEF IInv, TypeOK
<1>5. /\ before'[i].cas = (IF c = Null THEN Retired ELSE {})
      /\ before'[i].keys = {d \in Keys : ssh_keys[d] = "deleted"}
      /\ \A j \in Issues \ {i} : before'[j] = before[j]
  BY <1>1 DEF IInv, TypeOK
<1>6. before' \in [Issues -> [cas: SUBSET CaIds, keys: SUBSET Keys]]
  BY <1>1 DEF IInv, TypeOK, Retired
<1>7. TypeOK'
  BY <1>4, <1>6 DEF IInv, TypeOK, IssueBegin
<1>8. ssh_certificates[i] = Null /\ ssh_certificates' = ssh_certificates
  BY DEF IInv, IssueReads, IssueBegin
<1>9. IssueReads(i)'
  BY <1>2, <1>4, <1>5 DEF IssueReads
<1>10. IssuesInv'
  BY <1>4, <1>5, <1>8, <1>9, OneSignature DEF IssueBegin
<1> QED
  BY <1>7, <1>10

LEMMA IssueResolveInv ==
  ASSUME IInv, NEW i \in Issues, IssueResolve(i)
  PROVE  TypeOK' /\ IssuesInv'
<1>1. issue[i] \in Issue /\ issue[i].pc = "resolve" /\ issue[i].cert_type \in CaKinds
  BY DEF IInv, TypeOK, Issue, IssueResolve
<1>2. UNCHANGED <<ssh_cas, ssh_keys, ssh_certificates, before>>
  BY DEF IssueResolve
<1>3. /\ before[i].cas \subseteq Retired
      /\ \A key \in before[i].keys : ssh_keys[key] = "deleted"
  BY DEF IInv, TooLate
<1>4. /\ issue' \in [Issues -> Issue]
      /\ \A j \in Issues \ {i} : issue'[j] = issue[j]
      /\ \/ issue'[i].pc = "done"
         \/ /\ issue'[i].pc = "subject"
            /\ issue'[i].cert_type = issue[i].cert_type
            /\ issue'[i].ca \in Signing(i) \cap OfKind(issue[i].cert_type)
  <2>1. ASSUME NEW c \in Signing(i) \cap OfKind(issue[i].cert_type),
               issue' = [issue EXCEPT ![i].pc = "subject", ![i].ca = c]
        PROVE  <1>4!1 /\ <1>4!2 /\ <1>4!3!2
    <3>1. c \in CaIds
      BY DEF OfKind
    <3> QED
      BY <1>1, <2>1, <3>1 DEF IInv, TypeOK, Issue
  <2>2. ASSUME issue' = [issue EXCEPT ![i] = NoIssue("done")]
        PROVE  <1>4!1 /\ <1>4!2 /\ <1>4!3!1
    <3>1. NoIssue("done") \in Issue /\ NoIssue("done").pc = "done"
      BY DEF NoIssue, Issue, CaKinds
    <3> QED
      BY <2>2, <3>1 DEF IInv, TypeOK
  <2> QED
    BY <2>1, <2>2 DEF IssueResolve
<1>5. TypeOK'
  BY <1>4 DEF IInv, TypeOK, IssueResolve
<1>6. Signing(i) \cap before[i].cas = {}
  <2>1. issue[i].ca_id # Null => before[i].cas = {}
    BY <1>1 DEF IInv, IssueReads
  <2>2. Newest(ActiveCas(issue[i].cert_type)) \cap Retired = {}
    BY DEF Newest, ActiveCas, Retired
  <2> QED
    BY <1>3, <2>1, <2>2 DEF Signing
<1>7. IssueReads(i)'
  BY <1>2, <1>4, <1>6 DEF IssueReads, OfKind
<1>8. IssuesInv'
  BY <1>2, <1>3, <1>4, <1>7, OneSignature DEF IInv, IssuedFromLive
<1> QED
  BY <1>5, <1>8

LEMMA IssueSubjectInv ==
  ASSUME IInv, NEW i \in Issues, IssueSubject(i)
  PROVE  TypeOK' /\ IssuesInv'
<1>1. issue[i] \in Issue /\ issue[i].pc = "subject"
  BY DEF IInv, TypeOK, IssueSubject
<1>2. UNCHANGED <<ssh_cas, ssh_keys, ssh_certificates, before>>
  BY DEF IssueSubject
<1>3. /\ before[i].cas \subseteq Retired
      /\ before[i].keys \subseteq Keys
      /\ \A key \in before[i].keys : ssh_keys[key] = "deleted"
  BY DEF IInv, TypeOK, TooLate
<1>4. /\ issue' \in [Issues -> Issue]
      /\ \A j \in Issues \ {i} : issue'[j] = issue[j]
      /\ \/ issue'[i].pc = "done"
         \/ /\ issue'[i].pc = "insert"
            /\ issue'[i].cert_type = issue[i].cert_type
            /\ issue'[i].ca = issue[i].ca
            /\ issue'[i].ssh_key_id = issue[i].ssh_key_id
            /\ issue[i].ssh_key_id = Null \/ ssh_keys[issue[i].ssh_key_id] # "deleted"
  <2>1. NoIssue("done") \in Issue /\ NoIssue("done").pc = "done"
    BY DEF NoIssue, Issue, CaKinds
  <2> QED
    BY <1>1, <2>1 DEF IInv, TypeOK, Issue, IssueSubject
<1>5. TypeOK'
  BY <1>4 DEF IInv, TypeOK, IssueSubject
<1>6. issue[i].ca \in OfKind(issue[i].cert_type) \ before[i].cas
  BY <1>1 DEF IInv, IssueReads
<1>7. Null \notin before[i].keys
  BY <1>3, NullAssumption
<1>8. IssueReads(i)'
  BY <1>2, <1>3, <1>4, <1>6, <1>7 DEF IssueReads, OfKind
<1>9. IssuesInv'
  BY <1>2, <1>3, <1>4, <1>8, OneSignature DEF IInv, IssuedFromLive
<1> QED
  BY <1>5, <1>9

LEMMA IssueInsertInv ==
  ASSUME IInv, NEW i \in Issues, IssueInsert(i)
  PROVE  TypeOK' /\ IssuesInv'
<1>1. issue[i] \in Issue /\ issue[i].pc = "insert"
  BY DEF IInv, TypeOK, IssueInsert
<1>2. UNCHANGED <<ssh_cas, ssh_keys, before>>
  BY DEF IssueInsert
<1>3. /\ before[i].cas \subseteq Retired
      /\ \A key \in before[i].keys : ssh_keys[key] = "deleted"
  BY DEF IInv, TooLate
<1>4. /\ issue[i].ca \in OfKind(issue[i].cert_type) \ before[i].cas
      /\ issue[i].ssh_key_id \notin before[i].keys
  BY <1>1 DEF IInv, IssueReads
<1> DEFINE row == [ca_id |-> issue[i].ca, cert_type |-> issue[i].cert_type,
                   ssh_key_id |-> issue[i].ssh_key_id, is_revoked |-> FALSE]
<1>5. /\ row \in SshCertificate /\ row.ca_id = issue[i].ca
      /\ row.cert_type = issue[i].cert_type /\ row.ssh_key_id = issue[i].ssh_key_id
  BY <1>1, <1>4 DEF SshCertificate, Issue, OfKind
<1>6. ssh_certificates' = [ssh_certificates EXCEPT ![i] = row]
  BY DEF IssueInsert
<1> HIDE DEF row
<1>7. /\ ssh_certificates'[i] = row
      /\ \A j \in Issues \ {i} : ssh_certificates'[j] = ssh_certificates[j]
      /\ ssh_certificates' \in [Issues -> SshCertificate \cup {Null}]
  BY <1>5, <1>6 DEF IInv, TypeOK
<1>8. /\ issue' \in [Issues -> Issue] /\ issue'[i].pc = "done"
      /\ \A j \in Issues \ {i} : issue'[j] = issue[j]
  <2>1. NoIssue("done") \in Issue /\ NoIssue("done").pc = "done"
    BY DEF NoIssue, Issue, CaKinds
  <2> QED
    BY <2>1 DEF IInv, TypeOK, IssueInsert
<1>9. TypeOK'
  BY <1>7, <1>8 DEF IInv, TypeOK, IssueInsert
<1>10. IssueReads(i)'
  BY <1>8 DEF IssueReads
<1>11. IssuesInv'
  BY <1>2, <1>3, <1>4, <1>5, <1>7, <1>8, <1>10, OneSignature
<1> QED
  BY <1>9, <1>11

\* A certificate that is revoked or deleted is still, or no longer, the one that was signed.
LEMMA RowInv ==
  ASSUME IInv, NEW i \in Issues, RevokeSshCertificate(i) \/ DeleteSshCertificate(i)
  PROVE  TypeOK' /\ IssuesInv'
<1>1. UNCHANGED <<ssh_cas, ssh_keys, boot, rotation, issue, faults, history>>
  BY DEF RevokeSshCertificate, DeleteSshCertificate
<1>2. ssh_certificates[i] # Null /\ ssh_certificates[i] \in SshCertificate
  BY DEF IInv, TypeOK, RevokeSshCertificate, DeleteSshCertificate
<1>3. /\ ssh_certificates' \in [Issues -> SshCertificate \cup {Null}]
      /\ \A j \in Issues \ {i} : ssh_certificates'[j] = ssh_certificates[j]
      /\ ssh_certificates'[i] # Null =>
           /\ ssh_certificates'[i].ca_id = ssh_certificates[i].ca_id
           /\ ssh_certificates'[i].cert_type = ssh_certificates[i].cert_type
           /\ ssh_certificates'[i].ssh_key_id = ssh_certificates[i].ssh_key_id
  <2>1. CASE RevokeSshCertificate(i)
    <3>1. ssh_certificates' = [ssh_certificates EXCEPT
            ![i] = [ssh_certificates[i] EXCEPT !.is_revoked = TRUE]]
      BY <2>1 DEF RevokeSshCertificate
    <3>2. [ssh_certificates[i] EXCEPT !.is_revoked = TRUE] \in SshCertificate
      BY <1>2 DEF SshCertificate
    <3> QED
      BY <1>2, <3>1, <3>2 DEF IInv, TypeOK, SshCertificate
  <2>2. CASE DeleteSshCertificate(i)
    BY <2>2 DEF IInv, TypeOK, DeleteSshCertificate
  <2> QED
    BY <2>1, <2>2
<1>4. TypeOK'
  BY <1>1, <1>3 DEF IInv, TypeOK
<1>5. /\ before[i].cas \subseteq Retired
      /\ \A key \in before[i].keys : ssh_keys[key] = "deleted"
  BY DEF IInv, TooLate
<1>6. IssueReads(i)'
  BY <1>1, <1>2 DEF IInv, IssueReads, OfKind
<1>7. IssuesInv'
  BY <1>1, <1>2, <1>3, <1>5, <1>6, OneSignature DEF IInv, IssuedFromLive
<1> QED
  BY <1>4, <1>7

----------------------------------------------------------------------------
(* The keys *)

LEMMA KeySteps ==
  ASSUME IInv, NEW key \in Keys, GenerateSshKey(key) \/ RevokeSshKey(key) \/ DeleteSshCert(key)
  PROVE  TypeOK' /\ CasEndure /\ UNCHANGED <<ssh_cas, ssh_certificates, boot, rotation, issue,
                                             faults, history>>
<1>1. PICK status \in {"valid", "revoked", "deleted"} :
        ssh_keys[key] # "deleted" /\ SetKey(key, status)
  BY DEF IInv, TypeOK, GenerateSshKey, RevokeSshKey, DeleteSshCert
<1>2. UNCHANGED <<ssh_cas, ssh_certificates, boot, rotation, issue, faults, history>>
  BY <1>1 DEF SetKey
<1>3. TypeOK'
  BY <1>1, <1>2 DEF IInv, TypeOK, SetKey
<1>4. \A k \in CaKinds : OfKind(k)' = OfKind(k)
  BY <1>2 DEF OfKind
<1>5. Retired' = Retired
  BY <1>2 DEF Retired
<1>6. CasEndure
  BY <1>1, <1>4, <1>5 DEF IInv, TypeOK, CasEndure, SetKey
<1> QED
  BY <1>2, <1>3, <1>6

----------------------------------------------------------------------------
(* The theorems *)

LEMMA InitInv == Init => IInv
<1> SUFFICES ASSUME Init PROVE IInv
  OBVIOUS
<1>1. /\ \A k \in CaKinds : OfKind(k) = {} /\ ActiveCas(k) = {}
      /\ \A r \in Rotations : rotation[r].pc = "unused"
  BY DEF Init, OfKind, ActiveCas, NoRotation
<1>2. \A i \in Issues : /\ issue[i].pc = "unused" /\ ssh_certificates[i] = Null
                        /\ before[i].cas = {} /\ before[i].keys = {}
  BY DEF Init, NoIssue
<1>3. TypeOK
  <2>1. NoIssue("unused") \in Issue
    BY DEF NoIssue, Issue, CaKinds
  <2> QED
    BY <2>1, RotationType, FaultsAssumption DEF Init, TypeOK, CaKinds
<1>4. RotationsStand /\ NoneBetween /\ OneActive /\ UsersFirst /\ SomeActive
  BY <1>1 DEF Init, RotationsStand, NoneBetween, OneActive, UsersFirst, SomeActive, Rotating
<1>5. TooLate /\ IssuedFromLive /\ \A i \in Issues : IssueReads(i)
  BY <1>2 DEF TooLate, IssuedFromLive, IssueReads
<1> QED
  BY <1>3, <1>4, <1>5 DEF IInv

LEMMA Halves == IInv <=> TypeOK /\ CasInv /\ IssuesInv
BY DEF IInv, CasInv, IssuesInv

LEMMA StepInv == IInv /\ [Next]_vars => IInv'
<1> SUFFICES ASSUME IInv, [Next]_vars PROVE TypeOK' /\ CasInv' /\ IssuesInv'
  BY Halves DEF IInv, CasInv, IssuesInv
<1>1. TypeOK /\ CasInv /\ IssuesInv
  BY Halves
<1>2. ASSUME NEW k \in CaKinds, EnsureSshCas(k)
      PROVE  TypeOK' /\ CasInv' /\ IssuesInv'
  <2>1. UNCHANGED <<issue, before, ssh_certificates>>
    BY <1>2 DEF EnsureSshCas
  <2> QED
    BY <1>1, <1>2, <2>1, EnsureCas, IssuesLeftAlone
<1>3. ASSUME NEW r \in Rotations, NEW c \in CaIds, RotateSelect(r, c)
      PROVE  TypeOK' /\ CasInv' /\ IssuesInv'
  <2>1. UNCHANGED <<issue, before, ssh_certificates>>
    BY <1>3 DEF RotateSelect
  <2> QED
    BY <1>1, <1>3, <2>1, RotateSelectCas, IssuesLeftAlone
<1>4. ASSUME NEW r \in Rotations, RotateDeactivate(r)
      PROVE  TypeOK' /\ CasInv' /\ IssuesInv'
  <2>1. UNCHANGED <<issue, before, ssh_certificates>>
    BY <1>4 DEF RotateDeactivate
  <2> QED
    BY <1>1, <1>4, <2>1, RotateDeactivateCas, IssuesLeftAlone
<1>5. ASSUME NEW r \in Rotations, RotateInsert(r)
      PROVE  TypeOK' /\ CasInv' /\ IssuesInv'
  <2>1. UNCHANGED <<issue, before, ssh_certificates>>
    BY <1>5 DEF RotateInsert
  <2> QED
    BY <1>1, <1>5, <2>1, RotateInsertCas, IssuesLeftAlone
<1>6. ASSUME NEW r \in Rotations, CutRotation(r)
      PROVE  TypeOK' /\ CasInv' /\ IssuesInv'
  <2>1. UNCHANGED <<issue, before, ssh_certificates>>
    BY <1>6 DEF CutRotation
  <2> QED
    BY <1>1, <1>6, <2>1, CutRotationCas, IssuesLeftAlone
<1>7. ASSUME NEW i \in Issues,
             \/ IssueBegin(i) \/ IssueResolve(i) \/ IssueSubject(i) \/ IssueInsert(i)
             \/ RevokeSshCertificate(i) \/ DeleteSshCertificate(i)
      PROVE  TypeOK' /\ CasInv' /\ IssuesInv'
  <2>1. CasInv'
    BY <1>1, <1>7, CertificateSteps, CasLeftAlone
  <2> QED
    BY <1>7, <2>1, IssueBeginInv, IssueResolveInv, IssueSubjectInv, IssueInsertInv, RowInv
<1>8. ASSUME NEW key \in Keys, GenerateSshKey(key) \/ RevokeSshKey(key) \/ DeleteSshCert(key)
      PROVE  TypeOK' /\ CasInv' /\ IssuesInv'
  BY <1>1, <1>8, KeySteps, CasLeftAlone, IssuesLeftAlone
<1>9. CASE Crash
  BY <1>9, CrashCas
<1>10. CASE UNCHANGED vars
  <2>1. TypeOK'
    BY <1>1, <1>10 DEF TypeOK, vars
  <2>2. CasInv'
    BY <1>1, <1>10, CasLeftAlone DEF vars
  <2>3. CasEndure
    BY <1>10 DEF vars, CasEndure, OfKind, Retired
  <2>4. IssuesInv'
    BY <1>1, <1>10, <2>3, IssuesLeftAlone DEF vars
  <2> QED
    BY <2>1, <2>2, <2>4
<1> QED
  BY <1>2, <1>3, <1>4, <1>5, <1>6, <1>7, <1>8, <1>9, <1>10 DEF Next, RotateStep, IssueStep

\* The invariant holds in every state: two rotations, a start and signatures may be interleaved
\* and cut at every statement (rotate_ssh_ca, ensure_ssh_cas, issue_ssh_certificate).
THEOREM Invariance == Spec => []IInv
<1> QED
  BY InitInv, StepInv, PTL DEF Spec

\* The tables and the records of requests hold what the code puts there.
THEOREM TypeCorrect == Spec => []TypeOK
<1>1. IInv => TypeOK
  BY DEF IInv
<1> QED
  BY <1>1, Invariance, PTL

\* However many CAs a kind has had, the one created last alone may be active, unless it was
\* inserted between the two statements of another rotation.
THEOREM OneActiveHolds == Spec => []OneActive
<1>1. IInv => OneActive
  BY DEF IInv
<1> QED
  BY <1>1, Invariance, PTL

\* A process that serves requests has an active CA of each kind, but between the statements of
\* a rotation and after one that was cut there.
THEOREM SomeActiveHolds == Spec => []SomeActive
<1>1. IInv => SomeActive
  BY DEF IInv
<1> QED
  BY <1>1, Invariance, PTL

\* No certificate is signed by a CA that had been rotated away when it was asked for, unless it
\* was named, nor for a key that had been deleted.
THEOREM IssuedFromLiveHolds == Spec => []IssuedFromLive
<1>1. IInv => IssuedFromLive
  BY DEF IInv
<1> QED
  BY <1>1, Invariance, PTL

=============================================================================
