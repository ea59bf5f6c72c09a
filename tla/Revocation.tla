----------------------------- MODULE Revocation -----------------------------
(***************************************************************************)
(* What revocation promises to those who check certificates, told without  *)
(* the statements of a request: a certificate is issued by an authority,   *)
(* may be revoked, and is gone in the end; only by an import, which asks   *)
(* nobody, does it come back.  The list of an authority, and the copy of   *)
(* it, name only certificates that are revoked, gone or were imported; a   *)
(* list grows as long as its authority stands.                             *)
(***************************************************************************)
CONSTANTS Certs, Roots, None

VARIABLES
  status,    \* where each certificate stands
  signer,    \* the authority of a certificate that is there
  standing,  \* the authorities that exist
  served,    \* the list of each
  copy,      \* the copy of it elsewhere, or an empty one if that cannot be read
  imported   \* the certificates ever brought in by an import

vars == <<status, signer, standing, served, copy, imported>>

Withdrawn == {c \in Certs : status[c] \in {"revoked", "gone"}}

\* What r may list: what is withdrawn and was signed by r itself, as long as the certificate
\* is there to tell, or came in by an import.
Listable(r) == imported \cup {c \in Withdrawn : signer[c] \in {r, None}}

Init ==
  /\ status \in [Certs -> {"unissued", "valid"}]
  /\ signer \in [Certs -> Roots \cup {None}]
  /\ \A c \in Certs : status[c] = "unissued" => signer[c] = None
  /\ standing \subseteq Roots
  /\ served = [r \in Roots |-> {}]
  /\ copy = [r \in Roots |-> {}]
  /\ imported = {}

\* r need not stand any more: its key is in the hands of the one who issues.
Issue(c, r) ==
  /\ status[c] = "unissued"
  /\ status' = [status EXCEPT ![c] = "valid"]
  /\ signer' = [signer EXCEPT ![c] = r]
  /\ UNCHANGED <<standing, served, copy, imported>>

\* The certificate is valid, whatever it was, and r is said to have signed it.
Import(c, r) ==
  /\ status[c] \in {"unissued", "gone"}
  /\ status' = [status EXCEPT ![c] = "valid"]
  /\ signer' = [signer EXCEPT ![c] = r]
  /\ imported' = imported \cup {c}
  /\ UNCHANGED <<standing, served, copy>>

Revoke(c) ==
  /\ status[c] = "valid"
  /\ status' = [status EXCEPT ![c] = "revoked"]
  /\ UNCHANGED <<signer, standing, served, copy, imported>>

\* Deletion takes nothing from a list.
Delete(c) ==
  /\ status[c] \in {"valid", "revoked"}
  /\ status' = [status EXCEPT ![c] = "gone"]
  /\ signer' = [signer EXCEPT ![c] = None]
  /\ UNCHANGED <<standing, served, copy, imported>>

List(r, c) ==
  /\ c \in Listable(r)
  /\ served' = [served EXCEPT ![r] = @ \cup {c}]
  /\ UNCHANGED <<status, signer, standing, copy, imported>>

Establish(r) ==
  /\ r \notin standing
  /\ standing' = standing \cup {r}
  /\ UNCHANGED <<status, signer, served, copy, imported>>

\* An authority goes with its certificates and its list.
Abolish(r) ==
  /\ r \in standing
  /\ standing' = standing \ {r}
  /\ status' = [c \in Certs |-> IF signer[c] = r THEN "gone" ELSE status[c]]
  /\ signer' = [c \in Certs |-> IF signer[c] = r THEN None ELSE signer[c]]
  /\ served' = [served EXCEPT ![r] = {}]
  /\ UNCHANGED <<copy, imported>>

\* The copy of a list is replaced, though maybe by one that is out of date.
Publish(r, list) ==
  /\ list \subseteq Listable(r)
  /\ copy' = [copy EXCEPT ![r] = list]
  /\ UNCHANGED <<status, signer, standing, served, imported>>

\* A failure: certificates about to be issued will never be, and copies being replaced
\* cannot be read.
Interrupt(lost, spoilt) ==
  /\ \A c \in lost : status[c] = "unissued"
  /\ status' = [c \in Certs |-> IF c \in lost THEN "gone" ELSE status[c]]
  /\ copy' = [r \in Roots |-> IF r \in spoilt THEN {} ELSE copy[r]]
  /\ UNCHANGED <<signer, standing, served, imported>>

Next ==
  \/ \E c \in Certs : Revoke(c) \/ Delete(c)
  \/ \E c \in Certs, r \in Roots : Issue(c, r) \/ Import(c, r) \/ List(r, c)
  \/ \E r \in Roots : Establish(r) \/ Abolish(r) \/ \E list \in SUBSET Certs : Publish(r, list)
  \/ \E lost \in SUBSET Certs, spoilt \in SUBSET Roots : Interrupt(lost, spoilt)

Spec == Init /\ [][Next]_vars

\* Signers are those of certificates that are there; no list names what is valid, nor what
\* another authority has signed, unless it was imported.
Inv ==
  /\ status \in [Certs -> {"unissued", "valid", "revoked", "gone"}]
  /\ \A c \in Certs : signer[c] # None => status[c] \in {"valid", "revoked"}
  /\ \A r \in Roots : served[r] \cup copy[r] \subseteq Listable(r)
  /\ imported \subseteq Certs

\* Whoever is on a list or on a copy of one has been withdrawn, and stays so, also when the
\* list and the copy are gone: only an import can undo it, or have undone it before.
ListedForGood(c, r) == [](c \in served[r] \cup copy[r] => [](c \in Withdrawn \cup imported))

=============================================================================
