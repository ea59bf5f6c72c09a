----------------------------- MODULE Succession -----------------------------
(***************************************************************************)
(* What automatic renewal promises of the certificates and of the targets  *)
(* they serve, told without the steps of a renewal: a certificate kept in  *)
(* renewal gets an heir, the heir is put in charge and takes over every    *)
(* target, and only then does the old one retire.  Nobody comes back from  *)
(* retirement.  A certificate an operator has set his hand to is released  *)
(* from the promise, and stays out of it.                                  *)
(***************************************************************************)
CONSTANTS Certs, Targets, Null

VARIABLES
  stage,    \* where each certificate stands
  from,     \* the certificate it was issued to succeed
  serves,   \* the certificate each target is to have
  left,     \* the certificates whose targets an heir took over
  late      \* targets an operator gave back to one of those

vars == <<stage, from, serves, left, late>>

Stages == {"none", "idle", "kept", "retired", "released"}

InCharge(c) == stage[c] \in {"kept", "released"}

Init ==
  /\ stage \in [Certs -> {"none", "kept"}]
  /\ from = [c \in Certs |-> Null]
  /\ serves \in [Targets -> Certs \cup {Null}]
  /\ left = {} /\ late = {}

\* A new certificate, by itself or to succeed c.
Issue(n, c) ==
  /\ stage[n] = "none"
  /\ c # Null => InCharge(c)
  /\ stage' = [stage EXCEPT ![n] = "idle"]
  /\ from' = [from EXCEPT ![n] = c]
  /\ UNCHANGED <<serves, left, late>>

\* Only an heir is put in charge.
Appoint(n) ==
  /\ stage[n] = "idle"
  /\ from[n] # Null
  /\ stage' = [stage EXCEPT ![n] = "kept"]
  /\ UNCHANGED <<from, serves, left, late>>

\* All targets of c go to its heir, which nobody has succeeded yet, at once.
TakeOver(c, n) ==
  /\ from[n] = c
  /\ InCharge(c) /\ InCharge(n)
  /\ n \notin left
  /\ serves' = [t \in Targets |-> IF serves[t] = c THEN n ELSE serves[t]]
  /\ left' = left \cup {c}
  /\ late' = {t \in late : serves[t] # c}
  /\ UNCHANGED <<stage, from>>

\* c goes when an heir is in charge and no target is left, but those given back to c.
Retire(c) ==
  /\ stage[c] = "kept"
  /\ c \in left
  /\ \E n \in Certs : from[n] = c /\ InCharge(n)
  /\ \A t \in Targets : serves[t] = c => t \in late
  /\ stage' = [stage EXCEPT ![c] = "retired"]
  /\ UNCHANGED <<from, serves, left, late>>

\* An operator reconfigures, revokes or deletes c.
Release(c) ==
  /\ stage[c] # "none"
  /\ stage' = [stage EXCEPT ![c] = "released"]
  /\ UNCHANGED <<from, serves, left, late>>

\* An operator binds t to c, which may be retired by now, or to none.
Bind(t, c) ==
  /\ serves' = [serves EXCEPT ![t] = c]
  /\ late' = IF c \in left THEN late \cup {t} ELSE late \ {t}
  /\ UNCHANGED <<stage, from, left>>

Next ==
  \/ \E n \in Certs : Appoint(n) \/ \E c \in Certs \cup {Null} : Issue(n, c)
  \/ \E c \in Certs : Retire(c) \/ Release(c) \/ \E n \in Certs : TakeOver(c, n)
  \/ \E t \in Targets, c \in Certs \cup {Null} : Bind(t, c)

Spec == Init /\ [][Next]_vars

Inv ==
  /\ stage \in [Certs -> Stages]
  /\ from \in [Certs -> Certs \cup {Null}]
  /\ serves \in [Targets -> Certs \cup {Null}]
  /\ left \subseteq Certs /\ late \subseteq Targets
  /\ \A c \in Certs : from[c] # c
  /\ \A c \in Certs : stage[c] = "retired" => c \in left
  /\ \A t \in Targets : serves[t] \in left => t \in late

\* Whoever retires leaves nobody behind: an heir is there, kept, retired in its turn or
\* released, and no target is left but those an operator gave back.
NobodyLeftBehind ==
  \A c \in Certs : stage[c] = "retired" =>
    /\ \E n \in Certs : from[n] = c /\ stage[n] \in {"kept", "retired", "released"}
    /\ \A t \in Targets : serves[t] = c => t \in late

=============================================================================
