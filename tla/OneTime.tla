------------------------------ MODULE OneTime ------------------------------
(***************************************************************************)
(* What a single-use credential promises: once minted it is open until it  *)
(* is redeemed, once, or withdrawn, and it never comes back.  Recovery     *)
(* codes and reset links are credentials of this kind.                     *)
(***************************************************************************)
EXTENDS Naturals

CONSTANT Credentials

VARIABLES
  phase,     \* where each credential stands
  redeemed   \* how many times each credential was accepted

vars == <<phase, redeemed>>

Phases == {"unminted", "open", "spent", "withdrawn"}

Init ==
  /\ phase \in [Credentials -> {"unminted", "open"}]
  /\ redeemed = [c \in Credentials |-> 0]

Mint(c) ==
  /\ phase[c] = "unminted"
  /\ phase' = [phase EXCEPT ![c] = "open"]
  /\ UNCHANGED redeemed

Redeem(c) ==
  /\ phase[c] = "open"
  /\ phase' = [phase EXCEPT ![c] = "spent"]
  /\ redeemed' = [redeemed EXCEPT ![c] = @ + 1]

\* Everything that is open, at once.
WithdrawAll ==
  /\ phase' = [c \in Credentials |-> IF phase[c] = "open" THEN "withdrawn" ELSE phase[c]]
  /\ UNCHANGED redeemed

Next ==
  \/ \E c \in Credentials : Mint(c) \/ Redeem(c)
  \/ WithdrawAll

Spec == Init /\ [][Next]_vars

Inv ==
  /\ phase \in [Credentials -> Phases]
  /\ redeemed \in [Credentials -> Nat]
  /\ \A c \in Credentials : redeemed[c] = IF phase[c] = "spent" THEN 1 ELSE 0

\* No credential is accepted twice.
AtMostOnce == \A c \in Credentials : redeemed[c] <= 1

=============================================================================
