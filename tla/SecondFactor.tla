---------------------------- MODULE SecondFactor ----------------------------
(***************************************************************************)
(* The second factor of one local account: enrolment of a TOTP secret in   *)
(* two requests, recovery codes, sign-in with either, and the requests of  *)
(* several browser windows that run at the same time.                      *)
(*                                                                         *)
(* Every statement commits by itself, and what a request has read of the   *)
(* account (load_local_user) stays in its record until it writes.  The     *)
(* tables key everything on the user, so one account is enough.            *)
(***************************************************************************)
EXTENDS Naturals, FiniteSets

CONSTANTS
  Secrets,     \* TOTP secrets begin_totp_enrollment may generate
  Codes,       \* recovery codes issue_recovery_codes may generate
  CodeCount,   \* codes in a set (RECOVERY_CODE_COUNT, 10)
  RequireMfa,  \* the configuration flag require_mfa
  Requests,    \* requests running at the same time
  MaxEdits,    \* bound: requests received
  MaxFaults,   \* bound: crashes and failing statements
  Null

ASSUME CountAssumption == CodeCount \in Nat \ {0} /\ RequireMfa \in BOOLEAN

ASSUME BoundsAssumption == MaxEdits \in Nat /\ MaxFaults \in Nat

ASSUME NamesAssumption == Null \notin Secrets \cup Codes

VARIABLES
  user,       \* totp_secret_enc and totp_enabled of the row
  codes,      \* user_recovery_codes: "none" stands for no such row
  tokens,     \* purposes of the half-authenticated tokens a browser holds
  requests,   \* the requests in progress
  edits,      \* requests received so far
  faults,     \* faults so far
  shown,      \* secrets an enrolment screen has displayed
  handed,     \* recovery codes a response has displayed
  secretsOut, \* history: secrets generated so far
  codesOut,   \* history: recovery codes generated so far
  redeemed,   \* history: how many times each recovery code opened a session
  proven,     \* history: secrets a code was verified against
  contested,  \* history: what was written while a confirmation was under way
  stale,      \* history: set-up requests that a confirmation overtook
  crossed     \* history: the requests issuing codes when all codes were last deleted

bounds == <<edits, faults>>
display == <<shown, handed>>
ids == <<secretsOut, codesOut>>
history == <<redeemed, proven, contested, stale, crossed>>
vars == <<user, codes, tokens, requests, bounds, display, ids, history>>

----------------------------------------------------------------------------
(* Rows and records *)

User == [secret: Secrets \cup {Null}, enabled: BOOLEAN]

Request == [pc: {"idle", "begin", "show", "enable", "clear", "insert", "reply", "disable",
                 "purge", "login", "take"},
            secret: Secrets \cup {Null}, code: Codes \cup {Null},
            left: 0..CodeCount, batch: SUBSET Codes]

Idle == [pc |-> "idle", secret |-> Null, code |-> Null, left |-> 0, batch |-> {}]

\* The codes a sign-in may use.
InForce == {c \in Codes : codes[c] = "unused"}

FreshSecret == CHOOSE s \in Secrets : s \notin secretsOut

FreshCode == CHOOSE c \in Codes : c \notin codesOut

Edit == edits < MaxEdits /\ edits' = edits + 1 /\ UNCHANGED faults

Fault == faults < MaxFaults /\ faults' = faults + 1 /\ UNCHANGED edits

Start(q, req) ==
  /\ requests[q].pc = "idle"
  /\ requests' = [requests EXCEPT ![q] = req]

Goto(q, pc) == requests' = [requests EXCEPT ![q].pc = pc]

Finish(q) == requests' = [requests EXCEPT ![q] = Idle]

\* What is written while another request has verified a code and not yet enabled.
Contest(secret) ==
  contested' = IF \E p \in Requests : requests[p].pc = "enable"
                 THEN contested \cup {secret} ELSE contested

\* Requests whose codes a DELETE of all codes by q takes away, or some of them.
CrossedBy(q) == {p \in Requests \ {q} : requests[p].pc \in {"insert", "reply"}}

----------------------------------------------------------------------------
(* Enrolment *)

\* Mutant of BeginRead: a factor that is on may be enrolled again.
BeginReadAnyway(q) ==
  /\ Edit
  /\ ~(Secrets \subseteq secretsOut)
  /\ secretsOut' = secretsOut \cup {FreshSecret}
  /\ Start(q, [Idle EXCEPT !.pc = "begin", !.secret = FreshSecret])
  /\ stale' = stale \ {q}
  /\ UNCHANGED <<user, codes, tokens, display, codesOut, redeemed, proven, contested, crossed>>

\* begin_totp_enrollment: refused when the row read says enabled.
BeginRead(q) ==
  /\ Edit
  /\ ~user.enabled
  /\ ~(Secrets \subseteq secretsOut)
  /\ secretsOut' = secretsOut \cup {FreshSecret}
  /\ Start(q, [Idle EXCEPT !.pc = "begin", !.secret = FreshSecret])
  /\ stale' = stale \ {q}
  /\ UNCHANGED <<user, codes, tokens, display, codesOut, redeemed, proven, contested, crossed>>

\* Mutant of BeginWrite: the statement replaces the secret and leaves totp_enabled alone.
BeginWriteSecretOnly(q) ==
  /\ requests[q].pc = "begin"
  /\ user' = [user EXCEPT !.secret = requests[q].secret]
  /\ Contest(requests[q].secret)
  /\ Goto(q, "show")
  /\ UNCHANGED <<codes, tokens, bounds, display, ids, redeemed, proven, stale, crossed>>

\* The UPDATE turns the factor off, whatever the row says by now.
BeginWrite(q) ==
  /\ requests[q].pc = "begin"
  /\ user' = [secret |-> requests[q].secret, enabled |-> FALSE]
  /\ Contest(requests[q].secret)
  /\ Goto(q, "show")
  /\ UNCHANGED <<codes, tokens, bounds, display, ids, redeemed, proven, stale, crossed>>

\* The response carries the secret and its QR code.
BeginShow(q) ==
  /\ requests[q].pc = "show"
  /\ shown' = shown \cup {requests[q].secret}
  /\ Finish(q)
  /\ UNCHANGED <<user, codes, tokens, bounds, handed, ids, history>>

\* confirm_totp_enrollment verifies a code of a displayed secret against the secret it has
\* read.  totp_confirm refuses when the factor is on; the forced enrolment of a sign-in
\* (an mfa-setup token) does not look.
ConfirmRead(q) ==
  /\ Edit
  /\ ~user.enabled \/ "mfa-setup" \in tokens
  /\ user.secret \in shown
  /\ Start(q, [Idle EXCEPT !.pc = "enable", !.secret = user.secret])
  /\ proven' = proven \cup {user.secret}
  /\ UNCHANGED <<user, codes, tokens, display, ids, redeemed, contested, stale, crossed>>

\* The UPDATE sets the flag alone: it enables whatever secret the row holds by now.
ConfirmWrite(q) ==
  /\ requests[q].pc = "enable"
  /\ user' = [user EXCEPT !.enabled = TRUE]
  /\ stale' = stale \cup {p \in Requests : requests[p].pc = "begin"}
  /\ Goto(q, "clear")
  /\ UNCHANGED <<codes, tokens, bounds, display, ids, redeemed, proven, contested, crossed>>

DisableRead(q) ==
  /\ Edit
  /\ Start(q, [Idle EXCEPT !.pc = "disable"])
  /\ UNCHANGED <<user, codes, tokens, display, ids, history>>

DisableWrite(q) ==
  /\ requests[q].pc = "disable"
  /\ user' = [secret |-> Null, enabled |-> FALSE]
  /\ Contest(Null)
  /\ Goto(q, "purge")
  /\ UNCHANGED <<codes, tokens, bounds, display, ids, redeemed, proven, stale, crossed>>

DisablePurge(q) ==
  /\ requests[q].pc = "purge"
  /\ codes' = [c \in Codes |-> "none"]
  /\ crossed' = CrossedBy(q)
  /\ Finish(q)
  /\ UNCHANGED <<user, tokens, bounds, display, ids, redeemed, proven, contested, stale>>

----------------------------------------------------------------------------
(* Recovery codes: issue_recovery_codes *)

RegenerateRead(q) ==
  /\ Edit
  /\ user.enabled
  /\ Start(q, [Idle EXCEPT !.pc = "clear"])
  /\ UNCHANGED <<user, codes, tokens, display, ids, history>>

\* Mutant of IssueClear: the DELETE keeps the codes that were not used.
IssueClearUsed(q) ==
  /\ requests[q].pc = "clear"
  /\ codes' = [c \in Codes |-> IF codes[c] = "used" THEN "none" ELSE codes[c]]
  /\ crossed' = CrossedBy(q)
  /\ requests' = [requests EXCEPT ![q] = [Idle EXCEPT !.pc = "insert", !.left = CodeCount]]
  /\ UNCHANGED <<user, tokens, bounds, display, ids, redeemed, proven, contested, stale>>

\* DELETE all codes of the user ...
IssueClear(q) ==
  /\ requests[q].pc = "clear"
  /\ codes' = [c \in Codes |-> "none"]
  /\ crossed' = CrossedBy(q)
  /\ requests' = [requests EXCEPT ![q] = [Idle EXCEPT !.pc = "insert", !.left = CodeCount]]
  /\ UNCHANGED <<user, tokens, bounds, display, ids, redeemed, proven, contested, stale>>

\* ... and one INSERT for each new code.
IssueInsert(q) ==
  LET c == FreshCode
      left == requests[q].left - 1
  IN /\ requests[q].pc = "insert"
     /\ ~(Codes \subseteq codesOut)
     /\ codesOut' = codesOut \cup {c}
     /\ codes' = [codes EXCEPT ![c] = "unused"]
     /\ requests' = [requests EXCEPT ![q] =
          [Idle EXCEPT !.pc = IF left = 0 THEN "reply" ELSE "insert",
                       !.left = left, !.batch = requests[q].batch \cup {c}]]
     /\ UNCHANGED <<user, tokens, bounds, display, secretsOut, history>>

\* The response is the only time the operator sees the codes.
IssueReply(q) ==
  /\ requests[q].pc = "reply"
  /\ handed' = handed \cup requests[q].batch
  /\ Finish(q)
  /\ UNCHANGED <<user, codes, tokens, bounds, shown, ids, history>>

----------------------------------------------------------------------------
(* Sign-in *)

\* The password step hands out a token for the step that follows, if there is one.
Login ==
  /\ Edit
  /\ tokens' = IF user.enabled /\ user.secret # Null THEN tokens \cup {"mfa"}
               ELSE IF RequireMfa THEN tokens \cup {"mfa-setup"}
               ELSE tokens
  /\ UNCHANGED <<user, codes, requests, display, ids, history>>

TokensExpire ==
  /\ tokens # {}
  /\ tokens' = {}
  /\ UNCHANGED <<user, codes, requests, bounds, display, ids, history>>

\* login_mfa reads the account; a TOTP code would be answered at once and change nothing.
LoginMfa(q) ==
  /\ Edit
  /\ "mfa" \in tokens
  /\ user.enabled /\ user.secret # Null
  /\ \E c \in handed : Start(q, [Idle EXCEPT !.pc = "login", !.code = c])
  /\ UNCHANGED <<user, codes, tokens, display, ids, history>>

\* consume_recovery_code, the SELECT.
LookUp(q) ==
  /\ requests[q].pc = "login"
  /\ IF requests[q].code \in InForce THEN Goto(q, "take") ELSE Finish(q)
  /\ UNCHANGED <<user, codes, tokens, bounds, display, ids, history>>

\* Mutant of Take: UPDATE ... WHERE id = ?, accepted if the row exists.
TakeAny(q) ==
  LET c == requests[q].code
  IN /\ requests[q].pc = "take"
     /\ codes' = [codes EXCEPT ![c] = IF @ = "none" THEN "none" ELSE "used"]
     /\ redeemed' = IF codes[c] = "none" THEN redeemed ELSE [redeemed EXCEPT ![c] = @ + 1]
     /\ Finish(q)
     /\ UNCHANGED <<user, tokens, bounds, display, ids, proven, contested, stale, crossed>>

\* ... and the conditional UPDATE: a session is opened if one row was affected.
Take(q) ==
  LET c == requests[q].code
      hit == c \in InForce
  IN /\ requests[q].pc = "take"
     /\ codes' = IF hit THEN [codes EXCEPT ![c] = "used"] ELSE codes
     /\ redeemed' = IF hit THEN [redeemed EXCEPT ![c] = @ + 1] ELSE redeemed
     /\ Finish(q)
     /\ UNCHANGED <<user, tokens, bounds, display, ids, proven, contested, stale, crossed>>

----------------------------------------------------------------------------
(* Faults *)

Fail(q) ==
  /\ Fault
  /\ requests[q].pc # "idle"
  /\ Finish(q)
  /\ UNCHANGED <<user, codes, tokens, display, ids, history>>

Crash ==
  /\ Fault
  /\ \E q \in Requests : requests[q].pc # "idle"
  /\ requests' = [q \in Requests |-> Idle]
  /\ UNCHANGED <<user, codes, tokens, display, ids, history>>

----------------------------------------------------------------------------
(* The specification *)

\* An account without a second factor, or one enrolled with a full set of codes.
Init ==
  /\ \/ /\ user = [secret |-> Null, enabled |-> FALSE]
        /\ secretsOut = {} /\ codesOut = {}
     \/ \E s \in Secrets, set \in SUBSET Codes :
          /\ Cardinality(set) = CodeCount
          /\ user = [secret |-> s, enabled |-> TRUE]
          /\ secretsOut = {s} /\ codesOut = set
  /\ codes = [c \in Codes |-> IF c \in codesOut THEN "unused" ELSE "none"]
  /\ shown = secretsOut /\ proven = secretsOut
  /\ handed = codesOut
  /\ tokens = {}
  /\ requests = [q \in Requests |-> Idle]
  /\ edits = 0 /\ faults = 0
  /\ redeemed = [c \in Codes |-> 0]
  /\ contested = {} /\ stale = {} /\ crossed = {}

Next ==
  \/ \E q \in Requests :
       \/ BeginRead(q) \/ BeginWrite(q) \/ BeginShow(q)
       \/ ConfirmRead(q) \/ ConfirmWrite(q)
       \/ DisableRead(q) \/ DisableWrite(q) \/ DisablePurge(q)
       \/ RegenerateRead(q) \/ IssueClear(q) \/ IssueInsert(q) \/ IssueReply(q)
       \/ LoginMfa(q) \/ LookUp(q) \/ Take(q)
       \/ Fail(q)
  \/ Login \/ TokensExpire
  \/ Crash

Spec == Init /\ [][Next]_vars

----------------------------------------------------------------------------
(* Properties *)

TypeOK ==
  /\ user \in User
  /\ codes \in [Codes -> {"none", "unused", "used"}]
  /\ tokens \subseteq {"mfa", "mfa-setup"}
  /\ requests \in [Requests -> Request]
  /\ edits \in Nat /\ faults \in Nat
  /\ shown \subseteq Secrets /\ handed \subseteq Codes
  /\ secretsOut \subseteq Secrets /\ codesOut \subseteq Codes
  /\ redeemed \in [Codes -> Nat]
  /\ proven \subseteq Secrets /\ contested \subseteq Secrets \cup {Null}
  /\ stale \subseteq Requests /\ crossed \subseteq Requests

\* Recovery codes are single-use credentials: however requests race and fail, each opens
\* at most one session, and none after it was replaced or the factor was turned off.
Phase ==
  [c \in Codes |->
     IF codes[c] = "unused" THEN "open"
     ELSE IF redeemed[c] > 0 THEN "spent"
     ELSE IF c \in codesOut THEN "withdrawn"
     ELSE "unminted"]

SingleUse == INSTANCE OneTime WITH Credentials <- Codes, phase <- Phase

RecoveryCodesAreOneTime == SingleUse!Spec

\* begin_totp_enrollment: "The secret only becomes usable once a code proves the
\* authenticator really has it."
EnabledIsProven == user.enabled => user.secret \in proven

\* The only secrets that become usable without such a proof were written while the
\* confirmation of another was between its SELECT and its UPDATE.
ProvenUnlessContested == user.enabled => user.secret \in proven \cup contested

\* A factor that is on goes off only by totp_disable, or by a set-up that began before the
\* confirmation that turned it on: nobody loses the factor by starting a set-up later.
OnlyTurnedOff ==
  [][user.enabled /\ ~user'.enabled =>
       \E q \in Requests :
         \/ requests[q].pc = "disable"
         \/ requests[q].pc = "begin" /\ q \in stale]_vars

\* The codes a response shows are exactly those that will be accepted, unless another
\* request deleted all codes while these were being inserted: no failure leaves codes of
\* an earlier set in force beside the new ones.
ShownSetInForce ==
  \A q \in Requests :
    requests[q].pc = "reply" /\ crossed = {} => requests[q].batch = InForce

----------------------------------------------------------------------------
(* The inductive invariant: what the requests hold in their hands. *)

Issuing(q) == requests[q].pc \in {"insert", "reply"}

RequestsInv ==
  \A q \in Requests :
    /\ requests[q].pc \in {"begin", "show", "enable"} => requests[q].secret \in Secrets
    /\ requests[q].pc \in {"login", "take"} => requests[q].code \in handed
    /\ requests[q].pc = "insert" => requests[q].left > 0
    /\ requests[q].batch \subseteq codesOut

\* A code that may still be used was generated and has opened no session yet.
CodesInv ==
  /\ handed \subseteq codesOut
  /\ \A c \in Codes :
       /\ codes[c] # "none" \/ redeemed[c] > 0 => c \in codesOut
       /\ redeemed[c] <= (IF codes[c] = "unused" THEN 0 ELSE 1)

\* What a confirmation is about to enable is what it verified, or was written meanwhile.
ConfirmInv ==
  \A q \in Requests : requests[q].pc = "enable" => user.secret \in proven \cup contested

\* A set-up that finds the factor on is one that a confirmation overtook.
StaleInv == \A q \in Requests : user.enabled /\ requests[q].pc = "begin" => q \in stale

\* The codes being issued are all there is, and nobody has seen them.
IssuingInv ==
  crossed = {} =>
    \A q \in Requests : Issuing(q) =>
      /\ requests[q].batch = InForce
      /\ requests[q].batch \cap handed = {}
      /\ \A p \in Requests : Issuing(p) => p = q

IInv ==
  /\ TypeOK
  /\ RequestsInv /\ CodesInv /\ ConfirmInv /\ StaleInv /\ IssuingInv
  /\ ProvenUnlessContested

=============================================================================
