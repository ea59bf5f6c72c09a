--------------------------- MODULE AccountsProofs ---------------------------
(***************************************************************************)
(* The safety properties of Accounts, proved for any number of accounts,   *)
(* requests, challenges and edits, and that reset links implement OneTime. *)
(*                                                                         *)
(* Most steps disturb one part of the invariant or none: "Kept" says of    *)
(* each part what must happen for it to be disturbed, and a step is looked *)
(* at only where something of that kind happens.                           *)
(***************************************************************************)
EXTENDS Accounts, FiniteSetTheorems, TLAPS

USE DEF tables, history

----------------------------------------------------------------------------
(* What a step does to the record of its request *)

Becomes(r, pc, user, role, of) ==
  /\ request' \in [Requests -> Request]
  /\ request'[r].pc = pc /\ request'[r].user = user
  /\ request'[r].role = role /\ request'[r].of = of
  /\ \A p \in Requests : p # r => request'[p] = request[p]

LEMMA GotoBecomes ==
  ASSUME TypeOK, NEW r \in Requests, NEW pc \in Stages, Goto(r, pc)
  PROVE  Becomes(r, pc, request[r].user, request[r].role, request[r].of)
<1>1. request[r] \in Request
  BY DEF TypeOK
<1>2. [request[r] EXCEPT !.pc = pc] \in Request
  BY <1>1 DEF Request
<1>3. request' = [request EXCEPT ![r] = [request[r] EXCEPT !.pc = pc]]
  BY DEF Goto
<1>4. request' \in [Requests -> Request] /\ request'[r] = [request[r] EXCEPT !.pc = pc]
  BY <1>2, <1>3 DEF TypeOK
<1> QED
  BY <1>1, <1>3, <1>4 DEF Becomes, Request, TypeOK

LEMMA FinishBecomes ==
  ASSUME TypeOK, NEW r \in Requests, Finish(r)
  PROVE  Becomes(r, "done", Null, Null, Null)
<1>1. NoRequest("done") \in Request
  BY DEF NoRequest, Request, Stages
<1> QED
  BY <1>1 DEF Finish, TypeOK, Becomes, NoRequest

LEMMA BeginBecomes ==
  ASSUME TypeOK, NEW r \in Requests, NEW pc \in Stages, NEW user \in Ids \cup {Null},
         NEW role \in Roles \cup {Null},
         NEW of \in Requests \cup Challenges \cup Scopes \cup {Null},
         Begin(r, pc, user, role, of)
  PROVE  Becomes(r, pc, user, role, of) /\ request[r].pc = "unused"
<1>1. [pc |-> pc, user |-> user, role |-> role, of |-> of] \in Request
  BY DEF Request
<1> QED
  BY <1>1 DEF Begin, TypeOK, Becomes

----------------------------------------------------------------------------
(* What must happen for a part of the invariant to be disturbed *)

SameName ==
  /\ users = Null <=> users' = Null
  /\ users # Null => users'.id = users.id

LinksShrink ==
  \A l \in Requests : password_reset_tokens'[l] # Null =>
    /\ password_reset_tokens[l] # Null
    /\ password_reset_tokens'[l].user_id = password_reset_tokens[l].user_id
    /\ password_reset_tokens[l].used => password_reset_tokens'[l].used

PasskeysShrink ==
  \A c \in Passkeys : webauthn_credentials'[c] \in {Null, webauthn_credentials[c]}

TokensShrink ==
  \A t \in Requests : api_tokens'[t] # Null =>
    /\ api_tokens[t] # Null
    /\ api_tokens'[t].owner_user_id = api_tokens[t].owner_user_id
    /\ api_tokens'[t].scope = api_tokens[t].scope

ChallengesStay ==
  /\ accepted' = accepted /\ raced' = raced
  /\ \A ch \in Challenges : webauthn_challenges[ch] = Null => webauthn_challenges'[ch] = Null

\* No request arrives at one of these stages.
Stays(stages) ==
  \A p \in Requests : request'[p].pc \in stages => request'[p] = request[p]

DeletionsStay == Stays({"delete_links", "delete_user"})

InsertionsStay == Stays({"insert_link"})

HoldersStay == Stays({"drop_register", "drop_login"})

GrantsStay == Stays({"insert_token"})

RolesStay == \A p \in Requests : request'[p].role \in {Null, request[p].role}

AtAttempt == {"user", "take_login", "drop_login", "verify", "fail", "signed_in"}

AttemptsStay ==
  \A p \in Requests : request'[p].pc \in AtAttempt => request[p].pc \in AtAttempt

NoneReturns == \A p \in Requests : request'[p].pc # "done" => request[p].pc # "done"

LEMMA AttemptingType ==
  ASSUME TypeOK, NEW S \in SUBSET Attempting
  PROVE  /\ IsFiniteSet(Attempting) /\ Cardinality(Attempting) \in Nat
         /\ IsFiniteSet(S) /\ Cardinality(S) \in Nat
         /\ Cardinality(S) <= Cardinality(Attempting)
<1>1. Attempting \subseteq Requests
  BY DEF Attempting
<1>2. IsFiniteSet(Attempting)
  BY <1>1, RequestsAssumption, FS_Subset
<1>3. IsFiniteSet(S) /\ Cardinality(S) <= Cardinality(Attempting)
  BY <1>2, FS_Subset
<1> QED
  BY <1>2, <1>3, FS_CardinalityType

LEMMA NameKept ==
  ASSUME NothingLeft, SameName, LinksShrink, PasskeysShrink, late \subseteq late'
  PROVE  NothingLeft'
BY NullAssumption DEF NothingLeft, SameName, LinksShrink, PasskeysShrink

LEMMA EmptiedKept ==
  ASSUME Emptied, LinksShrink, PasskeysShrink, DeletionsStay, late \subseteq late'
  PROVE  Emptied'
<1> SUFFICES ASSUME NEW u \in Ids \ late', NEW r \in Requests, request'[r].user = u,
                    request'[r].pc \in {"delete_links", "delete_user"}
             PROVE  /\ \A c \in Passkeys : webauthn_credentials'[c] # u
                    /\ request'[r].pc = "delete_user" =>
                         \A l \in Requests :
                           password_reset_tokens'[l] # Null =>
                             password_reset_tokens'[l].user_id # u
  BY DEF Emptied
<1>1. u \in Ids \ late /\ request[r] = request'[r]
  BY DEF DeletionsStay, Stays
<1>2. \A c \in Passkeys : webauthn_credentials[c] # u
  BY <1>1 DEF Emptied
<1>3. request[r].pc = "delete_user" =>
        \A l \in Requests : password_reset_tokens[l] # Null => password_reset_tokens[l].user_id # u
  BY <1>1 DEF Emptied
<1> QED
  BY <1>1, <1>2, <1>3, NullAssumption DEF LinksShrink, PasskeysShrink

LEMMA UnusedShrinks ==
  ASSUME LinksShrink, NEW u \in Ids
  PROVE  Unused(u)' \subseteq Unused(u)
BY DEF LinksShrink, Unused, IsOpen

LEMMA OnlyLinkKept ==
  ASSUME OnlyLink, LinksShrink, InsertionsStay, crossed \subseteq crossed'
  PROVE  OnlyLink'
<1> SUFFICES ASSUME NEW u \in Ids \ crossed'
             PROVE  /\ \A l, m \in Unused(u)' : l = m
                    /\ \A r \in Requests :
                         request'[r].pc = "insert_link" /\ request'[r].user = u => Unused(u)' = {}
  BY DEF OnlyLink
<1>1. Unused(u)' \subseteq Unused(u)
  BY UnusedShrinks
<1>2. \A l, m \in Unused(u) : l = m
  BY DEF OnlyLink
<1>3. ASSUME NEW r \in Requests, request'[r].pc = "insert_link", request'[r].user = u
      PROVE  Unused(u) = {}
  <2>1. request'[r] = request[r]
    BY <1>3 DEF InsertionsStay, Stays
  <2> QED
    BY <1>3, <2>1 DEF OnlyLink
<1> QED
  BY <1>1, <1>2, <1>3

LEMMA TakenKept ==
  ASSUME Taken, ChallengesStay, HoldersStay
  PROVE  Taken'
BY DEF Taken, ChallengesStay, HoldersStay, Stays

LEMMA EntitledKept ==
  ASSUME Entitled, UNCHANGED <<users, roles, succeeded>>, sessions' \subseteq sessions,
         RolesStay, GrantsStay
  PROVE  Entitled'
<1>1. users' # Null => users'.role \in roles'[users'.id]
  BY DEF Entitled
<1>2. users' # Null /\ users'.id \notin succeeded' =>
        /\ \A s \in sessions' : s.role \in roles'[users'.id]
        /\ \A r \in Requests : request'[r].role # Null => request'[r].role \in roles'[users'.id]
  BY DEF Entitled, RolesStay
<1>3. \A r \in Requests :
        request'[r].pc = "insert_token" /\ request'[r].user \notin succeeded' =>
          \E role \in roles'[request'[r].user] : request'[r].of \in Grantable[role]
  BY DEF Entitled, GrantsStay, Stays
<1> QED
  BY <1>1, <1>2, <1>3 DEF Entitled

LEMMA ScopesKept ==
  ASSUME TypeOK, ScopesWithinRoles, TokensShrink, succeeded \subseteq succeeded',
         \A u \in Ids : roles[u] \subseteq roles'[u]
  PROVE  ScopesWithinRoles'
<1> SUFFICES ASSUME NEW r \in Requests, api_tokens'[r] # Null,
                    api_tokens'[r].owner_user_id \notin succeeded'
             PROVE  \E role \in roles'[api_tokens'[r].owner_user_id] :
                      api_tokens'[r].scope \in Grantable[role]
  BY DEF ScopesWithinRoles
<1>1. /\ api_tokens[r] # Null
      /\ api_tokens'[r].owner_user_id = api_tokens[r].owner_user_id
      /\ api_tokens'[r].scope = api_tokens[r].scope
  BY DEF TokensShrink
<1>2. api_tokens[r].owner_user_id \in Ids
  BY <1>1 DEF TypeOK, ApiToken
<1>3. PICK role \in roles[api_tokens[r].owner_user_id] : api_tokens[r].scope \in Grantable[role]
  BY <1>1 DEF ScopesWithinRoles
<1> QED
  BY <1>1, <1>2, <1>3

LEMMA FailuresKept ==
  ASSUME TypeOK, TypeOK', FailuresBounded, AttemptsStay, login_attempts' <= login_attempts,
         widest' = widest
  PROVE  FailuresBounded'
<1>1. Attempting' \subseteq Attempting
  BY DEF AttemptsStay, Attempting, AtAttempt
<1>2. /\ Cardinality(Attempting) \in Nat /\ Cardinality(Attempting') \in Nat
      /\ Cardinality(Attempting') <= Cardinality(Attempting)
  BY <1>1, AttemptingType
<1>3. login_attempts \in Nat /\ login_attempts' \in Nat /\ widest \in Int
  BY DEF TypeOK
<1> QED
  BY <1>2, <1>3, BoundsAssumption DEF FailuresBounded

LEMMA MintedKept ==
  ASSUME Minted, UNCHANGED <<minted, redeemed>>, LinksShrink, NoneReturns
  PROVE  Minted'
BY DEF Minted, LinksShrink, NoneReturns, IsOpen

\* What a request that moves may disturb.
LEMMA Moved ==
  ASSUME NEW r \in Requests, NEW pc, NEW user, NEW role, NEW of,
         Becomes(r, pc, user, role, of)
  PROVE  /\ pc \notin {"delete_links", "delete_user"} => DeletionsStay
         /\ pc # "insert_link" => InsertionsStay
         /\ pc \notin {"drop_register", "drop_login"} => HoldersStay
         /\ pc # "insert_token" => GrantsStay
         /\ role \in {Null, request[r].role} => RolesStay
         /\ (pc \in AtAttempt => request[r].pc \in AtAttempt) => AttemptsStay
         /\ request[r].pc # "done" => NoneReturns
<1> USE DEF Becomes, Stays
<1>1. pc \notin {"delete_links", "delete_user"} => DeletionsStay
  BY DEF DeletionsStay
<1>2. pc # "insert_link" => InsertionsStay
  BY DEF InsertionsStay
<1>3. pc \notin {"drop_register", "drop_login"} => HoldersStay
  BY DEF HoldersStay
<1>4. pc # "insert_token" => GrantsStay
  BY DEF GrantsStay
<1>5. role \in {Null, request[r].role} => RolesStay
  BY DEF RolesStay
<1>6. (pc \in AtAttempt => request[r].pc \in AtAttempt) => AttemptsStay
  BY DEF AttemptsStay
<1>7. request[r].pc # "done" => NoneReturns
  BY DEF NoneReturns
<1> QED
  BY <1>1, <1>2, <1>3, <1>4, <1>5, <1>6, <1>7

LEMMA OthersRead ==
  ASSUME \A p \in Requests : Reads(p), NEW r \in Requests, Reads(r)',
         \A p \in Requests : p # r => request'[p] = request[p]
  PROVE  \A p \in Requests : Reads(p)'
BY DEF Reads

\* The tables that are left alone are not disturbed.
LEMMA LeftAlone ==
  /\ users' = users => SameName
  /\ password_reset_tokens' = password_reset_tokens => LinksShrink
  /\ webauthn_credentials' = webauthn_credentials => PasskeysShrink
  /\ api_tokens' = api_tokens => TokensShrink
  /\ UNCHANGED <<webauthn_challenges, accepted, raced>> => ChallengesStay
BY DEF SameName, LinksShrink, PasskeysShrink, TokensShrink, ChallengesStay

\* So are the stages when no request moves.
LEMMA NoneMoves ==
  ASSUME request' = request
  PROVE  /\ DeletionsStay /\ InsertionsStay /\ HoldersStay /\ GrantsStay /\ RolesStay
         /\ AttemptsStay /\ NoneReturns
         /\ (\A r \in Requests : Reads(r)) => (\A r \in Requests : Reads(r)')
BY DEF DeletionsStay, InsertionsStay, HoldersStay, GrantsStay, RolesStay, AttemptsStay,
   NoneReturns, Stays, Reads

\* A step that disturbs no part.
LEMMA Bystander ==
  ASSUME IInv, TypeOK', \A p \in Requests : Reads(p)',
         SameName, LinksShrink, PasskeysShrink, TokensShrink, ChallengesStay,
         DeletionsStay, InsertionsStay, HoldersStay, GrantsStay, RolesStay, AttemptsStay,
         NoneReturns,
         UNCHANGED <<users, roles, succeeded, minted, redeemed, widest>>,
         sessions' \subseteq sessions, login_attempts' <= login_attempts,
         late \subseteq late', crossed \subseteq crossed'
  PROVE  IInv'
<1> USE DEF IInv
<1>1. NothingLeft' /\ Emptied'
  BY NameKept, EmptiedKept
<1>2. OnlyLink'
  BY OnlyLinkKept
<1>3. Taken'
  BY TakenKept
<1>4. Entitled'
  BY EntitledKept
<1>5. ScopesWithinRoles'
  BY ScopesKept
<1>6. FailuresBounded'
  BY FailuresKept
<1>7. Minted'
  BY MintedKept
<1> QED
  BY <1>1, <1>2, <1>3, <1>4, <1>5, <1>6, <1>7

\* A step that only moves a request, to a stage where it waits for nothing to happen.
LEMMA RequestOnly ==
  ASSUME IInv, NEW r \in Requests, NEW pc, NEW user, NEW role, NEW of,
         Becomes(r, pc, user, role, of), Reads(r)',
         UNCHANGED <<tables, sessions, edits, history>>,
         request[r].pc # "done", role \in {Null, request[r].role},
         pc \notin {"delete_links", "delete_user", "insert_link", "insert_token",
                    "drop_register", "drop_login"},
         pc \in AtAttempt => request[r].pc \in AtAttempt
  PROVE  IInv'
<1>1. TypeOK'
  BY DEF IInv, TypeOK, Becomes
<1>2. \A p \in Requests : Reads(p)'
  BY OthersRead DEF IInv, Becomes
<1>3. SameName /\ LinksShrink /\ PasskeysShrink /\ TokensShrink /\ ChallengesStay
  BY LeftAlone
<1>4. /\ DeletionsStay /\ InsertionsStay /\ HoldersStay /\ GrantsStay /\ RolesStay
      /\ AttemptsStay /\ NoneReturns
  BY Moved
<1>5. login_attempts' <= login_attempts
  BY DEF IInv, TypeOK
<1> QED
  BY <1>1, <1>2, <1>3, <1>4, <1>5, Bystander

\* A step that only changes tables, or sessions.
LEMMA TablesOnly ==
  ASSUME IInv, TypeOK', request' = request, LinksShrink, PasskeysShrink, TokensShrink,
         ChallengesStay,
         UNCHANGED <<users, roles, succeeded, minted, redeemed, widest, late, crossed>>,
         sessions' \subseteq sessions, login_attempts' <= login_attempts
  PROVE  IInv'
<1>1. SameName
  BY LeftAlone
<1> QED
  BY <1>1, NoneMoves, Bystander DEF IInv

----------------------------------------------------------------------------
(* The invariant: the beginning, and steps of one request *)

LEMMA InitInv == Init => IInv
<1> SUFFICES ASSUME Init PROVE IInv
  OBVIOUS
<1>1. PICK u \in Ids, role \in Roles :
        /\ users = [id |-> u, role |-> role]
        /\ sessions = {[id |-> u, role |-> role]}
        /\ webauthn_credentials = [c \in Passkeys |-> IF c = First THEN u ELSE Null]
        /\ roles = [v \in Ids |-> IF v = u THEN {role} ELSE {}]
  BY DEF Init
<1>2. AnId \in Ids
  BY <1>1 DEF AnId
<1>3. /\ request \in [Requests -> Request]
      /\ \A r \in Requests : /\ request[r].pc = "unused" /\ request[r].user = Null
                             /\ request[r].role = Null /\ request[r].of = Null
  BY DEF Init, NoRequest, Request, Stages
<1>4. /\ webauthn_challenges \in [Challenges -> Challenge]
      /\ \A ch \in Challenges : webauthn_challenges[ch] # Null
  <2>1. NoChallenge \in Challenge
    BY DEF NoChallenge, Challenge
  <2>2. NoChallenge # Null
    BY <2>1, NullAssumption
  <2> QED
    BY <2>1, <2>2 DEF Init
<1>5. TypeOK
  <2>1. Cardinality(Requests) \in Nat
    BY RequestsAssumption, FS_CardinalityType
  <2>2. widest \in 0..Cardinality(Requests) /\ edits \in 0..MaxEdits /\ login_attempts \in Nat
    BY <2>1, BoundsAssumption DEF Init
  <2>3. users \in Session /\ sessions \subseteq Session /\ roles \in [Ids -> SUBSET Roles]
    BY <1>1 DEF Session
  <2>4. webauthn_credentials \in [Passkeys -> Ids \cup {Null}]
    BY <1>1
  <2>5. /\ password_reset_tokens \in [Requests -> Link \cup {Null}]
        /\ api_tokens \in [Requests -> ApiToken \cup {Null}]
        /\ minted \in [Requests -> Ids \cup {Null}] /\ redeemed \in [Requests -> Nat]
        /\ accepted \in [Challenges -> Nat]
        /\ crossed = {} /\ late = {} /\ succeeded = {} /\ raced = {}
    BY DEF Init
  <2> QED
    BY <1>3, <1>4, <2>2, <2>3, <2>4, <2>5 DEF TypeOK
<1>6. \A r \in Requests : Reads(r)
  BY <1>3 DEF Reads
<1>7. \A r \in Requests : password_reset_tokens[r] = Null /\ api_tokens[r] = Null
                          /\ minted[r] = Null /\ redeemed[r] = 0
  BY DEF Init
<1>8. NothingLeft
  <2>1. users.id = u /\ users \in Session
    BY <1>1 DEF Session
  <2>2. users # Null
    BY <2>1, NullAssumption
  <2>3. \A c \in Passkeys : webauthn_credentials[c] \in {u, Null}
    BY <1>1
  <2> QED
    BY <2>1, <2>2, <2>3, <1>7, NullAssumption DEF NothingLeft
<1>9. Emptied /\ OnlyLink
  BY <1>3, <1>7 DEF Emptied, OnlyLink, Unused, IsOpen
<1>10. Taken
  BY <1>4 DEF Init, Taken
<1>11. Entitled
  BY <1>1, <1>3 DEF Entitled
<1>12. ScopesWithinRoles /\ Minted
  BY <1>7, <1>3 DEF ScopesWithinRoles, Minted, IsOpen
<1>13. FailuresBounded
  BY DEF Init, FailuresBounded
<1> QED
  BY <1>2, <1>5, <1>6, <1>8, <1>9, <1>10, <1>11, <1>12, <1>13 DEF IInv

LEMMA StutterInv == IInv /\ UNCHANGED vars => IInv'
<1> SUFFICES ASSUME IInv, UNCHANGED vars PROVE IInv'
  OBVIOUS
<1>1. TypeOK'
  BY DEF IInv, TypeOK, vars
<1>2. login_attempts' <= login_attempts
  BY DEF IInv, TypeOK, vars
<1> QED
  BY <1>1, <1>2, LeftAlone, TablesOnly DEF vars

\* Requests that have looked the account or a link up and changed nothing yet.
LEMMA LookUpsInv ==
  ASSUME IInv, NEW r \in Requests,
         DeleteUser(r) \/ RequestLink(r) \/ \E l \in Requests : ConfirmSelect(r, l)
  PROVE  IInv'
<1>0. users # Null => users.id \in Ids
  BY DEF IInv, TypeOK, Session
<1>1. ASSUME DeleteUser(r) PROVE IInv'
  <2>1. /\ Becomes(r, "delete_passkeys", users.id, Null, Null)
        /\ request[r].pc = "unused"
    BY <1>0, <1>1, BeginBecomes DEF DeleteUser, IInv, Stages
  <2>2. Reads(r)'
    BY <1>0, <1>1, <2>1 DEF DeleteUser, Becomes, Reads
  <2> QED
    BY <1>1, <2>1, <2>2, RequestOnly DEF DeleteUser, AtAttempt
<1>2. ASSUME RequestLink(r) PROVE IInv'
  <2>1. Becomes(r, "withdraw", users.id, Null, Null) /\ request[r].pc = "unused"
    BY <1>0, <1>2, BeginBecomes DEF RequestLink, IInv, Stages
  <2>2. Reads(r)'
    BY <1>0, <1>2, <2>1 DEF RequestLink, Becomes, Reads
  <2> QED
    BY <1>2, <2>1, <2>2, RequestOnly DEF RequestLink, AtAttempt
<1>3. ASSUME NEW l \in Requests, ConfirmSelect(r, l) PROVE IInv'
  <2> DEFINE u == password_reset_tokens[l].user_id
  <2>1. u \in Ids
    BY <1>3 DEF ConfirmSelect, IsOpen, IInv, TypeOK, Link
  <2>2. Begin(r, "burn", u, Null, l)
    BY <1>3 DEF ConfirmSelect
  <2> HIDE DEF u
  <2>3. Becomes(r, "burn", u, Null, l) /\ request[r].pc = "unused"
    BY <2>1, <2>2, BeginBecomes DEF IInv, Stages
  <2>4. Reads(r)'
    BY <2>1, <2>3 DEF Becomes, Reads
  <2> QED
    BY <1>3, <2>3, <2>4, RequestOnly DEF ConfirmSelect, AtAttempt
<1> QED
  BY <1>1, <1>2, <1>3

LEMMA CutInv == ASSUME IInv, NEW r \in Requests, Cut(r) PROVE IInv'
<1>1. Becomes(r, "done", Null, Null, Null)
  BY FinishBecomes DEF Cut, Fail, IInv
<1>2. Reads(r)'
  BY <1>1 DEF Becomes, Reads
<1> QED
  BY <1>1, <1>2, RequestOnly DEF Cut, Fail, Active, AtAttempt

LEMMA ConfirmUserInv == ASSUME IInv, NEW r \in Requests, ConfirmUser(r) PROVE IInv'
<1>1. CASE Goto(r, "withdraw_others")
  <2>1. Becomes(r, "withdraw_others", request[r].user, request[r].role, request[r].of)
    BY <1>1, GotoBecomes DEF IInv, Stages
  <2>2. Reads(r)'
    BY <2>1 DEF ConfirmUser, Becomes, Reads, IInv
  <2> QED
    BY <2>1, <2>2, RequestOnly DEF ConfirmUser, AtAttempt
<1>2. CASE Finish(r)
  <2>1. Becomes(r, "done", Null, Null, Null)
    BY <1>2, FinishBecomes DEF IInv
  <2>2. Reads(r)'
    BY <2>1 DEF Becomes, Reads
  <2> QED
    BY <2>1, <2>2, RequestOnly DEF ConfirmUser, AtAttempt
<1> QED
  BY <1>1, <1>2 DEF ConfirmUser

LEMMA VerifyInv == ASSUME IInv, NEW r \in Requests, Verify(r) PROVE IInv'
<1>1. PICK pc \in {"fail", "signed_in"} : Goto(r, pc)
  BY DEF Verify
<1>2. Becomes(r, pc, request[r].user, request[r].role, request[r].of)
  BY <1>1, GotoBecomes DEF IInv, Stages
<1>3. Reads(r)'
  BY <1>2 DEF Verify, Becomes, Reads, IInv
<1> QED
  BY <1>2, <1>3, RequestOnly DEF Verify, AtAttempt

LEMMA LoadUserInv == ASSUME IInv, NEW r \in Requests, LoadUser(r) PROVE IInv'
<1>1. CASE Goto(r, "fail")
  <2>1. Becomes(r, "fail", request[r].user, request[r].role, request[r].of)
    BY <1>1, GotoBecomes DEF IInv, Stages
  <2>2. Reads(r)'
    BY <2>1 DEF Becomes, Reads
  <2> QED
    BY <2>1, <2>2, RequestOnly DEF LoadUser, AtAttempt
<1>2. CASE Finish(r)
  <2>1. Becomes(r, "done", Null, Null, Null)
    BY <1>2, FinishBecomes DEF IInv
  <2>2. Reads(r)'
    BY <2>1 DEF Becomes, Reads
  <2> QED
    BY <2>1, <2>2, RequestOnly DEF LoadUser, AtAttempt
<1>3. ASSUME users # Null,
             request' = [request EXCEPT ![r].user = users.id, ![r].role = users.role,
                           ![r].pc = IF request[r].of = Null THEN "verify" ELSE "take_login"]
      PROVE  IInv'
  <2> DEFINE pc == IF request[r].of = Null THEN "verify" ELSE "take_login"
  <2>1. users.id \in Ids /\ users.role \in Roles
    BY <1>3 DEF IInv, TypeOK, Session
  <2>2. pc \in {"verify", "take_login"}
    OBVIOUS
  <2>3. request' = [request EXCEPT ![r] = [request[r] EXCEPT !.user = users.id,
                      !.role = users.role, !.pc = pc]]
    BY <1>3
  <2>4. pc = "take_login" => request[r].of \in Challenges
    BY DEF LoadUser, IInv, Reads
  <2> HIDE DEF pc
  <2>5. request[r] \in Request
    BY DEF IInv, TypeOK
  <2>6. [request[r] EXCEPT !.user = users.id, !.role = users.role, !.pc = pc] \in Request
    BY <2>1, <2>2, <2>5 DEF Request, Stages
  <2>7. Becomes(r, pc, users.id, users.role, request[r].of)
    BY <2>3, <2>5, <2>6 DEF Becomes, IInv, TypeOK, Request
  <2>8. TypeOK'
    BY <2>7 DEF LoadUser, IInv, TypeOK, Becomes
  <2>9. Reads(r)'
    BY <2>1, <2>2, <2>4, <2>7 DEF Becomes, Reads
  <2>10. \A p \in Requests : Reads(p)'
    BY <2>7, <2>9, OthersRead DEF IInv, Becomes
  <2>11. /\ DeletionsStay /\ InsertionsStay /\ HoldersStay /\ GrantsStay /\ AttemptsStay
         /\ NoneReturns
    BY <2>2, <2>7, Moved DEF LoadUser, AtAttempt
  <2>12. Entitled'
    BY <2>7, <2>2, <2>1 DEF LoadUser, IInv, Entitled, Becomes
  <2>13. login_attempts' <= login_attempts
    BY DEF LoadUser, IInv, TypeOK
  <2>14. SameName /\ LinksShrink /\ PasskeysShrink /\ TokensShrink /\ ChallengesStay
    BY LeftAlone DEF LoadUser
  <2> QED
    BY <2>8, <2>10, <2>11, <2>12, <2>13, <2>14, NameKept, EmptiedKept, OnlyLinkKept, TakenKept,
       ScopesKept, FailuresKept, MintedKept DEF LoadUser, IInv
<1> QED
  BY <1>1, <1>2, <1>3 DEF LoadUser

----------------------------------------------------------------------------
(* The invariant: steps that write one table *)

LEMMA ChallengesInv ==
  ASSUME IInv, NEW ch \in Challenges, RegisterStart(ch) \/ LoginStart(ch) \/ ExpireChallenge(ch)
  PROVE  IInv'
<1>1. ASSUME NEW purpose \in {"register", "authenticate"}, NewChallenge(ch, purpose)
      PROVE  IInv'
  <2> DEFINE new == [purpose |-> purpose, expired |-> FALSE]
  <2>1. new \in Challenge /\ NoChallenge \in Challenge
    BY DEF Challenge, NoChallenge
  <2>2. new # Null /\ NoChallenge # Null
    BY <2>1, NullAssumption
  <2>3. webauthn_challenges' = [webauthn_challenges EXCEPT ![ch] = new]
    BY <1>1 DEF NewChallenge
  <2> HIDE DEF new
  <2>4. TypeOK' /\ ChallengesStay
    BY <1>1, <2>1, <2>2, <2>3 DEF NewChallenge, IInv, TypeOK, ChallengesStay
  <2> QED
    BY <1>1, <2>4, LeftAlone, TablesOnly DEF NewChallenge, IInv, TypeOK
<1>2. ASSUME ExpireChallenge(ch) PROVE IInv'
  <2> DEFINE new == [webauthn_challenges[ch] EXCEPT !.expired = TRUE]
  <2>1. webauthn_challenges[ch] \in Challenge
    BY <1>2 DEF ExpireChallenge, IInv, TypeOK
  <2>2. new \in Challenge
    BY <2>1 DEF Challenge
  <2>3. new # Null /\ webauthn_challenges[ch] # Null
    BY <2>1, <2>2, NullAssumption
  <2>4. webauthn_challenges' = [webauthn_challenges EXCEPT ![ch] = new]
    BY <1>2 DEF ExpireChallenge
  <2> HIDE DEF new
  <2>5. TypeOK' /\ ChallengesStay
    BY <1>2, <2>2, <2>3, <2>4 DEF ExpireChallenge, IInv, TypeOK, ChallengesStay
  <2> QED
    BY <1>2, <2>5, LeftAlone, TablesOnly DEF ExpireChallenge, IInv, TypeOK
<1> QED
  BY <1>1, <1>2 DEF RegisterStart, LoginStart

LEMMA DeletePasskeyInv == ASSUME IInv, NEW c \in Passkeys, DeletePasskey(c) PROVE IInv'
<1>1. TypeOK' /\ PasskeysShrink
  BY DEF DeletePasskey, IInv, TypeOK, PasskeysShrink
<1> QED
  BY <1>1, LeftAlone, TablesOnly DEF DeletePasskey, IInv, TypeOK

LEMMA ExpireLinkInv == ASSUME IInv, NEW l \in Requests, ExpireLink(l) PROVE IInv'
<1> DEFINE new == [password_reset_tokens[l] EXCEPT !.expired = TRUE]
<1>1. password_reset_tokens[l] \in Link /\ password_reset_tokens[l] # Null
  BY DEF ExpireLink, IInv, TypeOK
<1>2. /\ new \in Link /\ new.user_id = password_reset_tokens[l].user_id
      /\ new.used = password_reset_tokens[l].used
  BY <1>1 DEF Link
<1>3. password_reset_tokens' = [password_reset_tokens EXCEPT ![l] = new]
  BY DEF ExpireLink
<1> HIDE DEF new
<1>4. TypeOK'
  BY <1>2, <1>3 DEF ExpireLink, IInv, TypeOK
<1>5. LinksShrink
  BY <1>1, <1>2, <1>3 DEF LinksShrink, IInv, TypeOK
<1> QED
  BY <1>4, <1>5, LeftAlone, TablesOnly DEF ExpireLink, IInv, TypeOK

LEMMA TokensInv ==
  ASSUME IInv, NEW t \in Requests, RevokeApiToken(t) \/ DeleteApiToken(t)
  PROVE  IInv'
<1>1. ASSUME RevokeApiToken(t) PROVE IInv'
  <2> DEFINE new == [api_tokens[t] EXCEPT !.is_revoked = TRUE]
  <2>1. api_tokens[t] \in ApiToken /\ api_tokens[t] # Null
    BY <1>1 DEF RevokeApiToken, IInv, TypeOK
  <2>2. /\ new \in ApiToken /\ new.owner_user_id = api_tokens[t].owner_user_id
        /\ new.scope = api_tokens[t].scope
    BY <2>1 DEF ApiToken
  <2>3. api_tokens' = [api_tokens EXCEPT ![t] = new]
    BY <1>1 DEF RevokeApiToken
  <2> HIDE DEF new
  <2>4. TypeOK'
    BY <1>1, <2>2, <2>3 DEF RevokeApiToken, IInv, TypeOK
  <2>5. TokensShrink
    BY <2>1, <2>2, <2>3 DEF TokensShrink, IInv, TypeOK
  <2> QED
    BY <1>1, <2>4, <2>5, LeftAlone, TablesOnly DEF RevokeApiToken, IInv, TypeOK
<1>2. ASSUME DeleteApiToken(t) PROVE IInv'
  <2>1. TypeOK' /\ TokensShrink
    BY <1>2 DEF DeleteApiToken, IInv, TypeOK, TokensShrink
  <2> QED
    BY <1>2, <2>1, LeftAlone, TablesOnly DEF DeleteApiToken, IInv, TypeOK
<1> QED
  BY <1>1, <1>2

LEMMA FailuresAgeInv == ASSUME IInv, FailuresAge PROVE IInv'
<1>1. TypeOK' /\ login_attempts' <= login_attempts
  BY DEF FailuresAge, IInv, TypeOK
<1> QED
  BY <1>1, LeftAlone, TablesOnly DEF FailuresAge

LEMMA SessionExpiresInv == ASSUME IInv, NEW s \in sessions, SessionExpires(s) PROVE IInv'
<1>1. TypeOK' /\ login_attempts' <= login_attempts
  BY DEF SessionExpires, IInv, TypeOK
<1> QED
  BY <1>1, LeftAlone, TablesOnly DEF SessionExpires

----------------------------------------------------------------------------
(* The invariant: steps that disturb a part of it *)

\* The deletion empties the tables before the row goes.
LEMMA DeletePasskeysInv == ASSUME IInv, NEW r \in Requests, DeletePasskeys(r) PROVE IInv'
<1> DEFINE u == request[r].user
<1>1. Becomes(r, "delete_links", u, request[r].role, request[r].of)
  BY GotoBecomes DEF DeletePasskeys, IInv, Stages
<1>2. u \in Ids
  BY DEF DeletePasskeys, IInv, Reads
<1>3. TypeOK'
  BY <1>1 DEF DeletePasskeys, IInv, TypeOK, Becomes
<1>4. \A p \in Requests : Reads(p)'
  <2>1. Reads(r)'
    BY <1>1, <1>2 DEF Becomes, Reads
  <2> QED
    BY <1>1, <2>1, OthersRead DEF IInv, Becomes
<1>5. SameName /\ LinksShrink /\ TokensShrink /\ ChallengesStay
  BY LeftAlone DEF DeletePasskeys
<1>6. PasskeysShrink
  BY DEF DeletePasskeys, PasskeysShrink
<1>7. /\ InsertionsStay /\ HoldersStay /\ GrantsStay /\ RolesStay /\ AttemptsStay /\ NoneReturns
  BY <1>1, Moved DEF DeletePasskeys, AtAttempt
<1>8. Emptied'
  <2> SUFFICES ASSUME NEW v \in Ids \ late', NEW p \in Requests, request'[p].user = v,
                      request'[p].pc \in {"delete_links", "delete_user"}
               PROVE  /\ \A c \in Passkeys : webauthn_credentials'[c] # v
                      /\ request'[p].pc = "delete_user" =>
                           \A l \in Requests :
                             password_reset_tokens'[l] # Null =>
                               password_reset_tokens'[l].user_id # v
    BY DEF Emptied
  <2>1. CASE p = r
    BY <1>1, <1>2, <2>1, NullAssumption DEF Becomes, DeletePasskeys
  <2>2. CASE p # r
    <3>1. request'[p] = request[p]
      BY <1>1, <2>2 DEF Becomes
    <3>2. \A c \in Passkeys : webauthn_credentials[c] # v
      BY <3>1 DEF IInv, Emptied, DeletePasskeys
    <3>3. request'[p].pc = "delete_user" =>
            \A l \in Requests :
              password_reset_tokens[l] # Null => password_reset_tokens[l].user_id # v
      BY <3>1 DEF IInv, Emptied, DeletePasskeys
    <3> QED
      BY <3>2, <3>3, <1>6, NullAssumption DEF PasskeysShrink, DeletePasskeys
  <2> QED
    BY <2>1, <2>2
<1>9. login_attempts' <= login_attempts
  BY DEF DeletePasskeys, IInv, TypeOK
<1> QED
  BY <1>3, <1>4, <1>5, <1>6, <1>7, <1>8, <1>9, NameKept, OnlyLinkKept, TakenKept, EntitledKept,
     ScopesKept, FailuresKept, MintedKept DEF DeletePasskeys, IInv

LEMMA DeleteLinksInv == ASSUME IInv, NEW r \in Requests, DeleteLinks(r) PROVE IInv'
<1> DEFINE u == request[r].user
<1>1. Becomes(r, "delete_user", u, request[r].role, request[r].of)
  BY GotoBecomes DEF DeleteLinks, IInv, Stages
<1>2. u \in Ids
  BY DEF DeleteLinks, IInv, Reads
<1>3. TypeOK'
  BY <1>1 DEF DeleteLinks, IInv, TypeOK, Becomes
<1>4. \A p \in Requests : Reads(p)'
  <2>1. Reads(r)'
    BY <1>1, <1>2 DEF Becomes, Reads
  <2> QED
    BY <1>1, <2>1, OthersRead DEF IInv, Becomes
<1>5. SameName /\ PasskeysShrink /\ TokensShrink /\ ChallengesStay
  BY LeftAlone DEF DeleteLinks
<1>6. LinksShrink
  BY DEF DeleteLinks, LinksShrink
<1>7. /\ InsertionsStay /\ HoldersStay /\ GrantsStay /\ RolesStay /\ AttemptsStay /\ NoneReturns
  BY <1>1, Moved DEF DeleteLinks, AtAttempt
<1>8. Emptied'
  <2> SUFFICES ASSUME NEW v \in Ids \ late', NEW p \in Requests, request'[p].user = v,
                      request'[p].pc \in {"delete_links", "delete_user"}
               PROVE  /\ \A c \in Passkeys : webauthn_credentials'[c] # v
                      /\ request'[p].pc = "delete_user" =>
                           \A l \in Requests :
                             password_reset_tokens'[l] # Null =>
                               password_reset_tokens'[l].user_id # v
    BY DEF Emptied
  <2>1. CASE p = r
    <3>1. v = u /\ request[r].pc = "delete_links" /\ v \in Ids \ late
      BY <1>1, <2>1 DEF Becomes, DeleteLinks
    <3>2. \A c \in Passkeys : webauthn_credentials[c] # v
      BY <3>1 DEF IInv, Emptied
    <3> QED
      BY <3>1, <3>2 DEF DeleteLinks
  <2>2. CASE p # r
    <3>1. request'[p] = request[p]
      BY <1>1, <2>2 DEF Becomes
    <3>2. \A c \in Passkeys : webauthn_credentials[c] # v
      BY <3>1 DEF IInv, Emptied, DeleteLinks
    <3>3. request'[p].pc = "delete_user" =>
            \A l \in Requests :
              password_reset_tokens[l] # Null => password_reset_tokens[l].user_id # v
      BY <3>1 DEF IInv, Emptied, DeleteLinks
    <3> QED
      BY <3>2, <3>3, <1>6 DEF LinksShrink, DeleteLinks
  <2> QED
    BY <2>1, <2>2
<1>9. login_attempts' <= login_attempts
  BY DEF DeleteLinks, IInv, TypeOK
<1> QED
  BY <1>3, <1>4, <1>5, <1>6, <1>7, <1>8, <1>9, NameKept, OnlyLinkKept, TakenKept, EntitledKept,
     ScopesKept, FailuresKept, MintedKept DEF DeleteLinks, IInv

LEMMA DeleteRowInv == ASSUME IInv, NEW r \in Requests, DeleteRow(r) PROVE IInv'
<1>1. Becomes(r, "done", Null, Null, Null)
  BY FinishBecomes DEF DeleteRow, IInv
<1>2. TypeOK'
  BY <1>1 DEF DeleteRow, IInv, TypeOK, Becomes
<1>3. \A p \in Requests : Reads(p)'
  <2>1. Reads(r)'
    BY <1>1 DEF Becomes, Reads
  <2> QED
    BY <1>1, <2>1, OthersRead DEF IInv, Becomes
<1>4. LinksShrink /\ PasskeysShrink /\ TokensShrink /\ ChallengesStay
  BY LeftAlone DEF DeleteRow
<1>5. /\ DeletionsStay /\ InsertionsStay /\ HoldersStay /\ GrantsStay /\ RolesStay
      /\ AttemptsStay /\ NoneReturns
  BY <1>1, Moved DEF DeleteRow, AtAttempt
<1>6. NothingLeft'
  <2> SUFFICES ASSUME NEW v \in Ids \ late, users' = Null \/ users'.id # v
               PROVE  /\ \A c \in Passkeys : webauthn_credentials[c] # v
                      /\ \A l \in Requests : password_reset_tokens[l] # Null =>
                           password_reset_tokens[l].user_id # v
    BY DEF NothingLeft, DeleteRow
  <2>1. CASE users = Null \/ users.id # v
    BY <2>1 DEF IInv, NothingLeft
  <2>2. CASE request[r].user = v
    <3>1. request[r].pc = "delete_user"
      BY DEF DeleteRow
    <3> QED
      BY <2>2, <3>1 DEF IInv, Emptied
  <2> QED
    BY <2>1, <2>2 DEF DeleteRow
<1>7. Entitled'
  <2>1. GrantsStay /\ RolesStay
    BY <1>5
  <2>2. users' = Null \/ users' = users
    BY DEF DeleteRow
  <2>3. CASE users' = users
    BY <1>5, <2>3, EntitledKept DEF DeleteRow, IInv
  <2>4. CASE users' = Null
    BY <2>1, <2>4 DEF DeleteRow, IInv, Entitled, GrantsStay, Stays
  <2> QED
    BY <2>2, <2>3, <2>4
<1>8. login_attempts' <= login_attempts
  BY DEF DeleteRow, IInv, TypeOK
<1> QED
  BY <1>2, <1>3, <1>4, <1>5, <1>6, <1>7, <1>8, EmptiedKept, OnlyLinkKept, TakenKept, ScopesKept,
     FailuresKept, MintedKept DEF DeleteRow, IInv

\* An account that is created has neither links nor passkeys yet, and nobody speaks for it.
LEMMA CreateUserInv ==
  ASSUME IInv, NEW u \in Ids, NEW role \in Roles, CreateUser(u, role)
  PROVE  IInv'
<1>1. users' \in Session /\ users'.id = u /\ users'.role = role /\ users = Null
  BY DEF CreateUser, Session
<1>2. users' # Null
  BY <1>1, NullAssumption
<1>3. /\ roles' \in [Ids -> SUBSET Roles] /\ roles'[u] = {role} /\ roles[u] = {}
      /\ \A v \in Ids : roles[v] \subseteq roles'[v]
  BY DEF CreateUser, IInv, TypeOK
<1>4. TypeOK'
  BY <1>1, <1>3, BoundsAssumption DEF CreateUser, Edit, IInv, TypeOK
<1>5. LinksShrink /\ PasskeysShrink /\ TokensShrink /\ ChallengesStay
  BY LeftAlone DEF CreateUser
<1>6. /\ DeletionsStay /\ InsertionsStay /\ HoldersStay /\ GrantsStay /\ RolesStay
      /\ AttemptsStay /\ NoneReturns /\ \A p \in Requests : Reads(p)'
  BY NoneMoves DEF CreateUser, IInv
<1>7. NothingLeft'
  BY <1>1 DEF CreateUser, IInv, NothingLeft
<1>8. Entitled'
  <2>1. users'.role \in roles'[users'.id]
    BY <1>1, <1>3
  <2>2. ASSUME u \notin succeeded'
        PROVE  sessions' = {} /\ \A r \in Requests : request'[r].role = Null
    BY <2>2 DEF CreateUser, InUse
  <2>3. ASSUME NEW r \in Requests, request'[r].pc = "insert_token",
               request'[r].user \notin succeeded'
        PROVE  \E other \in roles'[request'[r].user] : request'[r].of \in Grantable[other]
    <3>1. request[r].pc = "insert_token" /\ request[r].user \notin succeeded
      BY <2>3 DEF CreateUser
    <3>2. request[r].user \in Ids
      BY <3>1 DEF IInv, Reads
    <3>3. PICK other \in roles[request[r].user] : request[r].of \in Grantable[other]
      BY <3>1 DEF IInv, Entitled
    <3> QED
      BY <3>2, <3>3, <1>3 DEF CreateUser
  <2> QED
    BY <1>1, <2>1, <2>2, <2>3 DEF Entitled
<1>9. succeeded \subseteq succeeded' /\ login_attempts' <= login_attempts
  BY DEF CreateUser, IInv, TypeOK
<1> QED
  BY <1>3, <1>4, <1>5, <1>6, <1>7, <1>8, <1>9, EmptiedKept, OnlyLinkKept, TakenKept, ScopesKept,
     FailuresKept, MintedKept DEF CreateUser, IInv

LEMMA UpdateUserRoleInv ==
  ASSUME IInv, NEW role \in Roles, UpdateUserRole(role)
  PROVE  IInv'
<1> DEFINE new == [users EXCEPT !.role = role]
<1>1. users \in Session /\ users # Null
  BY DEF UpdateUserRole, IInv, TypeOK
<1>2. new \in Session /\ new.id = users.id /\ new.role = role
  BY <1>1 DEF Session
<1>3. users' = new /\ new # Null
  BY <1>2, NullAssumption DEF UpdateUserRole
<1> HIDE DEF new
<1>4. users.id \in Ids
  BY <1>1 DEF Session
<1>5. /\ roles' \in [Ids -> SUBSET Roles] /\ role \in roles'[users.id]
      /\ \A v \in Ids : roles[v] \subseteq roles'[v]
  BY <1>4 DEF UpdateUserRole, IInv, TypeOK
<1>6. TypeOK'
  BY <1>2, <1>3, <1>5, BoundsAssumption DEF UpdateUserRole, Edit, IInv, TypeOK
<1>7. SameName /\ LinksShrink /\ PasskeysShrink /\ TokensShrink /\ ChallengesStay
  BY <1>1, <1>2, <1>3, LeftAlone DEF UpdateUserRole, SameName
<1>8. /\ DeletionsStay /\ InsertionsStay /\ HoldersStay /\ GrantsStay /\ RolesStay
      /\ AttemptsStay /\ NoneReturns /\ \A p \in Requests : Reads(p)'
  BY NoneMoves DEF UpdateUserRole, IInv
<1>9. Entitled'
  <2>1. users'.role \in roles'[users'.id]
    BY <1>2, <1>3, <1>5
  <2>2. ASSUME users'.id \notin succeeded'
        PROVE  /\ \A s \in sessions' : s.role \in roles'[users'.id]
               /\ \A r \in Requests : request'[r].role # Null =>
                    request'[r].role \in roles'[users'.id]
    BY <1>1, <1>2, <1>3, <1>4, <1>5, <2>2 DEF UpdateUserRole, IInv, Entitled
  <2>3. ASSUME NEW r \in Requests, request'[r].pc = "insert_token",
               request'[r].user \notin succeeded'
        PROVE  \E other \in roles'[request'[r].user] : request'[r].of \in Grantable[other]
    <3>1. request[r].pc = "insert_token" /\ request[r].user \notin succeeded
      BY <2>3 DEF UpdateUserRole
    <3>2. request[r].user \in Ids
      BY <3>1 DEF IInv, Reads
    <3>3. PICK other \in roles[request[r].user] : request[r].of \in Grantable[other]
      BY <3>1 DEF IInv, Entitled
    <3> QED
      BY <3>2, <3>3, <1>5 DEF UpdateUserRole
  <2> QED
    BY <2>1, <2>2, <2>3 DEF Entitled
<1>10. login_attempts' <= login_attempts
  BY DEF UpdateUserRole, IInv, TypeOK
<1> QED
  BY <1>5, <1>6, <1>7, <1>8, <1>9, <1>10, NameKept, EmptiedKept, OnlyLinkKept, TakenKept,
     ScopesKept, FailuresKept, MintedKept DEF UpdateUserRole, IInv

\* A request about to insert a link has deleted those that were open ...
LEMMA WithdrawLinksShrink ==
  ASSUME NEW u \in Ids, WithdrawLinks(u)
  PROVE  LinksShrink /\ Unused(u)' = {}
BY DEF WithdrawLinks, LinksShrink, Unused, IsOpen

LEMMA WithdrawInv == ASSUME IInv, NEW r \in Requests, Withdraw(r) PROVE IInv'
<1>1. PICK u \in Ids : u = request[r].user
  BY DEF Withdraw, IInv, Reads
<1>2. Becomes(r, "insert_link", u, request[r].role, request[r].of)
  BY <1>1, GotoBecomes DEF Withdraw, IInv, Stages
<1>3. TypeOK'
  BY <1>2 DEF Withdraw, WithdrawLinks, IInv, TypeOK, Becomes
<1>4. \A p \in Requests : Reads(p)'
  <2>1. Reads(r)'
    BY <1>2, <1>1 DEF Becomes, Reads
  <2> QED
    BY <1>2, <2>1, OthersRead DEF IInv, Becomes
<1>5. SameName /\ PasskeysShrink /\ TokensShrink /\ ChallengesStay
  BY LeftAlone DEF Withdraw
<1>6. LinksShrink /\ Unused(u)' = {}
  BY <1>1, WithdrawLinksShrink DEF Withdraw
<1>7. /\ DeletionsStay /\ HoldersStay /\ GrantsStay /\ RolesStay /\ AttemptsStay /\ NoneReturns
  BY <1>2, Moved DEF Withdraw, AtAttempt
<1>8. OnlyLink'
  <2> SUFFICES ASSUME NEW v \in Ids \ crossed'
               PROVE  /\ \A l, m \in Unused(v)' : l = m
                      /\ \A p \in Requests :
                           request'[p].pc = "insert_link" /\ request'[p].user = v =>
                             Unused(v)' = {}
    BY DEF OnlyLink
  <2>1. CASE v = u
    BY <1>6, <2>1
  <2>2. CASE v # u
    <3>1. v \in Ids \ crossed
      BY <1>1, <2>2 DEF Withdraw
    <3>2. Unused(v)' \subseteq Unused(v) /\ \A l, m \in Unused(v) : l = m
      BY <1>6, <3>1, UnusedShrinks DEF IInv, OnlyLink
    <3>3. ASSUME NEW p \in Requests, request'[p].pc = "insert_link", request'[p].user = v
          PROVE  Unused(v) = {}
      <4>1. request'[p] = request[p]
        BY <1>2, <2>2, <3>3 DEF Becomes
      <4> QED
        BY <3>1, <3>3, <4>1 DEF IInv, OnlyLink
    <3> QED
      BY <3>2, <3>3
  <2> QED
    BY <2>1, <2>2
<1>9. login_attempts' <= login_attempts
  BY DEF Withdraw, IInv, TypeOK
<1> QED
  BY <1>3, <1>4, <1>5, <1>6, <1>7, <1>8, <1>9, NameKept, EmptiedKept, TakenKept, EntitledKept,
     ScopesKept, FailuresKept, MintedKept DEF Withdraw, IInv

\* ... and no other can have been inserted since, unless the two crossed.
LEMMA InsertLinkInv == ASSUME IInv, NEW r \in Requests, InsertLink(r) PROVE IInv'
<1> DEFINE u == request[r].user
           link == [user_id |-> u, used |-> FALSE, expired |-> FALSE]
           others == {s \in Requests \ {r} : request[s].pc = "insert_link" /\ request[s].user = u}
<1>1. Becomes(r, "done", Null, Null, Null)
  BY FinishBecomes DEF InsertLink, IInv
<1>2. u \in Ids /\ request[r].pc = "insert_link"
  BY DEF InsertLink, IInv, Reads
<1>3. link \in Link /\ link.user_id = u /\ ~ link.used
  BY <1>2 DEF Link
<1>4. /\ password_reset_tokens' = [password_reset_tokens EXCEPT ![r] = link]
      /\ minted' = [minted EXCEPT ![r] = u]
      /\ crossed' = IF others = {} THEN crossed ELSE crossed \cup {u}
      /\ Arrives(u)
  BY DEF InsertLink
<1>5. /\ late \subseteq late' /\ late' \subseteq Ids
      /\ u \notin late' => ~ Leaving(u)
  BY <1>2, <1>4 DEF Arrives, IInv, TypeOK
<1>6. link # Null /\ minted[r] = Null /\ redeemed[r] = 0 /\ password_reset_tokens[r] = Null
  <2>1. link # Null
    BY <1>3, NullAssumption
  <2>2. minted[r] = Null /\ redeemed[r] = 0
    BY <1>2 DEF IInv, Minted
  <2>3. password_reset_tokens[r] # Null => password_reset_tokens[r].user_id \in Ids
    BY DEF IInv, TypeOK, Link
  <2>4. password_reset_tokens[r] = Null
    BY <2>2, <2>3, NullAssumption DEF IInv, Minted
  <2> QED
    BY <2>1, <2>2, <2>4
<1> HIDE DEF link, others
<1>7. \A l \in Requests :
        password_reset_tokens'[l] = IF l = r THEN link ELSE password_reset_tokens[l]
  BY <1>4 DEF IInv, TypeOK
<1>8. TypeOK'
  <2>1. password_reset_tokens' \in [Requests -> Link \cup {Null}]
    BY <1>3, <1>4 DEF IInv, TypeOK
  <2>2. minted' \in [Requests -> Ids \cup {Null}] /\ crossed' \subseteq Ids
    BY <1>2, <1>4 DEF IInv, TypeOK
  <2> QED
    BY <1>1, <1>5, <2>1, <2>2 DEF InsertLink, IInv, TypeOK, Becomes
<1>9. \A p \in Requests : Reads(p)'
  <2>1. Reads(r)'
    BY <1>1 DEF Becomes, Reads
  <2> QED
    BY <1>1, <2>1, OthersRead DEF IInv, Becomes
<1>10. SameName /\ PasskeysShrink /\ TokensShrink /\ ChallengesStay
  BY LeftAlone DEF InsertLink
<1>11. /\ DeletionsStay /\ InsertionsStay /\ HoldersStay /\ GrantsStay /\ RolesStay
       /\ AttemptsStay /\ NoneReturns
  BY <1>1, <1>2, Moved DEF AtAttempt
<1>12. NothingLeft'
  <2> SUFFICES ASSUME NEW v \in Ids \ late', users = Null \/ users.id # v
               PROVE  /\ \A c \in Passkeys : webauthn_credentials[c] # v
                      /\ \A l \in Requests : password_reset_tokens'[l] # Null =>
                           password_reset_tokens'[l].user_id # v
    BY DEF NothingLeft, InsertLink
  <2>1. v # u
    BY <1>5 DEF Leaving
  <2>2. v \in Ids \ late
    BY <1>5
  <2> QED
    BY <1>3, <1>7, <2>1, <2>2 DEF IInv, NothingLeft
<1>13. Emptied'
  <2> SUFFICES ASSUME NEW v \in Ids \ late', NEW p \in Requests, request'[p].user = v,
                      request'[p].pc \in {"delete_links", "delete_user"}
               PROVE  /\ \A c \in Passkeys : webauthn_credentials[c] # v
                      /\ request'[p].pc = "delete_user" =>
                           \A l \in Requests :
                             password_reset_tokens'[l] # Null =>
                               password_reset_tokens'[l].user_id # v
    BY DEF Emptied, InsertLink
  <2>1. request'[p] = request[p]
    BY <1>11 DEF DeletionsStay, Stays
  <2>2. v # u
    BY <1>5, <2>1 DEF Leaving
  <2>3. \A c \in Passkeys : webauthn_credentials[c] # v
    BY <1>5, <2>1 DEF IInv, Emptied
  <2>4. request'[p].pc = "delete_user" =>
          \A l \in Requests :
            password_reset_tokens[l] # Null => password_reset_tokens[l].user_id # v
    BY <1>5, <2>1 DEF IInv, Emptied
  <2> QED
    BY <1>3, <1>7, <2>2, <2>3, <2>4
<1>14. OnlyLink'
  <2> SUFFICES ASSUME NEW v \in Ids \ crossed'
               PROVE  /\ \A l, m \in Unused(v)' : l = m
                      /\ \A p \in Requests :
                           request'[p].pc = "insert_link" /\ request'[p].user = v =>
                             Unused(v)' = {}
    BY DEF OnlyLink
  <2>1. v \in Ids \ crossed
    BY <1>4
  <2>2. CASE v = u
    <3>1. others = {}
      BY <1>4, <2>2
    <3>2. Unused(u) = {}
      BY <1>2, <2>1, <2>2 DEF IInv, OnlyLink
    <3>3. Unused(v)' \subseteq {r}
      BY <1>7, <2>2, <3>2 DEF Unused, IsOpen
    <3>4. ASSUME NEW p \in Requests, request'[p].pc = "insert_link", request'[p].user = v
          PROVE  FALSE
      <4>1. request'[p] = request[p] /\ p # r
        BY <1>1, <3>4 DEF Becomes
      <4> QED
        BY <2>2, <3>1, <3>4, <4>1 DEF others
    <3> QED
      BY <3>3, <3>4
  <2>3. CASE v # u
    <3>1. Unused(v)' \subseteq Unused(v)
      BY <1>3, <1>7, <2>3 DEF Unused, IsOpen
    <3>2. ASSUME NEW p \in Requests, request'[p].pc = "insert_link", request'[p].user = v
          PROVE  Unused(v) = {}
      <4>1. request'[p] = request[p]
        BY <3>2, <1>11 DEF InsertionsStay, Stays
      <4> QED
        BY <2>1, <3>2, <4>1 DEF IInv, OnlyLink
    <3> QED
      BY <2>1, <3>1, <3>2 DEF IInv, OnlyLink
  <2> QED
    BY <2>2, <2>3
<1>15. Minted'
  <2> SUFFICES ASSUME NEW l \in Requests
               PROVE  /\ password_reset_tokens'[l] # Null =>
                           minted'[l] = password_reset_tokens'[l].user_id
                      /\ IsOpen(l)' => redeemed'[l] = 0
                      /\ minted'[l] = Null => redeemed'[l] = 0
                      /\ request'[l].pc # "done" => minted'[l] = Null
    BY DEF Minted
  <2>1. redeemed' = redeemed
    BY DEF InsertLink
  <2>2. CASE l = r
    <3>1. minted'[l] = u /\ request'[l].pc = "done"
      BY <1>1, <1>4, <2>2 DEF IInv, TypeOK, Becomes
    <3> QED
      BY <1>3, <1>6, <1>7, <2>1, <2>2, <3>1
  <2>3. CASE l # r
    <3>1. minted'[l] = minted[l] /\ request'[l] = request[l]
      BY <1>1, <1>4, <2>3 DEF IInv, TypeOK, Becomes
    <3>2. password_reset_tokens'[l] = password_reset_tokens[l]
      BY <1>7, <2>3
    <3> QED
      BY <2>1, <3>1, <3>2 DEF IInv, Minted, IsOpen
  <2> QED
    BY <2>2, <2>3
<1>16. login_attempts' <= login_attempts
  BY DEF InsertLink, IInv, TypeOK
<1> QED
  BY <1>8, <1>9, <1>10, <1>11, <1>12, <1>13, <1>14, <1>15, <1>16, TakenKept, EntitledKept,
     ScopesKept, FailuresKept DEF InsertLink, IInv

\* A link is burned only while it is open, and is not open after it.
LEMMA BurnInv == ASSUME IInv, NEW r \in Requests, Burn(r) PROVE IInv'
<1> DEFINE l == request[r].of
           new == [password_reset_tokens[l] EXCEPT !.used = TRUE]
<1>1. l \in Requests /\ request[r].user \in Ids /\ request[r].pc = "burn"
  BY DEF Burn, IInv, Reads
<1>2. CASE ~ IsOpen(l) /\ Finish(r) /\ UNCHANGED <<password_reset_tokens, redeemed>>
  <2>1. Becomes(r, "done", Null, Null, Null)
    BY <1>2, FinishBecomes DEF IInv
  <2>2. Reads(r)'
    BY <2>1 DEF Becomes, Reads
  <2> QED
    BY <1>1, <1>2, <2>1, <2>2, RequestOnly DEF Burn, AtAttempt
<1>3. CASE /\ IsOpen(l)
           /\ password_reset_tokens' = [password_reset_tokens EXCEPT ![l].used = TRUE]
           /\ redeemed' = [redeemed EXCEPT ![l] = @ + 1]
           /\ Goto(r, "name")
  <2>1. Becomes(r, "name", request[r].user, request[r].role, l)
    BY <1>3, GotoBecomes DEF IInv, Stages
  <2>2. password_reset_tokens[l] \in Link /\ password_reset_tokens[l] # Null
    BY <1>1, <1>3 DEF IsOpen, IInv, TypeOK
  <2>3. new \in Link /\ new.user_id = password_reset_tokens[l].user_id /\ new.used
    BY <2>2 DEF Link
  <2>4. password_reset_tokens' = [password_reset_tokens EXCEPT ![l] = new]
    BY <1>3
  <2> HIDE DEF new, l
  <2>5. TypeOK'
    <3>1. password_reset_tokens' \in [Requests -> Link \cup {Null}]
      BY <2>3, <2>4 DEF IInv, TypeOK
    <3>2. redeemed' \in [Requests -> Nat]
      BY <1>1, <1>3 DEF IInv, TypeOK
    <3> QED
      BY <2>1, <3>1, <3>2 DEF Burn, IInv, TypeOK, Becomes
  <2>6. \A p \in Requests : Reads(p)'
    <3>1. Reads(r)'
      BY <1>1, <2>1 DEF Becomes, Reads
    <3> QED
      BY <2>1, <3>1, OthersRead DEF IInv, Becomes
  <2>7. SameName /\ PasskeysShrink /\ TokensShrink /\ ChallengesStay
    BY LeftAlone DEF Burn
  <2>8. LinksShrink
    BY <2>2, <2>3, <2>4 DEF LinksShrink, IInv, TypeOK
  <2>9. /\ DeletionsStay /\ InsertionsStay /\ HoldersStay /\ GrantsStay /\ RolesStay
        /\ AttemptsStay /\ NoneReturns
    BY <1>1, <2>1, Moved DEF AtAttempt
  <2>10. Minted'
    <3> SUFFICES ASSUME NEW m \in Requests
                 PROVE  /\ password_reset_tokens'[m] # Null =>
                             minted'[m] = password_reset_tokens'[m].user_id
                        /\ IsOpen(m)' => redeemed'[m] = 0
                        /\ minted'[m] = Null => redeemed'[m] = 0
                        /\ request'[m].pc # "done" => minted'[m] = Null
      BY DEF Minted
    <3>1. minted' = minted /\ (request'[m].pc # "done" => minted[m] = Null)
      BY <2>9 DEF Burn, IInv, Minted, NoneReturns
    <3>2. CASE m = l
      <4>1. password_reset_tokens'[m] = new
        BY <1>1, <2>4, <3>2 DEF IInv, TypeOK
      <4>2. minted[m] = password_reset_tokens[m].user_id /\ minted[m] \in Ids
        BY <1>1, <2>2, <3>2 DEF IInv, Minted, Link
      <4> QED
        BY <2>3, <3>1, <3>2, <4>1, <4>2, NullAssumption DEF IsOpen
    <3>3. CASE m # l
      <4>1. password_reset_tokens'[m] = password_reset_tokens[m] /\ redeemed'[m] = redeemed[m]
        BY <1>3, <2>4, <3>3 DEF IInv, TypeOK
      <4> QED
        BY <3>1, <4>1 DEF IInv, Minted, IsOpen
    <3> QED
      BY <3>2, <3>3
  <2>11. login_attempts' <= login_attempts
    BY DEF Burn, IInv, TypeOK
  <2> QED
    BY <2>5, <2>6, <2>7, <2>8, <2>9, <2>10, <2>11, NameKept, EmptiedKept, OnlyLinkKept,
       TakenKept, EntitledKept, ScopesKept, FailuresKept DEF Burn, IInv
<1> QED
  BY <1>2, <1>3 DEF Burn

LEMMA WithdrawOthersInv == ASSUME IInv, NEW r \in Requests, WithdrawOthers(r) PROVE IInv'
<1>1. Becomes(r, "forget", request[r].user, request[r].role, request[r].of)
  BY GotoBecomes DEF WithdrawOthers, IInv, Stages
<1>2. TypeOK'
  BY <1>1 DEF WithdrawOthers, WithdrawLinks, IInv, TypeOK, Becomes
<1>3. \A p \in Requests : Reads(p)'
  <2>1. Reads(r)'
    BY <1>1 DEF WithdrawOthers, Becomes, IInv, Reads
  <2> QED
    BY <1>1, <2>1, OthersRead DEF IInv, Becomes
<1>4. SameName /\ PasskeysShrink /\ TokensShrink /\ ChallengesStay
  BY LeftAlone DEF WithdrawOthers
<1>5. LinksShrink
  <2>1. PICK u \in Ids : u = request[r].user
    BY DEF WithdrawOthers, IInv, Reads
  <2> QED
    BY <2>1, WithdrawLinksShrink DEF WithdrawOthers
<1>6. /\ DeletionsStay /\ InsertionsStay /\ HoldersStay /\ GrantsStay /\ RolesStay
      /\ AttemptsStay /\ NoneReturns
  BY <1>1, Moved DEF WithdrawOthers, AtAttempt
<1>7. login_attempts' <= login_attempts
  BY DEF WithdrawOthers, IInv, TypeOK
<1> QED
  BY <1>2, <1>3, <1>4, <1>5, <1>6, <1>7, Bystander DEF WithdrawOthers

LEMMA ForgetInv == ASSUME IInv, NEW r \in Requests, Forget(r) PROVE IInv'
<1>1. Becomes(r, "done", Null, Null, Null)
  BY FinishBecomes DEF Forget, IInv
<1>2. TypeOK' /\ login_attempts' <= login_attempts
  BY <1>1 DEF Forget, IInv, TypeOK, Becomes
<1>3. \A p \in Requests : Reads(p)'
  <2>1. Reads(r)'
    BY <1>1 DEF Becomes, Reads
  <2> QED
    BY <1>1, <2>1, OthersRead DEF IInv, Becomes
<1>4. SameName /\ LinksShrink /\ PasskeysShrink /\ TokensShrink /\ ChallengesStay
  BY LeftAlone DEF Forget
<1>5. /\ DeletionsStay /\ InsertionsStay /\ HoldersStay /\ GrantsStay /\ RolesStay
      /\ AttemptsStay /\ NoneReturns
  BY <1>1, Moved DEF Forget, AtAttempt
<1> QED
  BY <1>2, <1>3, <1>4, <1>5, Bystander DEF Forget

\* A challenge is read before anybody has deleted it ...
LEMMA SelectInv ==
  ASSUME IInv, NEW r \in Requests, NEW pc, NEW purpose, NEW next,
         \/ pc = "take_register" /\ next = "drop_register"
         \/ pc = "take_login" /\ next = "drop_login",
         Select(r, pc, purpose, next)
  PROVE  IInv'
<1>1. CASE Goto(r, "drop_unread")
  <2>1. Becomes(r, "drop_unread", request[r].user, request[r].role, request[r].of)
    BY <1>1, GotoBecomes DEF IInv, Stages
  <2>2. Reads(r)'
    <3>1. Reads(r)
      BY DEF IInv
    <3> QED
      BY <2>1, <3>1 DEF Select, Becomes, Reads
  <2> QED
    BY <2>1, <2>2, RequestOnly DEF Select, AtAttempt
<1>2. ASSUME Open(request[r].of, purpose), Goto(r, next) PROVE IInv'
  <2>1. Becomes(r, next, request[r].user, request[r].role, request[r].of)
    BY <1>2, GotoBecomes DEF IInv, Stages
  <2>2. TypeOK'
    BY <2>1 DEF Select, IInv, TypeOK, Becomes
  <2>3. \A p \in Requests : Reads(p)'
    <3>1. Reads(r)
      BY DEF IInv
    <3>2. Reads(r)'
      BY <2>1, <3>1 DEF Select, Becomes, Reads
    <3> QED
      BY <2>1, <3>2, OthersRead DEF IInv, Becomes
  <2>4. SameName /\ LinksShrink /\ PasskeysShrink /\ TokensShrink
    BY LeftAlone DEF Select
  <2>5. /\ DeletionsStay /\ InsertionsStay /\ GrantsStay /\ RolesStay /\ AttemptsStay
        /\ NoneReturns
    BY <2>1, Moved DEF Select, AtAttempt
  <2>6. Taken'
    <3> SUFFICES ASSUME NEW ch \in Challenges \ raced
                 PROVE  /\ accepted[ch] <= 1
                        /\ accepted[ch] > 0 =>
                             /\ webauthn_challenges[ch] = Null
                             /\ \A p \in Requests :
                                  request'[p].pc \in {"drop_register", "drop_login"} =>
                                    request'[p].of # ch
      BY DEF Taken, Select
    <3>1. ASSUME accepted[ch] > 0, NEW p \in Requests,
                 request'[p].pc \in {"drop_register", "drop_login"}
          PROVE  request'[p].of # ch
      <4>0. webauthn_challenges[ch] = Null
        BY <3>1 DEF IInv, Taken
      <4>1. CASE p = r
        BY <1>2, <2>1, <4>0, <4>1 DEF Open, Becomes
      <4>2. CASE p # r
        BY <2>1, <3>1, <4>2 DEF Becomes, IInv, Taken
      <4> QED
        BY <4>1, <4>2
    <3> QED
      BY <3>1 DEF IInv, Taken
  <2>7. login_attempts' <= login_attempts
    BY DEF Select, IInv, TypeOK
  <2> QED
    BY <2>2, <2>3, <2>4, <2>5, <2>6, <2>7, NameKept, EmptiedKept, OnlyLinkKept, EntitledKept,
       ScopesKept, FailuresKept, MintedKept DEF Select, IInv
<1> QED
  BY <1>1, <1>2 DEF Select

\* ... so that one who deletes it alone is the first to accept it.
LEMMA DropInv ==
  ASSUME IInv, NEW r \in Requests, NEW pc, NEW next,
         \/ pc = "drop_register" /\ next = "insert_passkey"
         \/ pc = "drop_login" /\ next = "verify",
         Drop(r, pc, next)
  PROVE  IInv'
<1>0. PICK ch \in Challenges : ch = request[r].of
  BY DEF Drop, IInv, Reads
<1> DEFINE holders == {s \in Requests \ {r} :
                         request[s].pc \in {"drop_register", "drop_login"} /\ request[s].of = ch}
<1>1. /\ webauthn_challenges' = [webauthn_challenges EXCEPT ![ch] = Null]
      /\ raced' = IF holders = {} THEN raced ELSE raced \cup {ch}
      /\ request[r].pc = pc
  BY <1>0 DEF Drop
<1>2. \/ accepted' = [accepted EXCEPT ![ch] = @ + 1] /\ Goto(r, next)
      \/ accepted' = accepted /\ Finish(r)
  BY <1>0 DEF Drop
<1> HIDE DEF holders
<1>3. PICK stage, user, role, of :
        /\ stage \in {next, "done"} /\ role \in {Null, request[r].role}
        /\ Becomes(r, stage, user, role, of) /\ Reads(r)'
  <2>1. CASE Goto(r, next)
    <3>1. Becomes(r, next, request[r].user, request[r].role, request[r].of)
      BY <2>1, GotoBecomes DEF IInv, Stages
    <3>2. Reads(r)
      BY DEF IInv
    <3>3. Reads(r)'
      BY <1>1, <3>1, <3>2 DEF Becomes, Reads
    <3> QED
      BY <3>1, <3>3
  <2>2. CASE Finish(r)
    <3>1. Becomes(r, "done", Null, Null, Null)
      BY <2>2, FinishBecomes DEF IInv
    <3>2. Reads(r)'
      BY <3>1 DEF Becomes, Reads
    <3> QED
      BY <3>1, <3>2
  <2> QED
    BY <1>2, <2>1, <2>2
<1>4. accepted' \in [Challenges -> Nat] /\ accepted'[ch] <= accepted[ch] + 1
      /\ \A c \in Challenges : c # ch => accepted'[c] = accepted[c]
  BY <1>2 DEF IInv, TypeOK
<1>5. TypeOK'
  <2>1. raced' \subseteq Challenges
    BY <1>1 DEF IInv, TypeOK
  <2>2. webauthn_challenges' \in [Challenges -> Challenge \cup {Null}]
    BY <1>1 DEF IInv, TypeOK
  <2> QED
    BY <1>3, <1>4, <2>1, <2>2 DEF Drop, IInv, TypeOK, Becomes
<1>6. \A p \in Requests : Reads(p)'
  BY <1>3, OthersRead DEF IInv, Becomes
<1>7. SameName /\ LinksShrink /\ PasskeysShrink /\ TokensShrink
  BY LeftAlone DEF Drop
<1>8. /\ DeletionsStay /\ InsertionsStay /\ HoldersStay /\ GrantsStay /\ RolesStay
      /\ AttemptsStay /\ NoneReturns
  BY <1>1, <1>3, Moved DEF AtAttempt
<1>9. Taken'
  <2> SUFFICES ASSUME NEW c \in Challenges \ raced'
               PROVE  /\ accepted'[c] <= 1
                      /\ accepted'[c] > 0 =>
                           /\ webauthn_challenges'[c] = Null
                           /\ \A p \in Requests :
                                request'[p].pc \in {"drop_register", "drop_login"} =>
                                  request'[p].of # c
    BY DEF Taken
  <2>1. c \in Challenges \ raced
    BY <1>1
  <2>2. CASE c = ch
    <3>1. holders = {}
      BY <1>1, <2>2
    <3>2. ~ (accepted[c] > 0)
      BY <1>0, <1>1, <2>1, <2>2 DEF IInv, Taken
    <3>3. accepted[c] = 0
      BY <3>2 DEF IInv, TypeOK
    <3>4. accepted'[c] <= 1
      BY <1>4, <2>2, <3>3
    <3>5. webauthn_challenges'[c] = Null
      BY <1>1, <2>2 DEF IInv, TypeOK
    <3>6. ASSUME NEW p \in Requests, request'[p].pc \in {"drop_register", "drop_login"}
          PROVE  request'[p].of # c
      <4>1. request'[p] = request[p] /\ p # r
        BY <1>3, <3>6 DEF Becomes
      <4> QED
        BY <2>2, <3>1, <3>6, <4>1 DEF holders
    <3> QED
      BY <3>4, <3>5, <3>6
  <2>3. CASE c # ch
    <3>1. webauthn_challenges'[c] = webauthn_challenges[c] /\ accepted'[c] = accepted[c]
      BY <1>1, <1>4, <2>3 DEF IInv, TypeOK
    <3> QED
      BY <1>8, <2>1, <3>1 DEF IInv, Taken, HoldersStay, Stays
  <2> QED
    BY <2>2, <2>3
<1>10. login_attempts' <= login_attempts
  BY DEF Drop, IInv, TypeOK
<1> QED
  BY <1>5, <1>6, <1>7, <1>8, <1>9, <1>10, NameKept, EmptiedKept, OnlyLinkKept, EntitledKept,
     ScopesKept, FailuresKept, MintedKept DEF Drop, IInv

\* A challenge that was deleted unread is gone; nobody has accepted it by that.
LEMMA DropUnreadInv == ASSUME IInv, NEW r \in Requests, DropUnread(r) PROVE IInv'
<1>0. PICK ch \in Challenges : ch = request[r].of
  BY DEF DropUnread, IInv, Reads
<1>1. Becomes(r, "done", Null, Null, Null)
  BY FinishBecomes DEF DropUnread, IInv
<1>2. webauthn_challenges' = [webauthn_challenges EXCEPT ![ch] = Null]
  BY <1>0 DEF DropUnread
<1>3. TypeOK'
  <2>1. webauthn_challenges' \in [Challenges -> Challenge \cup {Null}]
    BY <1>2 DEF IInv, TypeOK
  <2> QED
    BY <1>1, <2>1 DEF DropUnread, IInv, TypeOK, Becomes
<1>4. \A p \in Requests : Reads(p)'
  <2>1. Reads(r)'
    BY <1>1 DEF Becomes, Reads
  <2> QED
    BY <1>1, <2>1, OthersRead DEF IInv, Becomes
<1>5. SameName /\ LinksShrink /\ PasskeysShrink /\ TokensShrink
  BY LeftAlone DEF DropUnread
<1>6. ChallengesStay
  BY <1>2 DEF ChallengesStay, DropUnread, IInv, TypeOK
<1>7. /\ DeletionsStay /\ InsertionsStay /\ HoldersStay /\ GrantsStay /\ RolesStay
      /\ AttemptsStay /\ NoneReturns
  BY <1>1, Moved DEF DropUnread, AtAttempt
<1>8. login_attempts' <= login_attempts
  BY DEF DropUnread, IInv, TypeOK
<1> QED
  BY <1>3, <1>4, <1>5, <1>6, <1>7, <1>8, Bystander DEF DropUnread

\* A passkey that comes too late marks its account.
LEMMA InsertPasskeyInv == ASSUME IInv, NEW r \in Requests, InsertPasskey(r) PROVE IInv'
<1> DEFINE u == request[r].user
<1>1. Becomes(r, "done", Null, Null, Null)
  BY FinishBecomes DEF InsertPasskey, IInv
<1>2. u \in Ids /\ request[r].pc = "insert_passkey" /\ r \in Passkeys
  BY DEF InsertPasskey, IInv, Reads, Passkeys
<1>3. /\ late \subseteq late' /\ late' \subseteq Ids
      /\ u \notin late' => ~ Leaving(u)
  BY <1>2 DEF InsertPasskey, Arrives, IInv, TypeOK
<1>4. \A c \in Passkeys : webauthn_credentials'[c] \in {u, webauthn_credentials[c]}
  BY <1>2 DEF InsertPasskey, IInv, TypeOK
<1>5. TypeOK'
  BY <1>1, <1>2, <1>3 DEF InsertPasskey, IInv, TypeOK, Becomes
<1>6. \A p \in Requests : Reads(p)'
  <2>1. Reads(r)'
    BY <1>1 DEF Becomes, Reads
  <2> QED
    BY <1>1, <2>1, OthersRead DEF IInv, Becomes
<1>7. SameName /\ LinksShrink /\ TokensShrink /\ ChallengesStay
  BY LeftAlone DEF InsertPasskey
<1>8. /\ DeletionsStay /\ InsertionsStay /\ HoldersStay /\ GrantsStay /\ RolesStay
      /\ AttemptsStay /\ NoneReturns
  BY <1>1, <1>2, Moved DEF AtAttempt
<1>9. NothingLeft'
  <2> SUFFICES ASSUME NEW v \in Ids \ late', users = Null \/ users.id # v
               PROVE  /\ \A c \in Passkeys : webauthn_credentials'[c] # v
                      /\ \A l \in Requests : password_reset_tokens[l] # Null =>
                           password_reset_tokens[l].user_id # v
    BY DEF NothingLeft, InsertPasskey
  <2>1. v # u /\ v \in Ids \ late
    BY <1>3 DEF Leaving
  <2> QED
    BY <1>4, <2>1 DEF IInv, NothingLeft
<1>10. Emptied'
  <2> SUFFICES ASSUME NEW v \in Ids \ late', NEW p \in Requests, request'[p].user = v,
                      request'[p].pc \in {"delete_links", "delete_user"}
               PROVE  /\ \A c \in Passkeys : webauthn_credentials'[c] # v
                      /\ request'[p].pc = "delete_user" =>
                           \A l \in Requests :
                             password_reset_tokens[l] # Null =>
                               password_reset_tokens[l].user_id # v
    BY DEF Emptied, InsertPasskey
  <2>1. request'[p] = request[p]
    BY <1>8 DEF DeletionsStay, Stays
  <2>2. v # u
    BY <1>3, <2>1 DEF Leaving
  <2> QED
    BY <1>3, <1>4, <2>1, <2>2 DEF IInv, Emptied
<1>11. login_attempts' <= login_attempts
  BY DEF InsertPasskey, IInv, TypeOK
<1> QED
  BY <1>3, <1>5, <1>6, <1>7, <1>8, <1>9, <1>10, <1>11, OnlyLinkKept, TakenKept, EntitledKept,
     ScopesKept, FailuresKept, MintedKept DEF InsertPasskey, IInv

\* The role of a session is one that the account has had, unless it was opened for another.
LEMMA RegisterFinishInv ==
  ASSUME IInv, NEW r \in Requests, NEW s \in sessions, NEW ch \in Challenges,
         RegisterFinish(r, s, ch)
  PROVE  IInv'
<1>1. users \in Session /\ users # Null /\ users.id \in Ids /\ s.role \in Roles
  BY DEF RegisterFinish, IInv, TypeOK, Session
<1>2. Becomes(r, "take_register", users.id, s.role, ch) /\ request[r].pc = "unused"
  BY <1>1, BeginBecomes DEF RegisterFinish, IInv, Stages
<1>3. TypeOK'
  BY <1>2 DEF RegisterFinish, IInv, TypeOK, Becomes
<1>4. \A p \in Requests : Reads(p)'
  <2>1. Reads(r)'
    BY <1>1, <1>2 DEF Becomes, Reads
  <2> QED
    BY <1>2, <2>1, OthersRead DEF IInv, Becomes
<1>5. SameName /\ LinksShrink /\ PasskeysShrink /\ TokensShrink /\ ChallengesStay
  BY LeftAlone DEF RegisterFinish
<1>6. /\ DeletionsStay /\ InsertionsStay /\ HoldersStay /\ GrantsStay /\ AttemptsStay
      /\ NoneReturns
  BY <1>2, Moved DEF AtAttempt
<1>7. Entitled'
  <2>1. users.id \notin succeeded =>
          \A p \in Requests : request'[p].role # Null => request'[p].role \in roles[users.id]
    BY <1>1, <1>2 DEF IInv, Entitled, Becomes
  <2>2. \A p \in Requests :
          request'[p].pc = "insert_token" /\ request'[p].user \notin succeeded =>
            \E role \in roles[request'[p].user] : request'[p].of \in Grantable[role]
    BY <1>6 DEF GrantsStay, Stays, IInv, Entitled
  <2> QED
    BY <2>1, <2>2 DEF RegisterFinish, IInv, Entitled
<1>8. login_attempts' <= login_attempts
  BY DEF RegisterFinish, IInv, TypeOK
<1> QED
  BY <1>3, <1>4, <1>5, <1>6, <1>7, <1>8, NameKept, EmptiedKept, OnlyLinkKept, TakenKept,
     ScopesKept, FailuresKept, MintedKept DEF RegisterFinish, IInv

LEMMA CreateApiTokenInv ==
  ASSUME IInv, NEW r \in Requests, NEW s \in sessions, NEW scope \in Scopes,
         CreateApiToken(r, s, scope)
  PROVE  IInv'
<1>1. users \in Session /\ users # Null /\ users.id \in Ids /\ s.role \in Roles
  BY DEF CreateApiToken, IInv, TypeOK, Session
<1>2. Becomes(r, "insert_token", users.id, s.role, scope) /\ request[r].pc = "unused"
  BY <1>1, BeginBecomes DEF CreateApiToken, IInv, Stages
<1>3. TypeOK'
  BY <1>2 DEF CreateApiToken, IInv, TypeOK, Becomes
<1>4. \A p \in Requests : Reads(p)'
  <2>1. Reads(r)'
    BY <1>1, <1>2 DEF Becomes, Reads
  <2> QED
    BY <1>2, <2>1, OthersRead DEF IInv, Becomes
<1>5. SameName /\ LinksShrink /\ PasskeysShrink /\ TokensShrink /\ ChallengesStay
  BY LeftAlone DEF CreateApiToken
<1>6. /\ DeletionsStay /\ InsertionsStay /\ HoldersStay /\ AttemptsStay /\ NoneReturns
  BY <1>2, Moved DEF AtAttempt
<1>7. Entitled'
  <2>1. users.id \notin succeeded =>
          \A p \in Requests : request'[p].role # Null => request'[p].role \in roles[users.id]
    BY <1>1, <1>2 DEF IInv, Entitled, Becomes
  <2>2. ASSUME NEW p \in Requests, request'[p].pc = "insert_token",
               request'[p].user \notin succeeded
        PROVE  \E role \in roles[request'[p].user] : request'[p].of \in Grantable[role]
    <3>1. CASE p = r
      <4>1. s.role \in roles[users.id] /\ scope \in Grantable[s.role]
        BY <1>1, <1>2, <2>2, <3>1 DEF CreateApiToken, MayGrant, Becomes, IInv, Entitled
      <4> QED
        BY <1>2, <3>1, <4>1 DEF Becomes
    <3>2. CASE p # r
      BY <1>2, <2>2, <3>2 DEF Becomes, IInv, Entitled
    <3> QED
      BY <3>1, <3>2
  <2> QED
    BY <2>1, <2>2 DEF CreateApiToken, IInv, Entitled
<1>8. login_attempts' <= login_attempts
  BY DEF CreateApiToken, IInv, TypeOK
<1> QED
  BY <1>3, <1>4, <1>5, <1>6, <1>7, <1>8, NameKept, EmptiedKept, OnlyLinkKept, TakenKept,
     ScopesKept, FailuresKept, MintedKept DEF CreateApiToken, IInv

LEMMA InsertTokenInv == ASSUME IInv, NEW r \in Requests, InsertToken(r) PROVE IInv'
<1> DEFINE token == [owner_user_id |-> request[r].user, scope |-> request[r].of,
                     is_revoked |-> FALSE]
<1>1. Becomes(r, "done", Null, Null, Null)
  BY FinishBecomes DEF InsertToken, IInv
<1>2. request[r].pc = "insert_token" /\ request[r].user \in Ids /\ request[r].of \in Scopes
  BY DEF InsertToken, IInv, Reads
<1>3. /\ token \in ApiToken /\ token.owner_user_id = request[r].user
      /\ token.scope = request[r].of
  BY <1>2 DEF ApiToken
<1>4. api_tokens' = [api_tokens EXCEPT ![r] = token]
  BY DEF InsertToken
<1> HIDE DEF token
<1>5. TypeOK'
  BY <1>1, <1>3, <1>4 DEF InsertToken, IInv, TypeOK, Becomes
<1>6. \A p \in Requests : Reads(p)'
  <2>1. Reads(r)'
    BY <1>1 DEF Becomes, Reads
  <2> QED
    BY <1>1, <2>1, OthersRead DEF IInv, Becomes
<1>7. SameName /\ LinksShrink /\ PasskeysShrink /\ ChallengesStay
  BY LeftAlone DEF InsertToken
<1>8. /\ DeletionsStay /\ InsertionsStay /\ HoldersStay /\ GrantsStay /\ RolesStay
      /\ AttemptsStay /\ NoneReturns
  BY <1>1, <1>2, Moved DEF AtAttempt
<1>9. ScopesWithinRoles'
  <2> SUFFICES ASSUME NEW t \in Requests, api_tokens'[t] # Null,
                      api_tokens'[t].owner_user_id \notin succeeded
               PROVE  \E role \in roles[api_tokens'[t].owner_user_id] :
                        api_tokens'[t].scope \in Grantable[role]
    BY DEF ScopesWithinRoles, InsertToken
  <2>1. CASE t = r
    <3>1. api_tokens'[t] = token
      BY <1>4, <2>1 DEF IInv, TypeOK
    <3> QED
      BY <1>2, <1>3, <3>1 DEF IInv, Entitled
  <2>2. CASE t # r
    <3>1. api_tokens'[t] = api_tokens[t]
      BY <1>4, <2>2 DEF IInv, TypeOK
    <3> QED
      BY <3>1 DEF IInv, ScopesWithinRoles
  <2> QED
    BY <2>1, <2>2
<1>10. login_attempts' <= login_attempts
  BY DEF InsertToken, IInv, TypeOK
<1> QED
  BY <1>5, <1>6, <1>7, <1>8, <1>9, <1>10, NameKept, EmptiedKept, OnlyLinkKept, TakenKept,
     EntitledKept, FailuresKept, MintedKept DEF InsertToken, IInv

\* The limit is looked at with as many attempts still to fail as are under way.
LEMMA AttemptInv ==
  ASSUME IInv, NEW r \in Requests, NEW ch \in Challenges \cup {Null}, Attempt(r, ch)
  PROVE  IInv'
<1>1. Becomes(r, "user", Null, Null, ch) /\ request[r].pc = "unused"
  BY BeginBecomes DEF Attempt, IInv, Stages
<1>2. /\ Attempting' = Attempting \cup {r} /\ r \notin Attempting
      /\ Attempting \subseteq Requests /\ Attempting' \subseteq Requests
  BY <1>1 DEF Attempting, Becomes
<1>3. /\ Cardinality(Attempting) \in Nat /\ Cardinality(Requests) \in Nat
      /\ Cardinality(Attempting') = Cardinality(Attempting) + 1
      /\ Cardinality(Attempting') <= Cardinality(Requests)
  <2>1. IsFiniteSet(Attempting) /\ IsFiniteSet(Attempting')
        /\ Cardinality(Attempting') <= Cardinality(Requests)
    BY <1>2, RequestsAssumption, FS_Subset
  <2>2. Cardinality(Attempting) \in Nat /\ Cardinality(Requests) \in Nat
    BY <2>1, RequestsAssumption, FS_CardinalityType
  <2>3. Cardinality(Attempting') = Cardinality(Attempting) + 1
    BY <1>2, <2>1, FS_AddElement
  <2> QED
    BY <2>1, <2>2, <2>3
<1>4. widest \in 0..Cardinality(Requests) /\ login_attempts \in Nat
  BY DEF IInv, TypeOK
<1>5. widest' \in 0..Cardinality(Requests) /\ widest' >= Cardinality(Attempting) + 1
  BY <1>3, <1>4 DEF Attempt
<1>6. TypeOK'
  BY <1>1, <1>5 DEF Attempt, IInv, TypeOK, Becomes
<1>7. \A p \in Requests : Reads(p)'
  <2>1. Reads(r)'
    BY <1>1 DEF Becomes, Reads
  <2> QED
    BY <1>1, <2>1, OthersRead DEF IInv, Becomes
<1>8. SameName /\ LinksShrink /\ PasskeysShrink /\ TokensShrink /\ ChallengesStay
  BY LeftAlone DEF Attempt
<1>9. /\ DeletionsStay /\ InsertionsStay /\ HoldersStay /\ GrantsStay /\ RolesStay
      /\ NoneReturns
  BY <1>1, Moved
<1>10. FailuresBounded'
  <2>1. login_attempts' = login_attempts /\ login_attempts < MaxFailures
    BY DEF Attempt, WithinLimit
  <2> QED
    BY <1>3, <1>4, <1>5, <2>1, BoundsAssumption DEF FailuresBounded
<1> QED
  BY <1>6, <1>7, <1>8, <1>9, <1>10, NameKept, EmptiedKept, OnlyLinkKept, TakenKept,
     EntitledKept, ScopesKept, MintedKept DEF Attempt, IInv

LEMMA RecordFailureInv == ASSUME IInv, NEW r \in Requests, RecordFailure(r) PROVE IInv'
<1>1. Becomes(r, "done", Null, Null, Null) /\ request[r].pc = "fail"
  BY FinishBecomes DEF RecordFailure, IInv
<1>2. TypeOK'
  BY <1>1 DEF RecordFailure, IInv, TypeOK, Becomes
<1>3. \A p \in Requests : Reads(p)'
  <2>1. Reads(r)'
    BY <1>1 DEF Becomes, Reads
  <2> QED
    BY <1>1, <2>1, OthersRead DEF IInv, Becomes
<1>4. SameName /\ LinksShrink /\ PasskeysShrink /\ TokensShrink /\ ChallengesStay
  BY LeftAlone DEF RecordFailure
<1>5. /\ DeletionsStay /\ InsertionsStay /\ HoldersStay /\ GrantsStay /\ RolesStay
      /\ NoneReturns
  BY <1>1, Moved
<1>6. FailuresBounded'
  <2>1. Attempting = Attempting' \cup {r} /\ r \notin Attempting'
        /\ Attempting' \in SUBSET Attempting
    BY <1>1 DEF Attempting, Becomes
  <2>2. /\ IsFiniteSet(Attempting') /\ Cardinality(Attempting') \in Nat
        /\ Cardinality(Attempting) \in Nat
    BY <2>1, AttemptingType DEF IInv
  <2>3. Cardinality(Attempting) = Cardinality(Attempting') + 1
    BY <2>1, <2>2, FS_AddElement
  <2>4. login_attempts \in Nat /\ login_attempts' = login_attempts + 1 /\ widest' = widest
        /\ widest \in Int
    BY DEF RecordFailure, IInv, TypeOK
  <2> QED
    BY <2>2, <2>3, <2>4, BoundsAssumption DEF IInv, FailuresBounded
<1> QED
  BY <1>2, <1>3, <1>4, <1>5, <1>6, NameKept, EmptiedKept, OnlyLinkKept, TakenKept, EntitledKept,
     ScopesKept, MintedKept DEF RecordFailure, IInv

LEMMA SignInInv == ASSUME IInv, NEW r \in Requests, SignIn(r) PROVE IInv'
<1> DEFINE new == [id |-> request[r].user, role |-> request[r].role]
<1>1. Becomes(r, "done", Null, Null, Null) /\ request[r].pc = "signed_in"
  BY FinishBecomes DEF SignIn, IInv
<1>2. request[r].user \in Ids /\ request[r].role \in Roles /\ request[r].role # Null
  BY <1>1, NullAssumption DEF IInv, Reads
<1>3. new \in Session /\ new.role = request[r].role /\ sessions' = sessions \cup {new}
  BY <1>2 DEF Session, SignIn
<1> HIDE DEF new
<1>4. TypeOK' /\ login_attempts' <= login_attempts
  BY <1>1, <1>3 DEF SignIn, IInv, TypeOK, Becomes
<1>5. \A p \in Requests : Reads(p)'
  <2>1. Reads(r)'
    BY <1>1 DEF Becomes, Reads
  <2> QED
    BY <1>1, <2>1, OthersRead DEF IInv, Becomes
<1>6. SameName /\ LinksShrink /\ PasskeysShrink /\ TokensShrink /\ ChallengesStay
  BY LeftAlone DEF SignIn
<1>7. /\ DeletionsStay /\ InsertionsStay /\ HoldersStay /\ GrantsStay /\ RolesStay
      /\ AttemptsStay /\ NoneReturns
  BY <1>1, Moved DEF AtAttempt
<1>8. Entitled'
  <2>1. users # Null /\ users.id \notin succeeded =>
          /\ \A s \in sessions' : s.role \in roles[users.id]
          /\ \A p \in Requests : request'[p].role # Null => request'[p].role \in roles[users.id]
    BY <1>2, <1>3, <1>7 DEF IInv, Entitled, RolesStay
  <2>2. \A p \in Requests :
          request'[p].pc = "insert_token" /\ request'[p].user \notin succeeded =>
            \E role \in roles[request'[p].user] : request'[p].of \in Grantable[role]
    BY <1>7 DEF GrantsStay, Stays, IInv, Entitled
  <2> QED
    BY <2>1, <2>2 DEF SignIn, IInv, Entitled
<1> QED
  BY <1>4, <1>5, <1>6, <1>7, <1>8, NameKept, EmptiedKept, OnlyLinkKept, TakenKept, ScopesKept,
     FailuresKept, MintedKept DEF SignIn, IInv

LEMMA StepInv == ASSUME IInv, NEW r \in Requests, Step(r) PROVE IInv'
<1>1. CASE DeletePasskeys(r) \/ DeleteLinks(r) \/ DeleteRow(r)
  BY <1>1, DeletePasskeysInv, DeleteLinksInv, DeleteRowInv
<1>2. CASE Withdraw(r) \/ InsertLink(r)
  BY <1>2, WithdrawInv, InsertLinkInv
<1>3. CASE Burn(r) \/ ConfirmUser(r) \/ WithdrawOthers(r) \/ Forget(r)
  BY <1>3, BurnInv, ConfirmUserInv, WithdrawOthersInv, ForgetInv
<1>4. CASE \/ Select(r, "take_register", "register", "drop_register")
           \/ Select(r, "take_login", "authenticate", "drop_login")
  BY <1>4, SelectInv
<1>5. CASE \/ Drop(r, "drop_register", "insert_passkey") \/ Drop(r, "drop_login", "verify")
           \/ DropUnread(r)
  BY <1>5, DropInv, DropUnreadInv
<1>6. CASE InsertPasskey(r) \/ InsertToken(r)
  BY <1>6, InsertPasskeyInv, InsertTokenInv
<1>7. CASE LoadUser(r) \/ Verify(r) \/ RecordFailure(r) \/ SignIn(r)
  BY <1>7, LoadUserInv, VerifyInv, RecordFailureInv, SignInInv
<1> QED
  BY <1>1, <1>2, <1>3, <1>4, <1>5, <1>6, <1>7 DEF Step

LEMMA StartInv == ASSUME IInv, NEW r \in Requests, Start(r) PROVE IInv'
BY LookUpsInv, RegisterFinishInv, AttemptInv, CreateApiTokenInv DEF Start

LEMMA NextInv == ASSUME IInv, Next PROVE IInv'
<1>1. CASE \E r \in Requests : Start(r) \/ Step(r) \/ Cut(r)
  BY <1>1, StartInv, StepInv, CutInv
<1>2. CASE \E u \in Ids, role \in Roles : CreateUser(u, role)
  BY <1>2, CreateUserInv
<1>3. CASE \E role \in Roles : UpdateUserRole(role)
  BY <1>3, UpdateUserRoleInv
<1>4. CASE \E ch \in Challenges : RegisterStart(ch) \/ LoginStart(ch) \/ ExpireChallenge(ch)
  BY <1>4, ChallengesInv
<1>5. CASE \E c \in Passkeys : DeletePasskey(c)
  BY <1>5, DeletePasskeyInv
<1>6. CASE \E r \in Requests : ExpireLink(r) \/ RevokeApiToken(r) \/ DeleteApiToken(r)
  BY <1>6, ExpireLinkInv, TokensInv
<1>7. CASE \E s \in sessions : SessionExpires(s)
  BY <1>7, SessionExpiresInv
<1>8. CASE FailuresAge
  BY <1>8, FailuresAgeInv
<1> QED
  BY <1>1, <1>2, <1>3, <1>4, <1>5, <1>6, <1>7, <1>8 DEF Next

----------------------------------------------------------------------------
(* The theorems *)

\* What the properties below rest on, in every state of every behaviour.
THEOREM Invariant == Spec => []IInv
<1>1. IInv /\ [Next]_vars => IInv'
  BY NextInv, StutterInv
<1> QED
  BY InitInv, <1>1, PTL DEF Spec

\* The tables and the requests keep their types; no more attempts are let pass beside each
\* other than there are requests (enforce_login_rate_limit).
THEOREM TypeCorrect == Spec => []TypeOK
<1>1. IInv => TypeOK
  BY DEF IInv
<1> QED
  BY Invariant, <1>1, PTL

\* mint_reset_token leaves one open link only, unless another minting crossed it.
THEOREM LinksAreFew == Spec => []OneOpenLink
<1>1. ASSUME IInv, NEW u \in Ids \ crossed PROVE Cardinality(Unused(u)) <= 1
  <2>1. \A l, m \in Unused(u) : l = m
    BY <1>1 DEF IInv, OnlyLink
  <2>2. CASE Unused(u) = {}
    BY <2>2, FS_EmptySet
  <2>3. ASSUME NEW l \in Unused(u) PROVE Cardinality(Unused(u)) <= 1
    <3>1. Unused(u) = {l}
      BY <2>1, <2>3
    <3> QED
      BY <3>1, FS_Singleton
  <2> QED
    BY <2>2, <2>3
<1>2. IInv => OneOpenLink
  BY <1>1 DEF OneOpenLink
<1> QED
  BY Invariant, <1>2, PTL

\* delete_user leaves no passkey and no link that was there before it, whoever stops where.
THEOREM DeletionIsComplete == Spec => []NothingLeft
<1>1. IInv => NothingLeft
  BY DEF IInv
<1> QED
  BY Invariant, <1>1, PTL

\* take_webauthn_challenge lets one ceremony use a challenge, unless two had read it.
THEOREM ChallengesAreSingleUse == Spec => []ChallengeOnce
<1>1. IInv => ChallengeOnce
  BY DEF IInv, Taken, ChallengeOnce
<1> QED
  BY Invariant, <1>1, PTL

\* create_api_token grants nothing that no role of the owner, present or past, could grant,
\* unless the owner took over the name from a session still in use.
THEOREM TokensStayWithinRoles == Spec => []ScopesWithinRoles
<1>1. IInv => ScopesWithinRoles
  BY DEF IInv
<1> QED
  BY Invariant, <1>1, PTL

\* enforce_login_rate_limit is exceeded by the attempts that passed it together, no more.
THEOREM GuessesAreBounded == Spec => []FailuresBounded
<1>1. IInv => FailuresBounded
  BY DEF IInv
<1> QED
  BY Invariant, <1>1, PTL

----------------------------------------------------------------------------
(* Reset links implement OneTime *)

LEMMA PhaseOf ==
  ASSUME NEW l \in Requests
  PROVE  Phase[l] = IF minted[l] # AnId THEN "unminted"
                    ELSE IF IsOpen(l) THEN "open"
                    ELSE IF redeemed[l] = 0 THEN "withdrawn"
                    ELSE "spent"
BY DEF Phase

LEMMA InitRefines == Init => Links!Init
<1> SUFFICES ASSUME Init PROVE Links!Init
  OBVIOUS
<1>1. AnId # Null
  BY InitInv, NullAssumption DEF IInv
<1>2. \A l \in Requests : minted[l] = Null /\ redeemed[l] = 0
  BY DEF Init
<1>3. Phase = [l \in Requests |-> "unminted"]
  BY <1>1, <1>2 DEF Phase
<1> QED
  BY <1>2, <1>3 DEF Links!Init

\* Nothing happens to the links of this account.
LEMMA StutterRefines ==
  ASSUME \A l \in Requests :
           /\ minted'[l] = minted[l] /\ (minted[l] = AnId => redeemed'[l] = redeemed[l])
           /\ minted[l] = AnId => (IsOpen(l)' <=> IsOpen(l))
  PROVE  UNCHANGED Links!vars
<1>1. \A l \in Requests : Phase'[l] = Phase[l]
  BY DEF Phase
<1>2. Phase' = Phase
  BY <1>1 DEF Phase
<1>3. [l \in Requests |-> IF minted'[l] = AnId THEN redeemed'[l] ELSE 0] =
        [l \in Requests |-> IF minted[l] = AnId THEN redeemed[l] ELSE 0]
  OBVIOUS
<1> QED
  BY <1>2, <1>3 DEF Links!vars

\* Those that are open are deleted.
LEMMA DeletionRefines ==
  ASSUME IInv, UNCHANGED <<minted, redeemed>>,
         \A l \in Requests : minted[l] = AnId => ~ IsOpen(l)'
  PROVE  Links!WithdrawAll
<1>1. \A l \in Requests : Phase'[l] = IF Phase[l] = "open" THEN "withdrawn" ELSE Phase[l]
  BY DEF Phase, IInv, Minted
<1>2. Phase' = [l \in Requests |-> IF Phase[l] = "open" THEN "withdrawn" ELSE Phase[l]]
  BY <1>1 DEF Phase
<1> QED
  BY <1>2 DEF Links!WithdrawAll

LEMMA WithdrawLinksRefines ==
  ASSUME IInv, NEW u \in Ids, WithdrawLinks(u), UNCHANGED <<minted, redeemed>>
  PROVE  Links!WithdrawAll \/ UNCHANGED Links!vars
<1>1. CASE u = AnId
  <2>1. \A l \in Requests : minted[l] = AnId => ~ IsOpen(l)'
    BY <1>1 DEF WithdrawLinks, Unused, IsOpen, IInv, Minted
  <2> QED
    BY <2>1, DeletionRefines
<1>2. CASE u # AnId
  <2>1. \A l \in Requests : minted[l] = AnId => (IsOpen(l)' <=> IsOpen(l))
    BY <1>2 DEF WithdrawLinks, Unused, IsOpen, IInv, Minted
  <2> QED
    BY <2>1, StutterRefines
<1> QED
  BY <1>1, <1>2

LEMMA DeleteLinksRefines ==
  ASSUME IInv, NEW r \in Requests, DeleteLinks(r)
  PROVE  Links!WithdrawAll \/ UNCHANGED Links!vars
<1>1. CASE request[r].user = AnId
  <2>1. \A l \in Requests : minted[l] = AnId => ~ IsOpen(l)'
    BY <1>1 DEF DeleteLinks, IsOpen, IInv, Minted
  <2> QED
    BY <2>1, DeletionRefines DEF DeleteLinks
<1>2. CASE request[r].user # AnId
  <2>1. \A l \in Requests : minted[l] = AnId => (IsOpen(l)' <=> IsOpen(l))
    BY <1>2 DEF DeleteLinks, IsOpen, IInv, Minted
  <2> QED
    BY <2>1, StutterRefines DEF DeleteLinks
<1> QED
  BY <1>1, <1>2

LEMMA InsertLinkRefines ==
  ASSUME IInv, NEW r \in Requests, InsertLink(r)
  PROVE  Links!Mint(r) \/ UNCHANGED Links!vars
<1> DEFINE u == request[r].user
           link == [user_id |-> u, used |-> FALSE, expired |-> FALSE]
<1>1. request[r].pc = "insert_link" /\ u \in Ids
  BY DEF InsertLink, IInv, Reads
<1>2. minted[r] = Null /\ redeemed[r] = 0 /\ AnId # Null
  BY <1>1, NullAssumption DEF IInv, Minted
<1>3. /\ link \in Link /\ ~ link.used
      /\ password_reset_tokens' = [password_reset_tokens EXCEPT ![r] = link]
      /\ minted' = [minted EXCEPT ![r] = u] /\ redeemed' = redeemed
  BY <1>1 DEF Link, InsertLink
<1>4. link # Null
  BY <1>3, NullAssumption
<1> HIDE DEF link, u
<1>5. IsOpen(r)'
  BY <1>3, <1>4 DEF IsOpen, IInv, TypeOK
<1>6. \A l \in Requests : l # r => minted'[l] = minted[l] /\ (IsOpen(l)' <=> IsOpen(l))
  BY <1>3 DEF IsOpen, IInv, TypeOK
<1>7. minted'[r] = u
  BY <1>3 DEF IInv, TypeOK
<1>8. CASE u = AnId
  <2>1. \A l \in Requests : Phase'[l] = IF l = r THEN "open" ELSE Phase[l]
    BY <1>3, <1>5, <1>6, <1>7, <1>8 DEF Phase
  <2>2. Phase' = [Phase EXCEPT ![r] = "open"]
    BY <2>1 DEF Phase
  <2>3. Phase[r] = "unminted"
    BY <1>2 DEF Phase
  <2>4. \A l \in Requests : (IF minted'[l] = AnId THEN redeemed'[l] ELSE 0) =
                              IF minted[l] = AnId THEN redeemed[l] ELSE 0
    BY <1>2, <1>3, <1>6
  <2>5. [l \in Requests |-> IF minted'[l] = AnId THEN redeemed'[l] ELSE 0] =
          [l \in Requests |-> IF minted[l] = AnId THEN redeemed[l] ELSE 0]
    BY <2>4
  <2> QED
    BY <2>2, <2>3, <2>5 DEF Links!Mint
<1>9. CASE u # AnId
  <2>1. \A l \in Requests : Phase'[l] = Phase[l]
    BY <1>2, <1>3, <1>6, <1>7, <1>9 DEF Phase
  <2>2. Phase' = Phase
    BY <2>1 DEF Phase
  <2>3. \A l \in Requests : (IF minted'[l] = AnId THEN redeemed'[l] ELSE 0) =
                              IF minted[l] = AnId THEN redeemed[l] ELSE 0
    BY <1>2, <1>3, <1>6, <1>7, <1>9
  <2>4. [l \in Requests |-> IF minted'[l] = AnId THEN redeemed'[l] ELSE 0] =
          [l \in Requests |-> IF minted[l] = AnId THEN redeemed[l] ELSE 0]
    BY <2>3
  <2> QED
    BY <2>2, <2>4 DEF Links!vars
<1> QED
  BY <1>8, <1>9

LEMMA BurnRefines ==
  ASSUME IInv, NEW r \in Requests, Burn(r)
  PROVE  (\E l \in Requests : Links!Redeem(l)) \/ UNCHANGED Links!vars
<1>1. PICK l \in Requests : l = request[r].of
  BY DEF Burn, IInv, Reads
<1> DEFINE new == [password_reset_tokens[l] EXCEPT !.used = TRUE]
<1>2. minted' = minted
  BY DEF Burn
<1>3. CASE UNCHANGED <<password_reset_tokens, redeemed>>
  BY <1>2, <1>3, StutterRefines DEF IsOpen
<1>4. ASSUME IsOpen(l),
             password_reset_tokens' = [password_reset_tokens EXCEPT ![l].used = TRUE],
             redeemed' = [redeemed EXCEPT ![l] = @ + 1]
      PROVE  Links!Redeem(l) \/ UNCHANGED Links!vars
  <2>1. password_reset_tokens[l] \in Link
    BY <1>4 DEF IsOpen, IInv, TypeOK
  <2>2. new.used
    BY <2>1 DEF Link
  <2>3. password_reset_tokens' = [password_reset_tokens EXCEPT ![l] = new]
    BY <1>4
  <2> HIDE DEF new
  <2>4. ~ IsOpen(l)' /\ \A m \in Requests : m # l => (IsOpen(m)' <=> IsOpen(m))
    BY <2>2, <2>3 DEF IsOpen, IInv, TypeOK
  <2>5. redeemed[l] = 0 /\ redeemed'[l] = 1
        /\ \A m \in Requests : m # l => redeemed'[m] = redeemed[m]
    BY <1>4 DEF IInv, Minted, TypeOK
  <2>6. CASE minted[l] = AnId
    <3>1. \A m \in Requests : Phase'[m] = IF m = l THEN "spent" ELSE Phase[m]
      BY <1>2, <2>4, <2>5, <2>6 DEF Phase
    <3>2. Phase' = [Phase EXCEPT ![l] = "spent"]
      BY <3>1 DEF Phase
    <3>3. Phase[l] = "open"
      BY <1>4, <2>6 DEF Phase
    <3> DEFINE count == [m \in Requests |-> IF minted[m] = AnId THEN redeemed[m] ELSE 0]
    <3>4. \A m \in Requests : count'[m] = IF m = l THEN count[l] + 1 ELSE count[m]
      BY <1>2, <2>5, <2>6
    <3>5. count' = [count EXCEPT ![l] = @ + 1]
      BY <3>4
    <3> QED
      BY <3>2, <3>3, <3>5 DEF Links!Redeem
  <2>7. CASE minted[l] # AnId
    BY <1>2, <2>4, <2>5, <2>7, StutterRefines
  <2> QED
    BY <2>6, <2>7
<1> QED
  BY <1>1, <1>3, <1>4 DEF Burn

LEMMA NextRefines ==
  ASSUME IInv, [Next]_vars
  PROVE  [Links!Next]_(Links!vars)
<1>1. ASSUME NEW r \in Requests, Withdraw(r) \/ WithdrawOthers(r)
      PROVE  Links!Next \/ UNCHANGED Links!vars
  <2>1. PICK u \in Ids : u = request[r].user
    BY <1>1 DEF Withdraw, WithdrawOthers, IInv, Reads
  <2> QED
    BY <1>1, <2>1, WithdrawLinksRefines DEF Withdraw, WithdrawOthers, Links!Next
<1>2. ASSUME NEW r \in Requests, DeleteLinks(r) PROVE Links!Next \/ UNCHANGED Links!vars
  BY <1>2, DeleteLinksRefines DEF Links!Next
<1>3. ASSUME NEW r \in Requests, InsertLink(r) PROVE Links!Next \/ UNCHANGED Links!vars
  BY <1>3, InsertLinkRefines DEF Links!Next
<1>4. ASSUME NEW r \in Requests, Burn(r) PROVE Links!Next \/ UNCHANGED Links!vars
  BY <1>4, BurnRefines DEF Links!Next
<1>5. ASSUME NEW l \in Requests, ExpireLink(l) PROVE UNCHANGED Links!vars
  <2>1. password_reset_tokens[l] \in Link
    BY <1>5 DEF ExpireLink, IInv, TypeOK
  <2> DEFINE new == [password_reset_tokens[l] EXCEPT !.expired = TRUE]
  <2>2. new.used = password_reset_tokens[l].used /\ new \in Link
    BY <2>1 DEF Link
  <2>3. new # Null /\ password_reset_tokens' = [password_reset_tokens EXCEPT ![l] = new]
    BY <1>5, <2>2, NullAssumption DEF ExpireLink
  <2> HIDE DEF new
  <2>4. \A m \in Requests : IsOpen(m)' <=> IsOpen(m)
    BY <1>5, <2>2, <2>3 DEF ExpireLink, IsOpen, IInv, TypeOK
  <2> QED
    BY <1>5, <2>4, StutterRefines DEF ExpireLink
<1>6. ASSUME UNCHANGED <<password_reset_tokens, minted, redeemed>>
      PROVE  UNCHANGED Links!vars
  BY <1>6, StutterRefines DEF IsOpen
<1>7. \/ \E r \in Requests : \/ Withdraw(r) \/ WithdrawOthers(r) \/ DeleteLinks(r) \/ InsertLink(r)
                             \/ Burn(r) \/ ExpireLink(r)
      \/ UNCHANGED <<password_reset_tokens, minted, redeemed>>
  <2>1. ASSUME NEW r \in Requests, Start(r) \/ Cut(r)
        PROVE  UNCHANGED <<password_reset_tokens, minted, redeemed>>
    BY <2>1 DEF Start, Cut, Fail, DeleteUser, RequestLink, ConfirmSelect, RegisterFinish,
       Attempt, CreateApiToken
  <2>2. ASSUME NEW r \in Requests, Step(r)
        PROVE  \/ Withdraw(r) \/ WithdrawOthers(r) \/ DeleteLinks(r) \/ InsertLink(r) \/ Burn(r)
               \/ UNCHANGED <<password_reset_tokens, minted, redeemed>>
    BY <2>2 DEF Step, DeletePasskeys, DeleteRow, ConfirmUser, Forget, Select, Drop, DropUnread,
       InsertPasskey, LoadUser, Verify, RecordFailure, SignIn, InsertToken
  <2>3. ASSUME Next, ~ \E r \in Requests : Start(r) \/ Step(r) \/ Cut(r)
        PROVE  \/ \E r \in Requests : ExpireLink(r)
               \/ UNCHANGED <<password_reset_tokens, minted, redeemed>>
    BY <2>3 DEF Next, CreateUser, UpdateUserRole, RegisterStart, LoginStart, NewChallenge,
       ExpireChallenge, DeletePasskey, RevokeApiToken, DeleteApiToken, SessionExpires,
       FailuresAge
  <2>4. CASE UNCHANGED vars
    BY <2>4 DEF vars
  <2> QED
    BY <2>1, <2>2, <2>3, <2>4
<1> QED
  BY <1>1, <1>2, <1>3, <1>4, <1>5, <1>6, <1>7

\* password_reset_confirm burns a link "so two concurrent submissions can't both go through":
\* however requests, deletions and failures interleave, links behave as OneTime promises.
THEOREM ResetLinksAreOneTime == Spec => LinksAreOneTime
<1>1. IInv /\ [Next]_vars => [Links!Next]_(Links!vars)
  BY NextRefines
<1> QED
  BY InitRefines, Invariant, <1>1, PTL DEF Spec, LinksAreOneTime, Links!Spec

\* What behaves as OneTime promises is accepted at most once.
LEMMA RedeemedOnce ==
  ASSUME Links!Inv, [Links!Next]_(Links!vars)
  PROVE  Links!Inv'
<1> USE DEF Links!Inv, Links!Phases
<1>1. ASSUME NEW c \in Requests, Links!Mint(c)
      PROVE  Links!Inv'
  BY <1>1 DEF Links!Mint
<1>2. ASSUME NEW c \in Requests, Links!Redeem(c)
      PROVE  Links!Inv'
  <2> DEFINE times == [r \in Requests |-> IF minted[r] = AnId THEN redeemed[r] ELSE 0]
  <2>1. /\ Phase[c] = "open" /\ Phase' = [Phase EXCEPT ![c] = "spent"]
        /\ times' = [times EXCEPT ![c] = times[c] + 1]
    BY <1>2 DEF Links!Redeem
  <2>2. /\ Phase \in [Requests -> Links!Phases] /\ times \in [Requests -> Nat]
        /\ \A r \in Requests : times[r] = IF Phase[r] = "spent" THEN 1 ELSE 0
    OBVIOUS
  <2> HIDE DEF times
  <2>3. Phase' \in [Requests -> Links!Phases] /\ times' \in [Requests -> Nat]
    BY <2>1, <2>2
  <2>4. \A r \in Requests : times'[r] = IF Phase'[r] = "spent" THEN 1 ELSE 0
    BY <2>1, <2>2
  <2> QED
    BY <2>3, <2>4 DEF times
<1>3. CASE Links!WithdrawAll
  BY <1>3 DEF Links!WithdrawAll
<1>4. CASE UNCHANGED Links!vars
  BY <1>4 DEF Links!vars
<1> QED
  BY <1>1, <1>2, <1>3, <1>4 DEF Links!Next

\* No reset link sets two passwords.
COROLLARY LinksSetOnePassword == Spec => []Links!AtMostOnce
<1>1. Links!Init => Links!Inv
  BY DEF Links!Init, Links!Inv, Links!Phases
<1>2. Links!Inv => Links!AtMostOnce
  BY DEF Links!Inv, Links!AtMostOnce
<1> QED
  BY ResetLinksAreOneTime, <1>1, <1>2, RedeemedOnce, PTL DEF LinksAreOneTime, Links!Spec

=============================================================================
