------------------------------ MODULE Accounts ------------------------------
(***************************************************************************)
(* One account name and what hangs on it: its row in users, deleted and    *)
(* created again under another id, the sessions opened for it, its reset   *)
(* links, passkeys and API tokens, and the failures that lock it.          *)
(*                                                                         *)
(* Every statement commits by itself.  A request reads in one and writes   *)
(* in a later one, beside the requests of others, and may stop between any *)
(* two: its client leaves, a statement fails, or the process does, which   *)
(* ends all requests one after the other with nothing in between.          *)
(* The administrators who create, delete and re-role are other accounts.   *)
(***************************************************************************)
EXTENDS Naturals, FiniteSets, TLC

CONSTANTS
  Ids,          \* identifiers of users rows, one for each time the name is created
  Roles,        \* the roles it is given
  Scopes,       \* the scopes that tokens are asked for
  Requests,     \* requests of several statements, each with the row it may insert
  Challenges,   \* webauthn_challenges rows
  First,        \* the passkey that the account begins with
  MaxFailures,  \* LOGIN_MAX_FAILURES
  MaxEdits,     \* bound: creations and changes of role
  Null

VARIABLES
  users,                  \* the row of the name
  sessions,               \* the sessions in use: who they were opened for, as what
  password_reset_tokens,  \* the links
  webauthn_challenges,    \* the ceremonies under way
  webauthn_credentials,   \* the owner of each passkey
  api_tokens,             \* the tokens
  login_attempts,         \* the failures that count
  request,                \* the requests: where they are and what they have read
  edits,                  \* edits so far
  roles,                  \* history: the roles each id has had
  minted,                 \* history: whom each link was for
  redeemed,               \* history: how often each link was accepted
  accepted,               \* history: how often each challenge was accepted
  crossed,                \* history: ids with a link minted amid another
  late,                   \* history: ids given a row while or after they were deleted
  succeeded,              \* history: ids created while a session of an earlier one was in use
  raced,                  \* history: challenges deleted while another request held them
  widest                  \* history: the most attempts past the limit at a time

tables == <<users, password_reset_tokens, webauthn_challenges, webauthn_credentials, api_tokens,
            login_attempts>>
history == <<roles, minted, redeemed, accepted, crossed, late, succeeded, raced, widest>>
vars == <<tables, sessions, request, edits, history>>

----------------------------------------------------------------------------
(* Rows and records *)

Grantable == [full_admin |-> {"tls:issue", "tls:read", "ssh:issue", "ssh:sign", "ssh:read",
                              "ca:read"},
              tls_admin  |-> {"tls:issue", "tls:read", "ca:read"},
              ssh_admin  |-> {"ssh:issue", "ssh:sign", "ssh:read", "ca:read"},
              auditor    |-> {"tls:read", "ssh:read", "ca:read"}]

ASSUME RolesAssumption == Roles \subseteq DOMAIN Grantable

ASSUME BoundsAssumption == MaxFailures \in Nat \ {0} /\ MaxEdits \in Nat

ASSUME RequestsAssumption == IsFiniteSet(Requests)

Session == [id: Ids, role: Roles]

Link == [user_id: Ids, used: BOOLEAN, expired: BOOLEAN]

\* The purpose is "none" before there is a row, which is Null when it is deleted.
Challenge == [purpose: {"none", "register", "authenticate"}, expired: BOOLEAN]

NoChallenge == [purpose |-> "none", expired |-> FALSE]

\* Of the scopes of a token each is judged by itself: a token of several is like several.
ApiToken == [owner_user_id: Ids, scope: Scopes, is_revoked: BOOLEAN]

Passkeys == Requests \cup {First}

ASSUME NullAssumption ==
  /\ Null \notin Session \cup Link \cup Challenge \cup ApiToken \cup Ids \cup Challenges
  /\ Null \notin Requests \cup Scopes \cup Roles
  /\ First \notin Requests

Stages == {"unused", "delete_passkeys", "delete_links", "delete_user", "withdraw", "insert_link",
           "burn", "name", "withdraw_others", "forget", "insert_token", "take_register",
           "drop_register", "drop_unread", "insert_passkey", "user", "take_login", "drop_login",
           "verify", "fail", "signed_in", "done"}

Request == [pc: Stages,
            user: Ids \cup {Null},                          \* the id that it works on
            role: Roles \cup {Null},                        \* the role that was read with it
            of: Requests \cup Challenges \cup Scopes \cup {Null}]  \* link, challenge or scope

NoRequest(pc) == [pc |-> pc, user |-> Null, role |-> Null, of |-> Null]

Active(r) == request[r].pc \notin {"unused", "done"}

Goto(r, pc) == request' = [request EXCEPT ![r].pc = pc]

Finish(r) == request' = [request EXCEPT ![r] = NoRequest("done")]

Begin(r, pc, user, role, of) ==
  /\ request[r].pc = "unused"
  /\ request' = [request EXCEPT ![r] = [pc |-> pc, user |-> user, role |-> role, of |-> of]]

\* The account is gone, or being deleted: rows for it may come too late to be deleted with it.
Leaving(u) ==
  \/ users = Null \/ users.id # u
  \/ \E r \in Requests : request[r].pc \in {"delete_links", "delete_user"} /\ request[r].user = u

Arrives(u) == late' = IF Leaving(u) THEN late \cup {u} ELSE late

IsOpen(l) == password_reset_tokens[l] # Null /\ ~ password_reset_tokens[l].used

Unused(u) == {l \in Requests : IsOpen(l) /\ password_reset_tokens[l].user_id = u}

\* DELETE FROM password_reset_tokens WHERE user_id = ? AND used_at IS NULL.
WithdrawLinks(u) ==
  password_reset_tokens' = [r \in Requests |->
    IF r \in Unused(u) THEN Null ELSE password_reset_tokens[r]]

Fail(r) == Finish(r) /\ UNCHANGED <<tables, sessions, edits, history>>

----------------------------------------------------------------------------
(* Accounts *)

Edit == edits < MaxEdits /\ edits' = edits + 1

\* Some request or session still speaks for the name as it was.
InUse == sessions # {} \/ \E r \in Requests : request[r].role # Null

CreateUser(u, role) ==
  /\ Edit
  /\ users = Null /\ roles[u] = {}
  /\ users' = [id |-> u, role |-> role]
  /\ roles' = [roles EXCEPT ![u] = {role}]
  /\ succeeded' = IF InUse THEN succeeded \cup {u} ELSE succeeded
  /\ UNCHANGED <<password_reset_tokens, webauthn_challenges, webauthn_credentials, api_tokens,
                 login_attempts, sessions, request, minted, redeemed, accepted, crossed, late,
                 raced, widest>>

UpdateUserRole(role) ==
  /\ Edit
  /\ users # Null /\ role # users.role
  /\ users' = [users EXCEPT !.role = role]
  /\ roles' = [roles EXCEPT ![users.id] = @ \cup {role}]
  /\ UNCHANGED <<password_reset_tokens, webauthn_challenges, webauthn_credentials, api_tokens,
                 login_attempts, sessions, request, minted, redeemed, accepted, crossed, late,
                 succeeded, raced, widest>>

\* delete_user: the tables that refer to the id are emptied one by one; profiles and recovery
\* codes, which go first, are left out here ...
DeleteUser(r) ==
  /\ users # Null
  /\ Begin(r, "delete_passkeys", users.id, Null, Null)
  /\ UNCHANGED <<tables, sessions, edits, history>>

\* Mutant of DeletePasskeys: the passkeys are left behind.
DeleteNoPasskeys(r) ==
  /\ request[r].pc = "delete_passkeys"
  /\ Goto(r, "delete_links")
  /\ UNCHANGED <<tables, sessions, edits, history>>

DeletePasskeys(r) ==
  /\ request[r].pc = "delete_passkeys"
  /\ webauthn_credentials' = [c \in Passkeys |->
       IF webauthn_credentials[c] = request[r].user THEN Null ELSE webauthn_credentials[c]]
  /\ Goto(r, "delete_links")
  /\ UNCHANGED <<users, password_reset_tokens, webauthn_challenges, api_tokens, login_attempts,
                 sessions, edits, history>>

DeleteLinks(r) ==
  /\ request[r].pc = "delete_links"
  /\ password_reset_tokens' = [l \in Requests |->
       IF password_reset_tokens[l] # Null /\ password_reset_tokens[l].user_id = request[r].user
         THEN Null ELSE password_reset_tokens[l]]
  /\ Goto(r, "delete_user")
  /\ UNCHANGED <<users, webauthn_challenges, webauthn_credentials, api_tokens, login_attempts,
                 sessions, edits, history>>

\* ... and the account goes last.  Its tokens, challenges and failures stay.
DeleteRow(r) ==
  /\ request[r].pc = "delete_user"
  /\ users' = IF users # Null /\ users.id = request[r].user THEN Null ELSE users
  /\ Finish(r)
  /\ UNCHANGED <<password_reset_tokens, webauthn_challenges, webauthn_credentials, api_tokens,
                 login_attempts, sessions, edits, history>>

----------------------------------------------------------------------------
(* Reset links *)

\* password_reset_request and create_user_reset_link look the account up ...
RequestLink(r) ==
  /\ users # Null
  /\ Begin(r, "withdraw", users.id, Null, Null)
  /\ UNCHANGED <<tables, sessions, edits, history>>

\* Mutant of Withdraw: the links that are open are left.
WithdrawNothing(r) ==
  /\ request[r].pc = "withdraw"
  /\ crossed' = crossed \ {request[r].user}
  /\ Goto(r, "insert_link")
  /\ UNCHANGED <<tables, sessions, edits, roles, minted, redeemed, accepted, late, succeeded,
                 raced, widest>>

\* ... mint_reset_token deletes its open links ...
Withdraw(r) ==
  /\ request[r].pc = "withdraw"
  /\ WithdrawLinks(request[r].user)
  /\ crossed' = crossed \ {request[r].user}
  /\ Goto(r, "insert_link")
  /\ UNCHANGED <<users, webauthn_challenges, webauthn_credentials, api_tokens, login_attempts,
                 sessions, edits, roles, minted, redeemed, accepted, late, succeeded, raced,
                 widest>>

\* ... and inserts the new one.
InsertLink(r) ==
  LET u == request[r].user
      others == {s \in Requests \ {r} : request[s].pc = "insert_link" /\ request[s].user = u}
  IN /\ request[r].pc = "insert_link"
     /\ password_reset_tokens' = [password_reset_tokens EXCEPT ![r] =
          [user_id |-> u, used |-> FALSE, expired |-> FALSE]]
     /\ minted' = [minted EXCEPT ![r] = u]
     /\ crossed' = IF others = {} THEN crossed ELSE crossed \cup {u}
     /\ Arrives(u)
     /\ Finish(r)
     /\ UNCHANGED <<users, webauthn_challenges, webauthn_credentials, api_tokens, login_attempts,
                    sessions, edits, roles, redeemed, accepted, succeeded, raced, widest>>

ExpireLink(l) ==
  /\ password_reset_tokens[l] # Null /\ ~ password_reset_tokens[l].expired
  /\ password_reset_tokens' = [password_reset_tokens EXCEPT ![l].expired = TRUE]
  /\ UNCHANGED <<users, webauthn_challenges, webauthn_credentials, api_tokens, login_attempts,
                 sessions, request, edits, history>>

\* password_reset_confirm: the link is there, unused and in time ...
ConfirmSelect(r, l) ==
  /\ IsOpen(l) /\ ~ password_reset_tokens[l].expired
  /\ Begin(r, "burn", password_reset_tokens[l].user_id, Null, l)
  /\ UNCHANGED <<tables, sessions, edits, history>>

\* Mutant of Burn: the number of rows that were burned is not looked at.
BurnUnchecked(r) ==
  LET l == request[r].of
  IN /\ request[r].pc = "burn"
     /\ password_reset_tokens' = [password_reset_tokens EXCEPT ![l] =
          IF @ = Null THEN Null ELSE [@ EXCEPT !.used = TRUE]]
     /\ redeemed' = [redeemed EXCEPT ![l] = @ + 1]
     /\ Goto(r, "name")
     /\ UNCHANGED <<users, webauthn_challenges, webauthn_credentials, api_tokens, login_attempts,
                    sessions, edits, roles, minted, accepted, crossed, late, succeeded, raced,
                    widest>>

\* ... it is burned, by one request only ...
Burn(r) ==
  LET l == request[r].of
  IN /\ request[r].pc = "burn"
     /\ \/ /\ IsOpen(l)
           /\ password_reset_tokens' = [password_reset_tokens EXCEPT ![l].used = TRUE]
           /\ redeemed' = [redeemed EXCEPT ![l] = @ + 1]
           /\ Goto(r, "name")
        \/ ~ IsOpen(l) /\ Finish(r) /\ UNCHANGED <<password_reset_tokens, redeemed>>
     /\ UNCHANGED <<users, webauthn_challenges, webauthn_credentials, api_tokens, login_attempts,
                    sessions, edits, roles, minted, accepted, crossed, late, succeeded, raced,
                    widest>>

\* ... the account must still be there, the password is written ...
ConfirmUser(r) ==
  /\ request[r].pc = "name"
  /\ IF users # Null /\ users.id = request[r].user THEN Goto(r, "withdraw_others") ELSE Finish(r)
  /\ UNCHANGED <<tables, sessions, edits, history>>

\* ... its other links are deleted ...
WithdrawOthers(r) ==
  /\ request[r].pc = "withdraw_others"
  /\ WithdrawLinks(request[r].user)
  /\ Goto(r, "forget")
  /\ UNCHANGED <<users, webauthn_challenges, webauthn_credentials, api_tokens, login_attempts,
                 sessions, edits, history>>

\* ... and its failures are forgotten.
Forget(r) ==
  /\ request[r].pc = "forget"
  /\ login_attempts' = 0
  /\ Finish(r)
  /\ UNCHANGED <<users, password_reset_tokens, webauthn_challenges, webauthn_credentials,
                 api_tokens, sessions, edits, history>>

----------------------------------------------------------------------------
(* Passkeys *)

NewChallenge(ch, purpose) ==
  /\ webauthn_challenges[ch] = NoChallenge
  /\ webauthn_challenges' = [webauthn_challenges EXCEPT ![ch] =
       [purpose |-> purpose, expired |-> FALSE]]
  /\ UNCHANGED <<users, password_reset_tokens, webauthn_credentials, api_tokens, login_attempts,
                 sessions, request, edits, history>>

\* What passkey_register_start and passkey_login_start read they only check and pass on to the
\* client, and the row they insert is theirs: one step.
RegisterStart(ch) ==
  /\ sessions # {} /\ users # Null
  /\ NewChallenge(ch, "register")

LoginStart(ch) ==
  /\ users # Null
  /\ \E c \in Passkeys : webauthn_credentials[c] = users.id
  /\ NewChallenge(ch, "authenticate")

Open(ch, purpose) ==
  /\ webauthn_challenges[ch] # Null
  /\ webauthn_challenges[ch].purpose = purpose

Expired(ch) == webauthn_challenges[ch] # Null /\ webauthn_challenges[ch].expired

ExpireChallenge(ch) ==
  /\ webauthn_challenges[ch] \notin {Null, NoChallenge} /\ ~ webauthn_challenges[ch].expired
  /\ webauthn_challenges' = [webauthn_challenges EXCEPT ![ch].expired = TRUE]
  /\ UNCHANGED <<users, password_reset_tokens, webauthn_credentials, api_tokens, login_attempts,
                 sessions, request, edits, history>>

\* passkey_register_finish finds the account of its session, given the id of a challenge that
\* was handed out, for whatever purpose ...
RegisterFinish(r, s, ch) ==
  /\ users # Null
  /\ webauthn_challenges[ch] # NoChallenge
  /\ Begin(r, "take_register", users.id, s.role, ch)
  /\ UNCHANGED <<tables, sessions, edits, history>>

\* ... and takes the challenge, as passkey_login_finish does: a SELECT ...
Select(r, pc, purpose, next) ==
  /\ request[r].pc = pc
  /\ Goto(r, IF Open(request[r].of, purpose) THEN next ELSE "drop_unread")
  /\ UNCHANGED <<tables, sessions, edits, history>>

\* Mutant of Drop: the challenge is left for its time to pass.
DropNothing(r, pc, next) ==
  LET ch == request[r].of
  IN /\ request[r].pc = pc
     /\ \/ /\ ~ Expired(ch)
           /\ accepted' = [accepted EXCEPT ![ch] = @ + 1]
           /\ Goto(r, next)
        \/ Finish(r) /\ UNCHANGED accepted
     /\ UNCHANGED <<users, password_reset_tokens, webauthn_challenges, webauthn_credentials,
                    api_tokens, login_attempts, sessions, edits, roles, minted, redeemed,
                    crossed, late, succeeded, raced, widest>>

\* ... and a DELETE by the id alone, which comes although the SELECT found no row ...
DropUnread(r) ==
  /\ request[r].pc = "drop_unread"
  /\ webauthn_challenges' = [webauthn_challenges EXCEPT ![request[r].of] = Null]
  /\ Finish(r)
  /\ UNCHANGED <<users, password_reset_tokens, webauthn_credentials, api_tokens, login_attempts,
                 sessions, edits, history>>

\* ... and which does not say who was first.  What was read is then used unless its time is
\* over; the answer of the authenticator may be refused.
Drop(r, pc, next) ==
  LET ch == request[r].of
      holders == {s \in Requests \ {r} :
                    request[s].pc \in {"drop_register", "drop_login"} /\ request[s].of = ch}
  IN /\ request[r].pc = pc
     /\ webauthn_challenges' = [webauthn_challenges EXCEPT ![ch] = Null]
     /\ raced' = IF holders = {} THEN raced ELSE raced \cup {ch}
     /\ \/ /\ ~ Expired(ch)
           /\ accepted' = [accepted EXCEPT ![ch] = @ + 1]
           /\ Goto(r, next)
        \/ Finish(r) /\ UNCHANGED accepted
     /\ UNCHANGED <<users, password_reset_tokens, webauthn_credentials, api_tokens,
                    login_attempts, sessions, edits, roles, minted, redeemed, crossed, late,
                    succeeded, widest>>

InsertPasskey(r) ==
  /\ request[r].pc = "insert_passkey"
  /\ webauthn_credentials' = [webauthn_credentials EXCEPT ![r] = request[r].user]
  /\ Arrives(request[r].user)
  /\ Finish(r)
  /\ UNCHANGED <<users, password_reset_tokens, webauthn_challenges, api_tokens, login_attempts,
                 sessions, edits, roles, minted, redeemed, accepted, crossed, succeeded, raced,
                 widest>>

\* delete_passkey: by a session, of the account that the name has now.
DeletePasskey(c) ==
  /\ sessions # {} /\ users # Null
  /\ webauthn_credentials[c] = users.id
  /\ webauthn_credentials' = [webauthn_credentials EXCEPT ![c] = Null]
  /\ UNCHANGED <<users, password_reset_tokens, webauthn_challenges, api_tokens, login_attempts,
                 sessions, request, edits, history>>

----------------------------------------------------------------------------
(* Signing in *)

\* Between enforce_login_rate_limit and the record of the failure.
Attempting == {r \in Requests : request[r].pc \in
                 {"user", "take_login", "drop_login", "verify", "fail", "signed_in"}}

\* Mutant of WithinLimit: one failure more.
WithinLimitPlusOne == login_attempts <= MaxFailures

WithinLimit == login_attempts < MaxFailures

\* enforce_login_rate_limit lets the attempt pass: by password (of is Null) or by passkey.  The
\* failures of others from the same address, which may stop it too, are left out.
Attempt(r, ch) ==
  /\ WithinLimit
  /\ ch # Null => webauthn_challenges[ch] # NoChallenge
  /\ Begin(r, "user", Null, Null, ch)
  /\ widest' = IF Cardinality(Attempting) + 1 > widest THEN Cardinality(Attempting) + 1
               ELSE widest
  /\ UNCHANGED <<tables, sessions, edits, roles, minted, redeemed, accepted, crossed, late,
                 succeeded, raced>>

\* load_local_user; an unknown name counts as a wrong password, but not with a passkey.
LoadUser(r) ==
  /\ request[r].pc = "user"
  /\ \/ /\ users # Null
        /\ request' = [request EXCEPT ![r].user = users.id, ![r].role = users.role,
                         ![r].pc = IF request[r].of = Null THEN "verify" ELSE "take_login"]
     \/ /\ users = Null
        /\ IF request[r].of = Null THEN Goto(r, "fail") ELSE Finish(r)
  /\ UNCHANGED <<tables, sessions, edits, history>>

Verify(r) ==
  /\ request[r].pc = "verify"
  /\ Goto(r, "fail") \/ Goto(r, "signed_in")
  /\ UNCHANGED <<tables, sessions, edits, history>>

RecordFailure(r) ==
  /\ request[r].pc = "fail"
  /\ login_attempts' = login_attempts + 1
  /\ Finish(r)
  /\ UNCHANGED <<users, password_reset_tokens, webauthn_challenges, webauthn_credentials,
                 api_tokens, sessions, edits, history>>

\* clear_login_failures, and the session, with the role read above.
SignIn(r) ==
  /\ request[r].pc = "signed_in"
  /\ login_attempts' = 0
  /\ sessions' = sessions \cup {[id |-> request[r].user, role |-> request[r].role]}
  /\ Finish(r)
  /\ UNCHANGED <<users, password_reset_tokens, webauthn_challenges, webauthn_credentials,
                 api_tokens, edits, history>>

\* LOGIN_ATTEMPT_WINDOW_MINUTES go by without a failure.
FailuresAge ==
  /\ login_attempts > 0
  /\ login_attempts' = 0
  /\ UNCHANGED <<users, password_reset_tokens, webauthn_challenges, webauthn_credentials,
                 api_tokens, sessions, request, edits, history>>

\* A session has no row: it lasts until its time is over, whatever becomes of the account.
SessionExpires(s) ==
  /\ sessions' = sessions \ {s}
  /\ UNCHANGED <<tables, request, edits, history>>

----------------------------------------------------------------------------
(* API tokens *)

\* Mutant of MayGrant: any scope there is.
MayGrantAny(role, scope) == scope \in UNION {Grantable[other] : other \in Roles}

MayGrant(role, scope) == scope \in Grantable[role]

\* create_api_token: what the role of the session may grant, for the account of its name.
CreateApiToken(r, s, scope) ==
  /\ MayGrant(s.role, scope)
  /\ users # Null
  /\ Begin(r, "insert_token", users.id, s.role, scope)
  /\ UNCHANGED <<tables, sessions, edits, history>>

InsertToken(r) ==
  /\ request[r].pc = "insert_token"
  /\ api_tokens' = [api_tokens EXCEPT ![r] =
       [owner_user_id |-> request[r].user, scope |-> request[r].of, is_revoked |-> FALSE]]
  /\ Finish(r)
  /\ UNCHANGED <<users, password_reset_tokens, webauthn_challenges, webauthn_credentials,
                 login_attempts, sessions, edits, history>>

\* By a session of the name, which is what load_manageable_token compares, or by a full_admin.
RevokeApiToken(t) ==
  /\ api_tokens[t] # Null /\ ~ api_tokens[t].is_revoked
  /\ api_tokens' = [api_tokens EXCEPT ![t].is_revoked = TRUE]
  /\ UNCHANGED <<users, password_reset_tokens, webauthn_challenges, webauthn_credentials,
                 login_attempts, sessions, request, edits, history>>

DeleteApiToken(t) ==
  /\ api_tokens[t] # Null
  /\ api_tokens' = [api_tokens EXCEPT ![t] = Null]
  /\ UNCHANGED <<users, password_reset_tokens, webauthn_challenges, webauthn_credentials,
                 login_attempts, sessions, request, edits, history>>

----------------------------------------------------------------------------
(* The specification *)

\* The client leaves, a statement fails or the process ends.
Cut(r) == Active(r) /\ Fail(r)

\* An account with a passkey, and a session that was opened for it.
Init ==
  /\ \E u \in Ids, role \in Roles :
       /\ users = [id |-> u, role |-> role]
       /\ sessions = {[id |-> u, role |-> role]}
       /\ webauthn_credentials = [c \in Passkeys |-> IF c = First THEN u ELSE Null]
       /\ roles = [v \in Ids |-> IF v = u THEN {role} ELSE {}]
  /\ password_reset_tokens = [r \in Requests |-> Null]
  /\ webauthn_challenges = [ch \in Challenges |-> NoChallenge]
  /\ api_tokens = [r \in Requests |-> Null]
  /\ login_attempts = 0
  /\ request = [r \in Requests |-> NoRequest("unused")]
  /\ edits = 0
  /\ minted = [r \in Requests |-> Null]
  /\ redeemed = [r \in Requests |-> 0]
  /\ accepted = [ch \in Challenges |-> 0]
  /\ crossed = {} /\ late = {} /\ succeeded = {} /\ raced = {} /\ widest = 0

Start(r) ==
  \/ DeleteUser(r) \/ RequestLink(r)
  \/ \E l \in Requests : ConfirmSelect(r, l)
  \/ \E s \in sessions, ch \in Challenges : RegisterFinish(r, s, ch)
  \/ \E ch \in Challenges \cup {Null} : Attempt(r, ch)
  \/ \E s \in sessions, scope \in Scopes : CreateApiToken(r, s, scope)

Step(r) ==
  \/ DeletePasskeys(r) \/ DeleteLinks(r) \/ DeleteRow(r)
  \/ Withdraw(r) \/ InsertLink(r)
  \/ Burn(r) \/ ConfirmUser(r) \/ WithdrawOthers(r) \/ Forget(r)
  \/ Select(r, "take_register", "register", "drop_register")
  \/ Drop(r, "drop_register", "insert_passkey") \/ DropUnread(r) \/ InsertPasskey(r)
  \/ LoadUser(r) \/ Select(r, "take_login", "authenticate", "drop_login")
  \/ Drop(r, "drop_login", "verify") \/ Verify(r) \/ RecordFailure(r) \/ SignIn(r)
  \/ InsertToken(r)

Next ==
  \/ \E r \in Requests : Start(r) \/ Step(r) \/ Cut(r)
  \/ \E u \in Ids, role \in Roles : CreateUser(u, role)
  \/ \E role \in Roles : UpdateUserRole(role)
  \/ \E ch \in Challenges : RegisterStart(ch) \/ LoginStart(ch) \/ ExpireChallenge(ch)
  \/ \E c \in Passkeys : DeletePasskey(c)
  \/ \E r \in Requests : ExpireLink(r) \/ RevokeApiToken(r) \/ DeleteApiToken(r)
  \/ \E s \in sessions : SessionExpires(s)
  \/ FailuresAge

Spec == Init /\ [][Next]_vars

\* Requests are interchangeable.
Symmetry == Permutations(Requests)

----------------------------------------------------------------------------
(* Properties *)

TypeOK ==
  /\ users \in Session \cup {Null}
  /\ sessions \subseteq Session
  /\ password_reset_tokens \in [Requests -> Link \cup {Null}]
  /\ webauthn_challenges \in [Challenges -> Challenge \cup {Null}]
  /\ webauthn_credentials \in [Passkeys -> Ids \cup {Null}]
  /\ api_tokens \in [Requests -> ApiToken \cup {Null}]
  /\ login_attempts \in Nat
  /\ request \in [Requests -> Request]
  /\ edits \in 0..MaxEdits
  /\ roles \in [Ids -> SUBSET Roles]
  /\ minted \in [Requests -> Ids \cup {Null}]
  /\ redeemed \in [Requests -> Nat]
  /\ accepted \in [Challenges -> Nat]
  /\ crossed \subseteq Ids /\ late \subseteq Ids /\ succeeded \subseteq Ids
  /\ raced \subseteq Challenges
  /\ widest \in 0..Cardinality(Requests)

\* Identifiers are interchangeable: what holds of the links of this one holds of all.
AnId == CHOOSE u \in Ids : TRUE

\* Where its links stand.
Phase == [r \in Requests |->
  IF minted[r] # AnId THEN "unminted"
  ELSE IF IsOpen(r) THEN "open"
  ELSE IF redeemed[r] = 0 THEN "withdrawn"
  ELSE "spent"]

Links == INSTANCE OneTime WITH
  Credentials <- Requests,
  phase <- Phase,
  redeemed <- [r \in Requests |-> IF minted[r] = AnId THEN redeemed[r] ELSE 0]

\* A reset link is accepted once at most, and one that was used, or deleted by a newer minting,
\* by the use of another or with the account, is never accepted again, although each of these
\* is read in one statement and done in another (password_reset_confirm: "so two concurrent
\* submissions can't both go through").  A link beside a newer one, which OneOpenLink says when
\* there is, may still be used, and so may one that was inserted after its account was deleted,
\* to no effect.
LinksAreOneTime == Links!Spec

\* Minting a link invalidates any outstanding ones: there are two only when one was inserted
\* between the DELETE and the INSERT of another (mint_reset_token).
OneOpenLink == \A u \in Ids \ crossed : Cardinality(Unused(u)) <= 1

\* A deleted account leaves no passkey and no link behind, which nothing would ever delete,
\* unless one was inserted while its tables were being emptied or later, by a request that had
\* found the account before (delete_user).
NothingLeft ==
  \A u \in Ids \ late :
    users = Null \/ users.id # u =>
      /\ \A c \in Passkeys : webauthn_credentials[c] # u
      /\ \A r \in Requests : password_reset_tokens[r] # Null => password_reset_tokens[r].user_id # u

\* A challenge is accepted by one ceremony only ("single-use rows"), unless another had read it
\* before it was deleted (take_webauthn_challenge).
ChallengeOnce == \A ch \in Challenges \ raced : accepted[ch] <= 1

\* A token carries no scope that none of its owner's roles, present or past, could grant,
\* whatever was demoted or deleted while it was being made, unless the name was deleted and
\* created again under a session in use (create_api_token).  "A token can never exceed its
\* owner's own authority" asks for more: a demotion leaves the tokens that were made before it,
\* and the sessions that go on making them, with the authority of the role that is past.
ScopesWithinRoles ==
  \A r \in Requests :
    LET token == api_tokens[r]
    IN token # Null /\ token.owner_user_id \notin succeeded =>
         \E role \in roles[token.owner_user_id] : token.scope \in Grantable[role]

\* The failures counted for a name exceed the limit by those attempts only that were let pass
\* beside each other (enforce_login_rate_limit, record_login_attempt).
FailuresBounded ==
  widest > 0 => login_attempts + Cardinality(Attempting) <= MaxFailures - 1 + widest

----------------------------------------------------------------------------
(* The inductive invariant *)

\* What a request has read, by the stage that it is at.
Reads(r) ==
  LET q == request[r]
  IN /\ q.pc \notin {"unused", "user", "fail", "done"} => q.user \in Ids
     /\ q.pc \in {"take_login", "drop_login", "verify", "signed_in"} => q.role \in Roles
     /\ q.pc = "burn" => q.of \in Requests
     /\ q.pc = "user" => q.of \in Challenges \cup {Null}
     /\ q.pc \in {"take_register", "drop_register", "take_login", "drop_login", "drop_unread"} =>
          q.of \in Challenges
     /\ q.pc = "insert_token" => q.of \in Scopes

\* What a deletion has emptied stays empty while it goes on.
Emptied ==
  \A u \in Ids \ late, r \in Requests :
    request[r].user = u =>
      /\ request[r].pc \in {"delete_links", "delete_user"} =>
           \A c \in Passkeys : webauthn_credentials[c] # u
      /\ request[r].pc = "delete_user" =>
           \A l \in Requests :
             password_reset_tokens[l] # Null => password_reset_tokens[l].user_id # u

\* A link that is about to be inserted will be the only one.
OnlyLink ==
  \A u \in Ids \ crossed :
    /\ \A l, m \in Unused(u) : l = m
    /\ \A r \in Requests :
         request[r].pc = "insert_link" /\ request[r].user = u => Unused(u) = {}

\* A challenge that was accepted is gone, and so is whoever held it.
Taken ==
  \A ch \in Challenges \ raced :
    /\ accepted[ch] <= 1
    /\ accepted[ch] > 0 =>
         /\ webauthn_challenges[ch] = Null
         /\ \A r \in Requests :
              request[r].pc \in {"drop_register", "drop_login"} => request[r].of # ch

\* A role that speaks for the name is one that its present id has had.
Entitled ==
  /\ users # Null => users.role \in roles[users.id]
  /\ users # Null /\ users.id \notin succeeded =>
       /\ \A s \in sessions : s.role \in roles[users.id]
       /\ \A r \in Requests : request[r].role # Null => request[r].role \in roles[users.id]
  /\ \A r \in Requests :
       request[r].pc = "insert_token" /\ request[r].user \notin succeeded =>
         \E role \in roles[request[r].user] : request[r].of \in Grantable[role]

\* A link is that of the account it was minted for, and was not accepted while it is open.
Minted ==
  \A r \in Requests :
    /\ password_reset_tokens[r] # Null => minted[r] = password_reset_tokens[r].user_id
    /\ IsOpen(r) => redeemed[r] = 0
    /\ minted[r] = Null => redeemed[r] = 0
    /\ request[r].pc # "done" => minted[r] = Null

IInv ==
  /\ AnId \in Ids
  /\ TypeOK
  /\ \A r \in Requests : Reads(r)
  /\ NothingLeft /\ Emptied
  /\ OnlyLink
  /\ Taken
  /\ Entitled /\ ScopesWithinRoles
  /\ FailuresBounded
  /\ Minted

=============================================================================
