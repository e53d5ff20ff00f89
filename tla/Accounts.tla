------------------------------ MODULE Accounts ------------------------------
(***************************************************************************)
(* Users, the sessions and API tokens they hold, and the secret sessions   *)
(* are signed with.                                                        *)
(*                                                                         *)
(* A request is authenticated by the middleware and then served by its     *)
(* handler; other requests, a restart of the server and the command line   *)
(* come in between.  Login reads the row of a user once, and signs what it *)
(* read; createAPIToken reads its owner again before it inserts a row.     *)
(* Passwords stand for their hashes, and a token for the hash it is found  *)
(* by.                                                                     *)
(***************************************************************************)
EXTENDS Naturals, FiniteSets

CONSTANTS
    Clients,       \* requests that are served at the same time
    UserNames,     \* user names besides root
    Roles,         \* those of "admin", "developer" and "viewer" that are given
    MaxVersion,    \* bound: session_version of an account
    MaxAccounts,   \* bound: accounts ever created
    MaxSessions,   \* bound: sessions issued
    MaxTokens,     \* bound: API tokens created
    MaxStarts      \* bound: starts of the server

VARIABLES
    user,      \* rows of users, a function on identifiers
    accounts,  \* AUTOINCREMENT of users
    token,     \* rows of api_tokens, a function on identifiers
    session,   \* the JWTs that were issued
    secretFile, \* <db>.jwt-secret: Absent, EmptySecret (created, not written yet) or a secret
    server,    \* how far the server has started, and the secret it signs with
    starts,    \* starts so far; the n-th start generates the secret EmptySecret + n
    client,    \* what each request is doing, and what it has read
    minted,    \* AUTOINCREMENT of api_tokens
    people     \* history: accounts ever created, whatever their identifiers

accountVars == <<user, accounts, token, session, secretFile, server, starts, client, minted, people>>
rows == <<user, accounts, token, minted, people>>

Absent == 0
EmptySecret == 1
Root == "root"
Passwords == {"old", "new"}
NoClient == [step |-> "ready", op |-> "none", by |-> 0, row |-> 0]

AccountsInit ==
    /\ user = <<>> /\ accounts = 0 /\ token = <<>> /\ minted = 0 /\ session = {} /\ people = 0
    /\ secretFile = Absent /\ server = [step |-> "down", secret |-> 0] /\ starts = 0
    /\ client = [c \in Clients |-> NoClient]

Users == DOMAIN user
Running == server.step = "up"
Done(c) == client' = [client EXCEPT ![c] = NoClient]
Extended(f, key, value) == [k \in DOMAIN f \cup {key} |-> IF k = key THEN value ELSE f[k]]
Restricted(f, keys) == [k \in keys |-> f[k]]

(***************************************************************************)
(* The tables.                                                             *)
(***************************************************************************)
\* AUTOINCREMENT never gives an identifier twice.
NextUserID == accounts + 1

Named(name) == {u \in Users : user[u].name = name}

\* INSERT INTO users: names are unique.
CreateUser(name, role, password) ==
    /\ people < MaxAccounts
    /\ IF Named(name) # {} THEN UNCHANGED rows
       ELSE /\ user' = Extended(user, NextUserID,
                   [name |-> name, role |-> role, version |-> 1, password |-> password, person |-> people + 1])
            /\ accounts' = NextUserID
            /\ people' = people + 1
            /\ UNCHANGED <<token, minted>>

UpdateUserPassword(u, password) ==
    /\ u \in Users => user[u].version < MaxVersion
    /\ user' = [v \in Users |-> IF v = u THEN [user[v] EXCEPT !.password = password, !.version = @ + 1] ELSE user[v]]
    /\ UNCHANGED <<accounts, token, minted, people>>

UpdateUserRole(u, role) ==
    /\ user' = [v \in Users |-> IF v = u THEN [user[v] EXCEPT !.role = role] ELSE user[v]]
    /\ UNCHANGED <<accounts, token, minted, people>>

\* One transaction: the tokens, then the row.
DeleteUser(u) ==
    /\ token' = Restricted(token, {t \in DOMAIN token : token[t].user # u})
    /\ user' = Restricted(user, Users \ {u})
    /\ UNCHANGED <<accounts, minted, people>>

(***************************************************************************)
(* The server and the command line.                                        *)
(***************************************************************************)
\* SetupDefaultAdmin, first of what a start writes.
SetupDefaultAdmin ==
    /\ server.step = "down" /\ starts < MaxStarts
    /\ starts' = starts + 1
    /\ server' = [server EXCEPT !.step = "secret"]
    /\ CreateUser(Root, "admin", "old")
    /\ UNCHANGED <<session, secretFile, client>>

ReadSecret == secretFile

\* A secret that was persisted is used; an empty file is an error the start ends with.
ReadJWTSecret ==
    /\ server.step = "secret"
    /\ server' = CASE ReadSecret = Absent -> [step |-> "create", secret |-> 0]
                   [] ReadSecret = EmptySecret -> [step |-> "down", secret |-> 0]
                   [] OTHER -> [step |-> "up", secret |-> ReadSecret]
    /\ UNCHANGED <<rows, session, secretFile, starts, client>>

\* O_CREATE|O_EXCL
CreateSecretFile ==
    /\ server.step = "create"
    /\ secretFile' = EmptySecret
    /\ server' = [server EXCEPT !.step = "write"]
    /\ UNCHANGED <<rows, session, starts, client>>

\* A failed write removes the file again, and ends the start.
WriteSecret(fails) ==
    /\ server.step = "write"
    /\ secretFile' = IF fails THEN Absent ELSE EmptySecret + starts
    /\ server' = IF fails THEN [step |-> "down", secret |-> 0] ELSE [step |-> "up", secret |-> EmptySecret + starts]
    /\ UNCHANGED <<rows, session, starts, client>>

\* A stop or a crash, also in the middle of a start; the requests it served are gone.
ServerEnds ==
    /\ server.step # "down"
    /\ server' = [step |-> "down", secret |-> 0]
    /\ client' = [c \in Clients |-> NoClient]
    /\ UNCHANGED <<rows, session, secretFile, starts>>

\* buildworld reset-root-password stops the server, and makes sure that there is a root.
ResetRootPassword ==
    /\ server.step = "down"
    /\ IF Named(Root) = {} THEN CreateUser(Root, "admin", "new")
       ELSE \E u \in Named(Root) : UpdateUserPassword(u, "new")
    /\ UNCHANGED <<session, secretFile, server, starts, client>>

(***************************************************************************)
(* Sessions.                                                               *)
(***************************************************************************)
\* GetUserByUsername; the row is what the rest of the login works with.
LoginReads(c, name) ==
    /\ Running /\ client[c].step = "ready"
    /\ \E u \in Named(name) :
           client' = [client EXCEPT ![c] = [step |-> "login", op |-> "login", by |-> u, row |-> user[u]]]
    /\ UNCHANGED <<rows, session, secretFile, server, starts>>

SignedVersion(c) == client[c].row.version

\* CheckPassword, and the JWT; the password typed is the one of the session.
LoginSigns(c, password) ==
    /\ client[c].step = "login"
    /\ Cardinality(session) < MaxSessions
    /\ session' = IF client[c].row.password # password THEN session
                  ELSE session \cup {[user |-> client[c].by, version |-> SignedVersion(c), secret |-> server.secret,
                                      password |-> password, person |-> client[c].row.person]}
    /\ Done(c)
    /\ UNCHANGED <<rows, secretFile, server, starts>>

\* The signature, and what NewJWTSessionValidator finds in users now.
SessionAccepted(s) ==
    /\ Running /\ s.secret = server.secret
    /\ s.user \in Users /\ user[s.user].version = s.version

(***************************************************************************)
(* API tokens.                                                             *)
(***************************************************************************)
TokenAccepted(t) == t \in DOMAIN token /\ ~token[t].expired /\ token[t].user \in Users

\* Who a request is of, once the middleware has let it through.
Principals ==
    {s.user : s \in {x \in session : SessionAccepted(x)}}
    \cup {token[t].user : t \in {x \in DOMAIN token : Running /\ TokenAccepted(x)}}

AdminOnly == {"create", "delete", "role", "password"}
Operations == AdminOnly \cup {"mint", "revoke"}

\* Middleware and RequireRoles: the role is the one of the row, whatever was signed.
Authenticate(c, u, op) ==
    /\ Running /\ client[c].step = "ready"
    /\ u \in Principals
    /\ op \in AdminOnly => user[u].role = "admin"
    /\ client' = [client EXCEPT ![c] = [step |-> "serve", op |-> op, by |-> u, row |-> 0]]
    /\ UNCHANGED <<rows, session, secretFile, server, starts>>

Serves(c, op) == client[c].step = "serve" /\ client[c].op = op /\ Done(c)

ServeCreate(c, name, role) ==
    /\ Serves(c, "create") /\ CreateUser(name, role, "old")
    /\ UNCHANGED <<session, secretFile, server, starts>>
ServeDelete(c, u) ==
    /\ Serves(c, "delete")
    /\ IF u # client[c].by THEN DeleteUser(u) ELSE UNCHANGED rows
    /\ UNCHANGED <<session, secretFile, server, starts>>
ServeRole(c, u, role) ==
    /\ Serves(c, "role") /\ UpdateUserRole(u, role)
    /\ UNCHANGED <<session, secretFile, server, starts>>
ServePassword(c, u, password) ==
    /\ Serves(c, "password") /\ UpdateUserPassword(u, password)
    /\ UNCHANGED <<session, secretFile, server, starts>>

\* canTriggerBuildRole, and the rule for system:update.
MayGrant(role, scopes) ==
    /\ "build:trigger" \in scopes => role \in {"admin", "developer"}
    /\ "system:update" \in scopes => role = "admin"

\* createAPIToken reads the owner's row, and decides with it.
MintReads(c, scopes) ==
    /\ client[c].step = "serve" /\ client[c].op = "mint"
    /\ LET u == client[c].by
       IN  client' = [client EXCEPT ![c] =
               IF u \in Users /\ MayGrant(user[u].role, scopes)
               THEN [@ EXCEPT !.step = "insert", !.row = user[u].person] ELSE NoClient]
    /\ UNCHANGED <<rows, session, secretFile, server, starts>>

CreateAPIToken(c) ==
    /\ client[c].step = "insert"
    /\ minted < MaxTokens
    /\ minted' = minted + 1
    /\ token' = Extended(token, minted + 1,
           [user |-> client[c].by, expired |-> FALSE, person |-> client[c].row])
    /\ Done(c)
    /\ UNCHANGED <<user, accounts, session, secretFile, server, starts, people>>

\* Mutant of DeleteAPITokenForUser: by its identifier alone.
DeleteAPITokenOfAnyone(c, t) == t \in DOMAIN token

\* DELETE ... WHERE id = ? AND user_id = ?
DeleteAPITokenForUser(c, t) == t \in DOMAIN token /\ token[t].user = client[c].by

ServeRevoke(c, t) ==
    /\ Serves(c, "revoke")
    /\ token' = IF DeleteAPITokenForUser(c, t) THEN Restricted(token, DOMAIN token \ {t}) ELSE token
    /\ UNCHANGED <<user, accounts, session, secretFile, server, starts, minted, people>>

TokenExpires(t) ==
    /\ ~token[t].expired
    /\ token' = [token EXCEPT ![t].expired = TRUE]
    /\ UNCHANGED <<user, accounts, session, secretFile, server, starts, client, minted, people>>

AccountsNext ==
    \/ SetupDefaultAdmin \/ ReadJWTSecret \/ CreateSecretFile
    \/ \E fails \in BOOLEAN : WriteSecret(fails)
    \/ ServerEnds \/ ResetRootPassword
    \/ \E c \in Clients :
        \/ \E name \in UserNames \cup {Root} : LoginReads(c, name)
        \/ \E password \in Passwords : LoginSigns(c, password)
        \/ \E u \in Users, op \in Operations : Authenticate(c, u, op)
        \/ \E name \in UserNames, role \in Roles : ServeCreate(c, name, role)
        \/ \E u \in Users, role \in Roles : ServeRole(c, u, role)
        \/ \E u \in Users : ServeDelete(c, u)
        \/ \E u \in Users, password \in Passwords : ServePassword(c, u, password)
        \/ \E scopes \in {{}, {"build:trigger"}, {"system:update"}} : MintReads(c, scopes)
        \/ CreateAPIToken(c)
        \/ \E t \in DOMAIN token : ServeRevoke(c, t)
    \/ \E t \in DOMAIN token : TokenExpires(t)

AccountsSpec == AccountsInit /\ [][AccountsNext]_accountVars

(***************************************************************************)
(* Properties                                                              *)
(***************************************************************************)
\* However a login and a change of the password interleave, a session is good only as
\* long as the password it was opened with is the user's.
OldPasswordIsOut ==
    \A s \in session : SessionAccepted(s) => s.password = user[s.user].password

\* Nobody inherits: what was issued to somebody who was deleted since, a token inserted
\* after the deletion too, is not accepted for a later account, even one of the same name.
GoneIsOut ==
    /\ \A s \in session : SessionAccepted(s) => s.person = user[s.user].person
    /\ \A t \in DOMAIN token : TokenAccepted(t) => token[t].person = user[token[t].user].person

\* Sessions survive restarts and failed starts: every start that succeeds signs with the
\* secret all sessions were signed with.
SecretIsKept == Running => \A s \in session : s.secret = server.secret

\* A token disappears by a request of the user it is of, or with the account of that user.
TokensAreTheirOwners ==
    [][\A t \in DOMAIN token :
          (t \notin DOMAIN token' /\ token[t].user \in DOMAIN user') =>
              \E c \in Clients : client[c].op = "revoke" /\ client[c].by = token[t].user]_accountVars

\* Access ends with what it was granted for: the password, the account, the token.
AccessIsCurrent ==
    /\ []OldPasswordIsOut
    /\ []GoneIsOut
    /\ []SecretIsKept
    /\ TokensAreTheirOwners
=============================================================================
