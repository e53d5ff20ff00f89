------------------------ MODULE AdministrationProofs ------------------------
(***************************************************************************)
(* Proofs about who may do what, what builds are configured with and which *)
(* plugin executes a step, for any number of accounts, requests, restarts, *)
(* edits and plugins.                                                      *)
(***************************************************************************)
EXTENDS Accounts, Notifications, SecretMasker, Settings, Resources, Plugins, Variables,
        SequenceTheorems, FiniteSetTheorems, WellFoundedInduction, TLAPS

-----------------------------------------------------------------------------
\* Least and greatest elements, and induction.
LEMMA LeastNatural ==
  ASSUME NEW S \in SUBSET Nat, S # {}
  PROVE  \E m \in S : \A n \in S : m <= n
<1>1. \A n, m \in Nat : n < m => <<n, m>> \in OpToRel(<, Nat)
  <2> TAKE n, m \in Nat
  <2> HAVE n < m
  <2>1. <<n, m>> \in Nat \X Nat /\ <<n, m>>[1] < <<n, m>>[2]
    OBVIOUS
  <2> QED BY <2>1, Zenon DEF OpToRel
<1>2. PICK m \in S : \A n \in S : <<n, m>> \notin OpToRel(<, Nat)
  BY NatLessThanWellFounded, WFMin
<1>3. \A n \in S : ~(n < m)
  BY <1>1, <1>2, Zenon
<1>4. \A a, b \in Nat : ~(a < b) => b <= a
  OBVIOUS
<1> QED BY <1>2, <1>3, <1>4, Zenon

LEMMA GreatestNatural ==
  ASSUME NEW n \in Nat, NEW S \in SUBSET (1..n), S # {}
  PROVE  \E m \in S : \A k \in S : k <= m
<1> DEFINE T == {n - k : k \in S}
<1>1. T \in SUBSET Nat /\ T # {}
  <2>1. \A k \in S : n - k \in Nat
    OBVIOUS
  <2> QED BY <2>1
<1> HIDE DEF T
<1>2. PICK m \in T : \A k \in T : m <= k
  BY <1>1, LeastNatural
<1>3. PICK p \in S : m = n - p
  BY DEF T
<1>4. \A k \in S : n - p <= n - k
  BY <1>2, <1>3 DEF T
<1>5. \A k \in S : k <= p
  <2> TAKE k \in S
  <2>1. n - p <= n - k
    BY <1>4
  <2>2. k \in Nat /\ p \in Nat
    OBVIOUS
  <2> QED BY <2>1, <2>2
<1> QED BY <1>5

\* Induction, as a statement about a set.
LEMMA Upwards ==
  ASSUME NEW S, \A n \in Nat : (\A m \in 0 .. n - 1 : m \in S) => n \in S
  PROVE  \A n \in Nat : n \in S
<1>1. SUFFICES ASSUME Nat \ S # {} PROVE FALSE
  OBVIOUS
<1>2. PICK m \in Nat \ S : \A n \in Nat \ S : m <= n
  BY <1>1, LeastNatural
<1>3. \A k \in 0 .. m - 1 : k \in S
  BY <1>2
<1> QED BY <1>2, <1>3

-----------------------------------------------------------------------------
(***************************************************************************)
(* Accounts.  What was read of a user, signed in a session or inserted in  *)
(* a token vouches for the row it names: AUTOINCREMENT never names another *)
(* person by its identifier, and a password does not change without the    *)
(* version.  A secret is in its file before anything is signed with it.    *)
(***************************************************************************)
UserRow == [name : UserNames \cup {Root}, role : Roles \cup {"admin"}, version : Nat,
            password : Passwords, person : Nat]
TokenRow == [user : Nat, expired : BOOLEAN, person : Nat]
SessionRow == [user : Nat, version : Nat, secret : Nat, password : Passwords, person : Nat]
ClientRow == [step : {"ready", "login", "serve", "insert"}, op : Operations \cup {"none", "login"},
              by : Nat, row : Nat \cup UserRow]

UsersTypeOK ==
    /\ accounts \in Nat /\ people \in Nat /\ minted \in Nat
    /\ Users \subseteq 1..accounts
    /\ \A u \in Users : user[u] \in UserRow
    /\ \A t \in DOMAIN token : token[t] \in TokenRow

AccessTypeOK ==
    /\ session \subseteq SessionRow
    /\ client \in [Clients -> ClientRow]
    /\ \A c \in Clients : /\ client[c].step = "login" => client[c].row \in UserRow
                          /\ client[c].step = "insert" => client[c].row \in Nat
    /\ server \in [step : {"down", "secret", "create", "write", "up"}, secret : Nat]
    /\ secretFile \in Nat /\ starts \in Nat

\* The identifier was given to this person, ...
IsPerson(u, person) == u <= accounts /\ (u \in Users => user[u].person = person)

\* ... and the password is the one of that version of the row.
IsPassword(u, version, password) ==
    u \in Users => /\ version <= user[u].version
                   /\ version = user[u].version => password = user[u].password

EvidenceHolds ==
    /\ \A s \in session : IsPerson(s.user, s.person) /\ IsPassword(s.user, s.version, s.password)
    /\ \A t \in DOMAIN token : IsPerson(token[t].user, token[t].person)
    /\ \A c \in Clients :
        /\ client[c].step = "login" =>
              /\ IsPerson(client[c].by, client[c].row.person)
              /\ IsPassword(client[c].by, client[c].row.version, client[c].row.password)
        /\ client[c].step = "serve" => client[c].by <= accounts
        /\ client[c].step = "insert" => IsPerson(client[c].by, client[c].row)

IsSecret(s) == s \notin {Absent, EmptySecret}

SecretIsPersisted ==
    /\ session # {} => IsSecret(secretFile) /\ \A s \in session : s.secret = secretFile
    /\ server.step = "up" => IsSecret(secretFile) /\ server.secret = secretFile
    /\ server.step = "create" => secretFile = Absent
    /\ server.step = "write" => secretFile = EmptySecret
    /\ server.step # "down" => starts > 0
    /\ \A c \in Clients : client[c].step # "ready" => server.step = "up"

AccountsInv == UsersTypeOK /\ AccessTypeOK /\ EvidenceHolds /\ SecretIsPersisted

\* What every operation on the tables leaves of the rows that were there: the person, and
\* the password or a later version.
RowsLast ==
    /\ accounts <= accounts'
    /\ \A u \in DOMAIN user' : u <= accounts =>
        /\ u \in Users
        /\ user'[u].person = user[u].person
        /\ \/ user'[u].version > user[u].version
           \/ user'[u].version = user[u].version /\ user'[u].password = user[u].password

\* No token changes hands or is made.
TokensLast ==
    \A t \in DOMAIN token' : /\ t \in DOMAIN token
                             /\ token'[t].user = token[t].user /\ token'[t].person = token[t].person

LEMMA CreateUserRows ==
  ASSUME UsersTypeOK, NEW name \in UserNames \cup {Root}, NEW role \in Roles \cup {"admin"},
         NEW password \in Passwords, CreateUser(name, role, password)
  PROVE  UsersTypeOK' /\ RowsLast /\ TokensLast
<1>1. CASE UNCHANGED rows
  BY <1>1 DEF rows, UsersTypeOK, RowsLast, TokensLast, Users
<1>2. CASE ~ UNCHANGED rows
  <2> DEFINE new == [name |-> name, role |-> role, version |-> 1, password |-> password, person |-> people + 1]
  <2>1. /\ user' = [k \in Users \cup {accounts + 1} |-> IF k = accounts + 1 THEN new ELSE user[k]]
        /\ accounts' = accounts + 1 /\ people' = people + 1
        /\ UNCHANGED <<token, minted>>
    BY <1>2 DEF CreateUser, NextUserID, Extended, Users
  <2>2. new \in UserRow
    BY DEF UserRow, UsersTypeOK
  <2>3. UsersTypeOK'
    BY <2>1, <2>2 DEF UsersTypeOK, Users
  <2>4. RowsLast
    BY <2>1 DEF UsersTypeOK, RowsLast, Users, UserRow
  <2>5. QED
    BY <2>1, <2>3, <2>4 DEF TokensLast
<1>3. QED
  BY <1>1, <1>2

LEMMA UpdateUserPasswordRows ==
  ASSUME UsersTypeOK, NEW u, NEW password \in Passwords, UpdateUserPassword(u, password)
  PROVE  UsersTypeOK' /\ RowsLast /\ TokensLast
<1> DEFINE Updated(v) == [user[v] EXCEPT !.password = password, !.version = @ + 1]
<1>1. ASSUME NEW v \in Users
      PROVE  /\ Updated(v) \in UserRow
             /\ Updated(v).person = user[v].person /\ Updated(v).version > user[v].version
  <2> DEFINE rehashed == [user[v] EXCEPT !.password = password]
  <2>1. user[v] \in UserRow
    BY DEF UsersTypeOK
  <2>2. /\ rehashed \in UserRow
        /\ rehashed.version = user[v].version /\ rehashed.person = user[v].person
    BY <2>1 DEF UserRow
  <2> HIDE DEF rehashed
  <2> DEFINE updated == [rehashed EXCEPT !.version = user[v].version + 1]
  <2>3. /\ updated \in UserRow
        /\ updated.person = user[v].person /\ updated.version > user[v].version
    BY <2>1, <2>2 DEF UserRow
  <2>4. Updated(v) = updated
    BY Zenon DEF rehashed
  <2>5. QED
    BY <2>3, <2>4, Zenon
<1>2. /\ user' = [v \in Users |-> IF v = u THEN Updated(v) ELSE user[v]]
      /\ UNCHANGED <<accounts, token, minted, people>>
  BY DEF UpdateUserPassword
<1> HIDE DEF Updated
<1>3. Users' = Users
  BY <1>2 DEF Users
<1>4. UsersTypeOK'
  BY <1>1, <1>2, <1>3 DEF UsersTypeOK
<1>5. RowsLast
  BY <1>1, <1>2, <1>3 DEF UsersTypeOK, RowsLast, Users
<1>6. QED
  BY <1>2, <1>4, <1>5 DEF TokensLast

LEMMA UpdateUserRoleRows ==
  ASSUME UsersTypeOK, NEW u, NEW role \in Roles, UpdateUserRole(u, role)
  PROVE  UsersTypeOK' /\ RowsLast /\ TokensLast
<1> USE DEF UpdateUserRole, Users
<1>1. \A v \in Users : [user[v] EXCEPT !.role = role] \in UserRow
  BY DEF UsersTypeOK, UserRow
<1>2. UsersTypeOK'
  BY <1>1 DEF UsersTypeOK
<1>3. RowsLast
  BY DEF UsersTypeOK, RowsLast, UserRow
<1>4. QED
  BY <1>2, <1>3 DEF TokensLast

LEMMA DeleteUserRows ==
  ASSUME UsersTypeOK, NEW u, DeleteUser(u)
  PROVE  UsersTypeOK' /\ RowsLast /\ TokensLast
<1> USE DEF DeleteUser, Restricted, Users
<1>1. UsersTypeOK'
  BY DEF UsersTypeOK
<1>2. RowsLast
  BY DEF UsersTypeOK, RowsLast
<1>3. QED
  BY <1>1, <1>2 DEF TokensLast

\* Evidence stays valid when rows last.
LEMMA EvidenceLasts ==
  ASSUME AccountsInv, UsersTypeOK', RowsLast
  PROVE  /\ \A u \in Nat, person \in Nat : IsPerson(u, person) => IsPerson(u, person)'
         /\ \A u \in Nat, version \in Nat, password \in Passwords :
               u <= accounts /\ IsPassword(u, version, password) => IsPassword(u, version, password)'
<1>1. \A u \in Nat : u <= accounts /\ u \in Users' =>
         /\ u \in Users /\ user'[u].person = user[u].person
         /\ \/ user'[u].version > user[u].version
            \/ user'[u].version = user[u].version /\ user'[u].password = user[u].password
  BY DEF RowsLast, Users
<1>2. accounts \in Nat /\ accounts' \in Nat /\ accounts <= accounts'
  BY DEF AccountsInv, UsersTypeOK, RowsLast
<1>3. \A u \in Nat, person \in Nat : IsPerson(u, person) => IsPerson(u, person)'
  BY <1>1, <1>2 DEF IsPerson
<1>4. \A u \in Users : user[u].version \in Nat
  BY DEF AccountsInv, UsersTypeOK, UserRow
<1>5. \A u \in Users' : user'[u].version \in Nat
  BY DEF UsersTypeOK, UserRow
<1>6. \A u \in Nat, version \in Nat, password \in Passwords :
               u <= accounts /\ IsPassword(u, version, password) => IsPassword(u, version, password)'
  BY <1>1, <1>4, <1>5 DEF IsPassword
<1>7. QED
  BY <1>3, <1>6

LEMMA RowsUnchanged ==
  ASSUME UsersTypeOK, UNCHANGED rows
  PROVE  UsersTypeOK' /\ RowsLast /\ TokensLast
BY DEF rows, UsersTypeOK, RowsLast, TokensLast, Users

\* A request that is done holds no evidence: an operation that only changes rows, makes no
\* token and ends requests keeps what the others hold valid.
LEMMA OperationKeepsEvidence ==
  ASSUME AccountsInv, UsersTypeOK', AccessTypeOK', RowsLast, TokensLast, session' = session,
         \A c \in Clients : client'[c] = client[c] \/ client'[c].step = "ready"
  PROVE  EvidenceHolds'
<1> USE EvidenceLasts
<1>1. ASSUME NEW s \in session'
      PROVE  IsPerson(s.user, s.person)' /\ IsPassword(s.user, s.version, s.password)'
  <2>1. /\ s.user \in Nat /\ s.person \in Nat /\ s.version \in Nat /\ s.password \in Passwords
    BY DEF AccessTypeOK, SessionRow
  <2>2. IsPerson(s.user, s.person) /\ IsPassword(s.user, s.version, s.password)
    BY DEF AccountsInv, EvidenceHolds
  <2>3. QED
    BY <2>1, <2>2 DEF IsPerson
<1>2. ASSUME NEW t \in DOMAIN token'
      PROVE  IsPerson(token[t].user, token[t].person)'
  <2>1. t \in DOMAIN token /\ token'[t].user = token[t].user /\ token'[t].person = token[t].person
    BY DEF TokensLast
  <2>2. token[t].user \in Nat /\ token[t].person \in Nat /\ IsPerson(token[t].user, token[t].person)
    BY <2>1 DEF AccountsInv, UsersTypeOK, EvidenceHolds, TokenRow
  <2>3. IsPerson(token[t].user, token[t].person)'
    BY <2>1, <2>2 DEF IsPerson, RowsLast, Users, AccountsInv, UsersTypeOK
  <2>4. QED
    BY <2>3
<1>3. ASSUME NEW c \in Clients, client'[c].step = "login"
      PROVE  /\ IsPerson(client[c].by, client[c].row.person)'
             /\ IsPassword(client[c].by, client[c].row.version, client[c].row.password)'
  <2>1. client'[c] = client[c]
    BY <1>3
  <2>2. /\ client[c].by \in Nat /\ client[c].row.person \in Nat
        /\ client[c].row.version \in Nat /\ client[c].row.password \in Passwords
    BY <1>3, <2>1 DEF AccountsInv, AccessTypeOK, ClientRow, UserRow
  <2>3. /\ IsPerson(client[c].by, client[c].row.person)
        /\ IsPassword(client[c].by, client[c].row.version, client[c].row.password)
    BY <1>3, <2>1 DEF AccountsInv, EvidenceHolds
  <2>4. PICK b, r : b \in Nat /\ b = client[c].by /\ r = client[c].row
    BY <2>2
  <2>5. IsPerson(b, r.person)' /\ IsPassword(b, r.version, r.password)'
    BY <2>2, <2>3, <2>4, EvidenceLasts DEF IsPerson
  <2>6. QED
    BY <2>1, <2>4, <2>5 DEF IsPerson, IsPassword
<1>4. ASSUME NEW c \in Clients, client'[c].step = "serve"
      PROVE  client'[c].by <= accounts'
  <2>1. client'[c] = client[c] /\ client[c].by \in Nat /\ client[c].by <= accounts
    BY <1>4 DEF AccountsInv, AccessTypeOK, ClientRow, EvidenceHolds
  <2>2. QED
    BY <2>1 DEF RowsLast, AccountsInv, UsersTypeOK
<1>5. ASSUME NEW c \in Clients, client'[c].step = "insert"
      PROVE  IsPerson(client[c].by, client[c].row)'
  <2>1. client'[c] = client[c]
    BY <1>5
  <2>2. client[c].by \in Nat /\ client[c].row \in Nat /\ IsPerson(client[c].by, client[c].row)
    BY <1>5, <2>1 DEF AccountsInv, AccessTypeOK, ClientRow, EvidenceHolds
  <2>3. PICK b \in Nat, r \in Nat : b = client[c].by /\ r = client[c].row
    BY <2>2
  <2>4. IsPerson(b, r)'
    BY <2>2, <2>3
  <2>5. QED
    BY <2>1, <2>3, <2>4 DEF IsPerson
<1>6. QED
  BY <1>1, <1>2, <1>3, <1>4, <1>5 DEF EvidenceHolds

LEMMA NoClientIsARow ==
  ASSUME AccessTypeOK, client' = client \/ \E c \in Clients : Done(c)
  PROVE  /\ client' \in [Clients -> ClientRow]
         /\ \A c \in Clients : client'[c] = client[c] \/ client'[c].step = "ready"
<1>1. NoClient \in ClientRow /\ NoClient.step = "ready"
  BY DEF NoClient, ClientRow
<1>2. QED
  BY <1>1 DEF AccessTypeOK, Done

\* An operation on the tables, by a request or from the command line.
LEMMA OperationStep ==
  ASSUME AccountsInv, UsersTypeOK', RowsLast, TokensLast,
         UNCHANGED <<session, secretFile, server, starts>>,
         client' = client \/ \E c \in Clients : Done(c)
  PROVE  AccountsInv'
<1>1. /\ client' \in [Clients -> ClientRow]
      /\ \A c \in Clients : client'[c] = client[c] \/ client'[c].step = "ready"
  BY NoClientIsARow DEF AccountsInv
<1>2. AccessTypeOK'
  BY <1>1 DEF AccountsInv, AccessTypeOK
<1>3. EvidenceHolds'
  BY <1>1, <1>2, OperationKeepsEvidence
<1>4. SecretIsPersisted'
  BY <1>1 DEF AccountsInv, SecretIsPersisted
<1>5. QED
  BY <1>2, <1>3, <1>4 DEF AccountsInv

\* A step of the server's life.
LEMMA ServerStep ==
  ASSUME AccountsInv, 
         \/ SetupDefaultAdmin \/ ReadJWTSecret \/ CreateSecretFile \/ ServerEnds
         \/ \E fails \in BOOLEAN : WriteSecret(fails)
  PROVE  AccountsInv'
<1> USE DEF Absent, EmptySecret
<1>1. UsersTypeOK' /\ RowsLast /\ TokensLast
  <2>1. CASE SetupDefaultAdmin
    BY <2>1, CreateUserRows DEF SetupDefaultAdmin, AccountsInv, Passwords
  <2>2. CASE UNCHANGED rows
    BY <2>2, RowsUnchanged DEF AccountsInv
  <2>3. QED
    BY <2>1, <2>2 DEF ReadJWTSecret, CreateSecretFile, ServerEnds, WriteSecret
<1>2. /\ session' = session
      /\ client' \in [Clients -> ClientRow]
      /\ \A c \in Clients : client'[c] = client[c] \/ client'[c].step = "ready"
  <2>1. CASE client' = client
    BY <2>1, NoClientIsARow DEF AccountsInv, SetupDefaultAdmin, ReadJWTSecret, CreateSecretFile, ServerEnds, WriteSecret
  <2>2. CASE ServerEnds
    <3>1. NoClient \in ClientRow /\ NoClient.step = "ready"
      BY DEF NoClient, ClientRow
    <3>2. QED
      BY <2>2, <3>1 DEF ServerEnds
  <2>3. QED
    BY <2>1, <2>2 DEF SetupDefaultAdmin, ReadJWTSecret, CreateSecretFile, WriteSecret
<1>3. /\ server' \in [step : {"down", "secret", "create", "write", "up"}, secret : Nat]
      /\ secretFile' \in Nat /\ starts' \in Nat
  BY DEF AccountsInv, AccessTypeOK, SetupDefaultAdmin, ReadJWTSecret, ReadSecret, CreateSecretFile, ServerEnds, WriteSecret
<1>4. AccessTypeOK'
  <2>1. ASSUME NEW c \in Clients
        PROVE  /\ client'[c].step = "login" => client'[c].row \in UserRow
               /\ client'[c].step = "insert" => client'[c].row \in Nat
    BY <1>2 DEF AccountsInv, AccessTypeOK
  <2>2. session' \subseteq SessionRow
    BY <1>2 DEF AccountsInv, AccessTypeOK
  <2>3. QED
    BY <1>2, <1>3, <2>1, <2>2 DEF AccessTypeOK
<1>5. EvidenceHolds'
  BY <1>1, <1>2, <1>4, OperationKeepsEvidence
<1>6. SecretIsPersisted'
  <2> USE DEF AccountsInv, AccessTypeOK, SecretIsPersisted, IsSecret
  <2>1. CASE SetupDefaultAdmin
    BY <2>1 DEF SetupDefaultAdmin
  <2>2. CASE ReadJWTSecret
    BY <2>2 DEF ReadJWTSecret, ReadSecret
  <2>3. CASE CreateSecretFile
    BY <2>3 DEF CreateSecretFile
  <2>4. CASE ServerEnds
    BY <2>4 DEF ServerEnds, NoClient
  <2>5. CASE \E fails \in BOOLEAN : WriteSecret(fails)
    BY <2>5 DEF WriteSecret
  <2>6. QED
    BY <2>1, <2>2, <2>3, <2>4, <2>5
<1>7. QED
  BY <1>1, <1>4, <1>5, <1>6 DEF AccountsInv

\* What a request reads, signs or inserts is evidence when it does.
LEMMA RequestStep ==
  ASSUME AccountsInv, NEW c \in Clients,
         \/ \E name \in UserNames \cup {Root} : LoginReads(c, name)
         \/ \E password \in Passwords : LoginSigns(c, password)
         \/ \E u \in Users, op \in Operations : Authenticate(c, u, op)
         \/ \E scopes \in {{}, {"build:trigger"}, {"system:update"}} : MintReads(c, scopes)
         \/ CreateAPIToken(c)
  PROVE  AccountsInv'
<1> USE DEF AccountsInv
<1>1. CASE \E name \in UserNames \cup {Root} : LoginReads(c, name)
  <2>1. PICK u \in Users :
           client' = [client EXCEPT ![c] = [step |-> "login", op |-> "login", by |-> u, row |-> user[u]]]
    BY <1>1 DEF LoginReads, Named
  <2>2. server.step = "up" /\ UNCHANGED <<rows, session, secretFile, server, starts>>
    BY <1>1 DEF LoginReads, Running
  <2>3. u \in Nat /\ u <= accounts /\ user[u] \in UserRow
    BY DEF UsersTypeOK
  <2>4. [step |-> "login", op |-> "login", by |-> u, row |-> user[u]] \in ClientRow
    BY <2>3 DEF ClientRow
  <2>5. AccessTypeOK'
    BY <2>1, <2>2, <2>3, <2>4 DEF AccessTypeOK
  <2>6. IsPerson(u, user[u].person) /\ IsPassword(u, user[u].version, user[u].password)
    BY <2>3 DEF IsPerson, IsPassword, UserRow
  <2>7. EvidenceHolds'
    BY <2>1, <2>2, <2>6 DEF EvidenceHolds, IsPerson, IsPassword, rows, Users, AccessTypeOK
  <2>8. QED
    BY <2>2, <2>5, <2>7, RowsUnchanged DEF SecretIsPersisted
<1>2. CASE \E password \in Passwords : LoginSigns(c, password)
  <2>1. PICK password \in Passwords : LoginSigns(c, password)
    BY <1>2
  <2> DEFINE new == [user |-> client[c].by, version |-> client[c].row.version, secret |-> server.secret,
                     password |-> password, person |-> client[c].row.person]
  <2>2. /\ client[c].step = "login" /\ Done(c)
        /\ UNCHANGED <<rows, secretFile, server, starts>>
    BY <2>1 DEF LoginSigns
  <2>3. \/ session' = session
        \/ session' = session \cup {new} /\ client[c].row.password = password
    BY <2>1, Zenon DEF LoginSigns, SignedVersion
  <2>4. client[c] \in ClientRow /\ client[c].row \in UserRow
    BY <2>2 DEF AccessTypeOK
  <2>5. new \in SessionRow
    BY <2>4 DEF ClientRow, UserRow, SessionRow, AccessTypeOK
  <2>6. client[c].row.password = password =>
           IsPerson(new.user, new.person) /\ IsPassword(new.user, new.version, new.password)
    BY <2>2 DEF EvidenceHolds
  <2>7. server.step = "up" /\ new.secret = server.secret
    BY <2>2 DEF SecretIsPersisted
  <2> HIDE DEF new
  <2>8. AccessTypeOK'
    BY <2>2, <2>3, <2>5, NoClientIsARow DEF AccessTypeOK
  <2>9. EvidenceHolds'
    BY <2>2, <2>3, <2>6, NoClientIsARow DEF EvidenceHolds, IsPerson, IsPassword, rows, Users, AccessTypeOK
  <2>10. SecretIsPersisted'
    BY <2>2, <2>3, <2>7, NoClientIsARow DEF SecretIsPersisted, AccessTypeOK
  <2>11. QED
    BY <2>2, <2>8, <2>9, <2>10, RowsUnchanged
<1>3. CASE \E u \in Users, op \in Operations : Authenticate(c, u, op)
  <2>1. PICK u \in Users, op \in Operations : Authenticate(c, u, op)
    BY <1>3
  <2> DEFINE new == [step |-> "serve", op |-> op, by |-> u, row |-> 0]
  <2>2. /\ client' = [client EXCEPT ![c] = new] /\ server.step = "up"
        /\ UNCHANGED <<rows, session, secretFile, server, starts>>
    BY <2>1 DEF Authenticate, Running
  <2>3. u \in Nat /\ u <= accounts
    BY DEF UsersTypeOK
  <2>4. new \in ClientRow /\ new.step = "serve" /\ new.by <= accounts
    BY <2>3 DEF ClientRow
  <2> HIDE DEF new
  <2>5. AccessTypeOK'
    BY <2>2, <2>4 DEF AccessTypeOK
  <2>6. EvidenceHolds'
    BY <2>2, <2>4 DEF EvidenceHolds, IsPerson, IsPassword, rows, Users, AccessTypeOK
  <2>7. QED
    BY <2>2, <2>5, <2>6, RowsUnchanged DEF SecretIsPersisted
<1>4. CASE \E scopes \in {{}, {"build:trigger"}, {"system:update"}} : MintReads(c, scopes)
  <2>1. PICK scopes \in {{}, {"build:trigger"}, {"system:update"}} : MintReads(c, scopes)
    BY <1>4
  <2> DEFINE u == client[c].by
             new == [client[c] EXCEPT !.step = "insert", !.row = user[u].person]
  <2>2. client[c].step = "serve" /\ UNCHANGED <<rows, session, secretFile, server, starts>>
    BY <2>1 DEF MintReads
  <2>3. \/ Done(c)
        \/ u \in Users /\ client' = [client EXCEPT ![c] = new]
    BY <2>1 DEF MintReads, Done, AccessTypeOK
  <2>4. CASE Done(c)
    BY <2>2, <2>4, OperationStep, RowsUnchanged DEF Done
  <2>5. CASE u \in Users /\ client' = [client EXCEPT ![c] = new]
    <3>1. user[u].person \in Nat /\ u \in Nat /\ u <= accounts
      BY <2>5 DEF UsersTypeOK, UserRow
    <3>2. new \in ClientRow /\ new.step = "insert" /\ new.by = u /\ new.row = user[u].person
      BY <3>1 DEF AccessTypeOK, ClientRow
    <3> HIDE DEF new
    <3>3. AccessTypeOK'
      BY <2>2, <2>5, <3>1, <3>2 DEF AccessTypeOK
    <3>4. IsPerson(new.by, new.row)
      BY <3>1, <3>2 DEF IsPerson
    <3>5. EvidenceHolds'
      BY <2>2, <2>5, <3>2, <3>4 DEF EvidenceHolds, IsPerson, IsPassword, rows, Users, AccessTypeOK
    <3>6. QED
      BY <2>2, <2>5, <3>3, <3>5, RowsUnchanged DEF SecretIsPersisted
  <2>6. QED
    BY <2>3, <2>4, <2>5
<1>5. CASE CreateAPIToken(c)
  <2> DEFINE new == [user |-> client[c].by, expired |-> FALSE, person |-> client[c].row]
  <2>1. /\ client[c].step = "insert" /\ Done(c)
        /\ minted' = minted + 1
        /\ token' = [k \in DOMAIN token \cup {minted + 1} |-> IF k = minted + 1 THEN new ELSE token[k]]
        /\ UNCHANGED <<user, accounts, session, secretFile, server, starts, people>>
    BY <1>5 DEF CreateAPIToken, Extended
  <2>2. /\ new \in TokenRow
        /\ IsPerson(new.user, new.person)
    BY <2>1 DEF AccessTypeOK, ClientRow, TokenRow, EvidenceHolds
  <2> HIDE DEF new
  <2>3. UsersTypeOK'
    BY <2>1, <2>2 DEF UsersTypeOK, Users
  <2>4. AccessTypeOK'
    BY <2>1, NoClientIsARow DEF AccessTypeOK
  <2>5. EvidenceHolds'
    BY <2>1, <2>2, NoClientIsARow DEF EvidenceHolds, IsPerson, IsPassword, Users, AccessTypeOK
  <2>6. SecretIsPersisted'
    BY <2>1, NoClientIsARow DEF SecretIsPersisted
  <2>7. QED
    BY <2>3, <2>4, <2>5, <2>6
<1>6. QED
  BY <1>1, <1>2, <1>3, <1>4, <1>5

LEMMA AccountsInvHolds == AccountsSpec => []AccountsInv
<1>1. AccountsInit => AccountsInv
  BY DEF AccountsInit, AccountsInv, UsersTypeOK, AccessTypeOK, EvidenceHolds, SecretIsPersisted, Users,
         NoClient, ClientRow, Absent, EmptySecret
<1>2. AccountsInv /\ [AccountsNext]_accountVars => AccountsInv'
  <2> SUFFICES ASSUME AccountsInv, [AccountsNext]_accountVars
               PROVE  AccountsInv'
    OBVIOUS
  <2>1. ASSUME SetupDefaultAdmin \/ ReadJWTSecret \/ CreateSecretFile \/ ServerEnds
               \/ \E fails \in BOOLEAN : WriteSecret(fails)
        PROVE  AccountsInv'
    BY <2>1, ServerStep
  <2>2. ASSUME ResetRootPassword
        PROVE  AccountsInv'
    <3>1. UsersTypeOK' /\ RowsLast /\ TokensLast
      BY <2>2, CreateUserRows, UpdateUserPasswordRows DEF ResetRootPassword, AccountsInv, Passwords
    <3>2. QED
      BY <2>2, <3>1, OperationStep DEF ResetRootPassword
  <2>3. ASSUME NEW c \in Clients, NEW name \in UserNames, NEW role \in Roles, ServeCreate(c, name, role)
        PROVE  AccountsInv'
    BY <2>3, CreateUserRows, OperationStep DEF ServeCreate, Serves, AccountsInv, Passwords
  <2>4. ASSUME NEW c \in Clients, NEW u \in Users, NEW role \in Roles, ServeRole(c, u, role)
        PROVE  AccountsInv'
    BY <2>4, UpdateUserRoleRows, OperationStep DEF ServeRole, Serves, AccountsInv
  <2>5. ASSUME NEW c \in Clients, NEW u \in Users, ServeDelete(c, u)
        PROVE  AccountsInv'
    BY <2>5, DeleteUserRows, RowsUnchanged, OperationStep DEF ServeDelete, Serves, AccountsInv
  <2>6. ASSUME NEW c \in Clients, NEW u \in Users, NEW password \in Passwords, ServePassword(c, u, password)
        PROVE  AccountsInv'
    BY <2>6, UpdateUserPasswordRows, OperationStep DEF ServePassword, Serves, AccountsInv
  <2>7. ASSUME NEW c \in Clients, NEW t \in DOMAIN token, ServeRevoke(c, t)
        PROVE  AccountsInv'
    <3>1. token' = [k \in DOMAIN token \ {t} |-> token[k]] \/ token' = token
      BY <2>7 DEF ServeRevoke, Restricted
    <3>2. UsersTypeOK' /\ RowsLast /\ TokensLast
      BY <2>7, <3>1 DEF ServeRevoke, AccountsInv, UsersTypeOK, RowsLast, TokensLast, Users
    <3>3. QED
      BY <2>7, <3>2, OperationStep DEF ServeRevoke, Serves
  <2>8. ASSUME NEW t \in DOMAIN token, TokenExpires(t)
        PROVE  AccountsInv'
    <3>1. /\ token' = [token EXCEPT ![t].expired = TRUE]
          /\ UNCHANGED <<user, accounts, session, secretFile, server, starts, client, minted, people>>
      BY <2>8 DEF TokenExpires
    <3>2. [token[t] EXCEPT !.expired = TRUE] \in TokenRow
      BY DEF AccountsInv, UsersTypeOK, TokenRow
    <3>3. UsersTypeOK' /\ RowsLast /\ TokensLast
      BY <3>1, <3>2 DEF AccountsInv, UsersTypeOK, RowsLast, TokensLast, Users, TokenRow
    <3>4. QED
      BY <3>1, <3>3, OperationStep
  <2>9. ASSUME UNCHANGED accountVars
        PROVE  AccountsInv'
    BY <2>9, RowsUnchanged, OperationStep DEF accountVars, rows, AccountsInv
  <2>10. QED
    BY <2>1, <2>2, <2>3, <2>4, <2>5, <2>6, <2>7, <2>8, <2>9, RequestStep DEF AccountsNext
<1>3. QED
  BY <1>1, <1>2, PTL DEF AccountsSpec

\* A token that is gone was its owner's to revoke, or went with the account.
LEMMA TokensGoByTheirOwners ==
  ASSUME [AccountsNext]_accountVars, NEW t \in DOMAIN token, t \notin DOMAIN token', token[t].user \in DOMAIN user'
  PROVE  \E c \in Clients : client[c].op = "revoke" /\ client[c].by = token[t].user
<1>1. PICK c \in Clients, k \in DOMAIN token : ServeRevoke(c, k)
  <2>1. token' # token
    OBVIOUS
  <2>2. ~ UNCHANGED rows /\ ~ UNCHANGED accountVars
    BY <2>1 DEF rows, accountVars
  <2>3. \A name, role, password : ~ CreateUser(name, role, password)
    BY <2>1 DEF CreateUser, rows
  <2>4. \A u : ~ DeleteUser(u)
    BY DEF DeleteUser, Restricted, Users
  <2>5. \A u, p : ~ UpdateUserPassword(u, p) /\ ~ UpdateUserRole(u, p)
    BY <2>1 DEF UpdateUserPassword, UpdateUserRole
  <2>6. \A c \in Clients : ~ CreateAPIToken(c)
    BY DEF CreateAPIToken, Extended
  <2>7. \A k : ~ TokenExpires(k)
    BY DEF TokenExpires
  <2>8. QED
    BY <2>1, <2>2, <2>3, <2>4, <2>5, <2>6, <2>7 DEF AccountsNext, SetupDefaultAdmin, ReadJWTSecret, CreateSecretFile,
       WriteSecret, ServerEnds, ResetRootPassword, LoginReads, LoginSigns, Authenticate, ServeCreate, ServeRole,
       ServeDelete, ServePassword, MintReads
<1>2. DeleteAPITokenForUser(c, k) /\ k = t
  BY <1>1 DEF ServeRevoke, Restricted
<1>3. QED
  BY <1>1, <1>2 DEF ServeRevoke, Serves, DeleteAPITokenForUser

\* Access is current, for any number of accounts, requests, restarts and tokens.
THEOREM AccessIsCurrentHolds == AccountsSpec => AccessIsCurrent
<1>1. AccountsInv => OldPasswordIsOut
  BY DEF AccountsInv, EvidenceHolds, OldPasswordIsOut, SessionAccepted, IsPassword
<1>2. AccountsInv => GoneIsOut
  BY DEF AccountsInv, EvidenceHolds, GoneIsOut, SessionAccepted, TokenAccepted, IsPerson
<1>3. AccountsInv => SecretIsKept
  BY DEF AccountsInv, SecretIsPersisted, SecretIsKept, Running
<1>4. [AccountsNext]_accountVars =>
        [\A t \in DOMAIN token :
           (t \notin DOMAIN token' /\ token[t].user \in DOMAIN user') =>
              \E c \in Clients : client[c].op = "revoke" /\ client[c].by = token[t].user]_accountVars
  BY TokensGoByTheirOwners
<1>5. QED
  BY <1>1, <1>2, <1>3, <1>4, AccountsInvHolds, PTL DEF AccountsSpec, AccessIsCurrent, TokensAreTheirOwners

-----------------------------------------------------------------------------
(***************************************************************************)
(* Notifications.  The built-in channel keeps its row: nobody can take its *)
(* name, and the editor of a request for it was refused unless the request *)
(* leaves it as it is.  A delivery has at most one row, and its step says  *)
(* what the channel answered.                                              *)
(***************************************************************************)
BuiltIn == [name |-> Default, type |-> "web", enabled |-> TRUE, statuses |-> {}]
Harmless(e) == e.op = "update" /\ e.name = Default /\ e.type = "web" /\ e.enabled = TRUE

ChannelInv ==
    /\ channels \in Nat /\ Channels \subseteq 1..channels
    /\ 1 \in Channels /\ channel[1] = BuiltIn
    /\ DOMAIN channelEditor = ChannelEditors
    /\ \A e \in ChannelEditors : channelEditor[e].id = 1 => Harmless(channelEditor[e])

Answered == {"accepted", "refused", "recorded"}
EventsOf(s, c) == {i \in DOMAIN event : event[i].send = s /\ event[i].channel = c}

DeliveryOK(s, c, d) ==
    /\ DOMAIN d = {"step", "type", "event"}
    /\ d.step \in {"insert", "unrecorded", "call"} \cup Answered
    /\ d.step \in {"insert", "unrecorded"} => EventsOf(s, c) = {} /\ <<s, c>> \notin called
    /\ d.step \in {"call"} \cup Answered => EventsOf(s, c) = {d.event}
    /\ d.step = "call" => <<s, c>> \notin called
    /\ d.step = "accepted" => <<s, c>> \in called
    /\ d.step = "refused" => <<s, c>> \notin called
    /\ d.step = "recorded" => event[d.event].status = IF <<s, c>> \in called THEN "delivered" ELSE "failed"

SendOK(s) ==
    /\ DOMAIN send[s] = {"step", "delivery"}
    /\ send[s].step \in {"idle", "waiting", "returned", "lost"}
    /\ send[s].step = "idle" => DOMAIN send[s].delivery = {}
    /\ send[s].step = "returned" => AllDelivered(s)
    /\ \A c \in DOMAIN send[s].delivery : DeliveryOK(s, c, send[s].delivery[c])

EventInv ==
    /\ DOMAIN send = Sends
    /\ \E n \in Nat : DOMAIN event = 1..n
    /\ \A i \in DOMAIN event :
          /\ DOMAIN event[i] = {"channel", "send", "status"}
          /\ event[i].send \in Sends /\ event[i].channel \in DOMAIN send[event[i].send].delivery
    /\ \A s, c : <<s, c>> \in called => s \in Sends /\ c \in DOMAIN send[s].delivery
    /\ \A s \in Sends : SendOK(s)

FeedInv == mark \in Nat /\ seen \in [Browsers -> Nat]

NoticeInv == ChannelInv /\ EventInv /\ FeedInv

-----------------------------------------------------------------------------
\* Steps that are about channels only, or about the feed only.
LEMMA EventFrame ==
  ASSUME EventInv, UNCHANGED delivering
  PROVE  EventInv'
<1>1. event' = event /\ send' = send /\ called' = called
  BY DEF delivering
<1>2. \A s \in Sends : SendOK(s)'
  <2>1. \A s, c, d : DeliveryOK(s, c, d)' <=> DeliveryOK(s, c, d)
    <3>1. \A s, c : EventsOf(s, c)' = EventsOf(s, c)
      BY <1>1 DEF EventsOf
    <3> QED BY <1>1, <3>1 DEF DeliveryOK
  <2>2. \A s : AllDelivered(s)' <=> AllDelivered(s)
    BY <1>1, Zenon DEF AllDelivered
  <2> QED BY <1>1, <2>1, <2>2, Zenon DEF SendOK, EventInv
<1> QED BY <1>1, <1>2, Zenon DEF EventInv

LEMMA ChannelFrame ==
  ASSUME ChannelInv, UNCHANGED editing
  PROVE  ChannelInv'
BY DEF ChannelInv, editing, Channels

\* Every handler of a channel keeps the built-in one.
LEMMA ChannelStep ==
  ASSUME ChannelInv,
         \/ \E statuses \in Conditions, enabled \in BOOLEAN : CreateNotificationChannel("team", statuses, enabled)
         \/ \E e \in ChannelEditors : (\E asks \in Requests : GetNotificationChannel(e, asks)) \/ WriteChannel(e)
         \/ Crash
  PROVE  ChannelInv'
<1>1. ASSUME NEW statuses, NEW enabled, CreateNotificationChannel("team", statuses, enabled)
      PROVE  ChannelInv'
  BY <1>1 DEF CreateNotificationChannel, ChannelInv, Channels
<1>2. ASSUME NEW e \in ChannelEditors, NEW asks \in Requests, GetNotificationChannel(e, asks)
      PROVE  ChannelInv'
  <2>1. UNCHANGED <<channel, channels>>
    BY <1>2 DEF GetNotificationChannel
  <2>2. asks.id = 1 /\ ~Required(asks.id, asks) => Harmless(asks)
    <3>1. asks.op = "update" \/ asks.op = "delete"
      BY DEF Requests
    <3>2. channel[1].name = Default /\ channel[1].type = "web"
      BY DEF ChannelInv, BuiltIn
    <3>3. asks.op = "update" => asks.enabled = TRUE \/ ~asks.enabled
      BY DEF Requests
    <3> QED BY <3>1, <3>2, <3>3, Zenon DEF Required, Harmless
  <2>3. channelEditor' = channelEditor \/ (channelEditor' = [channelEditor EXCEPT ![e] = asks] /\ ~Required(asks.id, asks))
    BY <1>2 DEF GetNotificationChannel
  <2> QED BY <2>1, <2>2, <2>3 DEF ChannelInv, Channels
<1>3. ASSUME NEW e \in ChannelEditors, WriteChannel(e)
      PROVE  ChannelInv'
  <2> DEFINE asks == channelEditor[e]
             written == [name |-> asks.name, type |-> asks.type,
                         enabled |-> asks.enabled, statuses |-> channel[asks.id].statuses]
  <2>1. /\ UNCHANGED channels
        /\ channelEditor' = [channelEditor EXCEPT ![e] = NoEditor]
        /\ \/ channel' = channel
           \/ asks.op = "delete" /\ channel' = [c \in Channels \ {asks.id} |-> channel[c]]
           \/ channel' = [channel EXCEPT ![asks.id] = written]
    BY <1>3 DEF WriteChannel
  <2>2. asks.id = 1 => written = BuiltIn /\ asks.op = "update"
    <3>1. channel[1].statuses = {}
      BY DEF ChannelInv, BuiltIn
    <3>2. asks.id = 1 => /\ asks.op = "update" /\ asks.name = Default /\ asks.type = "web"
                            /\ asks.enabled = TRUE
      BY Zenon DEF ChannelInv, Harmless
    <3> QED BY <3>1, <3>2, Zenon DEF BuiltIn
  <2>3. NoEditor.id # 1
    BY DEF NoEditor
  <2> QED BY <2>1, <2>2, <2>3 DEF ChannelInv, Channels
<1>4. ASSUME Crash
      PROVE  ChannelInv'
  <2>1. /\ UNCHANGED channels
        /\ channelEditor' = [e \in ChannelEditors |-> NoEditor]
        /\ channel' = [c \in Channels |->
              IF channel[c].name # Default THEN channel[c]
              ELSE [name |-> Default, type |-> "web", enabled |-> TRUE, statuses |-> channel[c].statuses]]
    BY <1>4 DEF Crash
  <2>2. channel[1].name = Default /\ channel[1].statuses = {} /\ NoEditor.id # 1
    BY DEF BuiltIn, NoEditor, ChannelInv
  <2>3. channel'[1] = BuiltIn
    BY <2>1, <2>2 DEF ChannelInv, BuiltIn
  <2> QED BY <2>1, <2>2, <2>3 DEF ChannelInv, Channels
<1> QED BY <1>1, <1>2, <1>3, <1>4

\* Lists of deliveries, and what a step of one of them changes.
LEMMA SendStep ==
  ASSUME EventInv, NEW s \in Sends, SendBuildEvent(s) \/ SendReturns(s)
  PROVE  EventInv'
<1>1. CASE SendBuildEvent(s)
  <2>1. PICK targets :
           /\ send[s].step = "idle"
           /\ send' = [send EXCEPT ![s] =
                [step |-> "waiting",
                 delivery |-> [c \in targets |-> [step |-> "insert", type |-> channel[c].type, event |-> 0]]]]
           /\ UNCHANGED <<event, called>>
    BY <1>1 DEF SendBuildEvent
  <2>2. \A c : EventsOf(s, c) = {} /\ <<s, c>> \notin called
    BY <2>1 DEF EventInv, SendOK, EventsOf
  <2>3. SendOK(s)'
    <3>1. \A c \in targets : \A t : DeliveryOK(s, c, [step |-> "insert", type |-> t, event |-> 0])'
      BY <2>1, <2>2 DEF DeliveryOK, Answered, EventsOf
    <3>2. send'[s] = [step |-> "waiting",
                 delivery |-> [c \in targets |-> [step |-> "insert", type |-> channel[c].type, event |-> 0]]]
      BY <2>1 DEF EventInv
    <3>3. DOMAIN send'[s].delivery = targets /\ DOMAIN send'[s] = {"step", "delivery"} /\ send'[s].step = "waiting"
      BY <3>2
    <3>4. \A c \in targets : send'[s].delivery[c] = [step |-> "insert", type |-> channel[c].type, event |-> 0]
      BY <3>2
    <3> QED BY <3>1, <3>3, <3>4 DEF SendOK
  <2>4. \A t \in Sends \ {s} : SendOK(t)'
    BY <2>1 DEF EventInv, SendOK, DeliveryOK, EventsOf, AllDelivered
  <2>5. \A i \in DOMAIN event : event[i].send # s
    BY <2>1 DEF EventInv, SendOK
  <2>6. \A c : <<s, c>> \notin called
    BY <2>2
  <2> QED BY <2>1, <2>3, <2>4, <2>5, <2>6 DEF EventInv
<1>2. CASE SendReturns(s)
  <2>1. /\ send' = [send EXCEPT ![s].step = "returned"] /\ AllDelivered(s)
        /\ UNCHANGED <<event, called>>
    BY <1>2 DEF SendReturns
  <2>2. /\ DOMAIN send' = Sends
        /\ \A t \in Sends : DOMAIN send'[t] = {"step", "delivery"} /\ send'[t].delivery = send[t].delivery
        /\ send'[s].step = "returned"
        /\ \A t \in Sends \ {s} : send'[t] = send[t]
    BY <2>1 DEF EventInv, SendOK
  <2>3. \A t \in Sends : SendOK(t)'
    BY <2>1, <2>2 DEF EventInv, SendOK, DeliveryOK, EventsOf, AllDelivered
  <2> QED BY <2>1, <2>2, <2>3 DEF EventInv
<1> QED BY <1>1, <1>2

\* One delivery of a call that waits moves; the others, and what they wrote, stay.
Moves(s, c, d) ==
    /\ DOMAIN send' = Sends
    /\ \A t \in Sends : /\ DOMAIN send'[t] = {"step", "delivery"}
                        /\ send'[t].step = send[t].step
                        /\ DOMAIN send'[t].delivery = DOMAIN send[t].delivery
    /\ send'[s].delivery[c] = d
    /\ \A t \in Sends : \A k \in DOMAIN send[t].delivery :
          <<t, k>> # <<s, c>> => send'[t].delivery[k] = send[t].delivery[k]

LEMMA DeliveryMoves ==
  ASSUME EventInv, NEW s \in Sends, NEW c \in DOMAIN send[s].delivery, NEW d,
         send' = [send EXCEPT ![s].delivery[c] = d]
  PROVE  Moves(s, c, d)
BY DEF EventInv, SendOK, Moves

LEMMA DeliveryStep ==
  ASSUME EventInv, NEW s \in Sends, NEW c \in DOMAIN send[s].delivery, NEW d,
         send[s].step = "waiting",
         send' = [send EXCEPT ![s].delivery[c] = d],
         DeliveryOK(s, c, d)',
         \E n \in Nat : DOMAIN event' = 1..n,
         \A i \in DOMAIN event : i \in DOMAIN event' /\ (event'[i] = event[i] \/ i \in EventsOf(s, c)),
         \A i \in DOMAIN event' : /\ DOMAIN event'[i] = {"channel", "send", "status"}
                                  /\ i \in DOMAIN event => event'[i].send = event[i].send
                                                           /\ event'[i].channel = event[i].channel
                                  /\ i \notin DOMAIN event => event'[i].send = s /\ event'[i].channel = c,
         \A t, k : <<t, k>> # <<s, c>> => (<<t, k>> \in called' <=> <<t, k>> \in called),
         \A p : p \in called' \ called => p = <<s, c>>
  PROVE  EventInv'
<1>1. Moves(s, c, d)
  BY DeliveryMoves
<1> USE DEF Moves
<1> USE DEF EventInv
<1>2. \A i \in DOMAIN event' : event'[i].send \in Sends /\ event'[i].channel \in DOMAIN send'[event'[i].send].delivery
  BY <1>1
<1>3. \A t, k : <<t, k>> \in called' => t \in Sends /\ k \in DOMAIN send'[t].delivery
  BY <1>1
<1>4. \A t \in Sends : \A k \in DOMAIN send[t].delivery :
         <<t, k>> # <<s, c>> => DeliveryOK(t, k, send[t].delivery[k])'
  BY DEF SendOK, DeliveryOK, EventsOf
<1>5. \A t \in Sends : SendOK(t)'
  <2> TAKE t \in Sends
  <2>1. send'[t].step # "idle" \/ DOMAIN send'[t].delivery = {}
    BY <1>1 DEF SendOK
  <2>2. send'[t].step = "returned" => AllDelivered(t)'
    BY <1>1 DEF SendOK, AllDelivered
  <2>3. \A k \in DOMAIN send'[t].delivery : DeliveryOK(t, k, send[t].delivery[k])'
    BY <1>1, <1>4
  <2> QED BY <1>1, <2>1, <2>2, <2>3 DEF SendOK
<1> QED BY <1>1, <1>2, <1>3, <1>5

\* The step of a delivery is followed by what it did to its row and to the channel.
LEMMA CreateEventStep ==
  ASSUME EventInv, NEW s \in Sends, NEW c, NEW fails \in BOOLEAN, CreateNotificationEvent(s, c, fails)
  PROVE  EventInv'
<1>a. PICK id : id = Cardinality(DOMAIN event) + 1
  OBVIOUS
<1>b. PICK d : d = [step |-> IF fails THEN "unrecorded" ELSE "call", type |-> send[s].delivery[c].type,
                    event |-> IF fails THEN 0 ELSE id]
  OBVIOUS
<1>1. /\ c \in DOMAIN send[s].delivery /\ send[s].step = "waiting"
      /\ send[s].delivery[c].step = "insert"
      /\ event' = IF fails THEN event
            ELSE [i \in DOMAIN event \cup {id} |->
                    IF i = id THEN [channel |-> c, send |-> s, status |-> "pending"] ELSE event[i]]
      /\ send' = [send EXCEPT ![s].delivery[c] = d]
      /\ called' = called
  BY <1>a, <1>b DEF CreateNotificationEvent, Delivering
<1>2. PICK n \in Nat : DOMAIN event = 1..n /\ id = n + 1
  <2>1. PICK n \in Nat : DOMAIN event = 1..n
    BY DEF EventInv
  <2>2. Cardinality(1..n) = n
    BY FS_Interval
  <2> QED BY <1>a, <2>1, <2>2
<1>3. \E m \in Nat : DOMAIN event' = 1..m
  <2>1. CASE fails
    BY <1>1, <1>2, <2>1
  <2>2. CASE ~fails
    <3>1. DOMAIN event' = (1..n) \cup {n + 1}
      BY <1>1, <1>2, <2>2
    <3>2. DOMAIN event' = 1..(n + 1)
      BY <3>1
    <3> QED BY <3>2
  <2> QED BY <2>1, <2>2
<1>4. id \notin DOMAIN event
  BY <1>2
<1>5. EventsOf(s, c) = {} /\ <<s, c>> \notin called
  BY <1>1 DEF EventInv, SendOK, DeliveryOK
<1>6. DeliveryOK(s, c, d)'
  <2>1. CASE fails
    BY <1>1, <1>5, <1>b, <2>1 DEF DeliveryOK, EventsOf, Answered
  <2>2. CASE ~fails
    <3>1. EventsOf(s, c)' = {id}
      BY <1>1, <1>4, <1>5, <2>2 DEF EventsOf
    <3> QED BY <1>1, <1>5, <1>b, <2>2, <3>1 DEF DeliveryOK, Answered
  <2> QED BY <2>1, <2>2
<1>7. \A i \in DOMAIN event : i \in DOMAIN event' /\ event'[i] = event[i]
  BY <1>1, <1>4
<1>8. \A i \in DOMAIN event' : /\ DOMAIN event'[i] = {"channel", "send", "status"}
                               /\ i \in DOMAIN event => event'[i].send = event[i].send
                                                        /\ event'[i].channel = event[i].channel
                               /\ i \notin DOMAIN event => event'[i].send = s /\ event'[i].channel = c
  BY <1>1, <1>4 DEF EventInv
<1>9. \A i \in DOMAIN event : i \in DOMAIN event' /\ (event'[i] = event[i] \/ i \in EventsOf(s, c))
  BY <1>7
<1>10. /\ \A t, k : <<t, k>> # <<s, c>> => (<<t, k>> \in called' <=> <<t, k>> \in called)
       /\ \A p : p \in called' \ called => p = <<s, c>>
  BY <1>1
<1>11. c \in DOMAIN send[s].delivery /\ send[s].step = "waiting" /\ send' = [send EXCEPT ![s].delivery[c] = d]
  BY <1>1
<1> QED BY ONLY EventInv, s \in Sends, <1>3, <1>6, <1>8, <1>9, <1>10, <1>11, DeliveryStep

LEMMA CallStep ==
  ASSUME EventInv, NEW s \in Sends, NEW c, NEW accepted \in BOOLEAN, CallChannel(s, c, accepted)
  PROVE  EventInv'
<1>a. PICK was : was = send[s].delivery[c]
  OBVIOUS
<1>b. PICK d : d = [was EXCEPT !.step = IF accepted THEN "accepted" ELSE "refused"]
  OBVIOUS
<1>1. /\ c \in DOMAIN send[s].delivery /\ send[s].step = "waiting" /\ was.step = "call"
      /\ called' = IF accepted THEN called \cup {<<s, c>>} ELSE called
      /\ send' = [send EXCEPT ![s].delivery[c] = d]
      /\ event' = event
  BY <1>a, <1>b DEF CallChannel, Delivering, delivering
<1>2. DeliveryOK(s, c, was)
  BY <1>1, <1>a DEF EventInv, SendOK
<1>3. DOMAIN d = {"step", "type", "event"} /\ d.event = was.event
      /\ d.step = IF accepted THEN "accepted" ELSE "refused"
  BY <1>2, <1>b DEF DeliveryOK
<1>4. DeliveryOK(s, c, d)'
  <2>1. EventsOf(s, c)' = {d.event}
    BY <1>1, <1>2, <1>3 DEF DeliveryOK, EventsOf
  <2> QED BY <1>1, <1>2, <1>3, <2>1 DEF DeliveryOK, Answered
<1> QED BY <1>1, <1>4, DeliveryStep DEF EventInv

LEMMA RecordStep ==
  ASSUME EventInv, NEW s \in Sends, NEW c, UpdateNotificationEventStatus(s, c)
  PROVE  EventInv'
<1>a. PICK was : was = send[s].delivery[c]
  OBVIOUS
<1>b. PICK d : d = [was EXCEPT !.step = "recorded"]
  OBVIOUS
<1>1. /\ c \in DOMAIN send[s].delivery /\ send[s].step = "waiting" /\ was.step \in {"accepted", "refused"}
      /\ event' = [event EXCEPT ![was.event].status = IF was.step = "accepted" THEN "delivered" ELSE "failed"]
      /\ send' = [send EXCEPT ![s].delivery[c] = d]
      /\ called' = called
  BY <1>a, <1>b DEF UpdateNotificationEventStatus, Delivering
<1>2. DeliveryOK(s, c, was)
  BY <1>1, <1>a DEF EventInv, SendOK
<1>3. DOMAIN d = {"step", "type", "event"} /\ d.event = was.event /\ d.step = "recorded"
  BY <1>2, <1>b DEF DeliveryOK
<1>4. was.event \in DOMAIN event /\ EventsOf(s, c) = {was.event}
  BY <1>1, <1>2 DEF DeliveryOK, EventsOf, Answered
<1>5. /\ DOMAIN event' = DOMAIN event
      /\ \A i \in DOMAIN event : i # was.event => event'[i] = event[i]
      /\ \A i \in DOMAIN event : /\ DOMAIN event'[i] = {"channel", "send", "status"}
                                /\ event'[i].send = event[i].send /\ event'[i].channel = event[i].channel
      /\ event'[was.event].status = IF was.step = "accepted" THEN "delivered" ELSE "failed"
  BY <1>1, <1>4 DEF EventInv
<1>6. DeliveryOK(s, c, d)'
  <2>1. EventsOf(s, c)' = {d.event}
    BY <1>3, <1>4, <1>5 DEF EventsOf
  <2> QED BY <1>1, <1>2, <1>3, <1>5, <2>1 DEF DeliveryOK, Answered
<1>7. \A i \in DOMAIN event : event'[i] = event[i] \/ i \in EventsOf(s, c)
  BY <1>4, <1>5
<1>8. \E n \in Nat : DOMAIN event' = 1..n
  BY <1>5 DEF EventInv
<1> QED BY <1>1, <1>5, <1>6, <1>7, <1>8, DeliveryStep

\* A restart leaves the deliveries where they are, and nobody waits for them any more.
LEMMA CrashStep ==
  ASSUME EventInv, Crash
  PROVE  EventInv'
<1>1. /\ send' = [s \in Sends |-> IF send[s].step = "waiting" THEN [send[s] EXCEPT !.step = "lost"] ELSE send[s]]
      /\ event' = event /\ called' = called
  BY DEF Crash
<1>2. \A s \in Sends : /\ DOMAIN send'[s] = {"step", "delivery"}
                       /\ send'[s].delivery = send[s].delivery
                       /\ send'[s].step = IF send[s].step = "waiting" THEN "lost" ELSE send[s].step
  BY <1>1 DEF EventInv, SendOK
<1>3. \A s \in Sends : SendOK(s)'
  BY <1>1, <1>2 DEF EventInv, SendOK, DeliveryOK, EventsOf, AllDelivered
<1>4. \A s \in Sends : DOMAIN send'[s].delivery = DOMAIN send[s].delivery
  BY <1>2
<1>6. \A i \in DOMAIN event' : /\ DOMAIN event'[i] = {"channel", "send", "status"}
                               /\ event'[i].send \in Sends
                               /\ event'[i].channel \in DOMAIN send'[event'[i].send].delivery
  <2>1. SUFFICES ASSUME NEW i \in DOMAIN event
                 PROVE  /\ DOMAIN event[i] = {"channel", "send", "status"}
                        /\ event[i].send \in Sends
                        /\ event[i].channel \in DOMAIN send'[event[i].send].delivery
    BY <1>1
  <2>2. /\ DOMAIN event[i] = {"channel", "send", "status"}
        /\ event[i].send \in Sends /\ event[i].channel \in DOMAIN send[event[i].send].delivery
    BY DEF EventInv
  <2> QED BY <1>4, <2>2
<1>7. \A s, c : <<s, c>> \in called' => s \in Sends /\ c \in DOMAIN send'[s].delivery
  BY <1>1, <1>4 DEF EventInv
<1>5. DOMAIN send' = Sends /\ \E n \in Nat : DOMAIN event' = 1..n
  BY <1>1 DEF EventInv
<1> QED BY <1>3, <1>5, <1>6, <1>7 DEF EventInv

LEMMA FeedStep ==
  ASSUME EventInv, FeedInv, NEW b \in Browsers, GetInAppNotificationFeed(b) \/ MarkInAppNotificationsRead(b)
  PROVE  FeedInv' /\ mark' >= mark
<1>1. CASE GetInAppNotificationFeed(b)
  <2>1. PICK n \in Nat : DOMAIN event = 1..n
    BY DEF EventInv
  <2>2. \E i \in Feed : \A j \in Feed : j <= i
    BY <1>1, <2>1, GreatestNatural DEF GetInAppNotificationFeed, Feed
  <2>3. (CHOOSE i \in Feed : \A j \in Feed : j <= i) \in Nat
    BY <2>1, <2>2 DEF Feed
  <2> QED BY <1>1, <2>3 DEF GetInAppNotificationFeed, FeedInv
<1>2. CASE MarkInAppNotificationsRead(b)
  BY <1>2 DEF MarkInAppNotificationsRead, FeedInv, Later
<1> QED BY <1>1, <1>2

LEMMA NoticeStep ==
  ASSUME NoticeInv, [NoticeNext]_noticeVars
  PROVE  NoticeInv' /\ mark' >= mark
<1> USE DEF NoticeInv
<1>1. ASSUME UNCHANGED reading PROVE FeedInv' /\ mark' >= mark
  BY <1>1 DEF reading, FeedInv
<1>2. CASE \/ \E statuses \in Conditions, enabled \in BOOLEAN : CreateNotificationChannel("team", statuses, enabled)
           \/ \E e \in ChannelEditors : (\E asks \in Requests : GetNotificationChannel(e, asks)) \/ WriteChannel(e)
  <2>1. UNCHANGED <<delivering, reading>>
    BY <1>2 DEF CreateNotificationChannel, GetNotificationChannel, WriteChannel
  <2> QED BY <1>1, <1>2, <2>1, ChannelStep, EventFrame
<1>3. ASSUME NEW s \in Sends, SendBuildEvent(s) \/ SendReturns(s)
      PROVE  NoticeInv' /\ mark' >= mark
  <2>1. UNCHANGED <<editing, reading>>
    BY <1>3 DEF SendBuildEvent, SendReturns
  <2> QED BY <1>1, <1>3, <2>1, ChannelFrame, SendStep
<1>4. ASSUME NEW s \in Sends, NEW c,
             \/ \E fails \in BOOLEAN : CreateNotificationEvent(s, c, fails)
             \/ \E accepted \in BOOLEAN : CallChannel(s, c, accepted)
             \/ UpdateNotificationEventStatus(s, c)
      PROVE  NoticeInv' /\ mark' >= mark
  <2>1. UNCHANGED <<editing, reading>>
    BY <1>4 DEF CreateNotificationEvent, CallChannel, UpdateNotificationEventStatus
  <2>2. EventInv'
    BY <1>4, CreateEventStep, CallStep, RecordStep
  <2> QED BY <1>1, <2>1, <2>2, ChannelFrame
<1>5. CASE Crash
  <2>1. UNCHANGED reading
    BY <1>5 DEF Crash
  <2> QED BY <1>1, <1>5, <2>1, ChannelStep, CrashStep
<1>6. ASSUME NEW b \in Browsers, GetInAppNotificationFeed(b) \/ MarkInAppNotificationsRead(b)
      PROVE  NoticeInv' /\ mark' >= mark
  <2>1. UNCHANGED <<editing, delivering>>
    BY <1>6 DEF GetInAppNotificationFeed, MarkInAppNotificationsRead
  <2> QED BY <1>6, <2>1, ChannelFrame, EventFrame, FeedStep
<1>7. CASE UNCHANGED noticeVars
  <2>1. UNCHANGED <<editing, delivering, reading>>
    BY <1>7 DEF noticeVars, editing, delivering, reading
  <2> QED BY <1>1, <2>1, ChannelFrame, EventFrame
<1> QED BY <1>2, <1>3, <1>4, <1>5, <1>6, <1>7, Zenon DEF NoticeNext

\* Notices reach their channels, are on record, and stay read, for any number of calls,
\* channels, editors, tabs and restarts.
THEOREM NoticesAreKeptHolds == NoticeSpec => NoticesAreKept
<1>1. NoticeInit => NoticeInv
  <2>1. ASSUME NoticeInit PROVE ChannelInv
    <3>1. DOMAIN channel = {1} /\ channel[1] = BuiltIn /\ channels = 1
      BY <2>1 DEF NoticeInit, BuiltIn
    <3>2. DOMAIN channelEditor = ChannelEditors /\ \A e \in ChannelEditors : channelEditor[e].id # 1
      <4>1. NoEditor.id # 1
        BY DEF NoEditor
      <4> QED BY <2>1, <4>1 DEF NoticeInit
    <3> QED BY <3>1, <3>2 DEF ChannelInv, Channels
  <2>2. ASSUME NoticeInit PROVE EventInv
    <3>1. DOMAIN event = 1..0
      BY <2>2 DEF NoticeInit
    <3> QED BY <2>2, <3>1 DEF NoticeInit, EventInv, SendOK, Idle
  <2>3. ASSUME NoticeInit PROVE FeedInv
    BY <2>3 DEF NoticeInit, FeedInv
  <2> QED BY <2>1, <2>2, <2>3 DEF NoticeInv
<1>2. NoticeInv /\ [NoticeNext]_noticeVars => NoticeInv'
  BY NoticeStep
<1>3. NoticeInv => DefaultIsThere
  BY DEF NoticeInv, ChannelInv, DefaultIsThere, BuiltIn
<1>4. NoticeInv => OutcomesAreRecorded
  <2> SUFFICES ASSUME NoticeInv, NEW s \in Sends, send[s].step = "returned", NEW c \in DOMAIN send[s].delivery
               PROVE  IF send[s].delivery[c].step = "unrecorded" THEN EventsOf(s, c) = {} /\ <<s, c>> \notin called
                      ELSE /\ Cardinality(EventsOf(s, c)) = 1
                           /\ \A i \in EventsOf(s, c) :
                                 event[i].status = IF <<s, c>> \in called THEN "delivered" ELSE "failed"
    BY Zenon DEF OutcomesAreRecorded, EventsOf, NoticeInv, EventInv
  <2>1. DeliveryOK(s, c, send[s].delivery[c]) /\ send[s].delivery[c].step \in {"recorded", "unrecorded"}
    BY DEF NoticeInv, EventInv, SendOK, AllDelivered
  <2>2. \A x : Cardinality({x}) = 1
    BY FS_Singleton
  <2> QED BY <2>1, <2>2 DEF DeliveryOK, Answered
<1>5. NoticeInv /\ [NoticeNext]_noticeVars => [mark' >= mark]_noticeVars
  BY NoticeStep
<1> QED BY <1>1, <1>2, <1>3, <1>4, <1>5, PTL DEF NoticeSpec, NoticesAreKept, ReadStaysRead

-----------------------------------------------------------------------------
(***************************************************************************)
(* Settings.  No value of the retention that a row, a request past its     *)
(* write or the sweep holds is below the shortest there ever was; and a    *)
(* request reloads what it has written last.                               *)
(***************************************************************************)
RowFields == {"status", "started", "finished", "pinned", "log", "age"}

RequestOK(r) ==
    /\ DOMAIN r = {"step", "todo", "values", "answer"}
    /\ r.step \in {"ready", "write", "reload", "configure"}
    /\ r.step = "write" =>
          /\ \A n \in DOMAIN r.values : r.values[n] \in Numbers
          /\ Retention \in DOMAIN r.values \ r.todo => r.values[Retention] >= shortest
          /\ r.todo \subseteq DOMAIN r.values /\ DOMAIN r.values \subseteq SettingNames

RetentionInv ==
    /\ day \in Nat /\ shortest \in Nat /\ shortest <= DefaultNumber
    /\ setting \in Seq([name : SettingNames, value : Numbers])
    /\ \A i \in DOMAIN setting : setting[i].name = Retention => setting[i].value >= shortest
    /\ DOMAIN request = Admins /\ \A a \in Admins : RequestOK(request[a])
    /\ sweep.step = "purge" => sweep.days \in Nat /\ sweep.days >= shortest

LogOK(row) ==
    /\ DOMAIN row = RowFields
    /\ row.finished \in Nat
    /\ row.log = "marker" => row.status = "finished" /\ ~row.pinned /\ row.age \in Nat /\ row.age > shortest

LogsOK == DOMAIN log = Builds /\ \A b \in Builds : LogOK(log[b])

\* Of a single administrator.
ForceInv ==
    \A a \in Admins :
        /\ request[a].step = "ready" /\ request[a].answer = "ok" => policy = LastOf(Capacity)
        /\ request[a].step = "configure" => request[a].values[Capacity] = LastOf(Capacity)

LEMMA NoRequestOK == RequestOK(NoRequest) /\ NoRequest.step = "ready" /\ RequestOK(NoRequest)'
BY DEF RequestOK, NoRequest

LEMMA RowsAreNumbers ==
  ASSUME RetentionInv
  PROVE  \A i \in DOMAIN setting : setting[i].value \in Numbers /\ setting[i].value \in Nat
<1>1. \A i \in DOMAIN setting : setting[i] \in [name : SettingNames, value : Numbers]
  <2> DEFINE Row == [name : SettingNames, value : Numbers]
  <2>1. setting \in Seq(Row)
    BY DEF RetentionInv
  <2>2. \A i \in DOMAIN setting : setting[i] \in Row
    <3> HIDE DEF Row
    <3> QED BY <2>1
  <2> QED BY <2>2
<1> QED BY <1>1, SettingAssumption

\* The oldest row of a setting is one of its rows.
LEMMA FirstIsNotBelow ==
  ASSUME RetentionInv
  PROVE  FirstOf(Retention) \in Nat /\ FirstOf(Retention) >= shortest
<1>1. CASE RowsNamed(Retention) = {}
  BY <1>1, SettingAssumption DEF FirstOf, RetentionInv
<1>2. CASE RowsNamed(Retention) # {}
  <2> DEFINE first == CHOOSE i \in RowsNamed(Retention) : \A j \in RowsNamed(Retention) : i <= j
  <2>1. RowsNamed(Retention) \in SUBSET Nat
    BY DEF RowsNamed, RetentionInv
  <2>2. \E i \in RowsNamed(Retention) : \A j \in RowsNamed(Retention) : i <= j
    BY <1>2, <2>1, LeastNatural
  <2>3. first \in RowsNamed(Retention)
    BY <2>2
  <2>4. FirstOf(Retention) = setting[first].value
    BY <1>2 DEF FirstOf
  <2> HIDE DEF first
  <2>5. setting[first].value \in Numbers /\ setting[first].value >= shortest
    BY <2>3, RowsAreNumbers DEF RowsNamed, RetentionInv
  <2> QED BY <2>4, <2>5, SettingAssumption
<1> QED BY <1>1, <1>2

\* A request moves without a write.
LEMMA RequestMoves ==
  ASSUME RetentionInv, NEW a \in Admins, NEW r, RequestOK(r),
         request' = [request EXCEPT ![a] = r],
         UNCHANGED <<setting, sweep, day, shortest>>
  PROVE  RetentionInv'
BY DEF RetentionInv, RequestOK

LEMMA WriteStep ==
  ASSUME RetentionInv, NEW a \in Admins, NEW name \in SettingNames, NEW fails \in BOOLEAN,
         WriteSetting(a, name, fails)
  PROVE  /\ RetentionInv'
         /\ shortest' <= shortest
         /\ setting' # setting => \A i \in DOMAIN setting' \ DOMAIN setting : setting'[i].value # Invalid
         /\ DOMAIN request' = Admins /\ request'[a].step # "configure"
         /\ ~(request'[a].step = "ready" /\ request'[a].answer = "ok")
<1>1. CASE fails
  <2>1. PICK r : r = [NoRequest EXCEPT !.answer = "error"]
    OBVIOUS
  <2>2. request' = [request EXCEPT ![a] = r] /\ UNCHANGED <<setting, shortest, sweep, day>>
    BY <1>1, <2>1 DEF WriteSetting
  <2>3. RequestOK(r) /\ r.answer = "error" /\ r.step = "ready"
    BY <2>1 DEF RequestOK, NoRequest
  <2>4. RetentionInv'
    BY <2>2, <2>3, RequestMoves
  <2> QED BY <2>2, <2>3, <2>4 DEF RetentionInv
<1>2. CASE ~fails
  <2>1. PICK was : was = request[a]
    OBVIOUS
  <2>2. PICK r : r = [was EXCEPT !.todo = was.todo \ {name}]
    OBVIOUS
  <2>3. PICK value : value = was.values[name]
    OBVIOUS
  <2>4. /\ was.step = "write" /\ name \in was.todo
        /\ request' = [request EXCEPT ![a] = r]
        /\ setting' = Append(setting, [name |-> name, value |-> value])
        /\ shortest' = IF name = Retention /\ value < shortest THEN value ELSE shortest
        /\ UNCHANGED <<sweep, day>>
    BY <1>2, <2>1, <2>2, <2>3 DEF WriteSetting
  <2>5. RequestOK(was)
    BY <2>1 DEF RetentionInv
  <2>6. value \in Numbers /\ value \in Nat /\ value # 0
    BY <2>3, <2>4, <2>5, SettingAssumption DEF RequestOK
  <2>7. shortest' \in Nat /\ shortest' <= shortest /\ (name = Retention => value >= shortest')
    BY <2>4, <2>6 DEF RetentionInv
  <2>8. /\ setting' \in Seq([name : SettingNames, value : Numbers])
        /\ DOMAIN setting' = DOMAIN setting \cup {Len(setting) + 1}
        /\ \A i \in DOMAIN setting : setting'[i] = setting[i]
        /\ setting'[Len(setting) + 1] = [name |-> name, value |-> value]
    BY <2>4, <2>6, AppendProperties DEF RetentionInv
  <2>9. \A i \in DOMAIN setting' : setting'[i].name = Retention => setting'[i].value >= shortest'
    <3>1. \A i \in DOMAIN setting : setting[i].name = Retention => setting[i].value >= shortest'
      <4> SUFFICES ASSUME NEW i \in DOMAIN setting, setting[i].name = Retention
                   PROVE  setting[i].value >= shortest'
        OBVIOUS
      <4>1. setting[i].value \in Nat /\ setting[i].value >= shortest /\ shortest \in Nat
        BY RowsAreNumbers DEF RetentionInv
      <4>2. \A x, y, z \in Nat : x >= y /\ z <= y => x >= z
        OBVIOUS
      <4> QED BY <2>7, <4>1, <4>2, Zenon
    <3> QED BY <2>7, <2>8, <3>1
  <2>10. \A b \in Admins : RequestOK(request[b])'
    <3>1. \A q : RequestOK(q) => RequestOK(q)'
      <4> SUFFICES ASSUME NEW q, RequestOK(q)
                   PROVE  RequestOK(q)'
        OBVIOUS
      <4>1. q.step = "write" /\ Retention \in DOMAIN q.values \ q.todo => q.values[Retention] >= shortest'
        <5> SUFFICES ASSUME q.step = "write", Retention \in DOMAIN q.values \ q.todo
                     PROVE  q.values[Retention] >= shortest'
          OBVIOUS
        <5>1. q.values[Retention] \in Nat /\ q.values[Retention] >= shortest /\ shortest \in Nat
          BY SettingAssumption DEF RequestOK, RetentionInv
        <5>2. \A x, y, z \in Nat : x >= y /\ z <= y => x >= z
          OBVIOUS
        <5> QED BY <2>7, <5>1, <5>2, Zenon
      <4> QED BY <4>1 DEF RequestOK
    <3>2. RequestOK(r)'
      <4>1. DOMAIN r = {"step", "todo", "values", "answer"} /\ r.step = "write" /\ r.values = was.values
            /\ r.todo = was.todo \ {name}
        BY <2>2, <2>4, <2>5 DEF RequestOK
      <4>2. RequestOK(was)'
        BY <2>5, <3>1
      <4>3. Retention \in DOMAIN r.values \ r.todo => r.values[Retention] >= shortest'
        BY <2>3, <2>4, <2>7, <4>1, <4>2 DEF RequestOK
      <4> QED BY <2>4, <4>1, <4>2, <4>3 DEF RequestOK
    <3>3. \A b \in Admins : request'[b] = r \/ (b # a /\ request'[b] = request[b])
      BY <2>4 DEF RetentionInv
    <3>4. \A b \in Admins : RequestOK(request[b])
      BY DEF RetentionInv
    <3>5. \A b \in Admins : request'[b] = r \/ RequestOK(request'[b])
      BY <3>3, <3>4, Zenon
    <3>6. \A b \in Admins : \A q : q = request'[b] => RequestOK(q)'
      BY <3>1, <3>2, <3>5, Zenon
    <3> QED BY <3>6
  <2>11. sweep'.step = "purge" => sweep'.days \in Nat /\ sweep'.days >= shortest'
    BY <2>4, <2>7 DEF RetentionInv
  <2>12. RetentionInv'
    <3>1. shortest' <= DefaultNumber
      <4>1. DefaultNumber \in Nat /\ shortest \in Nat /\ shortest <= DefaultNumber
        BY SettingAssumption DEF RetentionInv
      <4> QED BY <2>7, <4>1
    <3>2. day' \in Nat /\ DOMAIN request' = Admins
      BY <2>4 DEF RetentionInv
    <3> QED BY <2>7, <2>8, <2>9, <2>10, <2>11, <3>1, <3>2, Zenon DEF RetentionInv
  <2>13. request'[a] = r /\ r.step = "write"
    BY <2>2, <2>4, <2>5 DEF RequestOK, RetentionInv
  <2> QED BY <2>4, <2>6, <2>7, <2>8, <2>12, <2>13 DEF RetentionInv, Invalid
<1> QED BY <1>1, <1>2

\* What the cleanup marks was old enough for every retention there ever was.
LEMMA PurgeStep ==
  ASSUME RetentionInv, LogsOK, NEW days \in Nat, days >= shortest, log' = Purged(days), UNCHANGED shortest
  PROVE  LogsOK'
<1>1. ASSUME NEW b \in Builds
      PROVE  LogOK(log[b])'
  <2>1. CASE log[b].status = "finished" /\ ~log[b].pinned /\ log[b].log = "text" /\ Expired(b, days)
    <3>1. PICK row : row = Marked(log[b])
      OBVIOUS
    <3>2. log'[b] = row
      BY <2>1, <3>1 DEF Purged
    <3>3. DOMAIN log[b] = RowFields /\ log[b].finished \in Nat /\ day \in Nat /\ shortest \in Nat
      BY DEF LogsOK, LogOK, RetentionInv
    <3>4. /\ DOMAIN row = RowFields /\ row.finished = log[b].finished
          /\ row.status = log[b].status /\ row.pinned = log[b].pinned
      BY <3>1, <3>3 DEF Marked, RowFields
    <3>5. row.age = day - log[b].finished
      BY <3>1, <3>3 DEF Marked, RowFields
    <3>6. log[b].finished + days < day
      BY <2>1 DEF Expired
    <3>7. row.age \in Nat /\ row.age > shortest
      BY <3>3, <3>5, <3>6
    <3> QED BY <2>1, <3>2, <3>3, <3>4, <3>7 DEF LogOK
  <2>2. CASE ~(log[b].status = "finished" /\ ~log[b].pinned /\ log[b].log = "text" /\ Expired(b, days))
    <3>1. log'[b] = log[b]
      BY <2>2, Zenon DEF Purged
    <3> QED BY <3>1 DEF LogsOK, LogOK
  <2> QED BY <2>1, <2>2
<1> QED BY <1>1 DEF LogsOK, Purged

\* The rows of builds keep their form, and a build that goes on has no marker.
LEMMA BuildStep ==
  ASSUME LogsOK, NEW b \in Builds, NEW pinned \in BOOLEAN, day \in Nat, BuildStarts(b) \/ BuildFinishes(b, pinned)
  PROVE  LogsOK'
<1>1. PICK row : row = log'[b]
  OBVIOUS
<1>2. DOMAIN log = Builds /\ LogOK(log[b])
  BY DEF LogsOK
<1>3. UNCHANGED shortest /\ DOMAIN log' = Builds /\ \A c \in Builds \ {b} : log'[c] = log[c]
  BY <1>2 DEF BuildStarts, BuildFinishes
<1>4. CASE BuildStarts(b)
  <2>1. row.log = "text" /\ DOMAIN row = RowFields /\ row.finished = log[b].finished
    BY <1>1, <1>2, <1>4 DEF BuildStarts, LogOK, RowFields
  <2> QED BY <1>1, <1>2, <1>3, <2>1 DEF LogsOK, LogOK
<1>5. CASE BuildFinishes(b, pinned)
  <2>1. row.finished = day /\ DOMAIN row = RowFields /\ row.log = log[b].log
    BY <1>1, <1>2, <1>5 DEF BuildFinishes, LogOK, RowFields
  <2>2. log[b].log # "marker"
    BY <1>2, <1>5 DEF BuildFinishes, LogOK
  <2> QED BY <1>1, <1>2, <1>3, <2>1, <2>2 DEF LogsOK, LogOK
<1> QED BY <1>4, <1>5

\* Retentions get shorter only, so that no marker comes to be too young.
LEMMA LogFrame ==
  ASSUME RetentionInv, LogsOK, UNCHANGED log, shortest' \in Nat, shortest' <= shortest
  PROVE  LogsOK'
<1>1. \A x, y, z \in Nat : x > y /\ z <= y => x > z
  OBVIOUS
<1>2. shortest \in Nat
  BY DEF RetentionInv
<1> QED BY <1>1, <1>2, Zenon DEF LogsOK, LogOK

LEMMA ForceFrame ==
  ASSUME ForceInv, UNCHANGED <<request, policy, setting>>
  PROVE  ForceInv'
BY DEF ForceInv, LastOf, RowsNamed

SettingInv == RetentionInv /\ LogsOK /\ ForceInv

\* A step of the one administrator's request.
LEMMA SettingRequestStep ==
  ASSUME SettingInv, NEW a \in Admins, Admins = {a},
         \/ \E names \in SUBSET SettingNames : \E values \in [names -> Numbers \cup {Invalid}] :
                ValidateGlobalSettings(a, values)
         \/ \E name \in SettingNames, fails \in BOOLEAN : WriteSetting(a, name, fails)
         \/ PurgeAfterWrites(a) \/ ListForReload(a) \/ ConfigureExecutionPolicy(a)
  PROVE  /\ SettingInv'
         /\ setting' # setting => \A i \in DOMAIN setting' \ DOMAIN setting : setting'[i].value # Invalid
<1> USE DEF SettingInv
<1>1. ASSUME NEW names \in SUBSET SettingNames, NEW values \in [names -> Numbers \cup {Invalid}],
             ValidateGlobalSettings(a, values)
      PROVE  SettingInv' /\ setting' = setting
  <2>1. PICK r : r = IF Accepted(values)
                     THEN [step |-> "write", todo |-> DOMAIN values, values |-> values, answer |-> "none"]
                     ELSE [NoRequest EXCEPT !.answer = "refused"]
    OBVIOUS
  <2>2. /\ request' = [request EXCEPT ![a] = r]
        /\ UNCHANGED <<setting, policy, log, sweep, day, shortest>>
    BY <1>1, <2>1 DEF ValidateGlobalSettings
  <2>3. RequestOK(r) /\ r.answer # "ok" /\ r.step # "configure"
    <3>1. CASE Accepted(values)
      <4>1. \A n \in DOMAIN values : values[n] \in Numbers
        BY <3>1 DEF Accepted
      <4> QED BY <2>1, <3>1, <4>1 DEF RequestOK
    <3>2. CASE ~Accepted(values)
      BY <2>1, <3>2 DEF RequestOK, NoRequest
    <3> QED BY <3>1, <3>2
  <2>4. RetentionInv'
    BY <2>2, <2>3, RequestMoves
  <2>5. LogsOK'
    BY <2>2, LogFrame DEF RetentionInv
  <2>6. request'[a] = r
    BY <2>2 DEF RetentionInv
  <2> QED BY <2>2, <2>3, <2>4, <2>5, <2>6 DEF ForceInv
<1>2. ASSUME NEW name \in SettingNames, NEW fails \in BOOLEAN, WriteSetting(a, name, fails)
      PROVE  /\ SettingInv'
             /\ setting' # setting => \A i \in DOMAIN setting' \ DOMAIN setting : setting'[i].value # Invalid
  <2>1. LogsOK'
    BY <1>2, WriteStep, LogFrame DEF WriteSetting, RetentionInv
  <2> QED BY <1>2, <2>1, WriteStep DEF ForceInv
<1>3. ASSUME PurgeAfterWrites(a)
      PROVE  SettingInv' /\ setting' = setting
  <2>1. PICK r : r = [request[a] EXCEPT !.step = "reload"]
    OBVIOUS
  <2>2. /\ request[a].step = "write" /\ request[a].todo = {}
        /\ request' = [request EXCEPT ![a] = r]
        /\ log' = IF Retention \in DOMAIN request[a].values THEN Purged(request[a].values[Retention]) ELSE log
        /\ UNCHANGED <<setting, policy, sweep, day, shortest>>
    BY <1>3, <2>1 DEF PurgeAfterWrites
  <2>3. RequestOK(request[a])
    BY DEF RetentionInv
  <2>4. RequestOK(r) /\ r.step = "reload"
    BY <2>1, <2>3 DEF RequestOK
  <2>5. RetentionInv'
    BY <2>2, <2>4, RequestMoves
  <2>6. LogsOK'
    <3>1. CASE Retention \in DOMAIN request[a].values
      <4>1. request[a].values[Retention] \in Nat /\ request[a].values[Retention] >= shortest
        BY <2>2, <2>3, <3>1, SettingAssumption DEF RequestOK
      <4> QED BY <2>2, <3>1, <4>1, PurgeStep
    <3>2. CASE Retention \notin DOMAIN request[a].values
      BY <2>2, <3>2, LogFrame DEF RetentionInv
    <3> QED BY <3>1, <3>2
  <2>7. request'[a] = r
    BY <2>2 DEF RetentionInv
  <2> QED BY <2>2, <2>4, <2>5, <2>6, <2>7 DEF ForceInv
<1>4. ASSUME ListForReload(a)
      PROVE  SettingInv' /\ setting' = setting
  <2>1. PICK r : r = [step |-> "configure", todo |-> {}, answer |-> "none",
                      values |-> [name \in {Capacity} |-> LastOf(name)]]
    OBVIOUS
  <2>2. /\ request' = [request EXCEPT ![a] = r]
        /\ UNCHANGED <<setting, policy, log, sweep, day, shortest>>
    BY <1>4, <2>1 DEF ListForReload
  <2>3. RequestOK(r) /\ r.step = "configure" /\ r.values[Capacity] = LastOf(Capacity)
    BY <2>1 DEF RequestOK
  <2>4. RetentionInv'
    BY <2>2, <2>3, RequestMoves
  <2>5. LogsOK'
    BY <2>2, LogFrame DEF RetentionInv
  <2>6. request'[a] = r
    BY <2>2 DEF RetentionInv
  <2>7. LastOf(Capacity)' = LastOf(Capacity)
    BY <2>2 DEF LastOf, RowsNamed
  <2> QED BY <2>2, <2>3, <2>4, <2>5, <2>6, <2>7 DEF ForceInv
<1>5. ASSUME ConfigureExecutionPolicy(a)
      PROVE  SettingInv' /\ setting' = setting
  <2>1. /\ request[a].step = "configure" /\ policy' = request[a].values[Capacity]
        /\ request' = [request EXCEPT ![a] = NoRequest]
        /\ UNCHANGED <<setting, log, sweep, day, shortest>>
    BY <1>5 DEF ConfigureExecutionPolicy
  <2>2. RetentionInv'
    BY <2>1, RequestMoves, NoRequestOK
  <2>3. LogsOK'
    BY <2>1, LogFrame DEF RetentionInv
  <2>4. request'[a] = NoRequest
    BY <2>1 DEF RetentionInv
  <2>5. LastOf(Capacity)' = LastOf(Capacity)
    BY <2>1 DEF LastOf, RowsNamed
  <2> QED BY <2>1, <2>2, <2>3, <2>4, <2>5, NoRequestOK DEF ForceInv
<1> QED BY <1>1, <1>2, <1>3, <1>4, <1>5

LEMMA SettingStep ==
  ASSUME SettingInv, NEW admin, Admins = {admin}, [SettingNext]_settingVars
  PROVE  /\ SettingInv'
         /\ setting' # setting => \A i \in DOMAIN setting' \ DOMAIN setting : setting'[i].value # Invalid
<1> USE DEF SettingInv
<1>1. CASE GetBuildLogRetentionDays
  <2>1. /\ sweep' = [step |-> "purge", days |-> FirstOf(Retention)]
        /\ UNCHANGED <<setting, request, policy, log, day, shortest>>
    BY <1>1 DEF GetBuildLogRetentionDays
  <2>2. RetentionInv'
    BY <2>1, FirstIsNotBelow DEF RetentionInv, RequestOK
  <2> QED BY <2>1, <2>2, LogFrame, ForceFrame DEF RetentionInv
<1>2. CASE SweepPurges
  <2>1. /\ sweep.step = "purge" /\ log' = Purged(sweep.days) /\ sweep' = NoSweep
        /\ UNCHANGED <<setting, request, policy, day, shortest>>
    BY <1>2 DEF SweepPurges
  <2>2. RetentionInv'
    BY <2>1 DEF RetentionInv, RequestOK, NoSweep
  <2>3. LogsOK'
    BY <2>1, PurgeStep DEF RetentionInv
  <2> QED BY <2>1, <2>2, <2>3, ForceFrame
<1>3. CASE RestartServer
  <2>1. /\ request' = [a \in Admins |-> NoRequest] /\ policy' = LastOf(Capacity) /\ sweep' = NoSweep
        /\ UNCHANGED <<setting, log, day, shortest>>
    BY <1>3 DEF RestartServer, Applied
  <2>2. \A a \in Admins : RequestOK(request[a])'
    BY <2>1, NoRequestOK
  <2>3. RetentionInv'
    BY <2>1, <2>2 DEF RetentionInv, NoSweep
  <2>4. LastOf(Capacity)' = LastOf(Capacity)
    BY <2>1 DEF LastOf, RowsNamed
  <2>5. ForceInv'
    BY <2>1, <2>4, NoRequestOK DEF ForceInv
  <2> QED BY <2>1, <2>3, <2>5, LogFrame DEF RetentionInv
<1>4. CASE Midnight
  <2>1. day' = day + 1 /\ UNCHANGED <<setting, request, policy, log, sweep, shortest>>
    BY <1>4 DEF Midnight
  <2>2. RetentionInv'
    BY <2>1 DEF RetentionInv, RequestOK
  <2> QED BY <2>1, <2>2, LogFrame, ForceFrame DEF RetentionInv
<1>5. ASSUME NEW b \in Builds, NEW pinned \in BOOLEAN, BuildStarts(b) \/ BuildFinishes(b, pinned)
      PROVE  SettingInv' /\ setting' = setting
  <2>1. UNCHANGED <<setting, request, policy, sweep, day, shortest>>
    BY <1>5 DEF BuildStarts, BuildFinishes
  <2>2. RetentionInv'
    BY <2>1 DEF RetentionInv, RequestOK
  <2>3. LogsOK'
    BY <1>5, BuildStep DEF RetentionInv
  <2> QED BY <2>1, <2>2, <2>3, ForceFrame
<1>6. CASE UNCHANGED settingVars
  <2>1. UNCHANGED <<setting, request, policy, log, sweep, day, shortest>>
    BY <1>6 DEF settingVars
  <2>2. RetentionInv'
    BY <2>1 DEF RetentionInv, RequestOK
  <2> QED BY <2>1, <2>2, LogFrame, ForceFrame DEF RetentionInv
<1>7. \A b \in Builds : BuildStarts(b) => SettingInv' /\ setting' = setting
  BY <1>5
<1>8. CASE \E a \in Admins :
        \/ \E names \in SUBSET SettingNames : \E values \in [names -> Numbers \cup {Invalid}] :
               ValidateGlobalSettings(a, values)
        \/ \E name \in SettingNames, fails \in BOOLEAN : WriteSetting(a, name, fails)
        \/ PurgeAfterWrites(a) \/ ListForReload(a) \/ ConfigureExecutionPolicy(a)
  BY <1>8, SettingRequestStep
<1>9. setting' = setting \/ setting' # setting
  OBVIOUS
<1>10. CASE GetBuildLogRetentionDays \/ SweepPurges \/ RestartServer \/ Midnight \/ UNCHANGED settingVars
  <2>1. setting' = setting
    BY <1>10 DEF GetBuildLogRetentionDays, SweepPurges, RestartServer, Midnight, settingVars
  <2> QED BY <1>1, <1>2, <1>3, <1>4, <1>6, <1>10, <2>1, Zenon
<1> QED BY <1>5, <1>7, <1>8, <1>10, Zenon DEF SettingNext

\* What an administrator was told is what the server does, to the logs of builds too:
\* for one administrator at a time, any builds, and any number of saves, sweeps and restarts.
THEOREM SettingsAreInForceHolds ==
  ASSUME NEW admin, Admins = {admin}
  PROVE  SettingSpec => SettingsAreInForce
<1>1. SettingInit => SettingInv
  <2> SUFFICES ASSUME SettingInit PROVE SettingInv
    OBVIOUS
  <2>1. RetentionInv
    BY NoRequestOK, SettingAssumption DEF SettingInit, RetentionInv, NoSweep
  <2>2. LogsOK
    BY DEF SettingInit, LogsOK, LogOK, RowFields
  <2>3. policy = LastOf(Capacity)
    BY DEF SettingInit, LastOf, RowsNamed
  <2> QED BY <2>1, <2>2, <2>3, NoRequestOK DEF SettingInit, SettingInv, ForceInv
<1>2. SettingInv /\ [SettingNext]_settingVars => SettingInv'
  BY SettingStep
<1>3. SettingInv => AnsweredIsInForce
  BY DEF SettingInv, ForceInv, AnsweredIsInForce
<1>4. SettingInv => NothingYoungIsPurged
  BY DEF SettingInv, LogsOK, LogOK, NothingYoungIsPurged
<1>5. SettingInv /\ [SettingNext]_settingVars =>
        [setting' # setting =>
           \A i \in DOMAIN setting' \ DOMAIN setting : setting'[i].value # Invalid]_settingVars
  BY SettingStep
<1> QED BY <1>1, <1>2, <1>3, <1>4, <1>5, PTL DEF SettingSpec, SettingsAreInForce, RefusedChangesNothing

-----------------------------------------------------------------------------
(***************************************************************************)
(* Credentials, roots and templates.  An editor keeps what it has read:    *)
(* every value it may write was entered into that field of that row.  The  *)
(* branch of the root changes with an edit only, and a build that waits    *)
(* untouched would be accepted again with the configuration it has.        *)
(***************************************************************************)
SecretTexts == [Fields -> Secrets \cup {Empty, Mask}]
CredentialRow == [host : ToSet(HostOrder), secret : SecretTexts]
TemplateRow == [row : {TRUE}, config : TemplateConfigs]

EditorOK(r) ==
    r.step = "credential" =>
        /\ r.id \in DOMAIN credential /\ r.host \in ToSet(HostOrder)
        /\ r.given \in SecretTexts /\ r.existing \in SecretTexts
        /\ \A f \in Fields : /\ r.existing[f] \in entered[r.id][f]
                             /\ r.given[f] = Mask \/ r.given[f] \in entered[r.id][f]

CredentialInv ==
    /\ credential \in Seq(CredentialRow \cup {NoRow})
    /\ entered \in Seq([Fields -> SUBSET (Secrets \cup {Empty})])
    /\ Len(entered) = Len(credential)
    /\ SecretsStayInTheirField
    /\ DOMAIN editor = Editors /\ \A e \in Editors : EditorOK(editor[e])

RootInv ==
    /\ EditSurvivesPolling
    /\ root # NoRow => DOMAIN root = {"row", "branch", "interval", "seen"}

WaitingOK(b) ==
    /\ DOMAIN b = {"accepted", "ran", "started", "touched"}
    /\ b.started \in BOOLEAN /\ b.touched \in BOOLEAN
    /\ ~b.started /\ ~b.touched => MayAccept /\ b.accepted = AcceptedConfig
    /\ b.started /\ ~b.touched => b.ran = b.accepted

TemplateInv ==
    /\ template \in Seq(TemplateRow \cup {NoRow})
    /\ build \in Seq(ToSet(build))
    /\ \A b \in DOMAIN build : WaitingOK(build[b])

ResourceInv == CredentialInv /\ RootInv /\ TemplateInv

LEMMA RowsAreThere ==
  /\ NoRow \notin CredentialRow /\ NoRow \notin TemplateRow
  /\ \A S : \A table \in Seq(S) : Rows(table) \subseteq DOMAIN table /\ Rows(table) \subseteq Nat /\ NoTemplate \notin Rows(table)
<1>1. NoRow \notin CredentialRow
  BY DEF NoRow, CredentialRow
<1>2. NoRow \notin TemplateRow
  BY DEF NoRow, TemplateRow
<1> QED BY <1>1, <1>2 DEF Rows, NoTemplate

-----------------------------------------------------------------------------
\* Lookups.  A host ends with itself and with the empty one, which only ends itself.
LEMMA HostsEndWith ==
  ASSUME NEW S, NEW host \in Seq(S)
  PROVE  IsSuffix(host, host) /\ IsSuffix(<<>>, host) /\ (IsSuffix(host, <<>>) => host = <<>>)
<1>1. Reverse(host) \in Seq(S) /\ Len(Reverse(host)) = Len(host)
  BY DEF Reverse
<1>2. Reverse(<<>>) = <<>>
  BY DEF Reverse
<1>3. IsSuffix(host, host)
  BY <1>1 DEF IsSuffix, IsPrefix
<1>4. IsSuffix(<<>>, host)
  <2>1. SubSeq(<<>>, 1, 0) = <<>> /\ SubSeq(Reverse(host), 1, 0) = <<>>
    BY SubSeqEmpty
  <2> QED BY <1>1, <1>2, <2>1 DEF IsSuffix, IsPrefix
<1>5. IsSuffix(host, <<>>) => host = <<>>
  <2> SUFFICES ASSUME IsSuffix(host, <<>>) PROVE host = <<>>
    OBVIOUS
  <2>1. Len(Reverse(host)) <= Len(Reverse(<<>>))
    BY Zenon DEF IsSuffix, IsPrefix
  <2>2. Len(host) <= 0 /\ Len(host) \in Nat
    BY <1>1, <1>2, <2>1
  <2>3. Len(host) = 0
    BY <2>2
  <2>4. host # <<>> => Len(host) \in Nat \ {0}
    BY EmptySeq, Zenon
  <2> QED BY ONLY <2>3, <2>4
<1> QED BY <1>3, <1>4, <1>5

\* Some row of those with one of the hosts is the first one of the query.
LEMMA FirstIsOne ==
  ASSUME CredentialInv, NEW hosts
  PROVE  LET found == {c \in Rows(credential) : credential[c].host \in hosts}
         IN  IF found = {} THEN FirstOfRows(hosts) = 0 ELSE FirstOfRows(hosts) \in found
<1> DEFINE found == {c \in Rows(credential) : credential[c].host \in hosts}
<1>1. CASE found = {}
  BY <1>1 DEF FirstOfRows
<1>2. CASE found # {}
  <2>1. found \in SUBSET Nat
    BY RowsAreThere DEF CredentialInv
  <2>2. \A c \in found : Place(c) \in Nat
    <3> SUFFICES ASSUME NEW c \in found
                 PROVE  Place(c) \in Nat
      OBVIOUS
    <3>1. credential[c] \in CredentialRow
      BY DEF CredentialInv, Rows
    <3>2. \E i \in DOMAIN HostOrder : HostOrder[i] = credential[c].host
      BY <3>1 DEF CredentialRow, ToSet
    <3>3. Place(c) \in DOMAIN HostOrder
      BY <3>2 DEF Place
    <3> QED BY <3>3, ResourceAssumption
  <2> DEFINE places == {Place(c) : c \in found}
  <2>3. PICK p \in places : \A q \in places : p <= q
    <3>1. places \in SUBSET Nat /\ places # {}
      BY <1>2, <2>2
    <3> HIDE DEF places
    <3> QED BY <3>1, LeastNatural
  <2> DEFINE nearest == {c \in found : Place(c) = p}
  <2>4. PICK c \in nearest : \A d \in nearest : c <= d
    <3>1. nearest \in SUBSET Nat /\ nearest # {}
      BY <2>1, <2>3
    <3> HIDE DEF nearest
    <3> QED BY <3>1, LeastNatural
  <2>5. \A d \in found : Before(c, d)
    <3> SUFFICES ASSUME NEW d \in found
                 PROVE  Before(c, d)
      OBVIOUS
    <3>1. p <= Place(d) /\ p \in Nat /\ Place(d) \in Nat /\ Place(c) = p
      BY <2>2, <2>3, <2>4
    <3>2. CASE Place(d) = p
      BY <2>4, <3>1, <3>2 DEF Before
    <3>3. CASE Place(d) # p
      BY <3>1, <3>3 DEF Before
    <3> QED BY <3>2, <3>3
  <2>6. \E first \in found : \A d \in found : Before(first, d)
    BY <2>4, <2>5
  <2> QED BY <1>2, <2>6, Zenon DEF FirstOfRows
<1> QED BY <1>1, <1>2

LEMMA LookupIsRight ==
  ASSUME CredentialInv
  PROVE  LookupPrefersTheHost
<1> SUFFICES ASSUME NEW host \in Lookups
             PROVE  LET found == FindCredential(host)
                        fit == {c \in Rows(credential) : credential[c].host # <<>> /\ IsSuffix(credential[c].host, host)}
                    IN  /\ found = 0 <=> \A c \in Rows(credential) : ~ IsSuffix(credential[c].host, host)
                        /\ fit # {} => found \in fit
                        /\ (\E c \in fit : credential[c].host = host) => credential[found].host = host
  BY Zenon DEF LookupPrefersTheHost
<1> DEFINE others == {h \in ToSet(HostOrder) \ {<<>>} : IsSuffix(h, host)}
           Of(hosts) == {c \in Rows(credential) : credential[c].host \in hosts}
           exact == FirstOfRows({host})
           suffix == FirstOfRows(others)
           global == FirstOfRows({<<>>})
           found == FindCredential(host)
           fit == {c \in Rows(credential) : credential[c].host # <<>> /\ IsSuffix(credential[c].host, host)}
<1>1. IsSuffix(host, host) /\ IsSuffix(<<>>, host) /\ (IsSuffix(host, <<>>) => host = <<>>)
  <2>1. host \in Seq(ToSet(host))
    BY ResourceAssumption
  <2> QED BY <2>1, HostsEndWith, Zenon
<1>2. \A c \in Rows(credential) : credential[c].host \in ToSet(HostOrder) /\ c # 0
  BY RowsAreThere DEF CredentialInv, Rows, CredentialRow, NoTemplate
<1>3. /\ IF Of({host}) = {} THEN exact = 0 ELSE exact \in Of({host})
      /\ IF Of(others) = {} THEN suffix = 0 ELSE suffix \in Of(others)
      /\ IF Of({<<>>}) = {} THEN global = 0 ELSE global \in Of({<<>>})
  BY FirstIsOne, Zenon
<1>4. found = IF exact # 0 THEN exact ELSE IF suffix # 0 THEN suffix ELSE global
  BY Zenon DEF FindCredential
<1>5. Of(others) = fit
  BY <1>2
<1>6. \A c \in Of({host}) : c \in Rows(credential) /\ c # 0 /\ credential[c].host = host
  BY <1>2
<1>7. \A c \in Of({<<>>}) : c \in Rows(credential) /\ c # 0 /\ credential[c].host = <<>>
  BY <1>2
<1>8. \A c \in fit : c \in Rows(credential) /\ c # 0
  BY <1>2
<1>9. \A c \in Rows(credential) : IsSuffix(credential[c].host, host) =>
          c \in fit \/ c \in Of({<<>>})
  OBVIOUS
<1>10. \A c \in Rows(credential) : credential[c].host = host => c \in Of({host})
  OBVIOUS
<1>11. host = <<>> => fit = {}
  <2> SUFFICES ASSUME host = <<>>, NEW c \in fit
               PROVE  FALSE
    OBVIOUS
  <2>1. \A h \in ToSet(HostOrder) : h \in Seq(ToSet(h))
    BY ResourceAssumption
  <2>2. \A h \in ToSet(HostOrder) : IsSuffix(h, <<>>) => h = <<>>
    BY <2>1, HostsEndWith, Zenon
  <2>3. IsSuffix(credential[c].host, <<>>) /\ credential[c].host # <<>> /\ c \in Rows(credential)
    OBVIOUS
  <2> QED BY <2>2, <2>3, <1>2, Zenon
<1>12. \A c \in fit : IsSuffix(credential[c].host, host) /\ c \in Rows(credential)
  OBVIOUS
<1>13. \A c \in Rows(credential) : credential[c].host = host /\ host # <<>> => c \in fit
  BY <1>1
<1> HIDE DEF Of, fit, others, exact, suffix, global, found
<1>14. found = 0 <=> \A c \in Rows(credential) : ~ IsSuffix(credential[c].host, host)
  <2>1. CASE exact # 0
    BY <1>1, <1>3, <1>4, <1>6, <2>1
  <2>2. CASE exact = 0 /\ suffix # 0
    BY <1>3, <1>4, <1>5, <1>12, <2>2
  <2>3. CASE exact = 0 /\ suffix = 0
    <3>1. fit = {} /\ found = global
      BY <1>3, <1>4, <1>5, <1>8, <2>3
    <3>2. CASE global = 0
      BY <1>3, <1>7, <1>9, <3>1, <3>2
    <3>3. CASE global # 0
      BY <1>1, <1>3, <1>7, <3>1, <3>3
    <3> QED BY <3>2, <3>3
  <2> QED BY <2>1, <2>2, <2>3
<1>15. fit # {} => found \in fit
  <2>1. CASE exact # 0
    BY <1>3, <1>4, <1>6, <1>11, <1>13, <2>1
  <2>2. CASE exact = 0
    BY <1>3, <1>4, <1>5, <1>8, <2>2
  <2> QED BY <2>1, <2>2
<1>16. (\E c \in fit : credential[c].host = host) => credential[found].host = host
  BY <1>3, <1>4, <1>6, <1>10, <1>12
<1> QED BY <1>14, <1>15, <1>16 DEF fit, found

-----------------------------------------------------------------------------
\* Credentials: what was entered stays entered, so an editor may write what it holds.
EntersMore ==
    \A c \in DOMAIN entered : /\ c \in DOMAIN entered'
                              /\ \A f \in Fields : entered[c][f] \subseteq entered'[c][f]

LEMMA EditorsMayWrite ==
  ASSUME EntersMore, DOMAIN credential = DOMAIN entered, DOMAIN credential' = DOMAIN entered'
  PROVE  \A r : EditorOK(r) => EditorOK(r)'
BY DEF EntersMore, EditorOK

CredentialTypes ==
    /\ credential \in Seq(CredentialRow \cup {NoRow})
    /\ entered \in Seq([Fields -> SUBSET (Secrets \cup {Empty})])
    /\ Len(entered) = Len(credential)

LEMMA ElementReplaced ==
  ASSUME NEW S, NEW seq \in Seq(S), NEW i \in DOMAIN seq, NEW x \in S
  PROVE  [seq EXCEPT ![i] = x] \in Seq(S) /\ Len([seq EXCEPT ![i] = x]) = Len(seq)
OBVIOUS

LEMMA CredentialStep ==
  ASSUME CredentialInv, [ResourceNext]_resourceVars
  PROVE  CredentialInv'
<1> USE DEF CredentialInv
<1>1. CredentialTypes /\ DOMAIN credential = DOMAIN entered
  BY DEF CredentialTypes
<1>2. ASSUME UNCHANGED <<credential, entered>>, DOMAIN editor' = Editors,
             \A e \in Editors : editor'[e] = editor[e] \/ editor'[e].step # "credential"
      PROVE  CredentialInv'
  <2>1. SecretsStayInTheirField'
    BY <1>2 DEF SecretsStayInTheirField, Rows
  <2>2. ASSUME NEW e \in Editors
        PROVE  EditorOK(editor[e])'
    BY <1>2 DEF EditorOK
  <2> QED BY <1>2, <2>1, <2>2
<1>3. CASE UNCHANGED resourceVars
  BY <1>2, <1>3 DEF resourceVars
<1>4. CASE \/ ListVCSRoots \/ UpdateVCSRootConfig \/ AcceptBuild
           \/ \E b \in DOMAIN build : StartBuild(b)
  <2>1. UNCHANGED <<credential, entered, editor>>
    BY <1>4 DEF ListVCSRoots, UpdateVCSRootConfig, AcceptBuild, StartBuild, onlyRoot, onlyTemplates
  <2> QED BY <1>2, <2>1
<1>5. ASSUME NEW e \in Editors,
             \/ CreateVCSRoot(e) \/ DeleteVCSRoot(e) \/ CreateBuildTemplate(e)
             \/ UpdateBuildTemplate(e) \/ DeleteBuildTemplate(e)
      PROVE  CredentialInv'
  <2>1. UNCHANGED <<credential, entered, editor>>
    BY <1>5 DEF CreateVCSRoot, DeleteVCSRoot, CreateBuildTemplate, UpdateBuildTemplate,
                DeleteBuildTemplate, onlyRoot, onlyTemplates
  <2> QED BY <1>2, <2>1
<1>6. ASSUME NEW e \in Editors,
             ReadVCSRoot(e) \/ UpdateVCSRoot(e) \/ ValidateProjectBuildTemplate(e) \/ StoreProject(e)
      PROVE  CredentialInv'
  <2>1. UNCHANGED <<credential, entered>>
    BY <1>6 DEF ReadVCSRoot, UpdateVCSRoot, ValidateProjectBuildTemplate, StoreProject, onlyRoot, onlyTemplates
  <2>2. \E r : r.step # "credential" /\ editor' = [editor EXCEPT ![e] = r]
    BY <1>6 DEF ReadVCSRoot, UpdateVCSRoot, ValidateProjectBuildTemplate, StoreProject, Ends, Free
  <2> QED BY <1>2, <2>1, <2>2
<1>7. ASSUME NEW e \in Editors, CreateCredential(e) PROVE CredentialInv'
  <2>1. PICK host \in ToSet(HostOrder), secret \in [Fields -> Secrets \cup {Empty}] :
            /\ credential' = Append(credential, [host |-> host, secret |-> secret])
            /\ entered' = Append(entered, [f \in Fields |-> {secret[f], Empty}])
            /\ editor' = editor
    BY <1>7 DEF CreateCredential
  <2>2. [host |-> host, secret |-> secret] \in CredentialRow
    BY DEF CredentialRow, SecretTexts
  <2>3. [f \in Fields |-> {secret[f], Empty}] \in [Fields -> SUBSET (Secrets \cup {Empty})]
    OBVIOUS
  <2> DEFINE row == [host |-> host, secret |-> secret]
             texts == [f \in Fields |-> {secret[f], Empty}]
  <2>4. \A f \in Fields : row.secret[f] \in texts[f]
    OBVIOUS
  <2> HIDE DEF row, texts
  <2>5. credential' = Append(credential, row) /\ entered' = Append(entered, texts)
        /\ row \in CredentialRow /\ texts \in [Fields -> SUBSET (Secrets \cup {Empty})]
    BY <2>1, <2>2, <2>3 DEF row, texts
  <2>6. CredentialTypes' /\ DOMAIN credential' = DOMAIN entered' /\ EntersMore
    BY <1>1, <2>5 DEF CredentialTypes, EntersMore
  <2>7. SecretsStayInTheirField'
    <3> SUFFICES ASSUME NEW c \in Rows(credential)', NEW f \in Fields
                 PROVE  credential'[c].secret[f] \in entered'[c][f]
      BY DEF SecretsStayInTheirField
    <3>1. CASE c \in DOMAIN credential
      <4>1. credential'[c] = credential[c] /\ entered'[c] = entered[c]
        BY <1>1, <2>5, <3>1 DEF CredentialTypes
      <4> QED BY <3>1, <4>1 DEF SecretsStayInTheirField, Rows
    <3>2. CASE c \notin DOMAIN credential
      <4>1. credential'[c] = row /\ entered'[c] = texts
        BY <1>1, <2>5, <3>2 DEF CredentialTypes, Rows
      <4> QED BY <2>4, <4>1
    <3> QED BY <3>1, <3>2
  <2> QED BY <1>1, <2>1, <2>6, <2>7, EditorsMayWrite DEF CredentialTypes
<1>8. ASSUME NEW e \in Editors, ReadCredential(e) PROVE CredentialInv'
  <2>1. PICK c \in Rows(credential), host \in ToSet(HostOrder), secret \in [Fields -> Secrets \cup {Empty, Mask}] :
            /\ editor' = [editor EXCEPT ![e] = [step |-> "credential", id |-> c, host |-> host, given |-> secret,
                                                existing |-> credential[c].secret]]
            /\ entered' = [entered EXCEPT ![c] = [f \in Fields |-> @[f] \cup ({secret[f]} \ {Mask})]]
            /\ credential' = credential
    BY <1>8 DEF ReadCredential
  <2>2. c \in DOMAIN credential /\ credential[c] \in CredentialRow
    BY DEF Rows
  <2> DEFINE texts == [f \in Fields |-> entered[c][f] \cup ({secret[f]} \ {Mask})]
  <2>3. texts \in [Fields -> SUBSET (Secrets \cup {Empty})] /\ \A f \in Fields :
            entered[c][f] \subseteq texts[f] /\ (secret[f] = Mask \/ secret[f] \in texts[f])
    BY <1>1, <2>2 DEF CredentialTypes
  <2>4. entered' = [entered EXCEPT ![c] = texts]
    BY <2>1
  <2> HIDE DEF texts
  <2>5. CredentialTypes' /\ DOMAIN credential' = DOMAIN entered' /\ EntersMore /\ entered'[c] = texts
    BY <1>1, <2>1, <2>2, <2>3, <2>4 DEF CredentialTypes, EntersMore
  <2>6. SecretsStayInTheirField'
    BY <1>1, <2>1, <2>5 DEF SecretsStayInTheirField, Rows, EntersMore
  <2>7. EditorOK([step |-> "credential", id |-> c, host |-> host, given |-> secret,
                  existing |-> credential[c].secret])'
    <3>1. credential[c].secret \in SecretTexts /\ secret \in SecretTexts
      BY <2>2 DEF CredentialRow, SecretTexts
    <3>2. \A f \in Fields : credential[c].secret[f] \in entered'[c][f]
      BY <2>3, <2>5 DEF SecretsStayInTheirField
    <3> QED BY <2>1, <2>2, <2>3, <2>5, <3>1, <3>2 DEF EditorOK
  <2>8. \A r : EditorOK(r) => EditorOK(r)'
    BY <1>1, <2>5, EditorsMayWrite
  <2>9. DOMAIN editor' = Editors /\ \A x \in Editors : EditorOK(editor[x])'
    BY <2>1, <2>7, <2>8 DEF EditorOK
  <2> QED BY <2>5, <2>6, <2>9 DEF CredentialTypes
<1>9. ASSUME NEW e \in Editors, UpdateCredential(e) PROVE CredentialInv'
  <2> DEFINE was == editor[e]
             kept == Kept(was.given, was.existing)
  <2>1. /\ editor' = [editor EXCEPT ![e] = Free] /\ entered' = entered
        /\ credential' = IF credential[was.id] = NoRow THEN credential
                         ELSE [credential EXCEPT ![was.id] = [host |-> was.host, secret |-> kept]]
        /\ was.step = "credential"
    BY <1>9 DEF UpdateCredential, Ends
  <2>2. EditorOK(was)
    OBVIOUS
  <2>3. /\ was.id \in DOMAIN credential /\ was.host \in ToSet(HostOrder) /\ kept \in SecretTexts
        /\ \A f \in Fields : kept[f] \in entered[was.id][f]
    BY <2>1, <2>2 DEF EditorOK, Kept, SecretTexts
  <2>4. [host |-> was.host, secret |-> kept] \in CredentialRow
    BY <2>3 DEF CredentialRow
  <2>5. CredentialTypes' /\ DOMAIN credential' = DOMAIN entered' /\ EntersMore
    <3>1. PICK row \in CredentialRow : row = [host |-> was.host, secret |-> kept]
      BY <2>4
    <3>2. credential' = credential \/ credential' = [credential EXCEPT ![was.id] = row]
      BY <2>1, <3>1
    <3>3. credential' \in Seq(CredentialRow \cup {NoRow}) /\ Len(credential') = Len(credential)
      <4>1. credential \in Seq(CredentialRow \cup {NoRow}) /\ row \in CredentialRow \cup {NoRow}
        BY <1>1, <3>1 DEF CredentialTypes
      <4>2. PICK id \in DOMAIN credential : id = was.id
        BY <2>3
      <4>3. /\ [credential EXCEPT ![id] = row] \in Seq(CredentialRow \cup {NoRow})
            /\ Len([credential EXCEPT ![id] = row]) = Len(credential)
        BY ONLY <4>1
      <4>4. credential' = credential \/ credential' = [credential EXCEPT ![id] = row]
        BY <3>2, <4>2
      <4> QED BY <4>1, <4>3, <4>4, Zenon
    <3> QED BY <1>1, <2>1, <3>3 DEF CredentialTypes, EntersMore
  <2>6. SecretsStayInTheirField'
    BY <1>1, <2>1, <2>3 DEF SecretsStayInTheirField, Rows, CredentialTypes
  <2>7. \A r : EditorOK(r) => EditorOK(r)'
    BY <1>1, <2>5, EditorsMayWrite
  <2>8. DOMAIN editor' = Editors /\ \A x \in Editors : editor'[x] = editor[x] \/ editor'[x] = Free
    BY <2>1
  <2>9. EditorOK(Free)'
    BY DEF EditorOK, Free
  <2>10. \A x \in Editors : EditorOK(editor[x])'
    BY <2>7, <2>8, <2>9 DEF EditorOK
  <2> QED BY <2>5, <2>6, <2>8, <2>10 DEF CredentialTypes
<1>10. ASSUME NEW e \in Editors, DeleteCredential(e) PROVE CredentialInv'
  <2>1. PICK c \in Rows(credential) : credential' = [credential EXCEPT ![c] = NoRow]
    BY <1>10 DEF DeleteCredential
  <2>2. editor' = editor /\ entered' = entered
    BY <1>10 DEF DeleteCredential
  <2>3. CredentialTypes' /\ DOMAIN credential' = DOMAIN entered' /\ EntersMore
    BY <1>1, <2>1, <2>2 DEF CredentialTypes, EntersMore, Rows
  <2>4. SecretsStayInTheirField'
    BY <1>1, <2>1, <2>2 DEF SecretsStayInTheirField, Rows, CredentialTypes
  <2> QED BY <1>1, <2>2, <2>3, <2>4, EditorsMayWrite DEF CredentialTypes
<1> QED BY <1>3, <1>4, <1>5, <1>6, <1>7, <1>8, <1>9, <1>10 DEF ResourceNext

-----------------------------------------------------------------------------
\* The root: the poller, whatever it has listed, replaces the commit only.
LEMMA RootStep ==
  ASSUME RootInv, [ResourceNext]_resourceVars
  PROVE  RootInv'
<1> USE DEF RootInv, EditSurvivesPolling
<1>1. ASSUME root' = root, asked' = asked PROVE RootInv'
  BY <1>1
<1>2. CASE UNCHANGED resourceVars
  BY <1>1, <1>2 DEF resourceVars
<1>3. CASE \/ ListVCSRoots \/ AcceptBuild \/ \E b \in DOMAIN build : StartBuild(b)
  BY <1>1, <1>3 DEF ListVCSRoots, AcceptBuild, StartBuild, onlyTemplates
<1>4. CASE UpdateVCSRootConfig
  <2>1. PICK commit : root' = IF commit # poll.listed.seen /\ root # NoRow THEN StoredConfig(commit) ELSE root
    BY <1>4 DEF UpdateVCSRootConfig
  <2>2. asked' = asked
    BY <1>4 DEF UpdateVCSRootConfig
  <2>3. CASE root' = root
    BY <1>1, <2>2, <2>3
  <2>4. CASE root # NoRow /\ root' = [root EXCEPT !.seen = commit]
    <3>1. DOMAIN root = {"row", "branch", "interval", "seen"} /\ root.branch = asked.branch
      BY <2>4
    <3>2. DOMAIN root' = DOMAIN root /\ root'.branch = root.branch
      BY <2>4, <3>1
    <3> QED BY <2>2, <3>1, <3>2
  <2> QED BY <2>1, <2>3, <2>4 DEF StoredConfig
<1>5. ASSUME NEW e \in Editors,
             \/ CreateCredential(e) \/ ReadCredential(e) \/ UpdateCredential(e) \/ DeleteCredential(e)
             \/ ReadVCSRoot(e)
             \/ CreateBuildTemplate(e) \/ UpdateBuildTemplate(e) \/ DeleteBuildTemplate(e)
             \/ ValidateProjectBuildTemplate(e) \/ StoreProject(e)
      PROVE  RootInv'
  <2>1. root' = root /\ asked' = asked
    BY <1>5 DEF CreateCredential, ReadCredential, UpdateCredential, DeleteCredential, ReadVCSRoot,
                CreateBuildTemplate, UpdateBuildTemplate, DeleteBuildTemplate,
                ValidateProjectBuildTemplate, StoreProject, onlyCredentials, onlyTemplates
  <2> QED BY <1>1, <2>1
<1>6. ASSUME NEW e \in Editors, CreateVCSRoot(e) PROVE RootInv'
  BY <1>6 DEF CreateVCSRoot
<1>7. ASSUME NEW e \in Editors, UpdateVCSRoot(e) PROVE RootInv'
  <2>1. CASE root = NoRow
    BY <1>1, <1>7, <2>1 DEF UpdateVCSRoot
  <2>2. CASE root # NoRow
    BY <1>7, <2>2 DEF UpdateVCSRoot
  <2> QED BY <2>1, <2>2
<1>8. ASSUME NEW e \in Editors, DeleteVCSRoot(e) PROVE RootInv'
  BY <1>8 DEF DeleteVCSRoot
<1> QED BY <1>2, <1>3, <1>4, <1>5, <1>6, <1>7, <1>8 DEF ResourceNext

-----------------------------------------------------------------------------
\* Templates and builds.
LEMMA OwnElements ==
  ASSUME NEW S, NEW seq \in Seq(S)
  PROVE  seq \in Seq(ToSet(seq))
<1>1. seq \in [1..Len(seq) -> ToSet(seq)] /\ Len(seq) \in Nat
  BY DEF ToSet
<1> QED BY <1>1

\* An untouched build goes on as long as the project and its template stay what they are.
LEMMA StillAccepted ==
  ASSUME MayAccept => MayAccept', MayAccept => AcceptedConfig' = AcceptedConfig
  PROVE  \A b : WaitingOK(b) => WaitingOK(b)'
BY DEF WaitingOK

\* The template of the project is the same row with the same configuration.
LEMMA SameTemplate ==
  ASSUME project' = project,
         project.template \in Rows(template) =>
             project.template \in Rows(template') /\ template'[project.template] = template[project.template]
  PROVE  (MayAccept => MayAccept') /\ (MayAccept => AcceptedConfig' = AcceptedConfig)
BY DEF MayAccept, AcceptedConfig

\* A touched build that has not started yet promises nothing.
LEMMA TouchedPromisesNothing ==
  ASSUME NEW t, \A b \in DOMAIN build : WaitingOK(build[b]),
         build' = Touched(t), build \in Seq(ToSet(build))
  PROVE  /\ build' \in Seq(ToSet(build'))
         /\ project.template = t => \A b \in DOMAIN build' : WaitingOK(build[b])'
         /\ project.template # t => build' = build
<1>1. DOMAIN build = 1..Len(build) /\ Len(build) \in Nat
  OBVIOUS
<1>2. build' \in Seq(ToSet(build'))
  <2>1. DOMAIN build' = 1..Len(build) /\ build' \in [1..Len(build) -> ToSet(build')]
    BY <1>1 DEF Touched, ToSet
  <2> QED BY <1>1, <2>1
<1>3. ASSUME project.template = t, NEW b \in DOMAIN build'
      PROVE  WaitingOK(build[b])'
  <2>1. b \in DOMAIN build /\ build'[b] = IF ~ build[b].started THEN [build[b] EXCEPT !.touched = TRUE] ELSE build[b]
    BY <1>3 DEF Touched
  <2>2. WaitingOK(build[b])
    BY <2>1
  <2>3. CASE ~ build[b].started
    <3>1. build'[b] = [build[b] EXCEPT !.touched = TRUE]
      BY <2>1, <2>3, Zenon
    <3>2. DOMAIN build'[b] = DOMAIN build[b] /\ (build'[b].touched = TRUE) /\ build'[b].started = build[b].started
      BY <2>2, <3>1 DEF WaitingOK
    <3> QED BY <2>2, <2>3, <3>2, Zenon DEF WaitingOK
  <2>4. CASE build[b].started
    <3>1. build'[b] = build[b]
      BY <2>1, <2>4, Zenon
    <3> QED BY <2>2, <2>4, <3>1, Zenon DEF WaitingOK
  <2> QED BY <2>3, <2>4
<1>4. project.template # t => build' = build
  BY DEF Touched
<1> QED BY <1>2, <1>3, <1>4

LEMMA TemplateStep ==
  ASSUME TemplateInv, [ResourceNext]_resourceVars
  PROVE  /\ TemplateInv'
         /\ project.template \in Rows(template) /\ project.template = project'.template
            => project'.template \in Rows(template')
<1> USE DEF TemplateInv
<1> DEFINE Kept0 == project.template \in Rows(template) /\ project.template = project'.template
                    => project'.template \in Rows(template')
<1>1. ASSUME UNCHANGED <<template, project, build>> PROVE TemplateInv' /\ Kept0
  <2>1. \A b \in DOMAIN build' : WaitingOK(build[b])'
    BY <1>1 DEF WaitingOK, MayAccept, AcceptedConfig, Rows
  <2> QED BY <1>1, <2>1 DEF Rows
<1>2. CASE UNCHANGED resourceVars
  BY <1>1, <1>2 DEF resourceVars
<1>3. CASE ListVCSRoots \/ UpdateVCSRootConfig
  BY <1>1, <1>3 DEF ListVCSRoots, UpdateVCSRootConfig, onlyRoot
<1>4. ASSUME NEW e \in Editors,
             \/ CreateCredential(e) \/ ReadCredential(e) \/ UpdateCredential(e) \/ DeleteCredential(e)
             \/ CreateVCSRoot(e) \/ ReadVCSRoot(e) \/ UpdateVCSRoot(e) \/ DeleteVCSRoot(e)
             \/ ValidateProjectBuildTemplate(e)
      PROVE  TemplateInv' /\ Kept0
  BY <1>1, <1>4 DEF CreateCredential, ReadCredential, UpdateCredential, DeleteCredential,
                    CreateVCSRoot, ReadVCSRoot, UpdateVCSRoot, DeleteVCSRoot,
                    ValidateProjectBuildTemplate, onlyCredentials, onlyRoot
<1>5. ASSUME project' = project, build' = build, template' \in Seq(TemplateRow \cup {NoRow}),
             project.template \in Rows(template) =>
                 project.template \in Rows(template') /\ template'[project.template] = template[project.template]
      PROVE  TemplateInv' /\ Kept0
  <2>1. \A b : WaitingOK(b) => WaitingOK(b)'
    BY <1>5, SameTemplate, StillAccepted
  <2>2. \A b \in DOMAIN build' : WaitingOK(build[b])'
    BY <1>5, <2>1 DEF WaitingOK
  <2> QED BY <1>5, <2>2
<1>6. ASSUME NEW e \in Editors, CreateBuildTemplate(e) PROVE TemplateInv' /\ Kept0
  <2>1. PICK config \in TemplateConfigs : template' = Append(template, [row |-> TRUE, config |-> config])
    BY <1>6 DEF CreateBuildTemplate
  <2>2. [row |-> TRUE, config |-> config] \in TemplateRow
    BY DEF TemplateRow
  <2>3. PICK row \in TemplateRow : template' = Append(template, row)
    BY <2>1, <2>2
  <2>4. template' \in Seq(TemplateRow \cup {NoRow})
    BY <2>3
  <2>5. \A t \in Rows(template) : t \in Rows(template') /\ template'[t] = template[t]
    BY <2>3 DEF Rows
  <2>6. project' = project /\ build' = build
    BY <1>6 DEF CreateBuildTemplate
  <2> QED BY <1>5, <2>4, <2>5, <2>6
<1>7. ASSUME NEW e \in Editors, UpdateBuildTemplate(e) PROVE TemplateInv' /\ Kept0
  <2>1. PICK t \in Rows(template), config \in TemplateConfigs :
            template' = [template EXCEPT ![t].config = config] /\ build' = Touched(t) /\ project' = project
    BY <1>7 DEF UpdateBuildTemplate
  <2>2. t \in DOMAIN template /\ template[t] \in TemplateRow
    BY DEF Rows
  <2>3. PICK row : row = [template[t] EXCEPT !.config = config]
    OBVIOUS
  <2>4. row \in TemplateRow
    BY <2>2, <2>3 DEF TemplateRow
  <2>5. template' = [template EXCEPT ![t] = row]
    BY <2>1, <2>3
  <2>6. template' \in Seq(TemplateRow \cup {NoRow})
    BY <2>2, <2>4, <2>5, ElementReplaced, Zenon
  <2>7. \A u \in Rows(template) : u \in Rows(template') /\ (u # t => template'[u] = template[u])
    BY <2>2, <2>4, <2>5, RowsAreThere DEF Rows
  <2>8. CASE project.template = t
    <3>1. TemplateInv'
      BY <2>1, <2>6, <2>8, TouchedPromisesNothing
    <3> QED BY <2>1, <2>7, <3>1
  <2>9. CASE project.template # t
    <3>1. build' = build
      BY <2>1, <2>9, TouchedPromisesNothing
    <3> QED BY <1>5, <2>1, <2>6, <2>7, <2>9, <3>1
  <2> QED BY <2>8, <2>9
<1>8. ASSUME NEW e \in Editors, DeleteBuildTemplate(e) PROVE TemplateInv' /\ Kept0
  <2>1. PICK t \in Rows(template) : References(t) = {} /\ template' = [template EXCEPT ![t] = NoRow]
    BY <1>8 DEF DeleteBuildTemplate
  <2>2. project' = project /\ build' = build
    BY <1>8 DEF DeleteBuildTemplate
  <2>3. project.template # t
    BY <2>1 DEF References
  <2>4. t \in DOMAIN template
    BY DEF Rows
  <2>5. template' \in Seq(TemplateRow \cup {NoRow})
    BY <2>1, <2>4, ElementReplaced, Zenon
  <2>6. \A u \in Rows(template) : u # t => u \in Rows(template') /\ template'[u] = template[u]
    BY <2>1 DEF Rows
  <2> QED BY <1>5, <2>2, <2>3, <2>5, <2>6
<1>9. ASSUME NEW e \in Editors, StoreProject(e) PROVE TemplateInv' /\ Kept0
  <2>1. build' = Touched(project.template) /\ template' = template
    BY <1>9 DEF StoreProject
  <2>2. TemplateInv'
    BY <2>1, TouchedPromisesNothing
  <2> QED BY <2>1, <2>2 DEF Rows
<1>10. CASE AcceptBuild
  <2>1. PICK new : new = [accepted |-> AcceptedConfig, ran |-> AcceptedConfig, started |-> FALSE, touched |-> FALSE]
    OBVIOUS
  <2>2. build' = Append(build, new) /\ MayAccept /\ template' = template /\ project' = project
    BY <1>10, <2>1 DEF AcceptBuild
  <2>3. WaitingOK(new)
    <3>1. DOMAIN new = {"accepted", "ran", "started", "touched"} /\ new.accepted = AcceptedConfig
      BY <2>1
    <3>2. new.started = FALSE /\ new.touched = FALSE
      BY <2>1
    <3> QED BY <2>2, <3>1, <3>2, Zenon DEF WaitingOK
  <2>4. \A b : WaitingOK(b) => WaitingOK(b)'
    BY <2>2, SameTemplate, StillAccepted DEF Rows
  <2>5. build \in Seq(ToSet(build) \cup {new}) /\ new \in ToSet(build) \cup {new}
    OBVIOUS
  <2>6. build' \in Seq(ToSet(build) \cup {new})
    BY <2>2, <2>5, Zenon, AppendProperties
  <2>7. build' \in Seq(ToSet(build'))
    BY <2>6, OwnElements
  <2>8. \A b \in DOMAIN build' : (b \in DOMAIN build /\ build'[b] = build[b]) \/ build'[b] = new
    BY <2>2, <2>5
  <2>9. \A b \in DOMAIN build' : WaitingOK(build'[b])
    BY <2>3, <2>8
  <2>10. \A b \in DOMAIN build' : WaitingOK(build[b])'
    BY <2>4, <2>9
  <2> QED BY <2>2, <2>7, <2>10
<1>11. ASSUME NEW b \in DOMAIN build, StartBuild(b) PROVE TemplateInv' /\ Kept0
  <2>1. /\ ~ build[b].started
        /\ build' = [build EXCEPT ![b].ran = RunConfig, ![b].started = TRUE]
        /\ template' = template /\ project' = project
    BY <1>11 DEF StartBuild
  <2>2. PICK new : new = [[build[b] EXCEPT !.ran = RunConfig] EXCEPT !.started = TRUE]
    OBVIOUS
  <2>3. build' = [build EXCEPT ![b] = new]
    BY <2>1, <2>2
  <2>4. WaitingOK(build[b])
    OBVIOUS
  <2>5. /\ DOMAIN new = {"accepted", "ran", "started", "touched"} /\ new.ran = RunConfig
        /\ new.accepted = build[b].accepted
    BY <2>2, <2>4 DEF WaitingOK
  <2>6. new.started = TRUE /\ new.touched = build[b].touched
    BY <2>2, <2>4 DEF WaitingOK
  <2>7. MayAccept => RunConfig = AcceptedConfig
    BY RowsAreThere DEF MayAccept, RunConfig, AcceptedConfig, Rows
  <2>8. WaitingOK(new)
    BY <2>1, <2>4, <2>5, <2>6, <2>7, Zenon DEF WaitingOK
  <2>9. \A x : WaitingOK(x) => WaitingOK(x)'
    BY <2>1, SameTemplate, StillAccepted DEF Rows
  <2>10. build \in Seq(ToSet(build) \cup {new}) /\ new \in ToSet(build) \cup {new}
    OBVIOUS
  <2>11. build' \in Seq(ToSet(build) \cup {new})
    BY <2>3, <2>10, ElementReplaced, Zenon
  <2>12. build' \in Seq(ToSet(build'))
    BY <2>11, OwnElements
  <2>13. \A x \in DOMAIN build' : WaitingOK(build'[x])
    BY <2>3, <2>8
  <2>14. \A x \in DOMAIN build' : WaitingOK(build[x])'
    BY <2>9, <2>13
  <2> QED BY <2>1, <2>12, <2>14
<1> QED BY <1>2, <1>3, <1>4, <1>6, <1>7, <1>8, <1>9, <1>10, <1>11 DEF ResourceNext

-----------------------------------------------------------------------------
LEMMA ResourceInitially ==
  ASSUME ResourceInit
  PROVE  ResourceInv
<1>1. credential = <<>> /\ entered = <<>> /\ template = <<>> /\ build = <<>> /\ root = NoRow
      /\ editor = [e \in Editors |-> Free]
  BY DEF ResourceInit
<1>2. CredentialInv
  BY <1>1 DEF CredentialInv, SecretsStayInTheirField, Rows, EditorOK, Free
<1>3. RootInv
  BY <1>1 DEF RootInv, EditSurvivesPolling
<1>4. TemplateInv
  BY <1>1 DEF TemplateInv
<1> QED BY <1>2, <1>3, <1>4 DEF ResourceInv

LEMMA BuildsAsAccepted ==
  ASSUME TemplateInv
  PROVE  RunsAsAccepted
BY Zenon DEF TemplateInv, WaitingOK, RunsAsAccepted

LEMMA GatesAreInherited == GateIsInherited
BY DEF GateIsInherited, MayAccept, AcceptedConfig, MergeBuildConfig

\* Every edit of a credential, of the root or of a template, and every lookup, poll
\* and build between its reading and its writing, deals with what was entered for it.
THEOREM ResourcesAreConsistentHolds == ResourceSpec => ResourcesAreConsistent
<1>1. ResourceInv /\ [ResourceNext]_resourceVars => ResourceInv'
  BY CredentialStep, RootStep, TemplateStep DEF ResourceInv
<1>2. ResourceInv => /\ SecretsStayInTheirField /\ LookupPrefersTheHost /\ EditSurvivesPolling
                     /\ RunsAsAccepted /\ GateIsInherited
  BY LookupIsRight, BuildsAsAccepted, GatesAreInherited DEF ResourceInv, CredentialInv, RootInv
<1>3. ResourceInv /\ [ResourceNext]_resourceVars
      => [project.template \in Rows(template) /\ project.template = project'.template
          => project'.template \in Rows(template')]_resourceVars
  BY TemplateStep DEF ResourceInv
<1> QED BY ResourceInitially, <1>1, <1>2, <1>3, PTL DEF ResourceSpec, ResourcesAreConsistent, TemplateInUseIsKept

-----------------------------------------------------------------------------
(***************************************************************************)
(* Plugins.  Whatever is loaded was compared with all that was loaded      *)
(* before it.  What is active differs from the rows only for the plugin a  *)
(* request is about, between its statements.                               *)
(***************************************************************************)
PluginVersion == PluginVersions \cup {NoVersion, Garbage}
PluginRow == {"absent", "enabled", "disabled"}
PluginCall ==
    {NoCall}
      \cup [step : {"register", "load", "reload", "row"}, of : Names]
      \cup [step : {"manifest", "load", "register"}, of : Names, version : PluginVersions]
      \cup [step : {"toggle"}, of : Names, on : BOOLEAN, was : {"enabled", "disabled"}]
WorkerBuild == [ref : Nat, step : {"waiting", "install", "running", "refused"}, ran : SUBSET Nat]

PluginTypes ==
    /\ dir \in [Names -> [manifest : PluginVersion, binary : PluginVersion]]
    /\ loaded \in [Names -> PluginVersion] /\ active \in [Names -> BOOLEAN]
    /\ prow \in [Names -> PluginRow] /\ call \in PluginCall
    /\ head \in Nat /\ worker \in Nat /\ wbuild \in [WorkerBuilds -> WorkerBuild]

AsChosen(n) == loaded[n] # NoVersion /\ prow[n] # "absent" => (active[n] <=> prow[n] = "enabled")

ChoicesOK ==
    /\ \A n \in Names : AsChosen(n) \/ (call.step \in {"register", "toggle"} /\ call.of = n)
    /\ call.step = "toggle" =>
           /\ prow[call.of] = call.was
           /\ loaded[call.of] # NoVersion => active[call.of] = call.on

WorkerOK ==
    \A b \in WorkerBuilds :
        /\ wbuild[b].step = "running" => worker = wbuild[b].ref
        /\ wbuild[b].ran \subseteq {wbuild[b].ref}
        /\ wbuild[b].step = "waiting" => wbuild[b].ran = {}

PluginInv == PluginTypes /\ StepsHaveOneOwner /\ ChoicesOK /\ WorkerOK

LEMMA PluginBegins == PluginInit => PluginInv
<1> SUFFICES ASSUME PluginInit PROVE PluginInv
  OBVIOUS
<1>1. PluginTypes
  <2>1. dir \in [Names -> [manifest : PluginVersion, binary : PluginVersion]]
    BY DEF PluginInit, PluginVersion, Installed
  <2>2. loaded \in [Names -> PluginVersion] /\ active \in [Names -> BOOLEAN] /\ prow \in [Names -> PluginRow]
    BY DEF PluginInit, PluginVersion, PluginRow
  <2>3. call \in PluginCall
    BY DEF PluginInit, PluginCall
  <2>4. head \in Nat /\ worker \in Nat /\ wbuild \in [WorkerBuilds -> WorkerBuild]
    BY DEF PluginInit, NoVersion, WorkerBuild
  <2> QED BY <2>1, <2>2, <2>3, <2>4 DEF PluginTypes
<1>2. StepsHaveOneOwner /\ ChoicesOK /\ WorkerOK
  BY DEF PluginInit, StepsHaveOneOwner, ChoicesOK, AsChosen, WorkerOK, NoCall
<1> QED BY <1>1, <1>2 DEF PluginInv

\* What a request is, by the step it is at.
LEMMA CallTypes ==
  ASSUME PluginTypes
  PROVE  /\ call = NoCall <=> call.step = "ready"
         /\ call # NoCall => call.of \in Names
         /\ call.step = "manifest" => call.version \in PluginVersions
         /\ call.step = "manifest" => [call EXCEPT !.step = "load"] \in PluginCall
         /\ call.step = "load" => [call EXCEPT !.step = "register"] \in PluginCall
         /\ call.step = "toggle" => call.on \in BOOLEAN /\ call.was \in {"enabled", "disabled"}
<1>1. call \in PluginCall
  BY DEF PluginTypes
<1>2. CASE call = NoCall
  BY <1>2 DEF NoCall
<1>3. CASE call \in [step : {"register", "load", "reload", "row"}, of : Names]
  <2>1. call.step \in {"register", "load", "reload", "row"} /\ call.of \in Names
    BY <1>3
  <2>2. PICK x : x = [call EXCEPT !.step = "register"]
    OBVIOUS
  <2>3. x \in [step : {"register", "load", "reload", "row"}, of : Names]
    BY <1>3, <2>2
  <2> QED BY <2>1, <2>2, <2>3 DEF NoCall, PluginCall
<1>4. CASE call \in [step : {"manifest", "load", "register"}, of : Names, version : PluginVersions]
  <2>1. call.step \in {"manifest", "load", "register"} /\ call.of \in Names /\ call.version \in PluginVersions
    BY <1>4
  <2>2. PICK x, y : x = [call EXCEPT !.step = "register"] /\ y = [call EXCEPT !.step = "load"]
    OBVIOUS
  <2>3. /\ x \in [step : {"manifest", "load", "register"}, of : Names, version : PluginVersions]
        /\ y \in [step : {"manifest", "load", "register"}, of : Names, version : PluginVersions]
    BY <1>4, <2>2
  <2> QED BY <2>1, <2>2, <2>3 DEF NoCall, PluginCall
<1>5. CASE call \in [step : {"toggle"}, of : Names, on : BOOLEAN, was : {"enabled", "disabled"}]
  <2>1. call.step = "toggle" /\ call.of \in Names /\ call.on \in BOOLEAN /\ call.was \in {"enabled", "disabled"}
    BY <1>5
  <2> QED BY <2>1 DEF NoCall
<1> QED BY <1>1, <1>2, <1>3, <1>4, <1>5 DEF PluginCall

\* Loading compares with everything that is loaded, unloading takes nothing else away.
LEMMA LoadingKeepsOwners ==
  ASSUME PluginTypes, StepsHaveOneOwner, NEW n \in Names, Loadable(n, dir, loaded), Load(n)
  PROVE  StepsHaveOneOwner' /\ loaded' \in [Names -> PluginVersion] /\ active' \in [Names -> BOOLEAN]
<1>1. dir[n].manifest \in PluginVersion
  BY DEF PluginTypes
<1>2. loaded' \in [Names -> PluginVersion] /\ active' \in [Names -> BOOLEAN]
  BY <1>1 DEF PluginTypes, Load
<1>3. PICK v : v = dir[n].manifest
  OBVIOUS
<1>4. loaded'[n] = v /\ \A m \in Names \ {n} : loaded'[m] = loaded[m]
  BY <1>3 DEF PluginTypes, Load
<1>5. \A m \in Names \ {n} : loaded[m] # NoVersion => StepTypes[n][v] \cap StepTypes[m][loaded[m]] = {}
  BY <1>3 DEF Loadable, Registered
<1>6. \A m \in Names \ {n} : loaded[m] # NoVersion => StepTypes[m][loaded[m]] \cap StepTypes[n][v] = {}
  BY <1>5
<1>7. DOMAIN loaded = Names /\ DOMAIN loaded' = Names
  BY <1>2 DEF PluginTypes
<1>8. ASSUME NEW a \in Names, NEW b \in Names, a # b, loaded'[a] # NoVersion, loaded'[b] # NoVersion
      PROVE  StepTypes[a][loaded'[a]] \cap StepTypes[b][loaded'[b]] = {}
  <2>1. CASE a = n
    BY <1>4, <1>5, <1>8, <2>1
  <2>2. CASE b = n
    BY <1>4, <1>6, <1>8, <2>2
  <2>3. CASE a # n /\ b # n
    BY <1>4, <1>7, <1>8, <2>3 DEF StepsHaveOneOwner
  <2> QED BY <2>1, <2>2, <2>3
<1> QED BY <1>2, <1>7, <1>8 DEF StepsHaveOneOwner

LEMMA UnloadingKeepsOwners ==
  ASSUME PluginTypes, StepsHaveOneOwner, NEW n \in Names,
         loaded' = [loaded EXCEPT ![n] = NoVersion], active' = [active EXCEPT ![n] = FALSE]
  PROVE  /\ StepsHaveOneOwner' /\ loaded' \in [Names -> PluginVersion] /\ active' \in [Names -> BOOLEAN]
         /\ loaded'[n] = NoVersion
         /\ \A m \in Names : m # n => loaded'[m] = loaded[m] /\ active'[m] = active[m]
BY DEF PluginTypes, PluginVersion, StepsHaveOneOwner

\* A step of the server leaves the worker alone.
LEMMA ServerMoves ==
  ASSUME PluginInv, StepsHaveOneOwner', ChoicesOK', UNCHANGED workerSide,
         dir' \in [Names -> [manifest : PluginVersion, binary : PluginVersion]],
         loaded' \in [Names -> PluginVersion], active' \in [Names -> BOOLEAN],
         prow' \in [Names -> PluginRow], call' \in PluginCall
  PROVE  PluginInv'
<1>1. head' = head /\ worker' = worker /\ wbuild' = wbuild
  BY DEF workerSide
<1> QED BY <1>1 DEF PluginInv, PluginTypes, WorkerOK

\* A request between its statements: the choice of one plugin may be open.
LEMMA ChoiceOpens ==
  ASSUME PluginTypes, ChoicesOK, call = NoCall, prow' = prow, NEW n \in Names,
         \A m \in Names : m # n => loaded'[m] = loaded[m] /\ active'[m] = active[m],
         call'.step \in {"register", "toggle"}, call'.of = n,
         call'.step = "toggle" => prow[n] = call'.was /\ (loaded'[n] # NoVersion => active'[n] = call'.on)
  PROVE  ChoicesOK'
BY DEF ChoicesOK, AsChosen, NoCall

LEMMA InstallKnownKeeps ==
  ASSUME PluginInv, NEW n \in Names, InstallKnown(n)
  PROVE  PluginInv'
<1>1. PluginTypes /\ StepsHaveOneOwner /\ ChoicesOK /\ call = NoCall
  BY DEF PluginInv, InstallKnown, Calls
<1>2. dir' = dir /\ prow' = prow /\ UNCHANGED workerSide
  BY DEF InstallKnown
<1>3. /\ dir' \in [Names -> [manifest : PluginVersion, binary : PluginVersion]]
      /\ prow' \in [Names -> PluginRow] /\ NoCall \in PluginCall
      /\ [step |-> "register", of |-> n] \in PluginCall
  BY <1>1, <1>2 DEF PluginTypes, PluginCall
<1>4. CASE call' = [step |-> "register", of |-> n] /\ UNCHANGED <<loaded, active>>
  <2>1. ChoicesOK'
    BY <1>1, <1>2, <1>4, ChoiceOpens
  <2> QED BY <1>1, <1>2, <1>3, <1>4, <2>1, ServerMoves DEF StepsHaveOneOwner, PluginTypes
<1>5. CASE call' = [step |-> "register", of |-> n] /\ Loadable(n, dir, loaded) /\ Load(n)
  <2>1. StepsHaveOneOwner' /\ loaded' \in [Names -> PluginVersion] /\ active' \in [Names -> BOOLEAN]
    BY <1>1, <1>5, LoadingKeepsOwners
  <2>2. \A m \in Names : m # n => loaded'[m] = loaded[m] /\ active'[m] = active[m]
    BY <1>1, <1>5 DEF Load, PluginTypes
  <2>3. ChoicesOK'
    BY <1>1, <1>2, <1>5, <2>2, ChoiceOpens
  <2> QED BY <1>2, <1>3, <1>5, <2>1, <2>3, ServerMoves
<1>6. CASE Answers /\ UNCHANGED <<loaded, active>>
  <2>1. ChoicesOK'
    BY <1>1, <1>2, <1>6 DEF ChoicesOK, AsChosen, Answers, NoCall
  <2> QED BY <1>1, <1>2, <1>3, <1>6, <2>1, ServerMoves DEF StepsHaveOneOwner, PluginTypes, Answers
<1> QED BY <1>4, <1>5, <1>6 DEF InstallKnown

LEMMA ToggleKeeps ==
  ASSUME PluginInv, NEW n \in Names, NEW on \in BOOLEAN, TogglePlugin(n, on)
  PROVE  PluginInv'
<1>1. PluginTypes /\ StepsHaveOneOwner /\ ChoicesOK /\ call = NoCall
  BY DEF PluginInv, TogglePlugin, Calls
<1>2. dir' = dir /\ prow' = prow /\ prow[n] # "absent" /\ UNCHANGED workerSide
  BY DEF TogglePlugin
<1>3. PICK was : was = prow[n]
  OBVIOUS
<1>4. was \in {"enabled", "disabled"}
  BY <1>1, <1>2, <1>3 DEF PluginTypes, PluginRow
<1>5. PICK c : c = [step |-> "toggle", of |-> n, on |-> on, was |-> was]
  OBVIOUS
<1>6. c \in PluginCall /\ c.step = "toggle" /\ c.of = n /\ c.on = on /\ c.was = was
  BY <1>4, <1>5 DEF PluginCall
<1>7. /\ dir' \in [Names -> [manifest : PluginVersion, binary : PluginVersion]]
      /\ prow' \in [Names -> PluginRow] /\ NoCall \in PluginCall
  BY <1>1, <1>2 DEF PluginTypes, PluginCall
<1>8. CASE on /\ loaded[n] = NoVersion /\ Loadable(n, dir, loaded) /\ Load(n) /\ call' = c
  <2>1. StepsHaveOneOwner' /\ loaded' \in [Names -> PluginVersion] /\ active' \in [Names -> BOOLEAN]
    BY <1>1, <1>8, LoadingKeepsOwners
  <2>2. active'[n] = on /\ \A m \in Names : m # n => loaded'[m] = loaded[m] /\ active'[m] = active[m]
    BY <1>1, <1>8 DEF Load, PluginTypes
  <2>3. ChoicesOK'
    BY <1>1, <1>2, <1>3, <1>6, <1>8, <2>2, ChoiceOpens
  <2> QED BY <1>2, <1>6, <1>7, <1>8, <2>1, <2>3, ServerMoves
<1>9. CASE SetEnabled(n, on) /\ UNCHANGED loaded /\ call' = c
  <2>1. active' \in [Names -> BOOLEAN] /\ (loaded[n] # NoVersion => active'[n] = on)
    BY <1>1, <1>9 DEF SetEnabled, PluginTypes
  <2>2. \A m \in Names : m # n => loaded'[m] = loaded[m] /\ active'[m] = active[m]
    BY <1>1, <1>9 DEF SetEnabled, PluginTypes
  <2>3. ChoicesOK'
    BY <1>1, <1>2, <1>3, <1>6, <1>9, <2>1, <2>2, ChoiceOpens
  <2> QED BY <1>1, <1>2, <1>6, <1>7, <1>9, <2>1, <2>3, ServerMoves DEF StepsHaveOneOwner, PluginTypes
<1>10. CASE Answers /\ UNCHANGED <<loaded, active>>
  <2>1. ChoicesOK'
    BY <1>1, <1>2, <1>10 DEF ChoicesOK, AsChosen, Answers, NoCall
  <2> QED BY <1>1, <1>2, <1>7, <1>10, <2>1, ServerMoves DEF StepsHaveOneOwner, PluginTypes, Answers
<1> QED BY <1>3, <1>5, <1>8, <1>9, <1>10 DEF TogglePlugin

\* The statements that touch nothing but files.
LEMMA FilesKeep ==
  ASSUME PluginInv,
         \/ \E n \in Names, v \in PluginVersions : DownloadBinary(n, v) \/ ReplaceFiles(n, v)
         \/ WriteManifest
  PROVE  PluginInv'
<1>1. PluginTypes /\ StepsHaveOneOwner /\ ChoicesOK
  BY DEF PluginInv
<1>2. /\ loaded' = loaded /\ active' = active /\ prow' = prow /\ UNCHANGED workerSide
      /\ call.step \notin {"register", "toggle"}
  BY DEF DownloadBinary, ReplaceFiles, WriteManifest, Calls, NoCall
<1>3. /\ dir' \in [Names -> [manifest : PluginVersion, binary : PluginVersion]] /\ call' \in PluginCall
      /\ call'.step # "toggle"
  <2>0. NoCall \in PluginCall /\ NoCall.step # "toggle"
    BY DEF PluginCall, NoCall
  <2>1. ASSUME NEW n \in Names, NEW v \in PluginVersions, DownloadBinary(n, v)
        PROVE  /\ dir' \in [Names -> [manifest : PluginVersion, binary : PluginVersion]]
               /\ call' \in PluginCall /\ call'.step # "toggle"
    <3>1. v \in PluginVersion /\ Garbage \in PluginVersion
      BY DEF PluginVersion
    <3>2. dir' \in [Names -> [manifest : PluginVersion, binary : PluginVersion]]
      BY <1>1, <2>1, <3>1 DEF DownloadBinary, PluginTypes
    <3>3. call' = [step |-> "manifest", of |-> n, version |-> v] \/ call' = NoCall
      BY <2>1 DEF DownloadBinary, Answers
    <3>4. /\ [step |-> "manifest", of |-> n, version |-> v] \in PluginCall
          /\ [step |-> "manifest", of |-> n, version |-> v].step # "toggle"
      BY DEF PluginCall
    <3> QED BY <2>0, <3>2, <3>3, <3>4
  <2>2. ASSUME NEW n \in Names, NEW v \in PluginVersions, ReplaceFiles(n, v)
        PROVE  /\ dir' \in [Names -> [manifest : PluginVersion, binary : PluginVersion]]
               /\ call' \in PluginCall /\ call'.step # "toggle"
    <3>1. v \in PluginVersion
      BY DEF PluginVersion
    <3>2. dir' \in [Names -> [manifest : PluginVersion, binary : PluginVersion]]
      BY <1>1, <2>2, <3>1 DEF ReplaceFiles, PluginTypes
    <3>3. call' = [step |-> "reload", of |-> n]
      BY <2>2 DEF ReplaceFiles
    <3>4. [step |-> "reload", of |-> n] \in PluginCall /\ [step |-> "reload", of |-> n].step # "toggle"
      BY DEF PluginCall
    <3> QED BY <3>2, <3>3, <3>4
  <2>3. CASE WriteManifest
    <3>1. call.version \in PluginVersions /\ call.of \in Names /\ [call EXCEPT !.step = "load"] \in PluginCall
      BY <1>1, <2>3, CallTypes DEF WriteManifest, NoCall
    <3>2. call.version \in PluginVersion
      BY <3>1 DEF PluginVersion
    <3>3. dir' \in [Names -> [manifest : PluginVersion, binary : PluginVersion]]
      BY <1>1, <2>3, <3>1, <3>2 DEF WriteManifest, PluginTypes
    <3>4. call' \in PluginCall /\ call'.step = "load"
      <4>1. call.step = "manifest" /\ call' = [call EXCEPT !.step = "load"]
        BY <2>3 DEF WriteManifest
      <4>2. call \in [step : {"manifest", "load", "register"}, of : Names, version : PluginVersions]
        BY <1>1, <4>1 DEF PluginTypes, PluginCall, NoCall
      <4> QED BY <3>1, <4>1, <4>2
    <3> QED BY <3>3, <3>4
  <2> QED BY <2>1, <2>2, <2>3
<1>4. ChoicesOK'
  BY <1>1, <1>2, <1>3 DEF ChoicesOK, AsChosen
<1>5. /\ StepsHaveOneOwner' /\ loaded' \in [Names -> PluginVersion] /\ active' \in [Names -> BOOLEAN]
      /\ prow' \in [Names -> PluginRow]
  BY <1>1, <1>2 DEF StepsHaveOneOwner, PluginTypes
<1> QED BY <1>2, <1>3, <1>4, <1>5, ServerMoves

LEMMA LoadInstalledKeeps ==
  ASSUME PluginInv, LoadInstalled
  PROVE  PluginInv'
<1>1. PluginTypes /\ StepsHaveOneOwner /\ ChoicesOK /\ call.step = "load"
  BY DEF PluginInv, LoadInstalled
<1>2. dir' = dir /\ prow' = prow /\ UNCHANGED workerSide
  BY DEF LoadInstalled
<1>3. PICK n, c : n = call.of /\ c = [call EXCEPT !.step = "register"]
  OBVIOUS
<1>4. /\ dir' \in [Names -> [manifest : PluginVersion, binary : PluginVersion]]
      /\ prow' \in [Names -> PluginRow] /\ NoCall \in PluginCall
  BY <1>1, <1>2 DEF PluginTypes, PluginCall
<1>5. n \in Names /\ c \in PluginCall
  BY <1>1, <1>3, CallTypes
<1>6. c.step = "register" /\ c.of = n
  <2>1. \/ call \in [step : {"register", "load", "reload", "row"}, of : Names]
        \/ call \in [step : {"manifest", "load", "register"}, of : Names, version : PluginVersions]
    BY <1>1 DEF PluginTypes, PluginCall, NoCall
  <2> QED BY <1>3, <2>1
<1>7. CASE Loadable(n, dir, loaded) /\ Load(n) /\ call' = c
  <2>1. StepsHaveOneOwner' /\ loaded' \in [Names -> PluginVersion] /\ active' \in [Names -> BOOLEAN]
    BY <1>1, <1>5, <1>7, LoadingKeepsOwners
  <2>2. \A m \in Names : m # n => loaded'[m] = loaded[m] /\ active'[m] = active[m]
    BY <1>1, <1>5, <1>7 DEF Load, PluginTypes
  <2>3. ChoicesOK'
    BY <1>1, <1>2, <1>6, <1>7, <2>2 DEF ChoicesOK, AsChosen
  <2> QED BY <1>2, <1>4, <1>5, <1>7, <2>1, <2>3, ServerMoves
<1>8. CASE Answers /\ UNCHANGED <<loaded, active>>
  <2>1. ChoicesOK'
    BY <1>1, <1>2, <1>8 DEF ChoicesOK, AsChosen, Answers, NoCall
  <2> QED BY <1>1, <1>2, <1>4, <1>8, <2>1, ServerMoves DEF StepsHaveOneOwner, PluginTypes, Answers
<1> QED BY <1>3, <1>7, <1>8 DEF LoadInstalled

\* A row is written, and what it chooses is applied.
LEMMA RowsKeep ==
  ASSUME PluginInv, "metadata" \notin PluginFaults, RegisterPlugin \/ UpdatePluginEnabled \/ DeletePluginRow
  PROVE  PluginInv'
<1>1. PluginTypes /\ StepsHaveOneOwner /\ ChoicesOK
  BY DEF PluginInv
<1>2. dir' = dir /\ loaded' = loaded /\ call' = NoCall /\ UNCHANGED workerSide /\ call.step # "ready"
  BY DEF RegisterPlugin, UpdatePluginEnabled, DeletePluginRow, Answers
<1>3. PICK n \in Names : n = call.of
  BY <1>1, <1>2, CallTypes DEF NoCall
<1>4. CASE RegisterPlugin
  <2>1. /\ prow' = [prow EXCEPT ![n] = IF @ = "absent" THEN "enabled" ELSE @]
        /\ active' = [active EXCEPT ![n] = IF loaded[n] # NoVersion THEN Choice(n) ELSE @]
        /\ call.step = "register"
    BY <1>3, <1>4 DEF RegisterPlugin, Faulted, SetEnabled
  <2>2. Choice(n) \in BOOLEAN
    BY DEF Choice
  <2>3. prow' \in [Names -> PluginRow] /\ active' \in [Names -> BOOLEAN]
    BY <1>1, <2>1, <2>2 DEF PluginTypes, PluginRow
  <2>4. \A m \in Names : m # n => prow'[m] = prow[m] /\ active'[m] = active[m]
    BY <1>1, <2>1 DEF PluginTypes
  <2>5. AsChosen(n)'
    <3>1. prow'[n] = IF prow[n] = "absent" THEN "enabled" ELSE prow[n]
      BY <1>1, <2>1 DEF PluginTypes
    <3>2. loaded[n] # NoVersion => (active'[n] <=> prow[n] # "disabled")
      BY <1>1, <2>1 DEF PluginTypes, Choice
    <3> QED BY <1>1, <1>2, <3>1, <3>2 DEF AsChosen, PluginTypes, PluginRow
  <2>6. ChoicesOK'
    BY <1>1, <1>2, <1>3, <2>1, <2>4, <2>5 DEF ChoicesOK, AsChosen, NoCall
  <2> QED BY <1>1, <1>2, <2>3, <2>6, ServerMoves DEF StepsHaveOneOwner, PluginTypes, PluginCall
<1>5. CASE UpdatePluginEnabled
  <2>1. call.step = "toggle" /\ call.on \in BOOLEAN /\ call.was \in {"enabled", "disabled"}
    BY <1>1, <1>5, CallTypes DEF UpdatePluginEnabled
  <2>2. prow[n] = call.was /\ (loaded[n] # NoVersion => active[n] = call.on)
    BY <1>1, <1>3, <2>1 DEF ChoicesOK
  <2>3. CASE prow' = [prow EXCEPT ![n] = IF call.on THEN "enabled" ELSE "disabled"] /\ UNCHANGED active
    <3>1. prow' \in [Names -> PluginRow] /\ \A m \in Names : m # n => prow'[m] = prow[m]
      BY <1>1, <2>3 DEF PluginTypes, PluginRow
    <3>2. AsChosen(n)'
      BY <1>1, <1>2, <2>1, <2>2, <2>3 DEF AsChosen, PluginTypes
    <3>3. ChoicesOK'
      BY <1>1, <1>2, <1>3, <2>3, <3>1, <3>2 DEF ChoicesOK, AsChosen, NoCall
    <3> QED BY <1>1, <1>2, <2>3, <3>1, <3>3, ServerMoves DEF StepsHaveOneOwner, PluginTypes, PluginCall
  <2>4. CASE UNCHANGED prow /\ TakenBack(n, call.was)
    <3>1. active' \in [Names -> BOOLEAN] /\ \A m \in Names : m # n => active'[m] = active[m]
      BY <1>1, <2>4 DEF PluginTypes, TakenBack, SetEnabled
    <3>2. AsChosen(n)'
      BY <1>1, <1>2, <2>1, <2>2, <2>4 DEF AsChosen, PluginTypes, TakenBack, SetEnabled
    <3>3. ChoicesOK'
      BY <1>1, <1>2, <1>3, <2>4, <3>1, <3>2 DEF ChoicesOK, AsChosen, NoCall
    <3> QED BY <1>1, <1>2, <2>4, <3>1, <3>3, ServerMoves DEF StepsHaveOneOwner, PluginTypes, PluginCall
  <2> QED BY <1>3, <1>5, <2>3, <2>4 DEF UpdatePluginEnabled
<1>6. CASE DeletePluginRow
  <2>1. prow' = [prow EXCEPT ![n] = "absent"] /\ active' = active /\ call.step = "row"
    BY <1>3, <1>6 DEF DeletePluginRow
  <2>2. prow' \in [Names -> PluginRow] /\ \A m \in Names : m # n => prow'[m] = prow[m]
    BY <1>1, <2>1 DEF PluginTypes, PluginRow
  <2>3. ChoicesOK'
    BY <1>1, <1>2, <2>1, <2>2 DEF ChoicesOK, AsChosen, NoCall, PluginTypes
  <2> QED BY <1>1, <1>2, <2>1, <2>2, <2>3, ServerMoves DEF StepsHaveOneOwner, PluginTypes, PluginCall
<1> QED BY <1>4, <1>5, <1>6

LEMMA UnloadKeeps ==
  ASSUME PluginInv, Unload \/ \E n \in Names : DeletePluginFiles(n)
  PROVE  PluginInv'
<1>1. PluginTypes /\ StepsHaveOneOwner /\ ChoicesOK
  BY DEF PluginInv
<1>2. prow' = prow /\ UNCHANGED workerSide /\ call.step \notin {"register", "toggle"}
  BY DEF Unload, DeletePluginFiles, Calls, NoCall
<1>3. prow' \in [Names -> PluginRow] /\ NoCall \in PluginCall
  BY <1>1, <1>2 DEF PluginTypes, PluginCall
<1>4. ASSUME NEW n \in Names, NEW s \in {"load", "row"},
             loaded' = [loaded EXCEPT ![n] = NoVersion], active' = [active EXCEPT ![n] = FALSE],
             call' = [step |-> s, of |-> n],
             dir' = dir \/ dir' = [dir EXCEPT ![n] = Installed]
      PROVE  PluginInv'
  <2>1. /\ StepsHaveOneOwner' /\ loaded' \in [Names -> PluginVersion] /\ active' \in [Names -> BOOLEAN]
        /\ loaded'[n] = NoVersion
        /\ \A m \in Names : m # n => loaded'[m] = loaded[m] /\ active'[m] = active[m]
    BY <1>1, <1>4, UnloadingKeepsOwners
  <2>2. call' \in PluginCall /\ call'.step # "toggle"
    BY <1>4 DEF PluginCall
  <2>3. ChoicesOK'
    BY <1>1, <1>2, <2>1, <2>2 DEF ChoicesOK, AsChosen
  <2>4. dir' \in [Names -> [manifest : PluginVersion, binary : PluginVersion]]
    BY <1>1, <1>4 DEF PluginTypes, PluginVersion, Installed
  <2> QED BY <1>2, <1>3, <2>1, <2>2, <2>3, <2>4, ServerMoves
<1>5. CASE Unload
  <2>1. call.of \in Names
    BY <1>1, <1>5, CallTypes DEF Unload, NoCall
  <2>2. CASE prow[call.of] = "absent"
    <3>1. Answers /\ UNCHANGED <<loaded, active, dir>>
      BY <1>5, <2>2 DEF Unload
    <3>2. ChoicesOK'
      BY <1>1, <1>2, <3>1 DEF ChoicesOK, AsChosen, Answers, NoCall
    <3> QED BY <1>1, <1>2, <1>3, <3>1, <3>2, ServerMoves DEF StepsHaveOneOwner, PluginTypes, Answers
  <2>3. CASE prow[call.of] # "absent"
    BY <1>4, <1>5, <2>1, <2>3 DEF Unload
  <2> QED BY <2>2, <2>3
<1>6. ASSUME NEW n \in Names, DeletePluginFiles(n) PROVE PluginInv'
  BY <1>4, <1>6 DEF DeletePluginFiles
<1> QED BY <1>5, <1>6

\* What LoadAll leaves in memory: of two plugins the later was compared with the earlier.
LEMMA LoadAllKeepsOwners ==
  ASSUME PluginTypes, NEW memory \in [Names -> PluginVersion], LoadAll(memory),
         NEW n \in Names, NEW m \in Names, ReadBefore(m, n), n # m,
         memory[n] # NoVersion, memory[m] # NoVersion
  PROVE  StepTypes[n][memory[n]] \cap StepTypes[m][memory[m]] = {}
<1>1. Loadable(n, dir, Earlier(memory, n)) /\ memory[n] = dir[n].manifest
  BY DEF LoadAll
<1>2. Earlier(memory, n)[m] = memory[m]
  BY DEF Earlier
<1>3. StepTypes[m][memory[m]] \subseteq Registered(n, Earlier(memory, n))
  BY <1>2 DEF Registered
<1>4. StepTypes[n][memory[n]] \cap Registered(n, Earlier(memory, n)) = {}
  BY <1>1 DEF Loadable
<1> QED BY <1>3, <1>4

LEMMA RestartKeeps ==
  ASSUME PluginInv, Restarted
  PROVE  PluginInv'
<1>1. PluginTypes
  BY DEF PluginInv
<1>2. dir' = dir /\ call' = NoCall /\ UNCHANGED workerSide
  BY DEF Restarted
<1>3. PICK memory \in [Names -> {dir[n].manifest : n \in Names} \cup {NoVersion}] :
         LoadAll(memory) /\ loaded' = memory
  BY DEF Restarted
<1>4. {dir[n].manifest : n \in Names} \cup {NoVersion} \subseteq PluginVersion
  BY <1>1 DEF PluginTypes, PluginVersion
<1>5. memory \in [Names -> PluginVersion]
  BY <1>3, <1>4
<1>6. StepsHaveOneOwner'
  <2>1. ASSUME NEW n \in Names, NEW m \in Names, n # m, memory[n] # NoVersion, memory[m] # NoVersion
        PROVE  StepTypes[n][memory[n]] \cap StepTypes[m][memory[m]] = {}
    <3>1. PICK i, j \in DOMAIN NameOrder : NameOrder[i] = n /\ NameOrder[j] = m
      BY DEF Names
    <3>2. DOMAIN NameOrder = 1 .. Len(NameOrder) /\ Len(NameOrder) \in Nat
      BY NameOrderAssumption
    <3>3. i < j \/ j < i
      BY <2>1, <3>1, <3>2
    <3>4. ReadBefore(m, n) \/ ReadBefore(n, m)
      BY <3>1, <3>3 DEF ReadBefore
    <3>5. CASE ReadBefore(m, n)
      BY <1>1, <1>3, <1>5, <2>1, <3>5, LoadAllKeepsOwners
    <3>6. CASE ReadBefore(n, m)
      <4>1. StepTypes[m][memory[m]] \cap StepTypes[n][memory[n]] = {}
        BY <1>1, <1>3, <1>5, <2>1, <3>6, LoadAllKeepsOwners
      <4> QED BY <4>1
    <3> QED BY <3>4, <3>5, <3>6
  <2> QED BY <1>3, <1>5, <2>1 DEF StepsHaveOneOwner
<1>7. /\ \A n \in Names : prow'[n] = IF loaded'[n] # NoVersion /\ prow[n] = "absent" THEN "enabled" ELSE prow[n]
      /\ \A n \in Names : active'[n] = (loaded'[n] # NoVersion /\ Choice(n))
      /\ prow' \in [Names -> PluginRow] /\ active' \in [Names -> BOOLEAN]
  BY <1>1 DEF Restarted, PluginTypes, PluginRow, Choice
<1>8. ChoicesOK'
  <2>1. ASSUME NEW n \in Names PROVE AsChosen(n)'
    <3>1. prow[n] \in PluginRow
      BY <1>1 DEF PluginTypes
    <3>2. CASE loaded'[n] # NoVersion
      <4>1. active'[n] <=> prow[n] # "disabled"
        BY <1>7, <3>2 DEF Choice
      <4>2. prow'[n] = IF prow[n] = "absent" THEN "enabled" ELSE prow[n]
        BY <1>7, <3>2
      <4> QED BY <3>1, <4>1, <4>2 DEF AsChosen, PluginRow
    <3> QED BY <3>2 DEF AsChosen
  <2> QED BY <1>2, <2>1 DEF ChoicesOK, NoCall
<1> QED BY <1>1, <1>2, <1>3, <1>5, <1>6, <1>7, <1>8, ServerMoves DEF PluginTypes, PluginCall

\* The worker's one build: what is in memory while it runs is what it refers to.
LEMMA WorkerKeeps ==
  ASSUME PluginInv, \A b, c \in WorkerBuilds : b = c,
         PushVersion \/ \E b \in WorkerBuilds : CompareLoaded(b) \/ InstallReference(b) \/ LookupStep(b) \/ EndOfBuild(b)
  PROVE  PluginInv'
<1>1. PluginTypes /\ WorkerOK
  BY DEF PluginInv
<1>2. UNCHANGED serverSide
  BY DEF PushVersion, CompareLoaded, InstallReference, LookupStep, EndOfBuild
<1>3. StepsHaveOneOwner' /\ ChoicesOK'
  BY <1>2 DEF PluginInv, StepsHaveOneOwner, ChoicesOK, AsChosen, serverSide
<1>4. head' \in Nat /\ worker' \in Nat /\ wbuild' \in [WorkerBuilds -> WorkerBuild] /\ WorkerOK'
  <2>1. CASE PushVersion
    <3>1. head' = head + 1 /\ worker' = worker /\ head \in Nat /\ worker \in Nat
      BY <1>1, <2>1 DEF PushVersion, PluginTypes
    <3>2. ASSUME NEW b \in WorkerBuilds
          PROVE  /\ wbuild'[b] \in WorkerBuild /\ wbuild'[b].step = wbuild[b].step /\ wbuild'[b].ran = wbuild[b].ran
                 /\ wbuild[b].step # "waiting" => wbuild'[b].ref = wbuild[b].ref
      <4>1. wbuild'[b] = IF wbuild[b].step = "waiting" THEN [wbuild[b] EXCEPT !.ref = head + 1] ELSE wbuild[b]
        BY <2>1 DEF PushVersion
      <4>2. wbuild[b] \in WorkerBuild
        BY <1>1 DEF PluginTypes
      <4> QED BY <3>1, <4>1, <4>2 DEF WorkerBuild
    <3>3. wbuild' \in [WorkerBuilds -> WorkerBuild]
      BY <2>1, <3>2 DEF PushVersion
    <3> QED BY <1>1, <3>1, <3>2, <3>3 DEF WorkerOK
  <2>2. ASSUME NEW b \in WorkerBuilds, CompareLoaded(b) \/ InstallReference(b) \/ LookupStep(b) \/ EndOfBuild(b)
        PROVE  head' \in Nat /\ worker' \in Nat /\ wbuild' \in [WorkerBuilds -> WorkerBuild] /\ WorkerOK'
    <3>1. wbuild[b] \in WorkerBuild /\ head \in Nat /\ worker \in Nat
      BY <1>1 DEF PluginTypes
    <3>2. \A c \in WorkerBuilds : c = b
      OBVIOUS
    <3>3. CASE CompareLoaded(b)
      <4>1. PICK q : q = [wbuild[b] EXCEPT !.step = IF worker = wbuild[b].ref THEN "running" ELSE "install"]
        OBVIOUS
      <4>2. /\ q \in WorkerBuild /\ q.ref = wbuild[b].ref /\ q.ran = wbuild[b].ran /\ q.step # "waiting"
            /\ q.step = "running" => worker = q.ref
        BY <3>1, <4>1 DEF WorkerBuild
      <4>3. head' = head /\ worker' = worker /\ wbuild' = [wbuild EXCEPT ![b] = q]
        BY <3>3, <4>1 DEF CompareLoaded
      <4>4. wbuild'[b] = q /\ wbuild' \in [WorkerBuilds -> WorkerBuild]
        BY <1>1, <4>2, <4>3 DEF PluginTypes
      <4> QED BY <1>1, <3>1, <3>2, <4>2, <4>3, <4>4 DEF WorkerOK
    <3>4. CASE InstallReference(b)
      <4>1. PICK q : q = [wbuild[b] EXCEPT !.step = IF Matches(b) THEN "running" ELSE "refused"]
        OBVIOUS
      <4>2. /\ q \in WorkerBuild /\ q.ref = wbuild[b].ref /\ q.ran = wbuild[b].ran /\ q.step # "waiting"
            /\ q.step = "running" => head = q.ref
        BY <3>1, <4>1 DEF WorkerBuild, Matches
      <4>3. head' = head /\ worker' = head /\ wbuild' = [wbuild EXCEPT ![b] = q]
        BY <3>4, <4>1 DEF InstallReference
      <4>4. wbuild'[b] = q /\ wbuild' \in [WorkerBuilds -> WorkerBuild]
        BY <1>1, <4>2, <4>3 DEF PluginTypes
      <4> QED BY <1>1, <3>1, <3>2, <4>2, <4>3, <4>4 DEF WorkerOK
    <3>5. CASE LookupStep(b)
      <4>1. PICK q : q = [wbuild[b] EXCEPT !.ran = @ \cup {worker}]
        OBVIOUS
      <4>2. q \in WorkerBuild /\ q.ref = wbuild[b].ref /\ q.step = wbuild[b].step /\ q.ran = wbuild[b].ran \cup {worker}
        BY <3>1, <4>1 DEF WorkerBuild
      <4>3. head' = head /\ worker' = worker /\ wbuild' = [wbuild EXCEPT ![b] = q] /\ wbuild[b].step = "running"
        BY <3>5, <4>1 DEF LookupStep
      <4>4. wbuild'[b] = q /\ wbuild' \in [WorkerBuilds -> WorkerBuild]
        BY <1>1, <4>2, <4>3 DEF PluginTypes
      <4>5. worker = wbuild[b].ref /\ wbuild[b].ran \subseteq {wbuild[b].ref}
        BY <1>1, <4>3 DEF WorkerOK
      <4> QED BY <3>1, <3>2, <4>2, <4>3, <4>4, <4>5 DEF WorkerOK
    <3>6. CASE EndOfBuild(b)
      <4>1. PICK q : q = [wbuild[b] EXCEPT !.step = "waiting", !.ran = {}, !.ref = head]
        OBVIOUS
      <4>2. q \in WorkerBuild /\ q.step = "waiting" /\ q.ran = {}
        BY <3>1, <4>1 DEF WorkerBuild
      <4>3. head' = head /\ worker' = worker /\ wbuild' = [wbuild EXCEPT ![b] = q]
        BY <1>1, <3>6, <4>1 DEF EndOfBuild, PluginTypes
      <4>4. wbuild'[b] = q /\ wbuild' \in [WorkerBuilds -> WorkerBuild]
        BY <1>1, <4>2, <4>3 DEF PluginTypes
      <4> QED BY <3>1, <3>2, <4>2, <4>3, <4>4 DEF WorkerOK
    <3> QED BY <2>2, <3>3, <3>4, <3>5, <3>6
  <2> QED BY <2>1, <2>2
<1> QED BY <1>1, <1>2, <1>3, <1>4 DEF PluginInv, PluginTypes, serverSide

LEMMA PluginKeeps ==
  ASSUME PluginInv, [PluginNext]_pluginVars,
         "metadata" \notin PluginFaults, \A b, c \in WorkerBuilds : b = c
  PROVE  PluginInv'
<1>1. CASE UNCHANGED pluginVars
  BY <1>1 DEF PluginInv, PluginTypes, StepsHaveOneOwner, ChoicesOK, AsChosen, WorkerOK, pluginVars
<1>2. ASSUME NEW n \in Names, InstallKnown(n) PROVE PluginInv'
  BY <1>2, InstallKnownKeeps
<1>3. ASSUME NEW n \in Names, NEW on \in BOOLEAN, TogglePlugin(n, on) PROVE PluginInv'
  BY <1>3, ToggleKeeps
<1>4. ASSUME \/ \E n \in Names, v \in PluginVersions : DownloadBinary(n, v) \/ ReplaceFiles(n, v)
             \/ WriteManifest
      PROVE  PluginInv'
  BY <1>4, FilesKeep
<1>5. CASE LoadInstalled
  BY <1>5, LoadInstalledKeeps
<1>6. CASE RegisterPlugin \/ UpdatePluginEnabled \/ DeletePluginRow
  BY <1>6, RowsKeep
<1>7. CASE Unload \/ \E n \in Names : DeletePluginFiles(n)
  BY <1>7, UnloadKeeps
<1>8. CASE Restarted
  BY <1>8, RestartKeeps
<1>9. CASE PushVersion \/ \E b \in WorkerBuilds : CompareLoaded(b) \/ InstallReference(b) \/ LookupStep(b) \/ EndOfBuild(b)
  BY <1>9, WorkerKeeps
<1> QED BY <1>1, <1>2, <1>3, <1>4, <1>5, <1>6, <1>7, <1>8, <1>9 DEF PluginNext

\* A step type has one plugin, between two requests the loader executes what the rows
\* say is enabled, and the steps of a build on a worker run with the version the server
\* referred to: as long as the row of an installed plugin can be written, and for a
\* worker that has one build at a time.
THEOREM PluginsAreChosenHolds ==
  ASSUME "metadata" \notin PluginFaults, \A b, c \in WorkerBuilds : b = c
  PROVE  PluginSpec => []PluginsAreChosen
<1>1. PluginInit => PluginInv
  BY PluginBegins
<1>2. PluginInv /\ [PluginNext]_pluginVars => PluginInv'
  BY PluginKeeps
<1>3. PluginInv => PluginsAreChosen
  <2>1. SUFFICES ASSUME PluginInv PROVE PluginsAreChosen
    OBVIOUS
  <2>2. StepsHaveOneOwner
    BY <2>1 DEF PluginInv
  <2>3. ChoiceIsKept
    BY <2>1 DEF PluginInv, PluginTypes, ChoicesOK, AsChosen, ChoiceIsKept, NoCall
  <2>4. StepsRunTheReference
    BY <2>1 DEF PluginInv, PluginTypes, WorkerOK, StepsRunTheReference
  <2> QED BY <2>2, <2>3, <2>4 DEF PluginsAreChosen
<1> QED BY <1>1, <1>2, <1>3, PTL DEF PluginSpec

-----------------------------------------------------------------------------
\* What is true of a place whenever it is true of the places after it is true everywhere.
LEMMA Downwards ==
  ASSUME NEW n \in Nat, NEW S \in SUBSET (1..n),
         \A i \in 1..n : (\A j \in 1..n : i < j => j \in S) => i \in S
  PROVE  S = 1..n
<1>1. CASE (1..n) \ S = {}
  BY <1>1
<1>2. CASE (1..n) \ S # {}
  <2>1. (1..n) \ S \in SUBSET (1..n)
    OBVIOUS
  <2>2. PICK m \in (1..n) \ S : \A k \in (1..n) \ S : k <= m
    BY <1>2, <2>1, GreatestNatural
  <2>3. \A j \in 1..n : m < j => j \in S
    BY <2>2
  <2> QED BY <2>2, <2>3
<1> QED BY <1>1, <1>2

(***************************************************************************)
(* SecretMasker.                                                           *)
(***************************************************************************)
\* No masked secret is the beginning of another.
NoneBeginsAnother == \A s, other \in MaskedSecrets : IsPrefix(s, other) => s = other

Out == Bytes \cup {Masked}
Rest(t, i) == SubSeq(t, i, Len(t))

LEMMA OutAssociative == \A a, b, d \in Seq(Out) : (a \o b) \o d = a \o (b \o d)
<1> TAKE a \in Seq(Out), b \in Seq(Out), d \in Seq(Out)
<1> QED OBVIOUS

LEMMA BytesAssociative == \A a, b, d \in Seq(Bytes) : (a \o b) \o d = a \o (b \o d)
<1> TAKE a \in Seq(Bytes), b \in Seq(Bytes), d \in Seq(Bytes)
<1> QED OBVIOUS

LEMMA RestIs ==
  ASSUME NEW S, NEW t \in Seq(S), NEW i \in 1..Len(t) + 1
  PROVE  /\ Rest(t, i) \in Seq(S) /\ Len(Rest(t, i)) = Len(t) + 1 - i
         /\ \A j \in 1..Len(t) + 1 - i : Rest(t, i)[j] = t[i + j - 1]
<1>1. CASE i = Len(t) + 1
  BY <1>1, SubSeqEmpty, SMT DEF Rest
<1>2. CASE i \in 1..Len(t)
  BY <1>2, SubSeqProperties, SMT DEF Rest
<1> QED BY <1>1, <1>2

LEMMA PrefixIs ==
  ASSUME NEW S, NEW s \in Seq(S), NEW t \in Seq(S)
  PROVE  IsPrefix(s, t) <=> Len(s) <= Len(t) /\ \A j \in 1..Len(s) : s[j] = t[j]
<1>1. SUFFICES ASSUME Len(s) <= Len(t)
      PROVE SubSeq(s, 1, Len(s)) = SubSeq(t, 1, Len(s)) <=> \A j \in 1..Len(s) : s[j] = t[j]
  BY DEF IsPrefix
<1>2. /\ SubSeq(s, 1, Len(s)) \in Seq(S) /\ Len(SubSeq(s, 1, Len(s))) = Len(s)
      /\ \A j \in 1..Len(s) : SubSeq(s, 1, Len(s))[j] = s[j]
  OBVIOUS
<1>3. /\ SubSeq(t, 1, Len(s)) \in Seq(S) /\ Len(SubSeq(t, 1, Len(s))) = Len(s)
      /\ \A j \in 1..Len(s) : SubSeq(t, 1, Len(s))[j] = t[j]
  BY <1>1
<1> QED BY <1>2, <1>3, SeqEqual

LEMMA MatchIs ==
  ASSUME NEW s \in Seq(Bytes), NEW t \in Seq(Bytes), NEW i \in 1..Len(t) + 1
  PROVE  /\ IsPrefix(s, Rest(t, i)) <=> Len(s) <= Len(t) + 1 - i /\ \A j \in 1..Len(s) : s[j] = t[i + j - 1]
         /\ IsPrefix(Rest(t, i), s) <=> Len(t) + 1 - i <= Len(s) /\ \A j \in 1..Len(t) + 1 - i : s[j] = t[i + j - 1]
<1>1. /\ Rest(t, i) \in Seq(Bytes) /\ Len(Rest(t, i)) = Len(t) + 1 - i
      /\ \A j \in 1..Len(t) + 1 - i : Rest(t, i)[j] = t[i + j - 1]
  BY RestIs
<1>2. PICK r \in Seq(Bytes) : r = Rest(t, i)
  BY <1>1
<1>3. IsPrefix(s, r) <=> Len(s) <= Len(r) /\ \A j \in 1..Len(s) : s[j] = r[j]
  BY PrefixIs
<1>4. IsPrefix(r, s) <=> Len(r) <= Len(s) /\ \A j \in 1..Len(r) : r[j] = s[j]
  BY PrefixIs
<1>5. Len(s) \in Nat /\ Len(t) \in Nat
  OBVIOUS
<1>6. Len(r) \in Nat /\ Len(r) = Len(t) + 1 - i /\ \A j \in 1..Len(r) : r[j] = t[i + j - 1]
  BY <1>1, <1>2
<1>7. IsPrefix(s, r) <=> Len(s) <= Len(r) /\ \A j \in 1..Len(s) : s[j] = t[i + j - 1]
  <2>1. ASSUME Len(s) <= Len(r), NEW j \in 1..Len(s)
        PROVE  r[j] = t[i + j - 1]
    BY <1>5, <1>6, <2>1
  <2> QED BY <1>3, <2>1
<1>8. IsPrefix(r, s) <=> Len(r) <= Len(s) /\ \A j \in 1..Len(r) : s[j] = t[i + j - 1]
  BY <1>4, <1>6
<1> QED BY <1>2, <1>6, <1>7, <1>8

\* Of the matches at one place one is the beginning of the other.
LEMMA OneMatch ==
  ASSUME MaskedSecrets \subseteq Seq(Bytes), NoneBeginsAnother, NEW t \in Seq(Bytes), NEW i \in 1..Len(t) + 1
  PROVE  \A s, other \in MatchesAt(t, i) : s = other
<1>1. ASSUME NEW s \in MatchesAt(t, i), NEW other \in MatchesAt(t, i), Len(s) <= Len(other) PROVE s = other
  <2>1. /\ s \in MaskedSecrets /\ s \in Seq(Bytes) /\ IsPrefix(s, Rest(t, i))
        /\ other \in MaskedSecrets /\ other \in Seq(Bytes) /\ IsPrefix(other, Rest(t, i))
    BY DEF MatchesAt, Rest
  <2>2. /\ \A j \in 1..Len(s) : s[j] = t[i + j - 1]
        /\ \A j \in 1..Len(other) : other[j] = t[i + j - 1]
    BY <2>1, MatchIs
  <2>3. Len(s) \in Nat /\ Len(other) \in Nat
    BY <2>1
  <2>4. \A j \in 1..Len(s) : s[j] = other[j]
    BY <1>1, <2>2, <2>3
  <2>5. IsPrefix(s, other)
    BY <1>1, <2>1, <2>4, PrefixIs
  <2> QED BY <2>1, <2>5 DEF NoneBeginsAnother
<1>2. \A s, other \in MatchesAt(t, i) : Len(s) \in Nat /\ Len(other) \in Nat
  BY DEF MatchesAt
<1> QED BY <1>1, <1>2

\* What matches is at least a byte long and within the text.
LEMMA LongestIs ==
  ASSUME MaskedSecrets \subseteq Seq(Bytes) \ {<<>>}, NoneBeginsAnother,
         NEW t \in Seq(Bytes), NEW i \in 1..Len(t) + 1, MatchesAt(t, i) # {}
  PROVE  /\ Longest(MatchesAt(t, i)) \in MatchesAt(t, i)
         /\ i + Len(Longest(MatchesAt(t, i))) \in i + 1 .. Len(t) + 1
<1>1. PICK s : s \in MatchesAt(t, i)
  OBVIOUS
<1>2. \A other \in MatchesAt(t, i) : other = s
  BY <1>1, OneMatch
<1>3. s \in Seq(Bytes) /\ s # <<>> /\ IsPrefix(s, Rest(t, i))
  BY <1>1 DEF MatchesAt, Rest
<1>4. Len(s) \in Nat /\ Len(s) # 0 /\ Len(s) <= Len(t) + 1 - i
  BY <1>3, MatchIs, EmptySeq
<1>5. \A other \in MatchesAt(t, i) : Len(other) <= Len(s)
  BY <1>2, <1>4
<1>6. Longest(MatchesAt(t, i)) \in MatchesAt(t, i)
  BY <1>1, <1>5 DEF Longest
<1>7. Longest(MatchesAt(t, i)) = s
  BY <1>2, <1>6
<1> QED BY <1>4, <1>6, <1>7

\* What is appended to a text adds no match to a place that is no fragment, ...
LEMMA MatchesOfMore ==
  ASSUME MaskedSecrets \subseteq Seq(Bytes), NoneBeginsAnother,
         NEW c \in Seq(Bytes), NEW x \in Seq(Bytes), NEW i \in 1..Len(c)
  PROVE  /\ MatchesAt(c, i) # {} => MatchesAt(c \o x, i) = MatchesAt(c, i)
         /\ MatchesAt(c, i) = {} /\ ~IsSecretPrefix(Rest(c, i)) => MatchesAt(c \o x, i) = {}
<1>1. /\ c \o x \in Seq(Bytes) /\ Len(c \o x) = Len(c) + Len(x) /\ Len(c) \in Nat /\ Len(x) \in Nat
      /\ i \in 1..Len(c) + 1 /\ i \in 1..Len(c \o x) + 1
  OBVIOUS
<1>2. \A j \in 1..Len(c) : (c \o x)[j] = c[j]
  OBVIOUS
<1>3. ASSUME NEW s \in MatchesAt(c, i) PROVE s \in MatchesAt(c \o x, i)
  <2>1. s \in MaskedSecrets /\ s \in Seq(Bytes) /\ IsPrefix(s, Rest(c, i)) /\ Len(s) \in Nat
    BY DEF MatchesAt, Rest
  <2>2. Len(s) <= Len(c) + 1 - i /\ \A j \in 1..Len(s) : s[j] = c[i + j - 1]
    BY <1>1, <2>1, MatchIs
  <2>3. Len(s) <= Len(c \o x) + 1 - i /\ \A j \in 1..Len(s) : s[j] = (c \o x)[i + j - 1]
    <3>1. \A j \in 1..Len(s) : i + j - 1 \in 1..Len(c)
      BY <1>1, <2>1, <2>2
    <3> QED BY <1>1, <1>2, <2>1, <2>2, <3>1
  <2>4. IsPrefix(s, Rest(c \o x, i))
    BY <1>1, <2>1, <2>3, MatchIs
  <2> QED BY <2>1, <2>4 DEF MatchesAt, Rest
<1>4. ASSUME NEW s \in MatchesAt(c \o x, i), s \notin MatchesAt(c, i) PROVE IsSecretPrefix(Rest(c, i))
  <2>1. s \in MaskedSecrets /\ s \in Seq(Bytes) /\ IsPrefix(s, Rest(c \o x, i)) /\ Len(s) \in Nat
    BY DEF MatchesAt, Rest
  <2>2. Len(s) <= Len(c \o x) + 1 - i /\ \A j \in 1..Len(s) : s[j] = (c \o x)[i + j - 1]
    BY <1>1, <2>1, MatchIs
  <2>3. ~IsPrefix(s, Rest(c, i))
    BY <1>4, <2>1 DEF MatchesAt, Rest
  <2>4. \A j \in 1..Len(s) : i + j - 1 <= Len(c) => s[j] = c[i + j - 1]
    <3>1. \A j \in 1..Len(s) : i + j - 1 <= Len(c) => i + j - 1 \in 1..Len(c)
      BY <1>1, <2>1
    <3> QED BY <1>1, <1>2, <2>2, <3>1
  <2>5. ~(Len(s) <= Len(c) + 1 - i)
    <3>1. SUFFICES ASSUME Len(s) <= Len(c) + 1 - i PROVE FALSE
      OBVIOUS
    <3>2. \A j \in 1..Len(s) : i + j - 1 <= Len(c)
      BY <1>1, <2>1, <3>1
    <3>3. \A j \in 1..Len(s) : s[j] = c[i + j - 1]
      BY <2>4, <3>2
    <3> QED BY <1>1, <2>1, <2>3, <3>1, <3>3, MatchIs
  <2>6. Len(c) + 1 - i <= Len(s) /\ \A j \in 1..Len(c) + 1 - i : s[j] = c[i + j - 1]
    <3>1. \A j \in 1..Len(c) + 1 - i : j \in 1..Len(s) /\ i + j - 1 <= Len(c)
      BY <1>1, <2>1, <2>5
    <3> QED BY <1>1, <2>1, <2>4, <2>5, <3>1
  <2>7. IsPrefix(Rest(c, i), s)
    BY <1>1, <2>1, <2>6, MatchIs
  <2>8. Len(Rest(c, i)) = Len(c) + 1 - i
    BY <1>1, RestIs
  <2>9. Len(Rest(c, i)) < Len(s)
    BY <1>1, <2>1, <2>5, <2>8
  <2> QED BY <2>1, <2>7, <2>9 DEF IsSecretPrefix
<1>5. CASE MatchesAt(c, i) # {}
  <2>1. PICK s : s \in MatchesAt(c, i)
    BY <1>5
  <2>2. s \in MatchesAt(c \o x, i)
    BY <1>3, <2>1
  <2>3. \A a, b \in MatchesAt(c \o x, i) : a = b
    BY <1>1, OneMatch
  <2> QED BY <1>3, <1>5, <2>1, <2>2, <2>3
<1>6. CASE MatchesAt(c, i) = {}
  BY <1>4, <1>6
<1> QED BY <1>5, <1>6

\* ... and a match is about nothing that comes before it.
LEMMA MatchesOfRest ==
  ASSUME NEW p \in Seq(Bytes), NEW u \in Seq(Bytes), NEW i \in 1..Len(u) + 1
  PROVE  MatchesAt(p \o u, Len(p) + i) = MatchesAt(u, i)
<1>1. p \o u \in Seq(Bytes) /\ Len(p \o u) = Len(p) + Len(u) /\ Len(p) \in Nat /\ Len(u) \in Nat
  OBVIOUS
<1>2. Len(p) + i \in 1..Len(p \o u) + 1
  BY <1>1
<1>3. /\ Rest(p \o u, Len(p) + i) \in Seq(Bytes) /\ Len(Rest(p \o u, Len(p) + i)) = Len(u) + 1 - i
      /\ \A j \in 1..Len(u) + 1 - i : Rest(p \o u, Len(p) + i)[j] = (p \o u)[Len(p) + i + j - 1]
  <2>1. /\ Rest(p \o u, Len(p) + i) \in Seq(Bytes)
        /\ Len(Rest(p \o u, Len(p) + i)) = Len(p \o u) + 1 - (Len(p) + i)
        /\ \A j \in 1..Len(p \o u) + 1 - (Len(p) + i) : Rest(p \o u, Len(p) + i)[j] = (p \o u)[Len(p) + i + j - 1]
    BY <1>1, <1>2, RestIs, Zenon
  <2>2. Len(p \o u) + 1 - (Len(p) + i) = Len(u) + 1 - i
    BY <1>1
  <2> QED BY <2>1, <2>2
<1>4. /\ Rest(u, i) \in Seq(Bytes) /\ Len(Rest(u, i)) = Len(u) + 1 - i
      /\ \A j \in 1..Len(u) + 1 - i : Rest(u, i)[j] = u[i + j - 1]
  BY RestIs
<1>5. \A j \in 1..Len(u) + 1 - i : (p \o u)[Len(p) + i + j - 1] = u[i + j - 1]
  <2>1. \A k \in 1..Len(u) : (p \o u)[Len(p) + k] = u[k]
    BY <1>1
  <2>2. \A j \in 1..Len(u) + 1 - i : i + j - 1 \in 1..Len(u) /\ Len(p) + i + j - 1 = Len(p) + (i + j - 1)
    BY <1>1
  <2> QED BY <2>1, <2>2
<1>6. Rest(p \o u, Len(p) + i) = Rest(u, i)
  BY <1>3, <1>4, <1>5, SeqEqual
<1> QED BY <1>6 DEF MatchesAt, Rest

\* What is left of a place does not depend on what is said of the places before it, so
\* there is a function that is defined by what it is at the places after each.
LEMMA MaskAtAgrees ==
  ASSUME MaskedSecrets \subseteq Seq(Bytes) \ {<<>>}, NoneBeginsAnother,
         NEW t \in Seq(Bytes), NEW i \in 1..Len(t) + 1, NEW g, NEW h,
         \A k \in i + 1 .. Len(t) + 1 : g[k] = h[k]
  PROVE  MaskAt(t, i, g) = MaskAt(t, i, h)
<1>1. Len(t) \in Nat
  OBVIOUS
<1>2. CASE i > Len(t)
  BY <1>2, Zenon DEF MaskAt
<1>3. CASE ~(i > Len(t)) /\ MatchesAt(t, i) # {}
  <2>1. i + Len(Longest(MatchesAt(t, i))) \in i + 1 .. Len(t) + 1
    BY <1>3, LongestIs
  <2>2. g[i + Len(Longest(MatchesAt(t, i)))] = h[i + Len(Longest(MatchesAt(t, i)))]
    BY <2>1
  <2> QED BY <1>3, <2>2, Zenon DEF MaskAt
<1>4. CASE ~(i > Len(t)) /\ MatchesAt(t, i) = {}
  <2>1. i + 1 \in i + 1 .. Len(t) + 1
    BY <1>1, <1>4
  <2>2. g[i + 1] = h[i + 1]
    BY <2>1
  <2> QED BY <1>4, <2>2, Zenon DEF MaskAt
<1> QED BY <1>2, <1>3, <1>4

LEMMA MaskedFromIs ==
  ASSUME MaskedSecrets \subseteq Seq(Bytes) \ {<<>>}, NoneBeginsAnother, NEW t \in Seq(Bytes)
  PROVE  MaskedFrom(t) = [i \in 1..Len(t) + 1 |-> MaskAt(t, i, MaskedFrom(t))]
<1> DEFINE Built(m) == \E g : g = [i \in m .. Len(t) + 1 |-> MaskAt(t, i, g)]
           S == {m \in 1..Len(t) + 1 : Built(m)}
<1>1. Len(t) \in Nat
  OBVIOUS
<1>2. ASSUME NEW i \in 1..Len(t) + 1, \A j \in 1..Len(t) + 1 : i < j => j \in S PROVE i \in S
  <2>1. CASE i = Len(t) + 1
    <3>1. PICK g : g = [k \in i .. Len(t) + 1 |-> <<>>]
      OBVIOUS
    <3>2. \A k \in i .. Len(t) + 1 : MaskAt(t, k, g) = <<>>
      BY <1>1, <2>1 DEF MaskAt
    <3>3. g = [k \in i .. Len(t) + 1 |-> MaskAt(t, k, g)]
      BY <3>1, <3>2, Zenon
    <3> QED BY <3>3
  <2>2. CASE i # Len(t) + 1
    <3>1. i + 1 \in 1..Len(t) + 1 /\ i < i + 1
      BY <1>1, <2>2
    <3>2. Built(i + 1)
      BY <1>2, <3>1
    <3>3. PICK g : g = [k \in i + 1 .. Len(t) + 1 |-> MaskAt(t, k, g)]
      BY <3>2
    <3>4. PICK h : h = [k \in i .. Len(t) + 1 |-> IF k = i THEN MaskAt(t, i, g) ELSE g[k]]
      OBVIOUS
    <3>5. \A k \in i + 1 .. Len(t) + 1 : k \in i .. Len(t) + 1 /\ k # i
      BY <1>1
    <3>6. \A k \in i + 1 .. Len(t) + 1 : g[k] = h[k]
      BY <3>4, <3>5, Zenon
    <3>7. ASSUME NEW k \in i .. Len(t) + 1 PROVE h[k] = MaskAt(t, k, h)
      <4>1. k \in 1..Len(t) + 1 /\ \A l \in k + 1 .. Len(t) + 1 : l \in i + 1 .. Len(t) + 1
        BY <1>1
      <4>2. MaskAt(t, k, g) = MaskAt(t, k, h)
        BY <3>6, <4>1, MaskAtAgrees
      <4>3. CASE k = i
        BY <3>4, <4>2, <4>3, Zenon
      <4>4. CASE k # i
        <5>1. k \in i + 1 .. Len(t) + 1
          BY <1>1, <4>4
        <5>2. g[k] = MaskAt(t, k, g)
          BY <3>3, <5>1, Zenon
        <5> QED BY <3>6, <4>2, <5>1, <5>2, Zenon
      <4> QED BY <4>3, <4>4
    <3>8. DOMAIN h = i .. Len(t) + 1 /\ h = [k \in i .. Len(t) + 1 |-> h[k]]
      BY <3>4, Zenon
    <3>9. h = [k \in i .. Len(t) + 1 |-> MaskAt(t, k, h)]
      BY <3>7, <3>8, Zenon
    <3> QED BY <3>9
  <2> QED BY <2>1, <2>2
<1>3. S \in SUBSET (1..Len(t) + 1) /\ Len(t) + 1 \in Nat
  BY <1>1
<1> HIDE DEF S
<1>4. S = 1..Len(t) + 1
  BY <1>2, <1>3, Downwards
<1>5. Built(1)
  BY <1>1, <1>4 DEF S
<1>6. PICK g : g = [i \in 1..Len(t) + 1 |-> MaskAt(t, i, g)]
  BY <1>5
<1> QED BY <1>6, Zenon DEF MaskedFrom

LEMMA ScanAtAgrees ==
  ASSUME MaskedSecrets \subseteq Seq(Bytes) \ {<<>>}, NoneBeginsAnother,
         NEW t \in Seq(Bytes), NEW i \in 1..Len(t) + 1, NEW g, NEW h,
         \A k \in i + 1 .. Len(t) + 1 : g[k] = h[k]
  PROVE  ScanAt(t, i, g) = ScanAt(t, i, h)
<1>1. Len(t) \in Nat
  OBVIOUS
<1>2. CASE i > Len(t)
  BY <1>2, Zenon DEF ScanAt
<1>3. CASE ~(i > Len(t)) /\ MatchesAt(t, i) # {}
  <2>1. i + Len(Longest(MatchesAt(t, i))) \in i + 1 .. Len(t) + 1
    BY <1>3, LongestIs
  <2>2. g[i + Len(Longest(MatchesAt(t, i)))] = h[i + Len(Longest(MatchesAt(t, i)))]
    BY <2>1
  <2> QED BY <1>3, <2>2, Zenon DEF ScanAt
<1>4. CASE ~(i > Len(t)) /\ MatchesAt(t, i) = {}
  <2>1. i + 1 \in i + 1 .. Len(t) + 1
    BY <1>1, <1>4
  <2>2. g[i + 1] = h[i + 1]
    BY <2>1
  <2> QED BY <1>4, <2>2, Zenon DEF ScanAt
<1> QED BY <1>2, <1>3, <1>4

LEMMA ScannedFromIs ==
  ASSUME MaskedSecrets \subseteq Seq(Bytes) \ {<<>>}, NoneBeginsAnother, NEW t \in Seq(Bytes)
  PROVE  ScannedFrom(t) = [i \in 1..Len(t) + 1 |-> ScanAt(t, i, ScannedFrom(t))]
<1> DEFINE Built(m) == \E g : g = [i \in m .. Len(t) + 1 |-> ScanAt(t, i, g)]
           S == {m \in 1..Len(t) + 1 : Built(m)}
<1>1. Len(t) \in Nat
  OBVIOUS
<1>2. ASSUME NEW i \in 1..Len(t) + 1, \A j \in 1..Len(t) + 1 : i < j => j \in S PROVE i \in S
  <2>1. CASE i = Len(t) + 1
    <3>1. PICK g : g = [k \in i .. Len(t) + 1 |-> [safe |-> <<>>, stop |-> k]]
      OBVIOUS
    <3>2. \A k \in i .. Len(t) + 1 : ScanAt(t, k, g) = [safe |-> <<>>, stop |-> k]
      BY <1>1, <2>1 DEF ScanAt
    <3>3. g = [k \in i .. Len(t) + 1 |-> ScanAt(t, k, g)]
      BY <3>1, <3>2, Zenon
    <3> QED BY <3>3
  <2>2. CASE i # Len(t) + 1
    <3>1. i + 1 \in 1..Len(t) + 1 /\ i < i + 1
      BY <1>1, <2>2
    <3>2. Built(i + 1)
      BY <1>2, <3>1
    <3>3. PICK g : g = [k \in i + 1 .. Len(t) + 1 |-> ScanAt(t, k, g)]
      BY <3>2
    <3>4. PICK h : h = [k \in i .. Len(t) + 1 |-> IF k = i THEN ScanAt(t, i, g) ELSE g[k]]
      OBVIOUS
    <3>5. \A k \in i + 1 .. Len(t) + 1 : k \in i .. Len(t) + 1 /\ k # i
      BY <1>1
    <3>6. \A k \in i + 1 .. Len(t) + 1 : g[k] = h[k]
      BY <3>4, <3>5, Zenon
    <3>7. ASSUME NEW k \in i .. Len(t) + 1 PROVE h[k] = ScanAt(t, k, h)
      <4>1. k \in 1..Len(t) + 1 /\ \A l \in k + 1 .. Len(t) + 1 : l \in i + 1 .. Len(t) + 1
        BY <1>1
      <4>2. ScanAt(t, k, g) = ScanAt(t, k, h)
        BY <3>6, <4>1, ScanAtAgrees
      <4>3. CASE k = i
        BY <3>4, <4>2, <4>3, Zenon
      <4>4. CASE k # i
        <5>1. k \in i + 1 .. Len(t) + 1
          BY <1>1, <4>4
        <5>2. g[k] = ScanAt(t, k, g)
          BY <3>3, <5>1, Zenon
        <5> QED BY <3>6, <4>2, <5>1, <5>2, Zenon
      <4> QED BY <4>3, <4>4
    <3>8. DOMAIN h = i .. Len(t) + 1 /\ h = [k \in i .. Len(t) + 1 |-> h[k]]
      BY <3>4, Zenon
    <3>9. h = [k \in i .. Len(t) + 1 |-> ScanAt(t, k, h)]
      BY <3>7, <3>8, Zenon
    <3> QED BY <3>9
  <2> QED BY <2>1, <2>2
<1>3. S \in SUBSET (1..Len(t) + 1) /\ Len(t) + 1 \in Nat
  BY <1>1
<1> HIDE DEF S
<1>4. S = 1..Len(t) + 1
  BY <1>2, <1>3, Downwards
<1>5. Built(1)
  BY <1>1, <1>4 DEF S
<1>6. PICK g : g = [i \in 1..Len(t) + 1 |-> ScanAt(t, i, g)]
  BY <1>5
<1> QED BY <1>6, Zenon DEF ScannedFrom

LEMMA MaskedFromTypes ==
  ASSUME MaskedSecrets \subseteq Seq(Bytes) \ {<<>>}, NoneBeginsAnother, NEW t \in Seq(Bytes)
  PROVE  \A i \in 1..Len(t) + 1 : MaskedFrom(t)[i] \in Seq(Out)
<1> DEFINE S == {i \in 1..Len(t) + 1 : MaskedFrom(t)[i] \in Seq(Out)}
<1>1. Len(t) \in Nat
  OBVIOUS
<1>2. ASSUME NEW i \in 1..Len(t) + 1, \A j \in 1..Len(t) + 1 : i < j => j \in S PROVE i \in S
  <2>1. MaskedFrom(t)[i] = MaskAt(t, i, MaskedFrom(t))
    BY MaskedFromIs, Zenon
  <2>2. CASE i > Len(t)
    <3>1. MaskedFrom(t)[i] = <<>>
      BY <2>1, <2>2, Zenon DEF MaskAt
    <3>2. <<>> \in Seq(Out)
      OBVIOUS
    <3> QED BY <3>1, <3>2
  <2>3. CASE ~(i > Len(t)) /\ MatchesAt(t, i) # {}
    <3>1. PICK k : k = i + Len(Longest(MatchesAt(t, i)))
      OBVIOUS
    <3>2. k \in i + 1 .. Len(t) + 1
      BY <2>3, <3>1, LongestIs
    <3>3. MaskedFrom(t)[k] \in Seq(Out)
      BY <1>1, <1>2, <3>2
    <3>4. MaskedFrom(t)[i] = <<Masked>> \o MaskedFrom(t)[k]
      BY <2>1, <2>3, <3>1, Zenon DEF MaskAt
    <3>5. <<Masked>> \in Seq(Out)
      BY DEF Out
    <3>6. <<Masked>> \o MaskedFrom(t)[k] \in Seq(Out)
      BY <3>3, <3>5, ConcatProperties
    <3> QED BY <3>4, <3>6
  <2>4. CASE ~(i > Len(t)) /\ MatchesAt(t, i) = {}
    <3>1. i + 1 \in 1..Len(t) + 1 /\ i < i + 1 /\ t[i] \in Bytes
      BY <1>1, <2>4
    <3>2. MaskedFrom(t)[i + 1] \in Seq(Out)
      BY <1>2, <3>1
    <3>3. MaskedFrom(t)[i] = <<t[i]>> \o MaskedFrom(t)[i + 1]
      BY <2>1, <2>4, Zenon DEF MaskAt
    <3>4. <<t[i]>> \in Seq(Out)
      BY <3>1 DEF Out
    <3>5. <<t[i]>> \o MaskedFrom(t)[i + 1] \in Seq(Out)
      BY <3>2, <3>4, ConcatProperties
    <3> QED BY <3>3, <3>5
  <2> QED BY <2>2, <2>3, <2>4
<1>3. S \in SUBSET (1..Len(t) + 1) /\ Len(t) + 1 \in Nat
  BY <1>1
<1> HIDE DEF S
<1>4. S = 1..Len(t) + 1
  BY <1>2, <1>3, Downwards
<1> QED BY <1>4 DEF S

\* What a text becomes from a place on is what its rest becomes.
LEMMA MaskedOfRest ==
  ASSUME MaskedSecrets \subseteq Seq(Bytes) \ {<<>>}, NoneBeginsAnother,
         NEW p \in Seq(Bytes), NEW u \in Seq(Bytes)
  PROVE  \A i \in 1..Len(u) + 1 : MaskedFrom(p \o u)[Len(p) + i] = MaskedFrom(u)[i]
<1> DEFINE S == {i \in 1..Len(u) + 1 : MaskedFrom(p \o u)[Len(p) + i] = MaskedFrom(u)[i]}
<1>1. /\ p \o u \in Seq(Bytes) /\ Len(p \o u) = Len(p) + Len(u) /\ Len(p) \in Nat /\ Len(u) \in Nat
      /\ \A k \in 1..Len(u) : (p \o u)[Len(p) + k] = u[k]
  OBVIOUS
<1>2. ASSUME NEW i \in 1..Len(u) + 1, \A j \in 1..Len(u) + 1 : i < j => j \in S PROVE i \in S
  <2>1. MaskedFrom(u)[i] = MaskAt(u, i, MaskedFrom(u))
    BY MaskedFromIs, Zenon
  <2>2. PICK d : d = Len(p) + i
    OBVIOUS
  <2>3. d \in 1..Len(p \o u) + 1
    BY <1>1, <2>2
  <2>4. MaskedFrom(p \o u)[d] = MaskAt(p \o u, d, MaskedFrom(p \o u))
    BY <1>1, <2>3, MaskedFromIs, Zenon
  <2>5. MatchesAt(p \o u, d) = MatchesAt(u, i)
    BY <2>2, MatchesOfRest
  <2>6. CASE i > Len(u)
    <3>1. d > Len(p \o u)
      BY <1>1, <2>2, <2>6
    <3> QED BY <2>1, <2>2, <2>4, <2>6, <3>1 DEF MaskAt
  <2>7. CASE ~(i > Len(u)) /\ MatchesAt(u, i) # {}
    <3>1. PICK l : l = Len(Longest(MatchesAt(u, i)))
      OBVIOUS
    <3>2. i + l \in i + 1 .. Len(u) + 1 /\ i + l \in 1..Len(u) + 1
      <4>1. i + l \in i + 1 .. Len(u) + 1
        BY <2>7, <3>1, LongestIs
      <4> QED BY <1>1, <4>1
    <3>3. ~(d > Len(p \o u))
      BY <1>1, <2>2, <2>7
    <3>4. MaskedFrom(u)[i] = <<Masked>> \o MaskedFrom(u)[i + l]
      BY <2>1, <2>7, <3>1, Zenon DEF MaskAt
    <3>5. MaskedFrom(p \o u)[d] = <<Masked>> \o MaskedFrom(p \o u)[d + l]
      BY <2>4, <2>5, <2>7, <3>1, <3>3, Zenon DEF MaskAt
    <3>6. i + l \in S
      BY <1>1, <1>2, <3>2
    <3>7. d + l = Len(p) + (i + l)
      <4>1. l \in Nat
        <5>1. Longest(MatchesAt(u, i)) \in MatchesAt(u, i)
          BY <2>7, LongestIs
        <5>2. Longest(MatchesAt(u, i)) \in Seq(Bytes)
          BY <5>1 DEF MatchesAt
        <5> QED BY <3>1, <5>2
      <4> QED BY <1>1, <2>2, <4>1
    <3>8. MaskedFrom(p \o u)[d + l] = MaskedFrom(u)[i + l]
      BY <3>6, <3>7
    <3> QED BY <2>2, <3>4, <3>5, <3>8
  <2>8. CASE ~(i > Len(u)) /\ MatchesAt(u, i) = {}
    <3>1. i + 1 \in 1..Len(u) + 1 /\ i < i + 1 /\ i \in 1..Len(u) /\ d + 1 = Len(p) + (i + 1) /\ ~(d > Len(p \o u))
      BY <1>1, <2>2, <2>8
    <3>2. MaskedFrom(u)[i] = <<u[i]>> \o MaskedFrom(u)[i + 1]
      BY <2>1, <2>8, Zenon DEF MaskAt
    <3>3. MaskedFrom(p \o u)[d] = <<(p \o u)[d]>> \o MaskedFrom(p \o u)[d + 1]
      BY <2>4, <2>5, <2>8, <3>1, Zenon DEF MaskAt
    <3>4. i + 1 \in S
      BY <1>2, <3>1
    <3>5. MaskedFrom(p \o u)[d + 1] = MaskedFrom(u)[i + 1]
      BY <3>1, <3>4
    <3>6. (p \o u)[d] = u[i]
      BY <1>1, <2>2, <3>1
    <3> QED BY <2>2, <3>2, <3>3, <3>5, <3>6
  <2> QED BY <2>6, <2>7, <2>8
<1>3. S \in SUBSET (1..Len(u) + 1) /\ Len(u) + 1 \in Nat
  BY <1>1
<1> HIDE DEF S
<1>4. S = 1..Len(u) + 1
  BY <1>2, <1>3, Downwards
<1> QED BY <1>4 DEF S

\* Where a scan stops: at the end, or at what could still become a secret or is half a
\* character.
StopsAt(c, k) ==
    /\ k \in 1..Len(c) + 1
    /\ k = Len(c) + 1 \/ IsSecretPrefix(Rest(c, k)) \/ IsIncompleteUTF8Prefix(Rest(c, k))

\* Whatever follows what was scanned, what was passed on is what it becomes.
LEMMA ScanIsMask ==
  ASSUME MaskedSecrets \subseteq Seq(Bytes) \ {<<>>}, NoneBeginsAnother, NEW c \in Seq(Bytes)
  PROVE  \A i \in 1..Len(c) + 1 :
            /\ ScannedFrom(c)[i].safe \in Seq(Out) /\ StopsAt(c, ScannedFrom(c)[i].stop)
            /\ \A x \in Seq(Bytes) :
                 MaskedFrom(c \o x)[i] = ScannedFrom(c)[i].safe \o MaskedFrom(c \o x)[ScannedFrom(c)[i].stop]
<1> DEFINE P(i) ==
            /\ ScannedFrom(c)[i].safe \in Seq(Out) /\ StopsAt(c, ScannedFrom(c)[i].stop)
            /\ \A x \in Seq(Bytes) :
                 MaskedFrom(c \o x)[i] = ScannedFrom(c)[i].safe \o MaskedFrom(c \o x)[ScannedFrom(c)[i].stop]
           S == {i \in 1..Len(c) + 1 : P(i)}
<1>1. Len(c) \in Nat
  OBVIOUS
<1>2. ASSUME NEW i \in 1..Len(c) + 1, \A j \in 1..Len(c) + 1 : i < j => j \in S PROVE P(i)
  <2>1. ScannedFrom(c)[i] = ScanAt(c, i, ScannedFrom(c))
    BY ScannedFromIs, Zenon
  <2>2. ASSUME NEW x \in Seq(Bytes)
        PROVE  /\ MaskedFrom(c \o x)[i] = MaskAt(c \o x, i, MaskedFrom(c \o x))
               /\ i \in 1..Len(c \o x) + 1 /\ c \o x \in Seq(Bytes) /\ Len(c \o x) = Len(c) + Len(x) /\ Len(x) \in Nat
               /\ \A k \in 1..Len(c \o x) + 1 : MaskedFrom(c \o x)[k] \in Seq(Out)
    <3>1. i \in 1..Len(c \o x) + 1 /\ c \o x \in Seq(Bytes) /\ Len(c \o x) = Len(c) + Len(x) /\ Len(x) \in Nat
      BY <1>1
    <3>2. MaskedFrom(c \o x) = [k \in 1..Len(c \o x) + 1 |-> MaskAt(c \o x, k, MaskedFrom(c \o x))]
      BY <3>1, MaskedFromIs, Zenon
    <3>3. MaskedFrom(c \o x)[i] = MaskAt(c \o x, i, MaskedFrom(c \o x))
      BY <3>1, <3>2, Zenon
    <3>4. \A k \in 1..Len(c \o x) + 1 : MaskedFrom(c \o x)[k] \in Seq(Out)
      BY <3>1, MaskedFromTypes, Zenon
    <3> QED BY <3>1, <3>3, <3>4
  <2>3. CASE \/ i > Len(c)
             \/ MatchesAt(c, i) = {} /\ (IsSecretPrefix(Rest(c, i)) \/ IsIncompleteUTF8Prefix(Rest(c, i)))
    <3>1. ScannedFrom(c)[i] = [safe |-> <<>>, stop |-> i]
      BY <2>1, <2>3, Zenon DEF ScanAt, Rest
    <3>2. ScannedFrom(c)[i].safe = <<>> /\ ScannedFrom(c)[i].stop = i
      BY <3>1
    <3>3. StopsAt(c, i)
      BY <1>1, <2>3 DEF StopsAt
    <3>4. \A x \in Seq(Bytes) : MaskedFrom(c \o x)[i] = <<>> \o MaskedFrom(c \o x)[i]
      <4> TAKE x \in Seq(Bytes)
      <4>1. MaskedFrom(c \o x)[i] \in Seq(Out)
        BY <2>2
      <4> QED BY <4>1, ConcatEmptySeq
    <3>5. <<>> \in Seq(Out)
      OBVIOUS
    <3> QED BY <3>2, <3>3, <3>4, <3>5
  <2>4. ASSUME NEW k \in 1..Len(c) + 1, i < k, NEW e \in Out,
               ScannedFrom(c)[i] = [safe |-> <<e>> \o ScannedFrom(c)[k].safe, stop |-> ScannedFrom(c)[k].stop],
               \A x \in Seq(Bytes) : MaskedFrom(c \o x)[i] = <<e>> \o MaskedFrom(c \o x)[k]
        PROVE  P(i)
    <3>1. P(k)
      BY <1>2, <2>4
    <3>2. PICK f, stop : f = ScannedFrom(c)[k].safe /\ stop = ScannedFrom(c)[k].stop
      OBVIOUS
    <3>3. ScannedFrom(c)[i].safe = <<e>> \o f /\ ScannedFrom(c)[i].stop = stop
      BY <2>4, <3>2
    <3>4. <<e>> \in Seq(Out) /\ f \in Seq(Out)
      BY <3>1, <3>2
    <3>5. <<e>> \o f \in Seq(Out)
      BY <3>4, ConcatProperties
    <3>6. StopsAt(c, stop)
      BY <3>1, <3>2
    <3>7. ASSUME NEW x \in Seq(Bytes)
          PROVE  MaskedFrom(c \o x)[i] = (<<e>> \o f) \o MaskedFrom(c \o x)[stop]
      <4>1. MaskedFrom(c \o x)[k] = f \o MaskedFrom(c \o x)[stop]
        BY <3>1, <3>2
      <4>2. MaskedFrom(c \o x)[i] = <<e>> \o MaskedFrom(c \o x)[k]
        BY <2>4
      <4>3. stop \in 1..Len(c \o x) + 1
        BY <1>1, <2>2, <3>6 DEF StopsAt
      <4>4. MaskedFrom(c \o x)[stop] \in Seq(Out)
        BY <2>2, <4>3
      <4>5. PICK y : y = MaskedFrom(c \o x)[stop]
        OBVIOUS
      <4>6. y \in Seq(Out)
        BY <4>4, <4>5
      <4>7. (<<e>> \o f) \o y = <<e>> \o (f \o y)
        BY <3>4, <4>6, OutAssociative
      <4> QED BY <4>1, <4>2, <4>5, <4>7
    <3> QED BY <3>3, <3>5, <3>6, <3>7
  <2>5. CASE ~(i > Len(c)) /\ MatchesAt(c, i) # {}
    <3>1. PICK k : k = i + Len(Longest(MatchesAt(c, i)))
      OBVIOUS
    <3>2. k \in 1..Len(c) + 1 /\ i < k
      <4>1. k \in i + 1 .. Len(c) + 1
        BY <2>5, <3>1, LongestIs
      <4> QED BY <1>1, <4>1
    <3>3. ScannedFrom(c)[i] = [safe |-> <<Masked>> \o ScannedFrom(c)[k].safe, stop |-> ScannedFrom(c)[k].stop]
      BY <2>1, <2>5, <3>1, Zenon DEF ScanAt
    <3>4. ASSUME NEW x \in Seq(Bytes) PROVE MaskedFrom(c \o x)[i] = <<Masked>> \o MaskedFrom(c \o x)[k]
      <4>1. i \in 1..Len(c)
        BY <1>1, <2>5
      <4>2. MatchesAt(c \o x, i) = MatchesAt(c, i)
        BY <2>5, <4>1, MatchesOfMore
      <4>3. ~(i > Len(c \o x))
        BY <1>1, <2>2, <2>5
      <4> QED BY <2>2, <2>5, <3>1, <4>2, <4>3, Zenon DEF MaskAt
    <3>5. Masked \in Out
      BY DEF Out
    <3> QED BY <2>4, <3>2, <3>3, <3>4, <3>5
  <2>6. CASE /\ ~(i > Len(c)) /\ MatchesAt(c, i) = {}
             /\ ~(IsSecretPrefix(Rest(c, i)) \/ IsIncompleteUTF8Prefix(Rest(c, i)))
    <3>1. i + 1 \in 1..Len(c) + 1 /\ i < i + 1 /\ i \in 1..Len(c)
      BY <1>1, <2>6
    <3>2. ScannedFrom(c)[i] = [safe |-> <<c[i]>> \o ScannedFrom(c)[i + 1].safe, stop |-> ScannedFrom(c)[i + 1].stop]
      BY <2>1, <2>6, Zenon DEF ScanAt, Rest
    <3>3. ASSUME NEW x \in Seq(Bytes) PROVE MaskedFrom(c \o x)[i] = <<c[i]>> \o MaskedFrom(c \o x)[i + 1]
      <4>1. MatchesAt(c \o x, i) = {}
        BY <2>6, <3>1, MatchesOfMore
      <4>2. ~(i > Len(c \o x))
        BY <1>1, <2>2, <2>6
      <4>3. (c \o x)[i] = c[i]
        BY <3>1
      <4> QED BY <2>2, <4>1, <4>2, <4>3, Zenon DEF MaskAt
    <3>4. c[i] \in Out
      BY <3>1 DEF Out
    <3> QED BY <2>4, <3>1, <3>2, <3>3, <3>4
  <2> QED BY <2>3, <2>5, <2>6
<1> HIDE DEF P
<1>3. S \in SUBSET (1..Len(c) + 1) /\ Len(c) + 1 \in Nat
  BY <1>1
<1>4. \A i \in 1..Len(c) + 1 : (\A j \in 1..Len(c) + 1 : i < j => j \in S) => i \in S
  BY <1>2
<1> HIDE DEF S
<1>5. S = 1..Len(c) + 1
  BY <1>3, <1>4, Downwards
<1> QED BY <1>5 DEF S, P

\* Secrets are texts of at least one byte.
LEMMA SecretsAreTexts == MaskedSecrets \subseteq Seq(Bytes) \ {<<>>}
<1>1. MinLength \in Nat /\ MinLength # 0 /\ Values \subseteq Seq(Bytes)
  BY MaskAssumption
<1>2. Characters(<<>>) = 0
  <2>1. {i \in DOMAIN <<>> : <<>>[i] # Cont} = {}
    OBVIOUS
  <2> QED BY <2>1, FS_EmptySet DEF Characters
<1>3. TrimSpace(<<>>) = <<>>
  BY DEF TrimSpace
<1>4. ASSUME NEW v \in Seq(Bytes) PROVE TrimSpace(v) \in Seq(Bytes)
  <2>1. PICK kept : kept = {i \in DOMAIN v : v[i] # Space}
    OBVIOUS
  <2>2. CASE kept = {}
    <3>1. TrimSpace(v) = <<>>
      BY <2>1, <2>2, Zenon DEF TrimSpace
    <3> QED BY <3>1
  <2>3. CASE kept # {}
    <3>1. kept \in SUBSET (1..Len(v)) /\ kept \in SUBSET Nat /\ Len(v) \in Nat
      BY <2>1
    <3>2. PICK first : first = CHOOSE i \in kept : \A j \in kept : i <= j
      OBVIOUS
    <3>3. PICK last : last = CHOOSE i \in kept : \A j \in kept : j <= i
      OBVIOUS
    <3>4. first \in kept
      <4>1. \E i \in kept : \A j \in kept : i <= j
        BY <2>3, <3>1, LeastNatural
      <4> QED BY <3>2, <4>1, Zenon
    <3>5. last \in kept
      <4>1. \E i \in kept : \A j \in kept : j <= i
        BY <2>3, <3>1, GreatestNatural
      <4> QED BY <3>3, <4>1, Zenon
    <3>6. TrimSpace(v) = SubSeq(v, first, last)
      BY <2>1, <2>3, <3>2, <3>3, Zenon DEF TrimSpace
    <3>7. first \in 1..Len(v) /\ last \in 1..Len(v)
      BY <3>1, <3>4, <3>5
    <3>8. SubSeq(v, first, last) \in Seq(Bytes)
      BY <3>1, <3>7
    <3> QED BY <3>6, <3>8
  <2> QED BY <2>2, <2>3
<1>5. ASSUME NEW v \in Values, Characters(TrimSpace(v)) >= MinLength
      PROVE  v \in Seq(Bytes) \ {<<>>} /\ TrimSpace(v) \in Seq(Bytes) \ {<<>>}
  <2>1. v \in Seq(Bytes) /\ TrimSpace(v) \in Seq(Bytes)
    BY <1>1, <1>4
  <2>2. TrimSpace(v) # <<>>
    BY <1>1, <1>2, <1>5
  <2>3. v # <<>>
    BY <1>3, <2>2
  <2> QED BY <2>1, <2>2, <2>3
<1>6. PICK long : long = {v \in Values : Characters(TrimSpace(v)) >= MinLength}
  OBVIOUS
<1>7. MaskedSecrets = long \cup {TrimSpace(v) : v \in long}
  BY <1>6, Zenon DEF MaskedSecrets, Maskable
<1> QED BY <1>5, <1>6, <1>7

\* Without secrets nothing is masked.
LEMMA NothingToMask ==
  ASSUME MaskedSecrets = {}, NEW t \in Seq(Bytes)
  PROVE  MaskText(t) = t
<1> DEFINE S == {i \in 1..Len(t) + 1 : MaskedFrom(t)[i] = Rest(t, i)}
<1>1. Len(t) \in Nat /\ NoneBeginsAnother /\ MaskedSecrets \subseteq Seq(Bytes) \ {<<>>}
  BY DEF NoneBeginsAnother
<1>2. ASSUME NEW i \in 1..Len(t) + 1, \A j \in 1..Len(t) + 1 : i < j => j \in S PROVE i \in S
  <2>1. MaskedFrom(t)[i] = MaskAt(t, i, MaskedFrom(t))
    BY <1>1, MaskedFromIs, Zenon
  <2>2. MatchesAt(t, i) = {}
    BY DEF MatchesAt
  <2>3. CASE i > Len(t)
    <3>1. MaskedFrom(t)[i] = <<>>
      BY <2>1, <2>3, Zenon DEF MaskAt
    <3>2. Rest(t, i) = <<>>
      BY <1>1, <2>3, SubSeqEmpty DEF Rest
    <3> QED BY <3>1, <3>2
  <2>4. CASE ~(i > Len(t))
    <3>1. i + 1 \in 1..Len(t) + 1 /\ i < i + 1 /\ i \in 1..Len(t)
      BY <1>1, <2>4
    <3>2. MaskedFrom(t)[i] = <<t[i]>> \o MaskedFrom(t)[i + 1]
      BY <2>1, <2>2, <2>4, Zenon DEF MaskAt
    <3>3. MaskedFrom(t)[i + 1] = Rest(t, i + 1)
      BY <1>2, <3>1
    <3>4. Rest(t, i) = <<t[i]>> \o Rest(t, i + 1)
      BY <1>1, <3>1, SubSeqRecursiveFirst DEF Rest
    <3> QED BY <3>2, <3>3, <3>4
  <2> QED BY <2>3, <2>4
<1>3. S \in SUBSET (1..Len(t) + 1) /\ Len(t) + 1 \in Nat
  BY <1>1
<1> HIDE DEF S
<1>4. S = 1..Len(t) + 1
  BY <1>2, <1>3, Downwards
<1>5. MaskedFrom(t)[1] = Rest(t, 1)
  BY <1>1, <1>4 DEF S
<1> QED BY <1>5, SubSeqFull DEF MaskText, Rest

\* The strengthening: whatever is written next, what was passed on is the beginning of
\* the text masked as a whole, and what was kept is all that the rest depends on.
MaskInv ==
    /\ text \in Seq(Bytes) /\ pending \in Seq(Bytes) /\ safe \in Seq(Out)
    /\ KeepsFragmentsOnly
    /\ \A x \in Seq(Bytes) : MaskText(text \o x) = safe \o MaskText(pending \o x)

LEMMA MaskTextTypes ==
  ASSUME NoneBeginsAnother, NEW t \in Seq(Bytes)
  PROVE  MaskText(t) \in Seq(Out)
<1>1. 1 \in 1..Len(t) + 1
  OBVIOUS
<1> QED BY <1>1, SecretsAreTexts, MaskedFromTypes DEF MaskText

LEMMA WriteKeeps ==
  ASSUME MaskInv, NoneBeginsAnother, NEW chunk \in Seq(Bytes), Write(chunk)
  PROVE  MaskInv'
<1>1. text \in Seq(Bytes) /\ pending \in Seq(Bytes) /\ safe \in Seq(Out)
  BY DEF MaskInv
<1>2. PICK c : c = pending \o chunk
  OBVIOUS
<1>3. c \in Seq(Bytes) /\ Len(c) \in Nat
  BY <1>1, <1>2
<1>4. text' = text \o chunk /\ text' \in Seq(Bytes)
  BY <1>1 DEF Write
<1>5. ASSUME NEW x \in Seq(Bytes)
      PROVE  MaskText(text' \o x) = safe \o MaskText(c \o x)
  <2>1. chunk \o x \in Seq(Bytes)
    BY ConcatProperties
  <2>2. MaskText(text \o (chunk \o x)) = safe \o MaskText(pending \o (chunk \o x))
    BY <2>1 DEF MaskInv
  <2>3. (text \o chunk) \o x = text \o (chunk \o x)
    BY <1>1, BytesAssociative
  <2>4. (pending \o chunk) \o x = pending \o (chunk \o x)
    BY <1>1, BytesAssociative
  <2> QED BY <1>2, <1>4, <2>2, <2>3, <2>4
<1>6. ASSUME NEW f \in Seq(Out), NEW q \in Seq(Bytes), safe' = safe \o f, pending' = q, KeepsFragmentsOnly',
             \A x \in Seq(Bytes) : MaskText(c \o x) = f \o MaskText(q \o x)
      PROVE  MaskInv'
  <2>1. safe' \in Seq(Out) /\ pending' \in Seq(Bytes)
    BY <1>1, <1>6, ConcatProperties
  <2>2. ASSUME NEW x \in Seq(Bytes)
        PROVE  MaskText(text' \o x) = safe' \o MaskText(pending' \o x)
    <3>1. MaskText(text' \o x) = safe \o (f \o MaskText(q \o x))
      BY <1>5, <1>6
    <3>2. MaskText(q \o x) \in Seq(Out)
      <4>1. q \o x \in Seq(Bytes)
        BY ConcatProperties
      <4> QED BY <4>1, MaskTextTypes
    <3>3. PICK y : y = MaskText(q \o x)
      OBVIOUS
    <3>4. y \in Seq(Out)
      BY <3>2, <3>3
    <3>5. (safe \o f) \o y = safe \o (f \o y)
      BY <1>1, <3>4, OutAssociative
    <3> QED BY <1>6, <3>1, <3>3, <3>5
  <2> QED BY <1>4, <1>6, <2>1, <2>2 DEF MaskInv
<1>7. CASE MaskedSecrets = {}
  <2>1. safe' = safe \o c /\ pending' = SubSeq(c, Len(c) + 1, Len(c))
    BY <1>2, <1>7 DEF Write
  <2>2. pending' = <<>>
    BY <1>3, <2>1, SubSeqEmpty
  <2>3. KeepsFragmentsOnly'
    BY <2>2 DEF KeepsFragmentsOnly
  <2>4. c \in Seq(Out)
    BY <1>3, SeqMonotonic DEF Out
  <2>5. ASSUME NEW x \in Seq(Bytes) PROVE MaskText(c \o x) = c \o MaskText(<<>> \o x)
    <3>1. c \o x \in Seq(Bytes) /\ <<>> \o x = x
      BY <1>3, ConcatProperties, ConcatEmptySeq
    <3>2. MaskText(c \o x) = c \o x /\ MaskText(x) = x
      BY <1>7, <3>1, NothingToMask
    <3> QED BY <3>1, <3>2
  <2>6. <<>> \in Seq(Bytes)
    OBVIOUS
  <2> QED BY <1>6, <2>1, <2>2, <2>3, <2>4, <2>5, <2>6
<1>8. CASE MaskedSecrets # {}
  <2>1. PICK f, k : f = ScannedFrom(c)[1].safe /\ k = ScannedFrom(c)[1].stop
    OBVIOUS
  <2>2. safe' = safe \o f /\ pending' = Rest(c, k)
    BY <1>2, <1>8, <2>1 DEF Write, Scan, Rest
  <2>3. 1 \in 1..Len(c) + 1
    BY <1>3
  <2>4. /\ f \in Seq(Out) /\ StopsAt(c, k)
        /\ \A x \in Seq(Bytes) : MaskText(c \o x) = f \o MaskedFrom(c \o x)[k]
    BY <1>3, <2>1, <2>3, SecretsAreTexts, ScanIsMask, Zenon DEF MaskText
  <2>5. k \in 1..Len(c) + 1
    BY <2>4 DEF StopsAt
  <2>6. Rest(c, k) \in Seq(Bytes) /\ Len(Rest(c, k)) \in Nat
    BY <1>3, <2>5, RestIs
  <2>7. KeepsFragmentsOnly'
    <3>1. CASE k = Len(c) + 1
      <4>1. Rest(c, k) = <<>>
        BY <1>3, <3>1, SubSeqEmpty DEF Rest
      <4> QED BY <2>2, <4>1 DEF KeepsFragmentsOnly
    <3>2. CASE IsSecretPrefix(Rest(c, k))
      <4>1. PICK s \in MaskedSecrets : Len(Rest(c, k)) < Len(s) /\ IsPrefix(Rest(c, k), s)
        BY <3>2 DEF IsSecretPrefix
      <4>2. Len(s) \in Nat
        BY SecretsAreTexts
      <4>3. Rest(c, k) # s
        BY <2>6, <4>1, <4>2
      <4>4. IsStrictPrefix(Rest(c, k), s)
        BY <4>1, <4>3 DEF IsStrictPrefix
      <4> QED BY <2>2, <4>4 DEF KeepsFragmentsOnly
    <3>3. CASE IsIncompleteUTF8Prefix(Rest(c, k))
      BY <2>2, <3>3 DEF IsIncompleteUTF8Prefix, KeepsFragmentsOnly
    <3> QED BY <2>4, <3>1, <3>2, <3>3 DEF StopsAt
  <2>8. ASSUME NEW x \in Seq(Bytes) PROVE MaskedFrom(c \o x)[k] = MaskText(Rest(c, k) \o x)
    <3>1. PICK p, u : p = SubSeq(c, 1, k - 1) /\ u = Rest(c, k) \o x
      OBVIOUS
    <3>2. p \in Seq(Bytes) /\ Len(p) + 1 = k
      BY <1>3, <2>5, <3>1
    <3>3. u \in Seq(Bytes)
      BY <2>6, <3>1, ConcatProperties
    <3>4. p \o Rest(c, k) = c
      <4>1. CASE k = 1
        <5>1. p = <<>> /\ Rest(c, k) = c
          BY <1>3, <3>1, <4>1, SubSeqEmpty, SubSeqFull DEF Rest
        <5> QED BY <1>3, <5>1, ConcatEmptySeq
      <4>2. CASE k = Len(c) + 1
        <5>1. p = c /\ Rest(c, k) = <<>>
          BY <1>3, <3>1, <4>2, SubSeqEmpty, SubSeqFull DEF Rest
        <5> QED BY <1>3, <5>1, ConcatEmptySeq
      <4>3. CASE k # 1 /\ k # Len(c) + 1
        <5>1. PICK l : l = k - 1
          OBVIOUS
        <5>2. 1 \in 1..Len(c) + 1 /\ l \in 1 - 1 .. Len(c) /\ Len(c) \in l .. Len(c) /\ l + 1 = k
          BY <1>3, <2>5, <4>3, <5>1
        <5>3. SubSeq(c, 1, l) \o SubSeq(c, l + 1, Len(c)) = SubSeq(c, 1, Len(c))
          BY <1>3, <5>2, ConcatAdjacentSubSeq, Zenon
        <5> QED BY <1>3, <3>1, <5>1, <5>2, <5>3, SubSeqFull DEF Rest
      <4> QED BY <4>1, <4>2, <4>3
    <3>5. p \o u = c \o x
      <4>1. (p \o Rest(c, k)) \o x = p \o (Rest(c, k) \o x)
        BY <2>6, <3>2, BytesAssociative
      <4> QED BY <3>1, <3>4, <4>1
    <3>6. 1 \in 1..Len(u) + 1
      BY <3>3
    <3>7. MaskedFrom(p \o u)[Len(p) + 1] = MaskedFrom(u)[1]
      BY <3>2, <3>3, <3>6, SecretsAreTexts, MaskedOfRest
    <3> QED BY <3>1, <3>2, <3>5, <3>7 DEF MaskText
  <2>9. \A x \in Seq(Bytes) : MaskText(c \o x) = f \o MaskText(Rest(c, k) \o x)
    BY <2>4, <2>8
  <2> QED BY <1>6, <2>2, <2>4, <2>6, <2>7, <2>9
<1> QED BY <1>7, <1>8

\* Masking a stream hides what masking the whole would, and holds nothing else back:
\* for any secrets of which none is the beginning of another, and any chunks.
THEOREM StreamIsMaskedHolds ==
  ASSUME NoneBeginsAnother
  PROVE  MaskSpec => []StreamIsMasked
<1>0. <<>> \in Seq(Bytes) /\ <<>> \in Seq(Out)
  OBVIOUS
<1>1. ASSUME text = <<>>, pending = <<>>, safe = <<>> PROVE MaskInv
  <2>1. ASSUME NEW x \in Seq(Bytes) PROVE MaskText(text \o x) = safe \o MaskText(pending \o x)
    <3>1. <<>> \o x = x
      BY ConcatEmptySeq
    <3>2. MaskText(x) \in Seq(Out)
      BY MaskTextTypes
    <3>3. <<>> \o MaskText(x) = MaskText(x)
      BY <3>2, ConcatEmptySeq
    <3> QED BY <1>1, <3>1, <3>3
  <2> QED BY <1>0, <1>1, <2>1 DEF MaskInv, KeepsFragmentsOnly
<1>2. MaskInit => MaskInv
  BY <1>1 DEF MaskInit
<1>3. MaskInv /\ [MaskNext]_maskVars => MaskInv'
  <2> SUFFICES ASSUME MaskInv, [MaskNext]_maskVars PROVE MaskInv'
    OBVIOUS
  <2>1. ASSUME NEW chunk \in SeqOf(Bytes, MaxChunk) \ {<<>>}, Write(chunk) PROVE MaskInv'
    <3>1. chunk \in Seq(Bytes)
      BY DEF SeqOf
    <3> QED BY <2>1, <3>1, WriteKeeps
  <2>2. CASE Flush
    <3>1. text' = <<>> /\ pending' = <<>> /\ safe' = <<>>
      BY <2>2 DEF Flush
    <3>2. KeepsFragmentsOnly'
      BY <3>1 DEF KeepsFragmentsOnly
    <3>3. ASSUME NEW x \in Seq(Bytes) PROVE MaskText(text' \o x) = safe' \o MaskText(pending' \o x)
      <4>1. <<>> \o x = x
        BY ConcatEmptySeq
      <4>2. MaskText(x) \in Seq(Out)
        BY MaskTextTypes
      <4>3. <<>> \o MaskText(x) = MaskText(x)
        BY <4>2, ConcatEmptySeq
      <4> QED BY <3>1, <4>1, <4>3
    <3> QED BY <1>0, <3>1, <3>2, <3>3 DEF MaskInv
  <2>3. CASE UNCHANGED maskVars
    BY <2>3 DEF MaskInv, KeepsFragmentsOnly, maskVars
  <2> QED BY <2>1, <2>2, <2>3 DEF MaskNext
<1>4. MaskInv => StreamIsMasked
  <2> SUFFICES ASSUME MaskInv PROVE StreamIsMasked
    OBVIOUS
  <2>1. MaskText(text \o <<>>) = safe \o MaskText(pending \o <<>>)
    BY <1>0 DEF MaskInv
  <2>2. text \o <<>> = text /\ pending \o <<>> = pending
    BY ConcatEmptySeq DEF MaskInv
  <2> QED BY <2>1, <2>2 DEF MaskInv, StreamIsMasked, StreamMatchesWhole
<1> QED BY <1>2, <1>3, <1>4, PTL DEF MaskSpec

-----------------------------------------------------------------------------
(***************************************************************************)
(* Variables.  Names whose value is final are settled; a pass over all     *)
(* names settles one more of every set in which references lead to an end. *)
(***************************************************************************)
\* The k-th name of a pass, and the p-th pass.
AfterName(resolved, configured, g, k) ==
    IF k = 0 THEN resolved ELSE Resolve(g[k - 1], VarOrder[k], configured)

LEMMA ResolvingIs ==
  ASSUME NEW resolved, NEW configured
  PROVE  \A k \in 0..Len(VarOrder) : Resolving(resolved, configured)[k] = AfterName(resolved, configured, Resolving(resolved, configured), k)
<1> DEFINE n == Len(VarOrder)
           S == {m \in Nat : \E g : g = [k \in 0..m |-> AfterName(resolved, configured, g, k)]}
<1>1. \A g, h, k : k = 0 \/ g[k - 1] = h[k - 1] => AfterName(resolved, configured, g, k) = AfterName(resolved, configured, h, k)
  BY Zenon DEF AfterName
<1>2. ASSUME NEW m \in Nat, \A k \in 0 .. m - 1 : k \in S PROVE m \in S
  <2>1. PICK g : m # 0 => g = [k \in 0 .. m - 1 |-> AfterName(resolved, configured, g, k)]
    <3>1. CASE m = 0
      BY <3>1
    <3>2. CASE m # 0
      <4>1. m - 1 \in 0 .. m - 1
        BY <3>2
      <4> QED BY <1>2, <4>1
    <3> QED BY <3>1, <3>2
  <2>2. PICK h : h = [k \in 0..m |-> IF k = m THEN AfterName(resolved, configured, g, m) ELSE g[k]]
    OBVIOUS
  <2>3. \A k \in 0 .. m - 1 : k \in 0..m /\ k # m
    OBVIOUS
  <2>4. \A k \in 0 .. m - 1 : g[k] = h[k]
    BY <2>2, <2>3, Zenon
  <2>5. ASSUME NEW k \in 0..m PROVE h[k] = AfterName(resolved, configured, h, k)
    <3>1. k = 0 \/ k - 1 \in 0 .. m - 1
      OBVIOUS
    <3>2. AfterName(resolved, configured, g, k) = AfterName(resolved, configured, h, k)
      BY <1>1, <2>4, <3>1, Zenon
    <3>3. CASE k = m
      BY <2>2, <3>2, <3>3, Zenon
    <3>4. CASE k # m
      <4>1. k \in 0 .. m - 1 /\ m # 0
        BY <3>4
      <4>2. g[k] = AfterName(resolved, configured, g, k)
        BY <2>1, <4>1, Zenon
      <4> QED BY <2>4, <3>2, <4>1, <4>2, Zenon
    <3> QED BY <3>3, <3>4
  <2>6. h = [k \in 0..m |-> h[k]]
    BY <2>2, Zenon
  <2>7. h = [k \in 0..m |-> AfterName(resolved, configured, h, k)]
    BY <2>5, <2>6, Zenon
  <2> QED BY <2>7
<1> HIDE DEF S
<1>3. n \in S
  BY <1>2, Upwards, VariablesAssumption
<1>4. PICK g : g = [k \in 0..n |-> AfterName(resolved, configured, g, k)]
  BY <1>3 DEF S
<1>5. Resolving(resolved, configured) = [k \in 0..n |-> AfterName(resolved, configured, Resolving(resolved, configured), k)]
  BY <1>4, Zenon DEF Resolving, AfterName
<1> DEFINE p == Resolving(resolved, configured)
<1> HIDE DEF p
<1>6. p = [k \in 0..n |-> AfterName(resolved, configured, p, k)]
  BY <1>5, Zenon DEF p
<1>7. \A k \in 0..n : p[k] = AfterName(resolved, configured, p, k)
  BY <1>6, Zenon
<1> QED BY <1>7 DEF p

AfterPass(configured, g, p) == IF p = 0 THEN <<>> ELSE Pass(g[p - 1], configured)

LEMMA ExpandingIs ==
  ASSUME NEW configured, Passes(configured) \in Nat
  PROVE  \A k \in 0..Passes(configured) : Expanding(configured)[k] = AfterPass(configured, Expanding(configured), k)
<1> DEFINE n == Passes(configured)
           S == {m \in Nat : \E g : g = [k \in 0..m |-> AfterPass(configured, g, k)]}
<1>1. \A g, h, k : k = 0 \/ g[k - 1] = h[k - 1] => AfterPass(configured, g, k) = AfterPass(configured, h, k)
  BY Zenon DEF AfterPass
<1>2. ASSUME NEW m \in Nat, \A k \in 0 .. m - 1 : k \in S PROVE m \in S
  <2>1. PICK g : m # 0 => g = [k \in 0 .. m - 1 |-> AfterPass(configured, g, k)]
    <3>1. CASE m = 0
      BY <3>1
    <3>2. CASE m # 0
      <4>1. m - 1 \in 0 .. m - 1
        BY <3>2
      <4> QED BY <1>2, <4>1
    <3> QED BY <3>1, <3>2
  <2>2. PICK h : h = [k \in 0..m |-> IF k = m THEN AfterPass(configured, g, m) ELSE g[k]]
    OBVIOUS
  <2>3. \A k \in 0 .. m - 1 : k \in 0..m /\ k # m
    OBVIOUS
  <2>4. \A k \in 0 .. m - 1 : g[k] = h[k]
    BY <2>2, <2>3, Zenon
  <2>5. ASSUME NEW k \in 0..m PROVE h[k] = AfterPass(configured, h, k)
    <3>1. k = 0 \/ k - 1 \in 0 .. m - 1
      OBVIOUS
    <3>2. AfterPass(configured, g, k) = AfterPass(configured, h, k)
      BY <1>1, <2>4, <3>1, Zenon
    <3>3. CASE k = m
      BY <2>2, <3>2, <3>3, Zenon
    <3>4. CASE k # m
      <4>1. k \in 0 .. m - 1 /\ m # 0
        BY <3>4
      <4>2. g[k] = AfterPass(configured, g, k)
        BY <2>1, <4>1, Zenon
      <4> QED BY <2>4, <3>2, <4>1, <4>2, Zenon
    <3> QED BY <3>3, <3>4
  <2>6. h = [k \in 0..m |-> h[k]]
    BY <2>2, Zenon
  <2>7. h = [k \in 0..m |-> AfterPass(configured, h, k)]
    BY <2>5, <2>6, Zenon
  <2> QED BY <2>7
<1> HIDE DEF S
<1>3. n \in S
  BY <1>2, Upwards
<1>4. PICK g : g = [k \in 0..n |-> AfterPass(configured, g, k)]
  BY <1>3 DEF S
<1>5. Expanding(configured) = [k \in 0..n |-> AfterPass(configured, Expanding(configured), k)]
  BY <1>4, Zenon DEF Expanding, AfterPass
<1> DEFINE p == Expanding(configured)
<1> HIDE DEF p
<1>6. p = [k \in 0..n |-> AfterPass(configured, p, k)]
  BY <1>5, Zenon DEF p
<1>7. \A k \in 0..n : p[k] = AfterPass(configured, p, k)
  BY <1>6, Zenon
<1> QED BY <1>7 DEF p

\* A text in which every token stands for itself stays as it is.
LEMMA FlattenOfTokens ==
  ASSUME NEW T, NEW tokens \in Seq(T)
  PROVE  FlattenSeq([i \in DOMAIN tokens |-> <<tokens[i]>>]) = tokens
<1> DEFINE n == Len(tokens)
           parts == [i \in DOMAIN tokens |-> <<tokens[i]>>]
           F(g) == [i \in 1..n |-> IF i = 1 THEN parts[i] ELSE g[i - 1] \o parts[i]]
           flat == CHOOSE g : g = F(g)
           whole == [i \in 1..n |-> [k \in 1..i |-> tokens[k]]]
<1>1. n \in Nat /\ DOMAIN tokens = 1..n /\ tokens = [i \in 1..n |-> tokens[i]] /\ \A i \in 1..n : tokens[i] \in T
  OBVIOUS
<1>2. parts \in Seq(Seq(T)) /\ Len(parts) = n /\ \A i \in 1..n : parts[i] = <<tokens[i]>>
  BY <1>1
<1> HIDE DEF parts
<1>3. ASSUME NEW g, g = F(g), NEW i \in 1..n PROVE g[i] = IF i = 1 THEN parts[i] ELSE g[i - 1] \o parts[i]
  BY <1>3, Zenon
<1>4. ASSUME NEW i \in 1..n, i # 1
      PROVE  [k \in 1 .. i - 1 |-> tokens[k]] \o <<tokens[i]>> = [k \in 1..i |-> tokens[k]]
  <2>1. PICK a, b : a = [k \in 1 .. i - 1 |-> tokens[k]] /\ b = [k \in 1..i |-> tokens[k]]
    OBVIOUS
  <2>2. a \in Seq(T) /\ Len(a) = i - 1 /\ \A k \in 1 .. i - 1 : a[k] = tokens[k]
    BY <1>1, <2>1
  <2>3. b \in Seq(T) /\ Len(b) = i /\ \A k \in 1..i : b[k] = tokens[k]
    BY <1>1, <2>1
  <2>4. <<tokens[i]>> \in Seq(T) /\ Len(<<tokens[i]>>) = 1 /\ <<tokens[i]>>[1] = tokens[i]
    BY <1>1
  <2>5. PICK c : c = a \o <<tokens[i]>>
    OBVIOUS
  <2>6. c \in Seq(T) /\ Len(c) = i /\ \A k \in 1..i : c[k] = IF k <= i - 1 THEN a[k] ELSE tokens[i]
    BY <2>2, <2>4, <2>5
  <2>7. \A k \in 1..i : c[k] = b[k]
    BY <2>2, <2>3, <2>6
  <2>8. c = b
    BY <2>3, <2>6, <2>7
  <2> QED BY <2>1, <2>5, <2>8
<1>5. whole = F(whole)
  <2>1. ASSUME NEW i \in 1..n PROVE whole[i] = IF i = 1 THEN parts[i] ELSE whole[i - 1] \o parts[i]
    <3>1. CASE i = 1
      <4>1. PICK a : a = whole[i]
        OBVIOUS
      <4>2. a = [k \in 1..1 |-> tokens[k]]
        BY <3>1, <4>1
      <4>3. a = <<tokens[1]>>
        BY <4>2
      <4> QED BY <1>2, <3>1, <4>1, <4>3
    <3>2. CASE i # 1
      <4>1. i - 1 \in 1..n /\ whole[i - 1] = [k \in 1 .. i - 1 |-> tokens[k]]
        BY <1>1, <3>2
      <4> QED BY <1>2, <1>4, <3>2, <4>1
    <3> QED BY <3>1, <3>2
  <2> HIDE DEF whole
  <2>2. whole = [i \in 1..n |-> whole[i]]
    BY DEF whole
  <2> QED BY <2>1, <2>2, Zenon
<1>6. flat = F(flat)
  BY <1>5, Zenon
<1> HIDE DEF flat
<1> DEFINE S == {i \in Nat : i \in 1..n => flat[i] = [k \in 1..i |-> tokens[k]]}
<1>7. ASSUME NEW i \in Nat, \A k \in 0 .. i - 1 : k \in S PROVE i \in S
  <2>1. SUFFICES ASSUME i \in 1..n PROVE flat[i] = [k \in 1..i |-> tokens[k]]
    OBVIOUS
  <2>2. flat[i] = IF i = 1 THEN parts[i] ELSE flat[i - 1] \o parts[i]
    BY <1>3, <1>6, <2>1
  <2>3. CASE i = 1
    BY <1>2, <2>1, <2>2, <2>3
  <2>4. CASE i # 1
    <3>1. i - 1 \in 0 .. i - 1 /\ i - 1 \in 1..n
      BY <2>1, <2>4
    <3>2. flat[i - 1] = [k \in 1 .. i - 1 |-> tokens[k]]
      BY <1>7, <3>1
    <3> QED BY <1>2, <1>4, <2>1, <2>2, <2>4, <3>2
  <2> QED BY <2>3, <2>4
<1> HIDE DEF S
<1>8. \A i \in Nat : i \in S
  BY <1>7, Upwards
<1>9. CASE n = 0
  BY <1>1, <1>2, <1>9 DEF FlattenSeq, parts
<1>10. CASE n # 0
  <2>1. FlattenSeq(parts) = flat[n]
    BY <1>2, <1>10 DEF FlattenSeq, flat
  <2>2. flat[n] = [k \in 1..n |-> tokens[k]]
    <3>1. n \in 1..n /\ n \in S
      BY <1>1, <1>8, <1>10
    <3> QED BY <3>1, Zenon DEF S
  <2> QED BY <1>1, <2>1, <2>2 DEF parts
<1> QED BY <1>9, <1>10

\* What a name becomes depends on nothing but its tokens and what it refers to.
LEMMA SubstituteSame ==
  ASSUME NEW name, NEW c, NEW d, NEW r, NEW q, c[name] = d[name],
         \A t \in ToSet(c[name]) \ {name} :
            \/ t \in DOMAIN r /\ t \in DOMAIN q /\ r[t] = q[t]
            \/ t \notin DOMAIN r /\ t \notin DOMAIN q /\ t \notin DOMAIN c /\ t \notin DOMAIN d
  PROVE  Substitute(name, r, c) = Substitute(name, q, d)
<1>1. ASSUME NEW i \in DOMAIN c[name] PROVE Refer(name, c[name][i], r, c) = Refer(name, d[name][i], q, d)
  <2>1. PICK t : t = c[name][i] /\ t = d[name][i]
    OBVIOUS
  <2>2. t \in ToSet(c[name])
    BY <2>1 DEF ToSet
  <2>3. CASE t = name
    BY <2>1, <2>3, Zenon DEF Refer
  <2>4. CASE t # name /\ t \in DOMAIN r /\ t \in DOMAIN q /\ r[t] = q[t]
    BY <2>1, <2>4, Zenon DEF Refer
  <2>5. CASE t # name /\ t \notin DOMAIN r /\ t \notin DOMAIN q /\ t \notin DOMAIN c /\ t \notin DOMAIN d
    BY <2>1, <2>5, Zenon DEF Refer
  <2> QED BY <2>2, <2>3, <2>4, <2>5
<1>2. [i \in DOMAIN c[name] |-> Refer(name, c[name][i], r, c)] = [i \in DOMAIN d[name] |-> Refer(name, d[name][i], q, d)]
  BY <1>1, Zenon
<1> QED BY <1>2, Zenon DEF Substitute

\* Names that have their final value and all they refer to among them.
Closed(c, names) == names \subseteq DOMAIN c /\ \A n \in names : Refers(c, n) \subseteq names
Settled(c, r, names) ==
    /\ Closed(c, names) /\ names \subseteq DOMAIN r /\ DOMAIN r \subseteq DOMAIN c
    /\ \A n \in names : r[n] = Substitute(n, r, c)

LEMMA SettledStays ==
  ASSUME NEW c, NEW r, NEW names, Settled(c, r, names), NEW q,
         names \subseteq DOMAIN q, DOMAIN q \subseteq DOMAIN c, \A n \in names : q[n] = r[n]
  PROVE  /\ Settled(c, q, names)
         /\ \A n : Refers(c, n) \subseteq names => Substitute(n, r, c) = Substitute(n, q, c)
<1>1. ASSUME NEW n, Refers(c, n) \subseteq names PROVE Substitute(n, r, c) = Substitute(n, q, c)
  <2>1. \A t \in ToSet(c[n]) \ {n} : t \in names \/ t \notin DOMAIN c
    BY <1>1 DEF Refers
  <2> QED BY <2>1, SubstituteSame DEF Settled
<1>2. \A n \in names : q[n] = Substitute(n, q, c)
  <2> TAKE n \in names
  <2>1. Refers(c, n) \subseteq names
    BY DEF Settled, Closed
  <2> QED BY <1>1, <2>1 DEF Settled
<1> QED BY <1>1, <1>2 DEF Settled

\* A name that is resolved leaves what is settled; it is settled itself when all it
\* refers to is.
LEMMA ResolveStep ==
  ASSUME NEW c, NEW r, NEW names, Settled(c, r, names), NEW name
  PROVE  /\ Settled(c, Resolve(r, name, c), names)
         /\ DOMAIN r \subseteq DOMAIN Resolve(r, name, c)
         /\ name \in DOMAIN c => name \in DOMAIN Resolve(r, name, c)
         /\ name \in DOMAIN c /\ Refers(c, name) \subseteq names => Settled(c, Resolve(r, name, c), names \cup {name})
<1>0. PICK q : q = Resolve(r, name, c)
  OBVIOUS
<1>1. CASE name \notin DOMAIN c
  BY <1>0, <1>1 DEF Resolve
<1>2. CASE name \in DOMAIN c
  <2>1. /\ DOMAIN q = DOMAIN r \cup {name}
        /\ q[name] = Substitute(name, r, c) /\ \A n \in DOMAIN r \ {name} : q[n] = r[n]
    BY <1>0, <1>2, Zenon DEF Resolve, Put
  <2>2. \A n \in names : q[n] = r[n]
    <3> TAKE n \in names
    <3>1. n \in DOMAIN r /\ r[n] = Substitute(n, r, c)
      BY DEF Settled
    <3> QED BY <2>1, <3>1
  <2>3. names \subseteq DOMAIN q /\ DOMAIN q \subseteq DOMAIN c
    BY <1>2, <2>1 DEF Settled
  <2>4. /\ Settled(c, q, names)
        /\ \A n : Refers(c, n) \subseteq names => Substitute(n, r, c) = Substitute(n, q, c)
    BY <2>2, <2>3, SettledStays
  <2>5. ASSUME Refers(c, name) \subseteq names PROVE Settled(c, q, names \cup {name})
    <3>1. q[name] = Substitute(name, q, c)
      BY <2>1, <2>4, <2>5
    <3>2. Closed(c, names \cup {name})
      BY <1>2, <2>5 DEF Settled, Closed
    <3> QED BY <1>2, <2>1, <2>3, <2>4, <3>1, <3>2 DEF Settled
  <2> QED BY <1>0, <2>1, <2>4, <2>5
<1> QED BY <1>1, <1>2

LEMMA PassStep ==
  ASSUME NEW c, NEW r, NEW names, Settled(c, r, names)
  PROVE  /\ Settled(c, Pass(r, c), names)
         /\ \A n \in DOMAIN c \cap ToSet(VarOrder) :
               /\ n \in DOMAIN Pass(r, c)
               /\ Refers(c, n) \subseteq names => Settled(c, Pass(r, c), names \cup {n})
<1> DEFINE f == Resolving(r, c)
           Seen(k) == \A i \in 1..k : VarOrder[i] \in DOMAIN c =>
                         /\ VarOrder[i] \in DOMAIN f[k]
                         /\ Refers(c, VarOrder[i]) \subseteq names => Settled(c, f[k], names \cup {VarOrder[i]})
           S == {k \in Nat : k <= Len(VarOrder) => Settled(c, f[k], names) /\ Seen(k)}
<1>1. Len(VarOrder) \in Nat /\ DOMAIN VarOrder = 1..Len(VarOrder)
  BY VariablesAssumption
<1>2. \A k \in 0..Len(VarOrder) : f[k] = IF k = 0 THEN r ELSE Resolve(f[k - 1], VarOrder[k], c)
  BY ResolvingIs DEF AfterName
<1> HIDE DEF f
<1>3. ASSUME NEW k \in Nat, \A m \in 0 .. k - 1 : m \in S PROVE k \in S
  <2>1. SUFFICES ASSUME k <= Len(VarOrder) PROVE Settled(c, f[k], names) /\ Seen(k)
    OBVIOUS
  <2>2. CASE k = 0
    BY <1>1, <1>2, <2>1, <2>2
  <2>3. CASE k # 0
    <3>1. k - 1 \in 0 .. k - 1 /\ k - 1 <= Len(VarOrder) /\ k \in 0..Len(VarOrder)
      BY <1>1, <2>1, <2>3
    <3>2. Settled(c, f[k - 1], names) /\ Seen(k - 1)
      BY <1>3, <3>1
    <3>3. f[k] = Resolve(f[k - 1], VarOrder[k], c)
      BY <1>2, <2>3, <3>1
    <3>4. /\ Settled(c, f[k], names) /\ DOMAIN f[k - 1] \subseteq DOMAIN f[k]
          /\ VarOrder[k] \in DOMAIN c => VarOrder[k] \in DOMAIN f[k]
          /\ VarOrder[k] \in DOMAIN c /\ Refers(c, VarOrder[k]) \subseteq names =>
                Settled(c, f[k], names \cup {VarOrder[k]})
      <4>1. PICK v, before : v = VarOrder[k] /\ before = f[k - 1]
        OBVIOUS
      <4>2. Settled(c, before, names)
        BY <3>2, <4>1
      <4>3. /\ Settled(c, Resolve(before, v, c), names) /\ DOMAIN before \subseteq DOMAIN Resolve(before, v, c)
            /\ v \in DOMAIN c => v \in DOMAIN Resolve(before, v, c)
            /\ v \in DOMAIN c /\ Refers(c, v) \subseteq names => Settled(c, Resolve(before, v, c), names \cup {v})
        BY <4>2, ResolveStep
      <4> QED BY <3>3, <4>1, <4>3
    <3>5. ASSUME NEW i \in 1..k, VarOrder[i] \in DOMAIN c
          PROVE  /\ VarOrder[i] \in DOMAIN f[k]
                 /\ Refers(c, VarOrder[i]) \subseteq names => Settled(c, f[k], names \cup {VarOrder[i]})
      <4>1. CASE i = k
        BY <3>4, <3>5, <4>1
      <4>2. CASE i # k
        <5>1. i \in 1 .. k - 1
          BY <4>2
        <5>2. /\ VarOrder[i] \in DOMAIN f[k - 1]
              /\ Refers(c, VarOrder[i]) \subseteq names => Settled(c, f[k - 1], names \cup {VarOrder[i]})
          BY <3>2, <3>5, <5>1
        <5>3. ASSUME Settled(c, f[k - 1], names \cup {VarOrder[i]}) PROVE Settled(c, f[k], names \cup {VarOrder[i]})
          <6>1. PICK v, before : v = VarOrder[k] /\ before = f[k - 1]
            OBVIOUS
          <6>2. Settled(c, before, names \cup {VarOrder[i]})
            BY <5>3, <6>1
          <6>3. Settled(c, Resolve(before, v, c), names \cup {VarOrder[i]})
            BY <6>2, ResolveStep
          <6> QED BY <3>3, <6>1, <6>3
        <5> QED BY <3>4, <5>2, <5>3
      <4> QED BY <4>1, <4>2
    <3> QED BY <3>4, <3>5
  <2> QED BY <2>2, <2>3
<1> HIDE DEF S
<1>4. Len(VarOrder) \in S
  BY <1>1, <1>3, Upwards
<1>5. Settled(c, f[Len(VarOrder)], names) /\ Seen(Len(VarOrder))
  <2>1. Len(VarOrder) <= Len(VarOrder)
    BY <1>1
  <2> QED BY <1>4, <2>1, Zenon DEF S
<1>6. Pass(r, c) = f[Len(VarOrder)]
  BY DEF Pass, f
<1>7. ASSUME NEW n \in DOMAIN c \cap ToSet(VarOrder)
      PROVE  /\ n \in DOMAIN Pass(r, c)
             /\ Refers(c, n) \subseteq names => Settled(c, Pass(r, c), names \cup {n})
  <2>1. PICK i \in 1..Len(VarOrder) : n = VarOrder[i]
    BY <1>1 DEF ToSet
  <2> QED BY <1>5, <1>6, <2>1
<1> QED BY <1>5, <1>6, <1>7

LEMMA NamesAreFinite == IsFiniteSet(ToSet(VarOrder))
<1>1. VarOrder \in [1..Len(VarOrder) -> ToSet(VarOrder)] /\ Len(VarOrder) \in Nat
  BY VariablesAssumption
<1>2. \A n \in ToSet(VarOrder) : \E i \in 1..Len(VarOrder) : VarOrder[i] = n
  BY <1>1 DEF ToSet
<1>3. VarOrder \in Surjection(1..Len(VarOrder), ToSet(VarOrder))
  BY <1>1, <1>2 DEF Surjection
<1>4. IsFiniteSet(1..Len(VarOrder))
  BY <1>1, FS_Interval
<1> QED BY <1>3, <1>4, FS_Surjection

\* What the code does in as many passes as there are names and one more is what the
\* references mean, wherever they lead to an end.
LEMMA ExpansionSettles ==
  ASSUME NEW c, DOMAIN c \subseteq ToSet(VarOrder), NEW names \in SUBSET DOMAIN c, Grounded(c, names),
         NEW env, env = ExpandConfiguredEnvironment(c)
  PROVE  DOMAIN env = DOMAIN c /\ \A n \in names : env[n] = Substitute(n, env, c)
<1> DEFINE f == Expanding(c)
           S == {p \in Nat : p <= Passes(c) =>
                    \E some \in SUBSET names : /\ Settled(c, f[p], some) /\ (some = names \/ Cardinality(some) >= p)
                                               /\ p > 0 => DOMAIN c \subseteq DOMAIN f[p]}
<1>1. IsFiniteSet(DOMAIN c) /\ Cardinality(DOMAIN c) \in Nat /\ Passes(c) = Cardinality(DOMAIN c) + 1
  BY NamesAreFinite, FS_Subset, FS_CardinalityType DEF Passes
<1>2. \A p \in 0..Passes(c) : f[p] = IF p = 0 THEN <<>> ELSE Pass(f[p - 1], c)
  BY <1>1, ExpandingIs DEF AfterPass
<1>3. env = f[Passes(c)]
  BY DEF ExpandConfiguredEnvironment
<1> HIDE DEF f
<1>4. \A some \in SUBSET names : IsFiniteSet(some) /\ Cardinality(some) \in Nat /\ Cardinality(some) <= Cardinality(DOMAIN c)
  BY <1>1, FS_Subset, FS_CardinalityType
<1>5. ASSUME NEW p \in Nat, \A m \in 0 .. p - 1 : m \in S PROVE p \in S
  <2>1. SUFFICES ASSUME p <= Passes(c)
                 PROVE  \E some \in SUBSET names :
                           /\ Settled(c, f[p], some) /\ (some = names \/ Cardinality(some) >= p)
                           /\ p > 0 => DOMAIN c \subseteq DOMAIN f[p]
    OBVIOUS
  <2>2. CASE p = 0
    <3>1. f[p] = <<>> /\ DOMAIN f[p] = {}
      BY <1>1, <1>2, <2>1, <2>2
    <3>2. Settled(c, f[p], {})
      BY <3>1 DEF Settled, Closed
    <3> QED BY <1>4, <2>2, <3>2
  <2>3. CASE p # 0
    <3>1. p - 1 \in 0 .. p - 1 /\ p - 1 <= Passes(c) /\ p \in 0..Passes(c)
      BY <1>1, <2>1, <2>3
    <3>2. PICK some \in SUBSET names :
             Settled(c, f[p - 1], some) /\ (some = names \/ Cardinality(some) >= p - 1)
      BY <1>5, <3>1
    <3>3. PICK q : q = f[p] /\ q = Pass(f[p - 1], c)
      BY <1>2, <2>3, <3>1
    <3>4. /\ Settled(c, q, some)
          /\ \A n \in DOMAIN c : n \in DOMAIN q /\ (Refers(c, n) \subseteq some => Settled(c, q, some \cup {n}))
      <4>1. \A n \in DOMAIN c : n \in DOMAIN c \cap ToSet(VarOrder)
        OBVIOUS
      <4>2. /\ Settled(c, Pass(f[p - 1], c), some)
            /\ \A n \in DOMAIN c \cap ToSet(VarOrder) :
                  /\ n \in DOMAIN Pass(f[p - 1], c)
                  /\ Refers(c, n) \subseteq some => Settled(c, Pass(f[p - 1], c), some \cup {n})
        BY <3>2, PassStep
      <4> QED BY <3>3, <4>1, <4>2
    <3>5. CASE some = names
      BY <3>3, <3>4, <3>5
    <3>6. CASE some # names
      <4>1. names \ some # {} /\ names \ some \in SUBSET names
        BY <3>6
      <4>2. PICK n \in names \ some : Refers(c, n) \cap (names \ some) = {}
        BY <4>1 DEF Grounded
      <4>3. Refers(c, n) \subseteq some
        BY <4>2 DEF Grounded
      <4>4. Settled(c, q, some \cup {n}) /\ some \cup {n} \in SUBSET names
        BY <3>4, <4>2, <4>3
      <4>5. Cardinality(some \cup {n}) = Cardinality(some) + 1
        BY <1>4, <4>2, FS_AddElement
      <4>6. Cardinality(some \cup {n}) >= p
        BY <1>4, <3>2, <3>6, <4>5
      <4> QED BY <3>3, <3>4, <4>4, <4>6
    <3> QED BY <3>5, <3>6
  <2> QED BY <2>2, <2>3
<1> HIDE DEF S
<1>6. Passes(c) \in S /\ Passes(c) > 0
  BY <1>1, <1>5, Upwards
<1>7. PICK some \in SUBSET names :
         /\ Settled(c, env, some) /\ (some = names \/ Cardinality(some) >= Passes(c))
         /\ DOMAIN c \subseteq DOMAIN env
  BY <1>1, <1>3, <1>6 DEF S
<1>8. some = names
  BY <1>1, <1>4, <1>7
<1> QED BY <1>7, <1>8 DEF Settled

\* Two environments that are both resolved agree where references lead to an end.
LEMMA ResolvedOnce ==
  ASSUME NEW c, NEW d, NEW names \in SUBSET DOMAIN c, Grounded(c, names), NEW r, NEW q,
         names \subseteq DOMAIN r, names \subseteq DOMAIN q,
         \A n \in names : /\ r[n] = Substitute(n, r, c) /\ q[n] = Substitute(n, q, d) /\ c[n] = d[n]
                          /\ \A t \in ToSet(c[n]) \ {n} :
                                t \in names \/ t \notin DOMAIN c \cup DOMAIN d \cup DOMAIN r \cup DOMAIN q
  PROVE  \A n \in names : r[n] = q[n]
<1> DEFINE apart == {n \in names : r[n] # q[n]}
<1>1. SUFFICES ASSUME apart # {} PROVE FALSE
  OBVIOUS
<1>2. PICK n \in apart : Refers(c, n) \cap apart = {}
  BY <1>1 DEF Grounded
<1>3. \A t \in ToSet(c[n]) \ {n} : t \in names => r[t] = q[t]
  <2> TAKE t \in ToSet(c[n]) \ {n}
  <2> HAVE t \in names
  <2>1. t \in Refers(c, n)
    BY DEF Refers
  <2> QED BY <1>2, <2>1
<1>4. Substitute(n, r, c) = Substitute(n, q, d)
  BY <1>2, <1>3, SubstituteSame
<1> QED BY <1>2, <1>4

\* What a build is configured with, layer by layer.
LEMMA OverIs ==
  ASSUME NEW upper, NEW lower
  PROVE  /\ DOMAIN Over(upper, lower) = DOMAIN upper \cup DOMAIN lower
         /\ \A n \in DOMAIN upper : Over(upper, lower)[n] = upper[n]
         /\ \A n \in DOMAIN lower \ DOMAIN upper : Over(upper, lower)[n] = lower[n]
BY DEF Over

VarRow == [scope : Scopes, name : SavedNames, value : Texts, secret : BOOLEAN]
VarTypes == envVars \in Seq(VarRow)

LEMMA ConfiguredIs ==
  ASSUME VarTypes
  PROVE  /\ DOMAIN Configured(Nowhere) \subseteq DOMAIN Configured(InWorkspace)
         /\ DOMAIN Configured(InWorkspace) \subseteq ToSet(VarOrder)
         /\ DOMAIN Configured(InWorkspace) \ {"WORKSPACE"} \subseteq DOMAIN Configured(Nowhere)
         /\ "WORKSPACE" \in DOMAIN Configured(InWorkspace)
         /\ \A n \in DOMAIN Configured(InWorkspace) \ {"WORKSPACE"} :
               Configured(InWorkspace)[n] = Configured(Nowhere)[n]
         /\ \A n \in DOMAIN Release :
               n \in DOMAIN Configured(InWorkspace) /\ Configured(InWorkspace)[n] = Release[n]
         /\ \A n \in NamesOf("project") \ DOMAIN Release : Configured(Nowhere)[n] = Effective("project")[n]
         /\ \A n \in NamesOf("global") \ (DOMAIN Release \cup NamesOf("project")) :
               Configured(Nowhere)[n] = Effective("global")[n]
<1>1. PICK own, global, inherited, both, all, rest :
         /\ own = Effective("project") /\ global = Effective("global") /\ inherited = Over(Declared, Parameters)
         /\ both = Over(own, global) /\ all = Over(both, inherited) /\ rest = Over(Release, all)
  OBVIOUS
<1>2. /\ DOMAIN own = NamesOf("project") /\ DOMAIN global = NamesOf("global")
      /\ DOMAIN Nowhere = {} /\ DOMAIN InWorkspace = {"WORKSPACE"}
  BY <1>1 DEF Effective, Nowhere, InWorkspace
<1>3. NamesOf("project") \subseteq SavedNames /\ NamesOf("global") \subseteq SavedNames
  <2>1. \A i \in DOMAIN envVars : envVars[i] \in VarRow
    BY DEF VarTypes
  <2> QED BY <2>1 DEF NamesOf, VarRow
<1>4. /\ DOMAIN both = NamesOf("project") \cup NamesOf("global")
      /\ \A n \in NamesOf("project") : both[n] = own[n]
      /\ \A n \in NamesOf("global") \ NamesOf("project") : both[n] = global[n]
  <2>1. /\ DOMAIN Over(own, global) = DOMAIN own \cup DOMAIN global
        /\ \A n \in DOMAIN own : Over(own, global)[n] = own[n]
        /\ \A n \in DOMAIN global \ DOMAIN own : Over(own, global)[n] = global[n]
    BY OverIs
  <2> QED BY <1>1, <1>2, <2>1
<1>5. /\ DOMAIN all = DOMAIN both \cup DOMAIN Declared \cup DOMAIN Parameters
      /\ \A n \in DOMAIN both : all[n] = both[n]
  <2>1. DOMAIN inherited = DOMAIN Declared \cup DOMAIN Parameters
    BY <1>1, OverIs
  <2>2. /\ DOMAIN Over(both, inherited) = DOMAIN both \cup DOMAIN inherited
        /\ \A n \in DOMAIN both : Over(both, inherited)[n] = both[n]
        /\ \A n \in DOMAIN inherited \ DOMAIN both : Over(both, inherited)[n] = inherited[n]
    BY OverIs
  <2> QED BY <1>1, <2>1, <2>2
<1>6. /\ DOMAIN rest = DOMAIN Release \cup DOMAIN all
      /\ \A n \in DOMAIN Release : rest[n] = Release[n]
      /\ \A n \in DOMAIN all \ DOMAIN Release : rest[n] = all[n]
  <2>1. /\ DOMAIN Over(Release, all) = DOMAIN Release \cup DOMAIN all
        /\ \A n \in DOMAIN Release : Over(Release, all)[n] = Release[n]
        /\ \A n \in DOMAIN all \ DOMAIN Release : Over(Release, all)[n] = all[n]
    BY OverIs
  <2> QED BY <1>1, <2>1
<1>7. /\ DOMAIN Configured(Nowhere) = DOMAIN rest /\ \A n \in DOMAIN rest : Configured(Nowhere)[n] = rest[n]
      /\ DOMAIN Configured(InWorkspace) = DOMAIN rest \cup {"WORKSPACE"}
      /\ \A n \in DOMAIN rest \ {"WORKSPACE"} : Configured(InWorkspace)[n] = rest[n]
  <2>1. Configured(Nowhere) = Over(Nowhere, rest) /\ Configured(InWorkspace) = Over(InWorkspace, rest)
    BY <1>1 DEF Configured, Authoritative
  <2>2. /\ DOMAIN Over(Nowhere, rest) = DOMAIN Nowhere \cup DOMAIN rest
        /\ \A n \in DOMAIN rest \ DOMAIN Nowhere : Over(Nowhere, rest)[n] = rest[n]
    BY OverIs
  <2>3. /\ DOMAIN Over(InWorkspace, rest) = DOMAIN InWorkspace \cup DOMAIN rest
        /\ \A n \in DOMAIN rest \ DOMAIN InWorkspace : Over(InWorkspace, rest)[n] = rest[n]
    BY OverIs
  <2> QED BY <1>2, <2>1, <2>2, <2>3
<1>8. DOMAIN rest \subseteq ToSet(VarOrder) /\ "WORKSPACE" \in ToSet(VarOrder) /\ "WORKSPACE" \notin DOMAIN Release
  BY <1>3, <1>4, <1>5, <1>6, VariablesAssumption
<1>9. /\ DOMAIN Configured(Nowhere) \subseteq DOMAIN Configured(InWorkspace)
      /\ DOMAIN Configured(InWorkspace) \subseteq ToSet(VarOrder)
      /\ DOMAIN Configured(InWorkspace) \ {"WORKSPACE"} \subseteq DOMAIN Configured(Nowhere)
      /\ "WORKSPACE" \in DOMAIN Configured(InWorkspace)
      /\ \A n \in DOMAIN Configured(InWorkspace) \ {"WORKSPACE"} :
            Configured(InWorkspace)[n] = Configured(Nowhere)[n]
  BY <1>7, <1>8
<1>10. \A n \in DOMAIN Release : n \in DOMAIN Configured(InWorkspace) /\ Configured(InWorkspace)[n] = Release[n]
  BY <1>6, <1>7, <1>8
<1>11. /\ \A n \in NamesOf("project") \ DOMAIN Release : Configured(Nowhere)[n] = Effective("project")[n]
       /\ \A n \in NamesOf("global") \ (DOMAIN Release \cup NamesOf("project")) :
             Configured(Nowhere)[n] = Effective("global")[n]
  BY <1>1, <1>4, <1>5, <1>6, <1>7
<1> QED BY <1>9, <1>10, <1>11

LEMMA ReleaseIsKept ==
  ASSUME VarTypes, NEW env, env = ExpandConfiguredEnvironment(Configured(InWorkspace)), NEW n \in DOMAIN Release
  PROVE  /\ n \in DOMAIN env
         /\ ToSet(Release[n]) \cap (ToSet(VarOrder) \cup DOMAIN Process) = {} => env[n] = Release[n]
<1>1. PICK c : c = Configured(InWorkspace)
  OBVIOUS
<1>2. DOMAIN c \subseteq ToSet(VarOrder) /\ n \in DOMAIN c /\ c[n] = Release[n] /\ env = ExpandConfiguredEnvironment(c)
  BY <1>1, ConfiguredIs
<1>3. Grounded(c, {})
  BY DEF Grounded
<1>4. DOMAIN env = DOMAIN c
  BY <1>2, <1>3, ExpansionSettles
<1>5. ASSUME ToSet(Release[n]) \cap (ToSet(VarOrder) \cup DOMAIN Process) = {} PROVE env[n] = Release[n]
  <2>1. Refers(c, n) = {}
    BY <1>2, <1>5 DEF Refers
  <2>2. Grounded(c, {n})
    BY <2>1 DEF Grounded
  <2>3. env[n] = Substitute(n, env, c)
    BY <1>2, <2>2, ExpansionSettles
  <2>4. ASSUME NEW i \in DOMAIN c[n] PROVE Refer(n, c[n][i], env, c) = <<c[n][i]>>
    <3>1. PICK t : t = c[n][i]
      OBVIOUS
    <3>2. t \notin DOMAIN Process /\ t \notin DOMAIN env /\ t \notin DOMAIN c
      BY <1>2, <1>4, <1>5, <3>1 DEF ToSet
    <3> QED BY <3>1, <3>2 DEF Refer
  <2>5. [i \in DOMAIN c[n] |-> Refer(n, c[n][i], env, c)] = [i \in DOMAIN c[n] |-> <<c[n][i]>>]
    BY <2>4, Zenon
  <2>6. c[n] \in Seq(ToSet(c[n]))
    BY <1>2, VariablesAssumption
  <2>7. FlattenSeq([i \in DOMAIN c[n] |-> <<c[n][i]>>]) = c[n]
    BY <2>6, FlattenOfTokens
  <2> QED BY <1>2, <2>3, <2>5, <2>7, Zenon DEF Substitute
<1> QED BY <1>2, <1>4, <1>5

\* A secret that leads nowhere near the workspace has the value in a build that it had
\* when the values to mask were collected.
LEMMA SecretsAreKnown ==
  ASSUME VarTypes, NEW env, env = ExpandConfiguredEnvironment(Configured(InWorkspace)),
         NEW names \in SUBSET (DOMAIN Configured(InWorkspace) \ {"WORKSPACE"}),
         Grounded(Configured(InWorkspace), names), NEW n \in names \cap SecretNames
  PROVE  env[n] \in MaskedValues
<1>1. PICK c, d, known : /\ c = Configured(InWorkspace) /\ d = Configured(Nowhere)
                         /\ known = ExpandConfiguredEnvironment(d)
  OBVIOUS
<1>2. /\ DOMAIN d \subseteq DOMAIN c /\ DOMAIN c \subseteq ToSet(VarOrder) /\ DOMAIN c \ {"WORKSPACE"} \subseteq DOMAIN d
      /\ "WORKSPACE" \in DOMAIN c /\ \A m \in DOMAIN c \ {"WORKSPACE"} : c[m] = d[m]
  BY <1>1, ConfiguredIs
<1>3. Grounded(c, names) /\ names \subseteq DOMAIN c \ {"WORKSPACE"} /\ names \subseteq DOMAIN d
  BY <1>1, <1>2
<1>4. ASSUME NEW m \in names PROVE \A t \in ToSet(c[m]) \ {m} : t \in names \/ t \notin DOMAIN c \cup DOMAIN d
  BY <1>2, <1>3 DEF Grounded, Refers
<1>5. ASSUME NEW m \in names PROVE Refers(d, m) = Refers(c, m)
  <2>1. \A t \in ToSet(c[m]) \ {m} : t \in DOMAIN c <=> t \in DOMAIN d
    BY <1>3, <1>4
  <2>2. ToSet(c[m]) = ToSet(d[m])
    BY <1>2, <1>3
  <2> QED BY <2>1, <2>2 DEF Refers
<1>6. Grounded(d, names)
  BY <1>3, <1>5 DEF Grounded
<1>7. DOMAIN env = DOMAIN c /\ \A m \in names : env[m] = Substitute(m, env, c)
  BY <1>1, <1>2, <1>3, ExpansionSettles
<1>8. DOMAIN known = DOMAIN d /\ \A m \in names : known[m] = Substitute(m, known, d)
  BY <1>1, <1>2, <1>3, <1>6, ExpansionSettles
<1>9. \A m \in names : env[m] = known[m]
  BY <1>2, <1>3, <1>4, <1>7, <1>8, ResolvedOnce
<1>10. known[n] \in ValuesOf(known)
  BY <1>3, <1>8 DEF ValuesOf
<1> QED BY <1>1, <1>9, <1>10 DEF MaskedValues

\* The last row of a saved name has the value that was saved last.
SavedInv ==
    \A scope \in Scopes : \A n \in DOMAIN saved[scope] :
        /\ RowsOf(scope, n) # {}
        /\ \A w \in RowsOf(scope, n) : (\A i \in RowsOf(scope, n) : i <= w) => envVars[w].value = saved[scope][n]

RunInv ==
    /\ run = [phase |-> run.phase, masked |-> run.masked, env |-> run.env]
    /\ run.phase \in {"waiting", "checkout", "running"}
    /\ run.phase # "waiting" /\ ~edited => run.masked = MaskedValues
    /\ run.phase = "running" /\ ~edited => run.env = ExpandConfiguredEnvironment(Configured(InWorkspace))
    /\ ReleaseIsAuthoritative

VarInv == VarTypes /\ DOMAIN saved = Scopes /\ SavedInv /\ RunInv

LEMMA VarInitInv == VarInit => VarInv
<1> SUFFICES ASSUME VarInit PROVE VarInv
  OBVIOUS
<1>1. envVars = <<>> /\ DOMAIN saved = Scopes /\ \A scope \in Scopes : saved[scope] = <<>>
  BY DEF VarInit
<1>2. VarTypes /\ SavedInv
  BY <1>1 DEF VarTypes, SavedInv
<1>3. RunInv
  BY DEF VarInit, Waiting, RunInv, ReleaseIsAuthoritative
<1> QED BY <1>1, <1>2, <1>3 DEF VarInv

LEMMA SetEnvVarInv ==
  ASSUME VarInv, NEW scope \in Scopes, NEW name \in SavedNames, NEW value \in Texts, NEW secret \in BOOLEAN,
         SetEnvVar(scope, name, value, secret)
  PROVE  VarInv'
<1> DEFINE same == RowsOf(scope, name)
           new == [scope |-> scope, name |-> name, value |-> value, secret |-> secret]
<1>1. /\ edited' = TRUE /\ run' = run
      /\ saved' = [saved EXCEPT ![scope] = Put(saved[scope], name, value)]
      /\ \/ scope = "project" /\ same # {} /\ envVars' = [i \in DOMAIN envVars |-> IF i \in same THEN new ELSE envVars[i]]
         \/ envVars' = Append(envVars, new)
  BY DEF SetEnvVar
<1>2. new \in VarRow /\ envVars \in Seq(VarRow) /\ Len(envVars) \in Nat /\ DOMAIN envVars = 1..Len(envVars) /\ DOMAIN saved = Scopes
  BY DEF VarRow, VarInv, VarTypes
<1>3. new.scope = scope /\ new.name = name /\ new.value = value
  OBVIOUS
<1>4. /\ DOMAIN saved' = Scopes
      /\ DOMAIN saved'[scope] = DOMAIN saved[scope] \cup {name} /\ saved'[scope][name] = value
      /\ \A n \in DOMAIN saved[scope] \ {name} : saved'[scope][n] = saved[scope][n]
      /\ \A s \in Scopes \ {scope} : saved'[s] = saved[s]
  BY <1>1, <1>2, Zenon DEF Put
<1>5. ASSUME NEW s \in Scopes, NEW n \in DOMAIN saved'[s], s # scope \/ n # name
      PROVE  n \in DOMAIN saved[s] /\ saved'[s][n] = saved[s][n]
  <2>1. CASE s # scope
    BY <1>4, <2>1
  <2>2. CASE s = scope /\ n # name
    BY <1>4, <2>2
  <2> QED BY <1>5, <2>1, <2>2
<1> HIDE DEF new
<1>6. CASE scope = "project" /\ same # {} /\ envVars' = [i \in DOMAIN envVars |-> IF i \in same THEN new ELSE envVars[i]]
  <2>1. DOMAIN envVars' = DOMAIN envVars /\ \A i \in DOMAIN envVars : envVars'[i] = IF i \in same THEN new ELSE envVars[i]
    BY <1>6
  <2>2. envVars' \in Seq(VarRow)
    BY <1>2, <1>6
  <2>3. \A i \in DOMAIN envVars : envVars'[i].scope = envVars[i].scope /\ envVars'[i].name = envVars[i].name
    BY <1>3, <2>1 DEF RowsOf
  <2>4. \A s, n : RowsOf(s, n)' = RowsOf(s, n)
    BY <2>1, <2>3 DEF RowsOf
  <2>5. SavedInv'
    <3>1. ASSUME NEW s \in Scopes, NEW n \in DOMAIN saved'[s]
          PROVE  /\ RowsOf(s, n) # {}
                 /\ \A w \in RowsOf(s, n) : (\A i \in RowsOf(s, n) : i <= w) => envVars'[w].value = saved'[s][n]
      <4>1. CASE s = scope /\ n = name
        <5>1. \A w \in same : envVars'[w] = new
          BY <2>1 DEF RowsOf
        <5> QED BY <1>3, <1>4, <1>6, <4>1, <5>1
      <4>2. CASE s # scope \/ n # name
        <5>1. n \in DOMAIN saved[s] /\ saved'[s][n] = saved[s][n]
          BY <1>5, <4>2
        <5>2. \A w \in RowsOf(s, n) : w \notin same /\ w \in DOMAIN envVars
          BY <4>2 DEF RowsOf
        <5> QED BY <2>1, <5>1, <5>2 DEF VarInv, SavedInv
      <4> QED BY <4>1, <4>2
    <3> QED BY <2>4, <3>1 DEF SavedInv
  <2> QED BY <1>1, <1>4, <2>2, <2>5 DEF VarInv, VarTypes, RunInv, ReleaseIsAuthoritative
<1>7. CASE envVars' = Append(envVars, new)
  <2>1. /\ envVars' \in Seq(VarRow) /\ DOMAIN envVars' = DOMAIN envVars \cup {Len(envVars) + 1} /\ Len(envVars) + 1 \notin DOMAIN envVars
        /\ envVars'[Len(envVars) + 1] = new /\ \A i \in DOMAIN envVars : envVars'[i] = envVars[i] /\ i < Len(envVars) + 1
    BY <1>2, <1>7
  <2>2. SavedInv'
    <3>1. ASSUME NEW s \in Scopes, NEW n \in DOMAIN saved'[s]
          PROVE  /\ RowsOf(s, n)' # {}
                 /\ \A w \in RowsOf(s, n)' : (\A i \in RowsOf(s, n)' : i <= w) => envVars'[w].value = saved'[s][n]
      <4>1. CASE s = scope /\ n = name
        <5>1. Len(envVars) + 1 \in RowsOf(s, n)'
          BY <1>3, <2>1, <4>1 DEF RowsOf
        <5>2. ASSUME NEW w \in RowsOf(s, n)', \A i \in RowsOf(s, n)' : i <= w PROVE envVars'[w].value = saved'[s][n]
          <6>1. w \in DOMAIN envVars' /\ Len(envVars) + 1 <= w
            BY <5>1, <5>2 DEF RowsOf
          <6>2. w = Len(envVars) + 1
            BY <1>2, <2>1, <6>1
          <6> QED BY <1>3, <1>4, <2>1, <4>1, <6>2
        <5> QED BY <5>1, <5>2
      <4>2. CASE s # scope \/ n # name
        <5>1. n \in DOMAIN saved[s] /\ saved'[s][n] = saved[s][n]
          BY <1>5, <4>2
        <5>2. RowsOf(s, n)' = RowsOf(s, n)
          BY <1>3, <2>1, <4>2 DEF RowsOf
        <5>3. \A w \in RowsOf(s, n) : envVars'[w] = envVars[w]
          BY <2>1 DEF RowsOf
        <5> QED BY <5>1, <5>2, <5>3 DEF VarInv, SavedInv
      <4> QED BY <4>1, <4>2
    <3> QED BY <3>1 DEF SavedInv
  <2> QED BY <1>1, <1>4, <2>1, <2>2 DEF VarInv, VarTypes, RunInv, ReleaseIsAuthoritative
<1> QED BY <1>1, <1>6, <1>7

LEMMA RowRemoved ==
  ASSUME NEW T, NEW s \in Seq(T), NEW i \in DOMAIN s, NEW q, q = RemoveAt(s, i)
  PROVE  /\ q \in Seq(T) /\ DOMAIN q = 1 .. Len(s) - 1 /\ Len(s) \in Nat /\ DOMAIN s = 1..Len(s)
         /\ \A k \in DOMAIN q : q[k] = s[IF k < i THEN k ELSE k + 1]
<1>1. PICK a, b : a = SubSeq(s, 1, i - 1) /\ b = SubSeq(s, i + 1, Len(s)) /\ q = a \o b
  BY DEF RemoveAt
<1>2. i \in 1..Len(s) /\ Len(s) \in Nat /\ DOMAIN s = 1..Len(s)
  OBVIOUS
<1>3. a \in Seq(T) /\ Len(a) = i - 1 /\ \A k \in 1 .. i - 1 : a[k] = s[k]
  <2>1. /\ 1 \in Int /\ i - 1 \in Int /\ \A k \in 1 .. i - 1 : s[k] \in T
        /\ (IF 1 <= i - 1 THEN i - 1 - 1 + 1 ELSE 0) = i - 1
    BY <1>2
  <2>2. /\ SubSeq(s, 1, i - 1) \in Seq(T) /\ Len(SubSeq(s, 1, i - 1)) = IF 1 <= i - 1 THEN i - 1 - 1 + 1 ELSE 0
        /\ \A k \in 1 .. i - 1 - 1 + 1 : SubSeq(s, 1, i - 1)[k] = s[1 + k - 1]
    BY <2>1, SubSeqProperties
  <2>3. a \in Seq(T) /\ Len(a) = i - 1
    BY <1>1, <2>1, <2>2
  <2>4. \A k \in 1 .. i - 1 : k \in 1 .. i - 1 - 1 + 1 /\ 1 + k - 1 = k
    BY <1>2
  <2> QED BY <1>1, <2>2, <2>3, <2>4
<1>4. b \in Seq(T) /\ Len(b) = Len(s) - i /\ \A k \in 1 .. Len(s) - i : b[k] = s[k + i]
  <2>1. i + 1 \in Int /\ Len(s) \in Int /\ \A k \in i + 1 .. Len(s) : s[k] \in T
    BY <1>2
  <2>2. /\ SubSeq(s, i + 1, Len(s)) \in Seq(T)
        /\ Len(SubSeq(s, i + 1, Len(s))) = IF i + 1 <= Len(s) THEN Len(s) - (i + 1) + 1 ELSE 0
        /\ \A k \in 1 .. Len(s) - (i + 1) + 1 : SubSeq(s, i + 1, Len(s))[k] = s[i + 1 + k - 1]
    BY <2>1, SubSeqProperties
  <2>3. (IF i + 1 <= Len(s) THEN Len(s) - (i + 1) + 1 ELSE 0) = Len(s) - i
    BY <1>2
  <2>4. \A k \in 1 .. Len(s) - i : k \in 1 .. Len(s) - (i + 1) + 1 /\ i + 1 + k - 1 = k + i
    BY <1>2
  <2> QED BY <1>1, <2>2, <2>3, <2>4
<1>5. /\ q \in Seq(T) /\ Len(q) = Len(s) - 1
      /\ \A k \in 1 .. Len(s) - 1 : q[k] = IF k <= i - 1 THEN a[k] ELSE b[k - (i - 1)]
  <2>1. /\ a \o b \in Seq(T) /\ Len(a \o b) = Len(a) + Len(b)
        /\ \A k \in 1 .. Len(a) + Len(b) : (a \o b)[k] = IF k <= Len(a) THEN a[k] ELSE b[k - Len(a)]
    BY <1>3, <1>4, ConcatProperties
  <2>2. Len(a) + Len(b) = Len(s) - 1 /\ Len(a) = i - 1
    BY <1>2, <1>3, <1>4
  <2> QED BY <1>1, <2>1, <2>2, Zenon
<1>6. ASSUME NEW k \in 1 .. Len(s) - 1 PROVE q[k] = s[IF k < i THEN k ELSE k + 1]
  <2>1. CASE k < i
    <3>1. k \in 1 .. i - 1
      BY <1>2, <2>1
    <3> QED BY <1>3, <1>5, <2>1, <3>1
  <2>2. CASE ~(k < i)
    <3>1. k - (i - 1) \in 1 .. Len(s) - i /\ (k - (i - 1)) + i = k + 1 /\ ~(k <= i - 1)
      BY <1>2, <2>2
    <3> QED BY <1>4, <1>5, <2>2, <3>1
  <2> QED BY <2>1, <2>2
<1>7. q \in Seq(T) /\ DOMAIN q = 1 .. Len(s) - 1
  <2>1. q \in Seq(T) => DOMAIN q = 1 .. Len(q)
    OBVIOUS
  <2> QED BY <1>5, <2>1, Zenon
<1>8. \A k \in DOMAIN q : q[k] = s[IF k < i THEN k ELSE k + 1]
  BY <1>6, <1>7, Zenon
<1> QED BY <1>2, <1>7, <1>8, Zenon

LEMMA DeleteEnvVarInv ==
  ASSUME VarInv, NEW i \in DOMAIN envVars, DeleteEnvVar(i)
  PROVE  VarInv'
<1> DEFINE up(k) == IF k < i THEN k ELSE k + 1
<1>1. /\ edited' = TRUE /\ run' = run /\ envVars' = RemoveAt(envVars, i)
      /\ saved' = [saved EXCEPT ![envVars[i].scope] = Without(saved[envVars[i].scope], envVars[i].name)]
  BY DEF DeleteEnvVar
<1>2. envVars \in Seq(VarRow) /\ envVars[i] \in VarRow /\ DOMAIN saved = Scopes
  BY DEF VarInv, VarTypes
<1>3. /\ envVars' \in Seq(VarRow) /\ DOMAIN envVars' = 1 .. Len(envVars) - 1 /\ Len(envVars) \in Nat /\ DOMAIN envVars = 1..Len(envVars)
      /\ \A k \in DOMAIN envVars' : envVars'[k] = envVars[up(k)]
  BY <1>1, <1>2, RowRemoved
<1>4. envVars[i].scope \in Scopes /\ i \in 1..Len(envVars)
  BY <1>2, <1>3 DEF VarRow
<1>5. /\ DOMAIN saved' = Scopes
      /\ DOMAIN saved'[envVars[i].scope] = DOMAIN saved[envVars[i].scope] \ {envVars[i].name}
      /\ \A n \in DOMAIN saved'[envVars[i].scope] : saved'[envVars[i].scope][n] = saved[envVars[i].scope][n]
      /\ \A s \in Scopes \ {envVars[i].scope} : saved'[s] = saved[s]
  BY <1>1, <1>2, <1>4, Zenon DEF Without
<1>6. SavedInv'
  <2>1. ASSUME NEW s \in Scopes, NEW n \in DOMAIN saved'[s]
        PROVE  /\ RowsOf(s, n)' # {}
               /\ \A w \in RowsOf(s, n)' : (\A j \in RowsOf(s, n)' : j <= w) => envVars'[w].value = saved'[s][n]
    <3>1. n \in DOMAIN saved[s] /\ saved'[s][n] = saved[s][n] /\ i \notin RowsOf(s, n)
      <4>1. CASE s = envVars[i].scope
        BY <1>5, <4>1 DEF RowsOf
      <4>2. CASE s # envVars[i].scope
        BY <1>5, <4>2 DEF RowsOf
      <4> QED BY <4>1, <4>2
    <3>2. /\ RowsOf(s, n) # {}
          /\ \A w \in RowsOf(s, n) : (\A j \in RowsOf(s, n) : j <= w) => envVars[w].value = saved[s][n]
      BY <3>1 DEF VarInv, SavedInv
    <3>3. \A k \in DOMAIN envVars' : up(k) \in DOMAIN envVars /\ (k \in RowsOf(s, n)' <=> up(k) \in RowsOf(s, n))
      <4>1. \A k \in DOMAIN envVars' : up(k) \in DOMAIN envVars
        BY <1>3, <1>4
      <4> QED BY <1>3, <4>1 DEF RowsOf
    <3>4. ASSUME NEW j \in RowsOf(s, n) PROVE \E k \in RowsOf(s, n)' : up(k) = j
      <4>1. j \in 1..Len(envVars) /\ j # i
        BY <1>3, <3>1 DEF RowsOf
      <4>2. CASE j < i
        <5>1. j \in DOMAIN envVars' /\ up(j) = j
          BY <1>3, <1>4, <4>1, <4>2
        <5> QED BY <3>3, <5>1
      <4>3. CASE ~(j < i)
        <5>1. j - 1 \in DOMAIN envVars' /\ up(j - 1) = j
          BY <1>3, <1>4, <4>1, <4>3
        <5> QED BY <3>3, <5>1
      <4> QED BY <4>2, <4>3
    <3>5. ASSUME NEW w \in RowsOf(s, n)', \A j \in RowsOf(s, n)' : j <= w PROVE envVars'[w].value = saved'[s][n]
      <4>1. w \in DOMAIN envVars'
        BY DEF RowsOf
      <4>2. \A j \in RowsOf(s, n) : j <= up(w)
        <5> TAKE j \in RowsOf(s, n)
        <5>1. PICK k \in RowsOf(s, n)' : up(k) = j
          BY <3>4
        <5>2. k \in DOMAIN envVars' /\ k <= w
          BY <3>5 DEF RowsOf
        <5> QED BY <1>3, <1>4, <4>1, <5>1, <5>2
      <4>3. up(w) \in RowsOf(s, n)
        BY <3>3, <4>1
      <4>4. envVars[up(w)].value = saved[s][n]
        BY <3>2, <4>2, <4>3
      <4> QED BY <1>3, <3>1, <4>1, <4>4
    <3> QED BY <3>2, <3>4, <3>5
  <2> QED BY <2>1 DEF SavedInv
<1> QED BY <1>1, <1>3, <1>5, <1>6 DEF VarInv, VarTypes, RunInv, ReleaseIsAuthoritative

LEMMA SameRowsSameValues ==
  ASSUME envVars' = envVars
  PROVE  /\ MaskedValues' = MaskedValues /\ Configured(InWorkspace)' = Configured(InWorkspace)
         /\ \A s, n : RowsOf(s, n)' = RowsOf(s, n)
<1>1. \A s, n : RowsOf(s, n)' = RowsOf(s, n)
  BY DEF RowsOf
<1>2. Effective("project")' = Effective("project") /\ Effective("global")' = Effective("global")
  BY Zenon DEF Effective, NamesOf, RowsOf
<1>3. Configured(InWorkspace)' = Configured(InWorkspace) /\ Configured(Nowhere)' = Configured(Nowhere)
  BY <1>2, Zenon DEF Configured, Authoritative
<1>4. SecretNames' = SecretNames
  BY DEF SecretNames
<1>5. MaskedValues' = MaskedValues
  BY <1>3, <1>4, Zenon DEF MaskedValues, ValuesOf
<1> QED BY <1>1, <1>3, <1>5

LEMMA BuildStepInv ==
  ASSUME VarInv, ConfigureBuildSecretMasker \/ BuildEnvAt \/ ClearBuildSecretMasker \/ UNCHANGED varVars
  PROVE  VarInv'
<1>1. envVars' = envVars /\ saved' = saved
  BY DEF ConfigureBuildSecretMasker, BuildEnvAt, ClearBuildSecretMasker, varVars
<1>2. VarTypes' /\ DOMAIN saved' = Scopes
  BY <1>1 DEF VarInv, VarTypes
<1>3. SavedInv'
  BY <1>1, SameRowsSameValues DEF VarInv, SavedInv
<1>4. /\ run = [phase |-> run.phase, masked |-> run.masked, env |-> run.env]
      /\ MaskedValues' = MaskedValues /\ Configured(InWorkspace)' = Configured(InWorkspace)
  BY <1>1, SameRowsSameValues DEF VarInv, RunInv
<1>5. ASSUME ConfigureBuildSecretMasker PROVE RunInv'
  <2>1. run' = [phase |-> "checkout", masked |-> MaskedValues, env |-> <<>>]
    BY <1>5 DEF ConfigureBuildSecretMasker, Waiting
  <2> QED BY <1>4, <2>1 DEF RunInv, ReleaseIsAuthoritative
<1>6. ASSUME BuildEnvAt PROVE RunInv'
  <2>1. PICK env : env = ExpandConfiguredEnvironment(Configured(InWorkspace))
    OBVIOUS
  <2>2. run' = [phase |-> "running", masked |-> run.masked, env |-> env] /\ run.phase = "checkout" /\ edited' = edited
    BY <1>4, <1>6, <2>1 DEF BuildEnvAt
  <2>3. env = ExpandConfiguredEnvironment(Configured(InWorkspace)')
    BY <1>4, <2>1
  <2>4. \A n \in DOMAIN Release :
           /\ n \in DOMAIN env
           /\ ToSet(Release[n]) \cap (ToSet(VarOrder) \cup DOMAIN Process) = {} => env[n] = Release[n]
    BY <2>1, ReleaseIsKept DEF VarInv
  <2>5. ReleaseIsAuthoritative'
    BY <2>2, <2>4 DEF ReleaseIsAuthoritative
  <2>6. ~edited' => run'.masked = MaskedValues'
    BY <1>4, <2>2 DEF VarInv, RunInv
  <2> QED BY <2>2, <2>3, <2>5, <2>6 DEF RunInv
<1>7. ASSUME ClearBuildSecretMasker PROVE RunInv'
  BY <1>7 DEF ClearBuildSecretMasker, Waiting, RunInv, ReleaseIsAuthoritative
<1>8. ASSUME UNCHANGED varVars PROVE RunInv'
  BY <1>4, <1>8 DEF varVars, VarInv, RunInv, ReleaseIsAuthoritative
<1> QED BY <1>2, <1>3, <1>5, <1>6, <1>7, <1>8 DEF VarInv

LEMMA WinnerIsLast ==
  ASSUME VarTypes, NEW scope, NEW n, RowsOf(scope, n) # {}
  PROVE  Winner(RowsOf(scope, n)) \in RowsOf(scope, n) /\ \A i \in RowsOf(scope, n) : i <= Winner(RowsOf(scope, n))
<1>1. Len(envVars) \in Nat /\ RowsOf(scope, n) \in SUBSET (1..Len(envVars))
  BY DEF VarTypes, RowsOf
<1>2. \E w \in RowsOf(scope, n) : \A i \in RowsOf(scope, n) : i <= w
  BY <1>1, GreatestNatural
<1> QED BY <1>2 DEF Winner

LEMMA SavesWin == VarInv => LastSaveWins
<1> SUFFICES ASSUME VarInv PROVE LastSaveWins
  OBVIOUS
<1>1. VarTypes /\ DOMAIN saved = Scopes /\ SavedInv
  BY DEF VarInv
<1>2. ASSUME NEW scope \in Scopes, NEW n \in DOMAIN saved[scope]
      PROVE  n \in NamesOf(scope) /\ Effective(scope)[n] = saved[scope][n]
  <2>1. RowsOf(scope, n) # {}
    BY <1>1 DEF SavedInv
  <2>2. n \in NamesOf(scope)
    BY <2>1 DEF RowsOf, NamesOf
  <2>3. envVars[Winner(RowsOf(scope, n))].value = saved[scope][n]
    BY <1>1, <2>1, WinnerIsLast DEF SavedInv
  <2> QED BY <2>2, <2>3 DEF Effective
<1>3. ASSUME NEW n \in SavedNames \ DOMAIN Release, n \in DOMAIN saved["project"]
      PROVE  Configured(Nowhere)[n] = saved["project"][n]
  <2>1. n \in NamesOf("project") /\ Effective("project")[n] = saved["project"][n]
    BY <1>2, <1>3 DEF Scopes
  <2> QED BY <1>1, <2>1, ConfiguredIs
<1>4. ASSUME NEW n \in SavedNames \ DOMAIN Release, n \in DOMAIN saved["global"], n \notin NamesOf("project")
      PROVE  Configured(Nowhere)[n] = saved["global"][n]
  <2>1. n \in NamesOf("global") /\ Effective("global")[n] = saved["global"][n]
    BY <1>2, <1>4 DEF Scopes
  <2> QED BY <1>1, <1>4, <2>1, ConfiguredIs
<1> QED BY <1>3, <1>4 DEF LastSaveWins

\* Whatever names there are, in whatever order they are sorted, whatever their texts
\* refer to and whoever saves and deletes meanwhile: a build runs with the last saves,
\* expanded wherever references lead to an end, with its own release, and with no
\* secret its log would show unless it refers to the workspace.
THEOREM VariablesAreResolvedHolds == VarSpec => []VariablesAreResolved
<1>1. VarInv /\ [VarNext]_varVars => VarInv'
  BY SetEnvVarInv, DeleteEnvVarInv, BuildStepInv DEF VarNext
<1>2. VarInv => VariablesAreResolved
  <2> SUFFICES ASSUME VarInv PROVE VariablesAreResolved
    OBVIOUS
  <2>1. ExpansionIsComplete
    <3>1. SUFFICES ASSUME run.phase = "running", ~edited
                   PROVE  /\ DOMAIN run.env = DOMAIN Configured(InWorkspace)
                          /\ \A names \in SUBSET DOMAIN Configured(InWorkspace) :
                                Grounded(Configured(InWorkspace), names) =>
                                    \A n \in names : run.env[n] = Substitute(n, run.env, Configured(InWorkspace))
      BY DEF ExpansionIsComplete
    <3>2. PICK c : c = Configured(InWorkspace)
      OBVIOUS
    <3>3. DOMAIN c \subseteq ToSet(VarOrder) /\ run.env = ExpandConfiguredEnvironment(c)
      BY <3>1, <3>2, ConfiguredIs DEF VarInv, RunInv
    <3>4. Grounded(c, {}) /\ {} \in SUBSET DOMAIN c
      BY DEF Grounded
    <3>5. DOMAIN run.env = DOMAIN c
      BY <3>3, <3>4, ExpansionSettles
    <3>6. \A names \in SUBSET DOMAIN c : Grounded(c, names) => \A n \in names : run.env[n] = Substitute(n, run.env, c)
      BY <3>3, ExpansionSettles
    <3> QED BY <3>2, <3>5, <3>6
  <2>2. LastSaveWins
    BY SavesWin
  <2>3. ReleaseIsAuthoritative
    BY DEF VarInv, RunInv
  <2>4. InjectedSecretsAreMasked
    BY SecretsAreKnown DEF InjectedSecretsAreMasked, VarInv, RunInv
  <2> QED BY <2>1, <2>2, <2>3, <2>4 DEF VariablesAreResolved
<1> QED BY <1>1, <1>2, VarInitInv, PTL DEF VarSpec
=============================================================================
