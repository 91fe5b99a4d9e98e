------------------------------ MODULE IdentityMap ------------------------------
(****************************************************************************)
(* Which account of the judge a row of users is served as. An account is    *)
(* looked for by the name of a row of users; a row of users by the name of  *)
(* an account, which may be its name or its mail address. user_identity_map *)
(* remembers a match, but only a login through the judge writes it. Names   *)
(* and addresses in users are unique and may be changed; accounts of the    *)
(* judge have no key on the name. What is looked for in one step is created *)
(* in another. Two names are one here when they are to the database; rows   *)
(* of users are active (UserRows has their status), accounts have a name    *)
(* (an account of WeChat has none, and no login finds a row for it).        *)
(****************************************************************************)
EXTENDS Naturals, Sequences, FiniteSets, TLC

CONSTANTS
  Requests,
  Names,                   \* what people sign in with: names, and mail addresses
  Trim,                    \* a name without the spaces around it
  MailOf,                  \* an address itself, or a name at kkgoj.local
  MaxUsers, MaxAccounts    \* bounds of the rows created

VARIABLES
  users,      \* names and addresses in users, by id
  accounts,   \* the judge's rows, by id
  map,        \* user_identity_map
  calls,      \* a request about to create an account, or to match one
  served,     \* history: accounts each user was served as
  mixed       \* history: a user was renamed, or names have not been plain

vars == <<users, accounts, map, calls, served, mixed>>

User    == [name : Names, email : Names]
Account == [name : Names, password : BOOLEAN, live : BOOLEAN]
Match   == [user : 1..MaxUsers, account : 1..MaxAccounts]
Idle    == [at |-> "idle"]
Call    == {Idle} \cup [at : {"serve"}, user : 1..MaxUsers, name : Names]
             \cup [at : {"login", "register"}, name : Names]
             \cup [at : {"match"}, account : 1..MaxAccounts]

\* The unique keys of users and of the map are part of their types.
TypeOK ==
  /\ users \in Seq(User) /\ Len(users) <= MaxUsers
  /\ \A u, v \in DOMAIN users :
       users[u].name = users[v].name \/ users[u].email = users[v].email => u = v
  /\ accounts \in Seq(Account) /\ Len(accounts) <= MaxAccounts
  /\ map \subseteq Match
  /\ \A m, n \in map : m.user = n.user \/ m.account = n.account => m = n
  /\ calls \in [Requests -> Call]
  /\ served \in [1..MaxUsers -> SUBSET (1..MaxAccounts)]
  /\ mixed \in BOOLEAN

Init ==
  /\ users = <<>> /\ accounts = <<>> /\ map = {}
  /\ calls = [r \in Requests |-> Idle]
  /\ served = [u \in 1..MaxUsers |-> {}]
  /\ mixed = FALSE

----------------------------------------------------------------------------
Live(rows)     == {a \in DOMAIN rows : rows[a].live}
Named(rows, n) == {a \in Live(rows) : rows[a].name = n}
First(S)       == CHOOSE a \in S : \A b \in S : a <= b
Users(n)       == {u \in DOMAIN users : n \in {users[u].name, users[u].email}}

Serve(u, a) == served' = [served EXCEPT ![u] = @ \cup {a}]
Go(r, call) == calls' = [calls EXCEPT ![r] = call]

\* A new account; its name may be one that is taken.
Create(n, password) ==
  /\ Len(accounts) < MaxAccounts
  /\ accounts' = Append(accounts, [name |-> n, password |-> password, live |-> TRUE])

\* A new row of users, if its keys are free.
AddUser(n, e) ==
  /\ Len(users) < MaxUsers
  /\ \A u \in DOMAIN users : users[u].name # n /\ users[u].email # e
  /\ users' = Append(users, [name |-> n, email |-> e])

\* Slip: the keys are not consulted.
MapAnyway(u, a) == map \cup {[user |-> u, account |-> a]}

\* INSERT ... ON DUPLICATE KEY UPDATE: a user that has a row keeps its account,
\* an account that has one changes its user.
EnsureIdentityMap(u, a) ==
  IF \E m \in map : m.user = u THEN map
  ELSE {m \in map : m.account # a} \cup {[user |-> u, account |-> a]}

----------------------------------------------------------------------------
\* The blog takes trimmed names and addresses that no other user has.
Register(n, e) ==
  /\ Trim[n] = n /\ Trim[e] = e
  /\ AddUser(n, e)
  /\ UNCHANGED <<accounts, map, calls, served>>

UpdateProfile(u, n, e) ==
  /\ Trim[n] = n /\ Trim[e] = e
  /\ \A v \in DOMAIN users \ {u} : users[v].name # n /\ users[v].email # e
  /\ users' = [users EXCEPT ![u] = [name |-> n, email |-> e]]
  /\ UNCHANGED <<accounts, map, calls, served>>

\* A request to the judge, by a signed in user.
FindLegacyOJUserBySharedID(u) == {m.account : m \in {k \in map : k.user = u}} \cap Live(accounts)

EnsureFromSharedUserID(r, u) ==
  /\ calls[r] = Idle
  /\ LET found == IF FindLegacyOJUserBySharedID(u) # {} THEN FindLegacyOJUserBySharedID(u)
                  ELSE Named(accounts, users[u].name)
     IN IF found # {} THEN Serve(u, First(found)) /\ UNCHANGED calls
        ELSE Go(r, [at |-> "serve", user |-> u, name |-> users[u].name]) /\ UNCHANGED served
  /\ UNCHANGED <<users, accounts, map>>

\* Nobody knows the password of this account, and the map is not told of it.
CreateForShared(r) ==
  /\ calls[r].at = "serve"
  /\ Create(calls[r].name, FALSE)
  /\ Serve(calls[r].user, Len(accounts'))
  /\ Go(r, Idle)
  /\ UNCHANGED <<users, map>>

----------------------------------------------------------------------------
\* Registering with the judge: the name is looked for as it was typed, the account
\* made, and a row of users with it if none has the name.
JudgeRegister(r, n) ==
  /\ calls[r] = Idle /\ Named(accounts, n) = {}
  /\ Go(r, [at |-> "register", name |-> n])
  /\ UNCHANGED <<users, accounts, map, served>>

\* A row by the name, as a name or as an address. If there is none, but another
\* user has the address of the new one, nothing is made of it.
EnsureSharedUser(n) ==
  IF Users(n) # {} \/ \E u \in DOMAIN users : users[u].email = MailOf[n]
  THEN UNCHANGED users ELSE AddUser(n, MailOf[n])

CreateRegistered(r) ==
  /\ calls[r].at = "register"
  /\ Create(calls[r].name, TRUE)
  /\ EnsureSharedUser(calls[r].name)
  /\ Go(r, Idle)
  /\ UNCHANGED <<map, served>>

\* An administrator's new account is not compared with anything.
CreateByAdmin(n) ==
  /\ Create(n, TRUE)
  /\ UNCHANGED <<users, map, calls, served>>

\* A login with the judge's own password.
Login(r, a) ==
  /\ calls[r] = Idle /\ accounts[a].live /\ accounts[a].password
  /\ EnsureSharedUser(accounts[a].name)
  /\ Go(r, [at |-> "match", account |-> a])
  /\ UNCHANGED <<accounts, map, served>>

\* A login with the shared password: whether its row was found by name or by
\* address, the account is looked for by the name, and not by a match.
LoginFromSharedUser(r, u) ==
  /\ calls[r] = Idle
  /\ LET found == Named(accounts, users[u].name)
     IN Go(r, IF found # {} THEN [at |-> "match", account |-> First(found)]
              ELSE [at |-> "login", name |-> users[u].name])
  /\ UNCHANGED <<users, accounts, map, served>>

CreateAtLogin(r) ==
  /\ calls[r].at = "login"
  /\ Create(calls[r].name, TRUE)
  /\ Go(r, [at |-> "match", account |-> Len(accounts')])
  /\ UNCHANGED <<users, map, served>>

\* Slip: the match is with the row of users that came last.
LastInserted(r) ==
  /\ calls[r].at = "match"
  /\ LET a == calls[r].account
         n == Trim[accounts[a].name]
     IN /\ IF Users(n) # {} THEN UNCHANGED users ELSE AddUser(n, MailOf[n])
        /\ map' = EnsureIdentityMap(Len(users'), a) /\ Serve(Len(users'), a)
  /\ Go(r, Idle)
  /\ UNCHANGED accounts

\* After each of them: the row of users by the account's trimmed name, as a name or
\* as an address, the first if there are two, or a new one; and the match.
EnsureSharedUserForOJUser(r) ==
  /\ calls[r].at = "match"
  /\ LET a == calls[r].account
         n == Trim[accounts[a].name]
         u == IF Users(n) # {} THEN First(Users(n)) ELSE Len(users) + 1
     IN /\ IF Users(n) # {} THEN UNCHANGED users ELSE AddUser(n, MailOf[n])
        /\ map' = EnsureIdentityMap(u, a)
        /\ Serve(u, a)
  /\ Go(r, Idle)
  /\ UNCHANGED accounts

SoftDelete(a) ==
  /\ accounts[a].live
  /\ accounts' = [accounts EXCEPT ![a].live = FALSE]
  /\ UNCHANGED <<users, map, calls, served>>

\* A statement fails, as an INSERT does whose keys are taken, or the process dies.
Fail(r) ==
  /\ calls[r] # Idle /\ Go(r, Idle)
  /\ UNCHANGED <<users, accounts, map, served>>

----------------------------------------------------------------------------
\* Accounts have different names, without spaces around them, and none is called
\* like the mail address of a user with another name.
Plain ==
  /\ \A a \in DOMAIN accounts : Trim[accounts[a].name] = accounts[a].name
  /\ \A a, b \in Live(accounts) : accounts[a].name = accounts[b].name => a = b
  /\ \A u \in DOMAIN users, a \in DOMAIN accounts :
       users[u].email = accounts[a].name => users[u].name = accounts[a].name

Renamed == \E u \in DOMAIN users : users'[u].name # users[u].name

Next ==
  /\ \/ \E n, e \in Names : Register(n, e)
     \/ \E n \in Names : CreateByAdmin(n)
     \/ \E u \in DOMAIN users, n, e \in Names : UpdateProfile(u, n, e)
     \/ \E a \in DOMAIN accounts : SoftDelete(a)
     \/ \E r \in Requests :
          \/ \E u \in DOMAIN users : EnsureFromSharedUserID(r, u) \/ LoginFromSharedUser(r, u)
          \/ \E a \in DOMAIN accounts : Login(r, a)
          \/ \E n \in Names : JudgeRegister(r, n)
          \/ CreateForShared(r) \/ CreateAtLogin(r) \/ CreateRegistered(r)
          \/ EnsureSharedUserForOJUser(r) \/ Fail(r)
  /\ mixed' = (mixed \/ Renamed \/ ~Plain')

Spec == Init /\ [][Next]_vars

----------------------------------------------------------------------------
\* Unless a user was renamed or names have not been plain, a user is served as one
\* account at a time, and an account serves one user, whoever logged in where.
OneToOne ==
  ~mixed =>
    /\ \A u \in DOMAIN users : Cardinality(served[u] \cap Live(accounts)) <= 1
    /\ \A u, v \in DOMAIN users : u # v => served[u] \cap served[v] = {}

\* Unless so, a match is of two equal names, although an account is looked for
\* among the names and a row of users among names and addresses.
MatchesByName == ~mixed => \A m \in map : users[m.user].name = accounts[m.account].name

\* A user of both halves is one account, found by its name.
OneUser == OneToOne /\ MatchesByName
=============================================================================
