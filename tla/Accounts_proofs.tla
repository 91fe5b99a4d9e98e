---------------------------- MODULE Accounts_proofs ----------------------------
(****************************************************************************)
(* Proofs about people's accounts, for any requests, profiles, passwords,   *)
(* names and bounds. A write to a person's row is of a call begun earlier:  *)
(* RowsInv says what such a call carries, that it is what a super           *)
(* administrator gave, and, while nobody has written over what it read,     *)
(* that it differs from the row only where it was asked to. IdentityInv     *)
(* says that whatever speaks of a user or an account, a match, a call under *)
(* way, or what was served, speaks of one that exists and, while names are  *)
(* not mixed, of two equal names, though a row of users may be found by its *)
(* address.                                                                 *)
(****************************************************************************)
EXTENDS MCAccounts, FiniteSetTheorems, SequenceTheorems, WellFoundedInduction, TLAPS

----------------------------------------------------------------------------
(* One person's rows.                                                       *)

\* What a call under way carries.
CallRight(c) ==
  /\ c.at \in {"login", "copy"} => c.role \in granted \ {"ban"}
  /\ c.at \in {"save", "update"} => c.to.role \in (granted \cup c.grants) \ {"ban"}
  /\ c.at = "save" /\ ~c.stale => c.to = Changed(user, c)

\* The inductive invariant of the rows.
RowsInv ==
  /\ OnlyWhatWasAsked
  /\ RolesInPlace
  /\ \A r \in Requests : CallRight(calls[r])

\* A call is one of its kind.
LEMMA CallKinds ==
  ASSUME NEW c \in Call
  PROVE  /\ c.at \in {"login", "copy"} => c \in [at : {"login", "copy"}, role : JudgeRoles]
         /\ c.at \in {"save", "update"} =>
              c \in [at : {"save", "update"}, to : User, asked : SUBSET Columns,
                     grants : SUBSET JudgeRoles, stale : BOOLEAN]
         /\ c.at \notin {"login", "copy", "save", "update"} => c = Idle
  BY DEF Call, Idle

\* A row is its four columns.
LEMMA RowIsItsColumns ==
  ASSUME NEW row \in User
  PROVE  row = [profile |-> row.profile, password |-> row.password,
                role |-> row.role, status |-> row.status]
  BY DEF User

\* Changing some columns of a row gives a row.
LEMMA ChangedTyped ==
  ASSUME NEW row \in User, NEW c, c.to \in User
  PROVE  Changed(row, c) \in User
  BY DEF Changed, User

\* A call begins with what may be carried.
LEMMA BeginKept ==
  ASSUME TypeOK, RowsInv, MaxCalls \in Nat, NEW r \in Requests, NEW c \in Call,
         CallRight(c), Begin(r, c)
  PROVE  TypeOK' /\ RowsInv'
<1>1. /\ calls' = [calls EXCEPT ![r] = c] /\ begun \in 0..MaxCalls /\ begun < MaxCalls
      /\ begun' = begun + 1
      /\ UNCHANGED <<agent, user, judgeRole, intended, granted, overlapped>>
  BY DEF Begin, Free, TypeOK
<1>2. begun' \in 0..MaxCalls
  BY <1>1
<1>3. calls' \in [Requests -> Call]
  BY <1>1 DEF TypeOK
<1>4. TypeOK'
  BY <1>1, <1>2, <1>3 DEF TypeOK
<1>5. \A q \in Requests : CallRight(calls[q])'
  <2> SUFFICES ASSUME NEW q \in Requests PROVE CallRight(calls[q])'
    OBVIOUS
  <2>1. calls'[q] = c \/ calls'[q] = calls[q]
    BY <1>1 DEF TypeOK
  <2>2. CallRight(calls[q])
    BY DEF RowsInv
  <2> QED
    BY <1>1, <2>1, <2>2 DEF CallRight, Changed
<1>6. OnlyWhatWasAsked' /\ RolesInPlace'
  BY <1>1 DEF RowsInv, OnlyWhatWasAsked, RolesInPlace, RolesWereGranted, BanStaysWithJudge
<1> QED
  BY <1>4, <1>5, <1>6 DEF RowsInv

\* A save that carries the row it read with its columns changed.
LEMMA ToSaveKept ==
  ASSUME TypeOK, RowsInv, MaxCalls \in Nat, NEW r \in Requests,
         NEW asked \in SUBSET Columns, NEW to \in User, NEW grants \in SUBSET Roles,
         to.role \in (granted \cup grants) \ {"ban"},
         \A c \in Columns \ asked : to[c] = user[c],
         Begin(r, [at |-> "save", to |-> to, asked |-> asked, grants |-> grants, stale |-> FALSE])
  PROVE  TypeOK' /\ RowsInv'
<1> DEFINE c == [at |-> "save", to |-> to, asked |-> asked, grants |-> grants, stale |-> FALSE]
<1>1. c \in Call
  BY DEF Call, JudgeRoles
<1>2. c.at = "save" /\ c.to = to /\ c.asked = asked /\ c.grants = grants
  OBVIOUS
<1>3. c.to = Changed(user, c)
  <2> HIDE DEF c
  <2>1. /\ Changed(user, c).profile = to.profile
        /\ Changed(user, c).password = to.password
        /\ Changed(user, c).role = to.role
        /\ Changed(user, c).status = to.status
    BY <1>2 DEF Changed, Columns
  <2>2. Changed(user, c) \in User
    BY <1>2, ChangedTyped DEF TypeOK
  <2> QED
    BY <1>2, <2>1, <2>2, RowIsItsColumns
<1>4. CallRight(c)
  <2> HIDE DEF c
  <2> QED
    BY <1>2, <1>3 DEF CallRight
<1> QED
  BY <1>1, <1>4, BeginKept

\* The operations of the blog that save the row with one column changed.
LEMMA OwnerKept ==
  ASSUME TypeOK, RowsInv, MaxCalls \in Nat, NEW r \in Requests,
         UpdateProfile(r) \/ ChangePassword(r) \/ UpgradeLegacyPassword(r)
           \/ DeleteByAdmin(r) \/ EnsureAgentUser(r)
  PROVE  TypeOK' /\ RowsInv'
<1>1. user \in User /\ user.role \in granted \ {"ban"}
  BY DEF TypeOK, RowsInv, RolesInPlace, RolesWereGranted, BanStaysWithJudge
<1>2. PICK asked \in SUBSET Columns, to \in User :
        /\ to.role = user.role
        /\ \A c \in Columns \ asked : to[c] = user[c]
        /\ ToSave(r, asked, to)
  <2>1. CASE UpdateProfile(r)
    <3>1. PICK p \in Profiles : ToSave(r, {"profile"}, [user EXCEPT !.profile = p])
      BY <2>1 DEF UpdateProfile
    <3> QED
      BY <1>1, <3>1 DEF User, Columns
  <2>2. CASE ChangePassword(r)
    <3>1. PICK p \in Passwords :
            ToSave(r, {"password"}, [user EXCEPT !.password = [of |-> p, legacy |-> FALSE]])
      BY <2>2 DEF ChangePassword
    <3>2. [of |-> p, legacy |-> FALSE] \in Hash
      BY DEF Hash
    <3> QED
      BY <1>1, <3>1, <3>2 DEF User, Columns
  <2>3. CASE UpgradeLegacyPassword(r)
    <3>1. ToSave(r, {"password"}, [user EXCEPT !.password = [user.password EXCEPT !.legacy = FALSE]])
      BY <2>3 DEF UpgradeLegacyPassword
    <3>2. [user.password EXCEPT !.legacy = FALSE] \in Hash
      BY <1>1 DEF User, Hash
    <3> QED
      BY <1>1, <3>1, <3>2 DEF User, Columns
  <2>4. CASE DeleteByAdmin(r)
    BY <1>1, <2>4 DEF DeleteByAdmin, User, Columns, Statuses
  <2>5. CASE EnsureAgentUser(r)
    BY <1>1, <2>5 DEF EnsureAgentUser, User, Columns, Statuses
  <2> QED
    BY <2>1, <2>2, <2>3, <2>4, <2>5
<1> QED
  BY <1>1, <1>2, ToSaveKept DEF ToSave

\* An administrator carries the role the row has; a super administrator grants.
LEMMA AdminKept ==
  ASSUME TypeOK, RowsInv, MaxCalls \in Nat, NEW r \in Requests, UpdateRoleStatusByAdmin(r)
  PROVE  TypeOK' /\ RowsInv'
<1>1. user \in User /\ user.role \in granted \ {"ban"}
  BY DEF TypeOK, RowsInv, RolesInPlace, RolesWereGranted, BanStaysWithJudge
<1>2. PICK actor \in {"admin", "super_admin"}, role \in Roles, status \in Statuses :
        /\ actor # "super_admin" => role = user.role
        /\ ToSaveFor(actor, r, role, status)
  BY DEF UpdateRoleStatusByAdmin
<1> DEFINE grants == IF actor = "super_admin" THEN {role} ELSE {}
           to     == [user EXCEPT !.role = role, !.status = status]
<1>3. to \in User /\ to.role = role /\ \A c \in Columns \ {"role", "status"} : to[c] = user[c]
  BY <1>1 DEF User, Columns, JudgeRoles
<1>4. role \in (granted \cup grants) \ {"ban"} /\ grants \in SUBSET Roles
  BY <1>1, <1>2 DEF Roles
<1>5. Begin(r, [at |-> "save", to |-> to, asked |-> {"role", "status"}, grants |-> grants, stale |-> FALSE])
  BY <1>2 DEF ToSaveFor
<1>6. {"role", "status"} \in SUBSET Columns
  BY DEF Columns
<1> HIDE DEF to, grants
<1> QED
  BY <1>3, <1>4, <1>5, <1>6, ToSaveKept

\* The judge logs in, or copies the shared role.
LEMMA JudgeKept ==
  ASSUME TypeOK, RowsInv, MaxCalls \in Nat, NEW r \in Requests,
         Login(r) \/ EnsureFromSharedUserID(r)
  PROVE  TypeOK' /\ RowsInv'
<1>1. PICK at \in {"login", "copy"}, role \in JudgeRoles :
        role \in granted \ {"ban"} /\ Begin(r, [at |-> at, role |-> role])
  BY DEF Login, EnsureFromSharedUserID, TypeOK, User, RowsInv, RolesInPlace, RolesWereGranted,
     BanStaysWithJudge
<1>2. [at |-> at, role |-> role] \in Call
  BY DEF Call
<1>3. CallRight([at |-> at, role |-> role])
  BY <1>1 DEF CallRight
<1> QED
  BY <1>1, <1>2, <1>3, BeginKept

\* A login with the shared password takes the shared role, which it reads.
LEMMA LoginSharedKept ==
  ASSUME TypeOK, RowsInv, MaxCalls \in Nat, NEW r \in Requests, LoginFromSharedUser(r)
  PROVE  TypeOK' /\ RowsInv'
<1> DEFINE c == [at |-> "login", role |-> user.role]
<1>1. /\ calls' = [calls EXCEPT ![r] = c] /\ begun \in 0..MaxCalls /\ begun < MaxCalls
      /\ begun' = begun + 1 /\ judgeRole' = user.role
      /\ UNCHANGED <<agent, user, intended, granted, overlapped>>
  BY DEF LoginFromSharedUser, Free, TypeOK
<1>2. begun' \in 0..MaxCalls
  BY <1>1
<1>3. user.role \in JudgeRoles /\ user.role \in granted \ {"ban"}
  BY DEF TypeOK, User, RowsInv, RolesInPlace, RolesWereGranted, BanStaysWithJudge
<1>4. c \in Call
  BY <1>3 DEF Call
<1>5. CallRight(c)
  BY <1>3 DEF CallRight
<1>6. TypeOK'
  BY <1>1, <1>2, <1>3, <1>4 DEF TypeOK
<1>7. \A q \in Requests : CallRight(calls[q])'
  <2> SUFFICES ASSUME NEW q \in Requests PROVE CallRight(calls[q])'
    OBVIOUS
  <2>1. calls'[q] = c \/ calls'[q] = calls[q]
    BY <1>1 DEF TypeOK
  <2>2. CallRight(calls[q])
    BY DEF RowsInv
  <2> HIDE DEF c
  <2> QED
    BY <1>1, <1>5, <2>1, <2>2 DEF CallRight, Changed
<1>8. OnlyWhatWasAsked' /\ RolesInPlace'
  BY <1>1, <1>3 DEF RowsInv, OnlyWhatWasAsked, RolesInPlace, RolesWereGranted, BanStaysWithJudge
<1> QED
  BY <1>6, <1>7, <1>8 DEF RowsInv

\* A step that replaces what one call carries, and writes no row of users.
LEMMA CallReplaced ==
  ASSUME TypeOK, RowsInv, NEW r \in Requests, NEW c \in Call, CallRight(c),
         calls' = [calls EXCEPT ![r] = c],
         judgeRole' \in JudgeRoles, judgeRole' \in granted,
         UNCHANGED <<agent, user, begun, intended, granted, overlapped>>
  PROVE  TypeOK' /\ RowsInv'
<1>1. TypeOK'
  BY DEF TypeOK
<1>2. \A q \in Requests : CallRight(calls[q])'
  <2> SUFFICES ASSUME NEW q \in Requests PROVE CallRight(calls[q])'
    OBVIOUS
  <2>1. calls'[q] = c \/ calls'[q] = calls[q]
    BY DEF TypeOK
  <2>2. CallRight(calls[q])
    BY DEF RowsInv
  <2> QED
    BY <2>1, <2>2 DEF CallRight, Changed
<1>3. OnlyWhatWasAsked' /\ RolesInPlace'
  BY DEF RowsInv, OnlyWhatWasAsked, RolesInPlace, RolesWereGranted, BanStaysWithJudge
<1> QED
  BY <1>1, <1>2, <1>3 DEF RowsInv

\* An idle request carries nothing.
LEMMA IdleRight == Idle \in Call /\ CallRight(Idle)
  BY DEF Idle, Call, CallRight

\* The shared row compared, the shared role copied, a call that fails.
LEMMA AnswersKept ==
  ASSUME TypeOK, RowsInv, NEW r \in Requests,
         EnsureSharedUserForOJUser(r) \/ SyncOJUserFromShared(r) \/ Fail(r)
  PROVE  TypeOK' /\ RowsInv'
<1>1. /\ calls[r] \in Call /\ CallRight(calls[r]) /\ user \in User
      /\ judgeRole \in JudgeRoles /\ judgeRole \in granted
  BY DEF TypeOK, RowsInv, RolesInPlace, RolesWereGranted
<1>2. CASE EnsureSharedUserForOJUser(r)
  <2> DEFINE to    == [user EXCEPT !.status = "active", !.role = calls[r].role]
             asked == {c \in {"role", "status"} : to[c] # user[c]}
             c     == [at |-> "update", to |-> to, asked |-> asked, grants |-> {}, stale |-> FALSE]
  <2>1. calls[r].role \in JudgeRoles /\ calls[r].role \in granted \ {"ban"}
    BY <1>1, <1>2, CallKinds DEF EnsureSharedUserForOJUser, CallRight
  <2>2. to \in User /\ to.role = calls[r].role
    BY <1>1, <2>1 DEF User, Statuses
  <2>3. c \in Call
    BY <2>2 DEF Call, Columns
  <2>4. CallRight(c)
    <3> HIDE DEF to, asked
    <3> QED
      BY <2>1, <2>2 DEF CallRight
  <2>5. \E d \in Call : CallRight(d) /\ calls' = [calls EXCEPT ![r] = d]
    <3>1. calls' = [calls EXCEPT ![r] = IF asked = {} THEN Idle ELSE c]
      BY <1>2 DEF EnsureSharedUserForOJUser
    <3> HIDE DEF c, asked
    <3> QED
      BY <2>3, <2>4, <3>1, IdleRight
  <2> QED
    BY <1>1, <1>2, <2>5, CallReplaced DEF EnsureSharedUserForOJUser
<1>3. CASE SyncOJUserFromShared(r)
  <2>1. calls[r].role \in JudgeRoles /\ calls[r].role \in granted
    BY <1>1, <1>3, CallKinds DEF SyncOJUserFromShared, CallRight
  <2> QED
    BY <1>1, <1>3, <2>1, IdleRight, CallReplaced DEF SyncOJUserFromShared
<1>4. CASE Fail(r)
  BY <1>1, <1>4, IdleRight, CallReplaced DEF Fail
<1> QED
  BY <1>2, <1>3, <1>4

\* A write puts into the row what its call carries, which is what it was asked to
\* unless another wrote in between.
LEMMA WriteKept ==
  ASSUME TypeOK, RowsInv, NEW r \in Requests, Write(r)
  PROVE  TypeOK' /\ RowsInv'
<1> DEFINE c == calls[r]
<1>1. /\ c \in Call /\ CallRight(c) /\ user \in User /\ intended \in User
      /\ granted \subseteq JudgeRoles /\ judgeRole \in JudgeRoles /\ overlapped \in BOOLEAN
  BY DEF TypeOK, RowsInv
<1>2. \/ c.at = "save" /\ user' = c.to
      \/ c.at = "update" /\ user' = Changed(user, c)
  BY DEF Write, Save, Update
<1>3. /\ overlapped' = (overlapped \/ c.stale)
      /\ intended' = Changed(intended, c)
      /\ granted' = granted \cup c.grants
      /\ calls' = [q \in Requests |->
           IF q = r THEN Idle
           ELSE IF calls[q].at \in {"save", "update"} THEN [calls[q] EXCEPT !.stale = TRUE]
           ELSE calls[q]]
      /\ UNCHANGED <<agent, begun, judgeRole>>
  BY DEF Write, Save, Update
<1>4. c.to \in User /\ c.grants \subseteq JudgeRoles /\ c.stale \in BOOLEAN
  BY <1>1, <1>2, CallKinds
<1> HIDE DEF c
<1>5. Changed(user, c) \in User /\ Changed(intended, c) \in User
  BY <1>1, <1>4, ChangedTyped
<1>6. \A q \in Requests : calls'[q] \in Call /\ CallRight(calls[q])'
  <2> SUFFICES ASSUME NEW q \in Requests PROVE calls'[q] \in Call /\ CallRight(calls[q])'
    OBVIOUS
  <2>1. calls[q] \in Call /\ CallRight(calls[q])
    BY DEF TypeOK, RowsInv
  <2>2. CASE q = r
    BY <1>3, <2>2, IdleRight DEF CallRight, Idle
  <2>3. CASE q # r /\ calls[q].at \in {"save", "update"}
    <3>1. calls[q] \in [at : {"save", "update"}, to : User, asked : SUBSET Columns,
                        grants : SUBSET JudgeRoles, stale : BOOLEAN]
      BY <2>1, <2>3, CallKinds
    <3>2. calls'[q] = [calls[q] EXCEPT !.stale = TRUE]
      BY <1>3, <2>3
    <3>3. /\ calls'[q] \in [at : {"save", "update"}, to : User, asked : SUBSET Columns,
                            grants : SUBSET JudgeRoles, stale : BOOLEAN]
          /\ calls'[q].stale /\ calls'[q].at = calls[q].at
          /\ calls'[q].to = calls[q].to /\ calls'[q].grants = calls[q].grants
      BY <3>1, <3>2
    <3>4. calls'[q] \in Call
      BY <3>3 DEF Call
    <3>5. calls[q].to.role \in (granted \cup calls[q].grants) \ {"ban"}
      BY <2>1, <2>3 DEF CallRight
    <3>6. CallRight(calls[q])'
      BY <1>3, <2>3, <3>3, <3>5 DEF CallRight
    <3> QED
      BY <3>4, <3>6
  <2>4. CASE q # r /\ calls[q].at \notin {"save", "update"}
    <3>1. calls'[q] = calls[q]
      BY <1>3, <2>4
    <3>2. CallRight(calls[q])'
      BY <1>3, <2>1, <2>4, <3>1 DEF CallRight
    <3> QED
      BY <2>1, <3>1, <3>2
  <2> QED
    BY <2>2, <2>3, <2>4
<1>7. calls' \in [Requests -> Call]
  BY <1>3, <1>6
<1>8. TypeOK'
  BY <1>1, <1>2, <1>3, <1>4, <1>5, <1>7 DEF TypeOK
<1>9. OnlyWhatWasAsked'
  <2> SUFFICES ASSUME ~overlapped' PROVE user' = intended'
    BY DEF OnlyWhatWasAsked
  <2>1. user = intended /\ ~c.stale
    BY <1>1, <1>3, <1>4 DEF RowsInv, OnlyWhatWasAsked
  <2>2. c.at = "save" => c.to = Changed(user, c)
    BY <1>1, <2>1 DEF CallRight
  <2> QED
    BY <1>2, <1>3, <2>1, <2>2
<1>10. RolesInPlace'
  <2>1. user.role \in granted \ {"ban"} /\ judgeRole \in granted
    BY DEF RowsInv, RolesInPlace, RolesWereGranted, BanStaysWithJudge
  <2>2. c.to.role \in (granted \cup c.grants) \ {"ban"}
    BY <1>1, <1>2 DEF CallRight
  <2>3. Changed(user, c).role \in {c.to.role, user.role}
    BY DEF Changed
  <2> QED
    BY <1>2, <1>3, <2>1, <2>2, <2>3 DEF RolesInPlace, RolesWereGranted, BanStaysWithJudge
<1> QED
  BY <1>6, <1>8, <1>9, <1>10 DEF RowsInv

\* The judge's super administrators give a role to the judge's row.
LEMMA GrantKept ==
  ASSUME TypeOK, RowsInv, UpdateByAdmin
  PROVE  TypeOK' /\ RowsInv'
<1>1. /\ judgeRole' \in JudgeRoles /\ granted' = granted \cup {judgeRole'}
      /\ UNCHANGED <<agent, user, calls, begun, intended, overlapped>>
  BY DEF UpdateByAdmin
<1>2. TypeOK'
  BY <1>1 DEF TypeOK
<1>3. \A q \in Requests : CallRight(calls[q])'
  BY <1>1 DEF RowsInv, CallRight, Changed
<1>4. OnlyWhatWasAsked' /\ RolesInPlace'
  BY <1>1 DEF RowsInv, OnlyWhatWasAsked, RolesInPlace, RolesWereGranted, BanStaysWithJudge
<1> QED
  BY <1>2, <1>3, <1>4 DEF RowsInv

\* Every step on a person's rows.
LEMMA RowsStep ==
  ASSUME TypeOK, RowsInv, MaxCalls \in Nat, Next
  PROVE  TypeOK' /\ RowsInv'
<1>1. CASE UpdateByAdmin
  BY <1>1, GrantKept
<1>2. ASSUME NEW r \in Requests,
             \/ UpdateProfile(r) \/ ChangePassword(r) \/ UpgradeLegacyPassword(r)
             \/ UpdateRoleStatusByAdmin(r) \/ DeleteByAdmin(r) \/ EnsureAgentUser(r)
             \/ Login(r) \/ LoginFromSharedUser(r) \/ EnsureSharedUserForOJUser(r)
             \/ EnsureFromSharedUserID(r) \/ SyncOJUserFromShared(r)
             \/ Write(r) \/ Fail(r)
      PROVE  TypeOK' /\ RowsInv'
  BY <1>2, OwnerKept, AdminKept, JudgeKept, LoginSharedKept, AnswersKept, WriteKept
<1> QED
  BY <1>1, <1>2 DEF Next

\* The rows begin with a role each, and no call.
LEMMA RowsStart ==
  ASSUME Init, MaxCalls \in Nat
  PROVE  TypeOK /\ RowsInv
<1>1. user \in User /\ user.role \in JudgeRoles \ {"ban"}
  BY DEF Init, User, JudgeRoles, Roles, Statuses
<1>2. TypeOK
  <2>1. calls \in [Requests -> Call]
    BY IdleRight DEF Init
  <2>2. begun \in 0..MaxCalls
    BY DEF Init
  <2>3. /\ {agent, overlapped} \subseteq BOOLEAN /\ {user, intended} \subseteq User
        /\ judgeRole \in JudgeRoles /\ granted \subseteq JudgeRoles
    BY <1>1 DEF Init
  <2> QED
    BY <2>1, <2>2, <2>3 DEF TypeOK
<1>3. \A r \in Requests : CallRight(calls[r])
  BY IdleRight DEF Init
<1> QED
  BY <1>1, <1>2, <1>3 DEF Init, RowsInv, OnlyWhatWasAsked, RolesInPlace, RolesWereGranted, BanStaysWithJudge

\* While the identities are at work the rows stand.
LEMMA RowsIdle ==
  ASSUME TypeOK, RowsInv, UNCHANGED vars
  PROVE  TypeOK' /\ RowsInv'
<1>1. TypeOK'
  BY DEF vars, TypeOK
<1>2. \A q \in Requests : CallRight(calls[q])'
  BY DEF vars, RowsInv, CallRight, Changed
<1>3. OnlyWhatWasAsked' /\ RolesInPlace'
  BY DEF vars, RowsInv, OnlyWhatWasAsked, RolesInPlace, RolesWereGranted, BanStaysWithJudge
<1> QED
  BY <1>1, <1>2, <1>3 DEF RowsInv

----------------------------------------------------------------------------
(* Which account a user is served as.                                       *)

\* A user may be served as an account, or matched with it: both exist, and unless
\* names are mixed they are equal.
Fits(u, a) ==
  /\ u \in DOMAIN users /\ a \in DOMAIN accounts
  /\ ~mixed => accounts[a].name = users[u].name

\* What a request remembers of a user, or of an account.
CallFits(c) ==
  /\ c.at = "serve" => c.user \in DOMAIN users /\ (~mixed => c.name = users[c.user].name)
  /\ c.at = "match" => c.account \in DOMAIN accounts

\* The inductive invariant of the identities.
IdentityInv ==
  /\ \A u \in 1..MaxUsers : \A a \in served[u] : Fits(u, a)
  /\ \A m \in map : Fits(m.user, m.account)
  /\ \A r \in Requests : CallFits(icalls[r])
  /\ ~mixed => I!Plain

\* What every step remembers of the names.
Remember == mixed' = (mixed \/ I!Renamed \/ ~I!Plain')

\* Users are only added, or changed under their two keys.
UsersGrow ==
  /\ users' \in Seq(I!User) /\ Len(users') <= MaxUsers
  /\ \A u, v \in DOMAIN users' :
       users'[u].name = users'[v].name \/ users'[u].email = users'[v].email => u = v
  /\ DOMAIN users \subseteq DOMAIN users'

\* Accounts are only added, or deleted softly.
AccountsGrow ==
  /\ accounts' \in Seq(I!Account) /\ Len(accounts') <= MaxAccounts
  /\ DOMAIN accounts \subseteq DOMAIN accounts'
  /\ \A a \in DOMAIN accounts : accounts'[a].name = accounts[a].name

\* A match is added under the keys of the map.
MapGrows ==
  /\ map' \subseteq I!Match
  /\ \A m, n \in map' : m.user = n.user \/ m.account = n.account => m = n
  /\ \A m \in map' \ map : Fits(m.user, m.account)'

\* What is served anew fits.
ServedGrows ==
  /\ served' \in [1..MaxUsers -> SUBSET (1..MaxAccounts)]
  /\ \A u \in 1..MaxUsers : \A a \in served'[u] \ served[u] : Fits(u, a)'

\* What a request remembers anew fits.
CallsGrow ==
  /\ icalls' \in [Requests -> I!Call]
  /\ \A r \in Requests : icalls'[r] = icalls[r] \/ CallFits(icalls[r])'

\* What is remembered of the names: they were and are plain unless it says they are mixed.
LEMMA Remembering ==
  ASSUME mixed \in BOOLEAN, Remember
  PROVE  /\ mixed' \in BOOLEAN
         /\ ~mixed' => ~mixed
         /\ ~mixed' => I!Plain'
         /\ ~mixed' => \A u \in DOMAIN users : users'[u].name = users[u].name
<1>1. mixed' \in BOOLEAN
  BY DEF Remember
<1>2. ~mixed' => ~mixed /\ ~I!Renamed /\ I!Plain'
  BY DEF Remember
<1>3. ~I!Renamed => \A u \in DOMAIN users : users'[u].name = users[u].name
  BY DEF I!Renamed
<1> QED
  BY <1>1, <1>2, <1>3

\* A step that does no more keeps the invariant.
LEMMA GrowKept ==
  ASSUME I!TypeOK, IdentityInv, Remember,
         UsersGrow, AccountsGrow, MapGrows, ServedGrows, CallsGrow
  PROVE  I!TypeOK' /\ IdentityInv'
<1>0. /\ mixed' \in BOOLEAN
      /\ ~mixed' => ~mixed
      /\ ~mixed' => I!Plain'
      /\ ~mixed' => \A u \in DOMAIN users : users'[u].name = users[u].name
  <2>1. mixed \in BOOLEAN
    BY DEF I!TypeOK
  <2> QED
    BY <2>1, Remembering
<1>1. I!TypeOK'
  BY <1>0 DEF UsersGrow, AccountsGrow, MapGrows, ServedGrows, CallsGrow, I!TypeOK
<1>2. \A u, a : Fits(u, a) => Fits(u, a)'
  BY <1>0 DEF Fits, UsersGrow, AccountsGrow
<1>3. \A u \in 1..MaxUsers : \A a \in served'[u] : Fits(u, a)'
  BY <1>2 DEF IdentityInv, ServedGrows
<1>4. \A m \in map' : Fits(m.user, m.account)'
  BY <1>2 DEF IdentityInv, MapGrows
<1>5. \A r \in Requests : CallFits(icalls[r])'
  <2> SUFFICES ASSUME NEW r \in Requests, icalls'[r] = icalls[r] PROVE CallFits(icalls[r])'
    BY DEF CallsGrow
  <2>1. CallFits(icalls[r])
    BY DEF IdentityInv
  <2> QED
    BY <1>0, <2>1 DEF CallFits, UsersGrow, AccountsGrow
<1> QED
  BY <1>0, <1>1, <1>3, <1>4, <1>5 DEF IdentityInv

\* Where a step leaves a variable alone.
LEMMA UsersStand ==
  ASSUME I!TypeOK, UNCHANGED users
  PROVE  UsersGrow
  BY DEF I!TypeOK, UsersGrow

LEMMA AccountsStand ==
  ASSUME I!TypeOK, UNCHANGED accounts
  PROVE  AccountsGrow
  BY DEF I!TypeOK, AccountsGrow

LEMMA MapStands ==
  ASSUME I!TypeOK, UNCHANGED map
  PROVE  MapGrows
  BY DEF I!TypeOK, MapGrows

LEMMA ServedStands ==
  ASSUME I!TypeOK, UNCHANGED served
  PROVE  ServedGrows
  BY DEF I!TypeOK, ServedGrows

LEMMA CallsStand ==
  ASSUME I!TypeOK, UNCHANGED icalls
  PROVE  CallsGrow
  BY DEF I!TypeOK, CallsGrow

\* A set of positions that is not empty has a first one.
LEMMA FirstIsIn ==
  ASSUME NEW k \in Nat, NEW S \in SUBSET (1..k), S # {}
  PROVE  I!First(S) \in S
<1>1. S \subseteq Nat
  OBVIOUS
<1>2. PICK m \in S : \A i \in S : <<i, m>> \notin OpToRel(<, Nat)
  BY <1>1, WFMin, NatLessThanWellFounded
<1>3. \A i \in S : ~ (i < m)
  BY <1>1, <1>2 DEF OpToRel
<1>4. \A i \in S : m <= i
  BY <1>1, <1>3
<1> QED
  BY <1>4 DEF I!First

\* A new row of users has a new name and a new address.
LEMMA UserAdded ==
  ASSUME I!TypeOK, NEW n \in Names, NEW e \in Names, MaxUsers \in Nat, I!AddUser(n, e)
  PROVE  /\ UsersGrow
         /\ Len(users') = Len(users) + 1 /\ Len(users') \in DOMAIN users'
         /\ Len(users') \in 1..MaxUsers
         /\ users'[Len(users')].name = n
<1> DEFINE row == [name |-> n, email |-> e]
<1>1. /\ users \in Seq(I!User) /\ Len(users) \in Nat /\ DOMAIN users = 1..Len(users)
      /\ Len(users) < MaxUsers /\ users' = Append(users, row)
      /\ \A u \in DOMAIN users : users[u].name # n /\ users[u].email # e
  BY DEF I!TypeOK, I!AddUser
<1>2. row \in I!User /\ row.name = n /\ row.email = e
  BY DEF I!User
<1> HIDE DEF row
<1>3. /\ users' \in Seq(I!User) /\ Len(users') = Len(users) + 1
      /\ DOMAIN users' = 1..(Len(users) + 1)
      /\ \A i \in 1..Len(users) : users'[i] = users[i]
      /\ users'[Len(users) + 1] = row
  BY <1>1, <1>2, AppendProperties
<1>4. \A i \in 1..(Len(users) + 1) : i \in 1..Len(users) \/ i = Len(users) + 1
  BY <1>1
<1>5. \A u, v \in DOMAIN users' :
        users'[u].name = users'[v].name \/ users'[u].email = users'[v].email => u = v
  BY <1>1, <1>2, <1>3, <1>4 DEF I!TypeOK
<1>6. 1..Len(users) \subseteq 1..(Len(users) + 1) /\ Len(users) + 1 <= MaxUsers
      /\ Len(users) + 1 \in 1..(Len(users) + 1) /\ Len(users) + 1 \in 1..MaxUsers
  BY <1>1
<1> QED
  BY <1>1, <1>2, <1>3, <1>5, <1>6 DEF UsersGrow

\* A name is trimmed to a name, and has an address.
LEMMA NamesTyped ==
  ASSUME AccountsAssumption, NEW n \in Names
  PROVE  Trim[n] \in Names /\ MailOf[n] \in Names
  BY DEF AccountsAssumption

\* A row of users by a name is there, or added, or cannot be.
LEMMA SharedEnsured ==
  ASSUME I!TypeOK, AccountsAssumption, NEW n \in Names, I!EnsureSharedUser(n)
  PROVE  UsersGrow
<1>1. MailOf[n] \in Names /\ MaxUsers \in Nat
  BY NamesTyped DEF AccountsAssumption
<1>2. UNCHANGED users \/ I!AddUser(n, MailOf[n])
  BY DEF I!EnsureSharedUser
<1> QED
  BY <1>1, <1>2, UserAdded, UsersStand

\* A new account.
LEMMA AccountAdded ==
  ASSUME I!TypeOK, NEW n \in Names, NEW p \in BOOLEAN, MaxAccounts \in Nat,
         I!Create(n, p)
  PROVE  /\ AccountsGrow
         /\ Len(accounts') \in DOMAIN accounts' /\ Len(accounts') \in 1..MaxAccounts
         /\ accounts'[Len(accounts')].name = n
<1> DEFINE row == [name |-> n, password |-> p, live |-> TRUE]
<1>1. accounts \in Seq(I!Account) /\ Len(accounts) \in Nat /\ DOMAIN accounts = 1..Len(accounts)
  BY DEF I!TypeOK
<1>2. row \in I!Account /\ row.name = n
  BY DEF I!Account
<1>3. Len(accounts) < MaxAccounts /\ accounts' = Append(accounts, row)
  BY DEF I!Create
<1> HIDE DEF row
<1>4. /\ accounts' \in Seq(I!Account) /\ Len(accounts') = Len(accounts) + 1
      /\ DOMAIN accounts' = 1..(Len(accounts) + 1)
      /\ \A i \in 1..Len(accounts) : accounts'[i] = accounts[i]
      /\ accounts'[Len(accounts) + 1] = row
  BY <1>1, <1>2, <1>3, AppendProperties
<1>5. /\ 1..Len(accounts) \subseteq 1..(Len(accounts) + 1) /\ Len(accounts) + 1 <= MaxAccounts
      /\ Len(accounts) + 1 \in 1..(Len(accounts) + 1) /\ Len(accounts) + 1 \in 1..MaxAccounts
  BY <1>1, <1>3
<1> QED
  BY <1>1, <1>2, <1>4, <1>5 DEF AccountsGrow

\* A user served as an account that fits.
LEMMA ServedAdded ==
  ASSUME I!TypeOK, NEW u, NEW a \in 1..MaxAccounts, u \in 1..MaxUsers,
         Fits(u, a)', I!Serve(u, a)
  PROVE  ServedGrows
<1>1. /\ served \in [1..MaxUsers -> SUBSET (1..MaxAccounts)]
      /\ served' = [served EXCEPT ![u] = @ \cup {a}]
  BY DEF I!TypeOK, I!Serve
<1> QED
  BY <1>1 DEF ServedGrows

\* The two keys of the map keep each user and each account in one match.
LEMMA MatchAdded ==
  ASSUME I!TypeOK, NEW u \in 1..MaxUsers, NEW a \in 1..MaxAccounts, Fits(u, a)',
         map' = I!EnsureIdentityMap(u, a)
  PROVE  MapGrows
<1>1. /\ map \subseteq I!Match
      /\ \A m, n \in map : m.user = n.user \/ m.account = n.account => m = n
  BY DEF I!TypeOK
<1>2. CASE \E m \in map : m.user = u
  <2>1. map' = map
    BY <1>2 DEF I!EnsureIdentityMap
  <2> QED
    BY <1>1, <2>1 DEF MapGrows
<1>3. CASE ~ \E m \in map : m.user = u
  <2> DEFINE new == [user |-> u, account |-> a]
  <2>1. new \in I!Match /\ new.user = u /\ new.account = a
    BY DEF I!Match
  <2>2. map' = {m \in map : m.account # a} \cup {new}
    BY <1>3 DEF I!EnsureIdentityMap
  <2> HIDE DEF new
  <2> QED
    BY <1>1, <1>3, <2>1, <2>2 DEF MapGrows
<1> QED
  BY <1>2, <1>3

\* A request remembers what fits.
LEMMA CallSet ==
  ASSUME I!TypeOK, NEW r \in Requests, NEW c \in I!Call, CallFits(c)', I!Go(r, c)
  PROVE  CallsGrow
<1>0. icalls' = [icalls EXCEPT ![r] = c]
  BY DEF I!Go
<1>1. icalls' \in [Requests -> I!Call]
  BY <1>0 DEF I!TypeOK
<1>2. \A q \in Requests : icalls'[q] = icalls[q] \/ icalls'[q] = c
  BY <1>0 DEF I!TypeOK
<1>3. \A q \in Requests : icalls'[q] = c => CallFits(icalls[q])'
  BY DEF CallFits
<1> QED
  BY <1>1, <1>2, <1>3 DEF CallsGrow

\* Nothing, or what fits whatever the rows are.
LEMMA CallDone ==
  ASSUME I!TypeOK, NEW r \in Requests, NEW c \in I!Call, c.at \notin {"serve", "match"}, I!Go(r, c)
  PROVE  CallsGrow
<1>1. CallFits(c)'
  BY DEF CallFits
<1> QED
  BY <1>1, CallSet

LEMMA IdleFits == I!Idle \in I!Call /\ I!Idle.at = "idle"
  BY DEF I!Idle, I!Call

\* The account to be matched is there.
LEMMA CallMatch ==
  ASSUME I!TypeOK, NEW r \in Requests, NEW a \in 1..MaxAccounts, a \in DOMAIN accounts',
         I!Go(r, [at |-> "match", account |-> a])
  PROVE  CallsGrow
<1> DEFINE c == [at |-> "match", account |-> a]
<1>1. c \in I!Call /\ c.at = "match" /\ c.account = a
  BY DEF I!Call
<1> HIDE DEF c
<1>2. CallFits(c)'
  BY <1>1 DEF CallFits
<1> QED
  BY <1>1, <1>2, CallSet DEF c

\* A call is one of its kind.
LEMMA IdentityCalls ==
  ASSUME NEW c \in I!Call
  PROVE  /\ c.at = "serve" => c.user \in 1..MaxUsers /\ c.name \in Names
         /\ c.at \in {"login", "register"} => c.name \in Names
         /\ c.at = "match" => c.account \in 1..MaxAccounts
  BY DEF I!Call, I!Idle

\* Positions are within the bounds.
LEMMA Positions ==
  ASSUME I!TypeOK, MaxUsers \in Nat, MaxAccounts \in Nat
  PROVE  /\ DOMAIN users = 1..Len(users) /\ DOMAIN users \subseteq 1..MaxUsers
         /\ DOMAIN accounts = 1..Len(accounts) /\ DOMAIN accounts \subseteq 1..MaxAccounts
         /\ \A u \in DOMAIN users : users[u].name \in Names
         /\ \A a \in DOMAIN accounts : accounts[a] \in I!Account /\ accounts[a].name \in Names
         /\ Len(users) \in Nat /\ Len(accounts) \in Nat
<1>1. /\ users \in Seq(I!User) /\ Len(users) <= MaxUsers /\ Len(users) \in Nat
      /\ accounts \in Seq(I!Account) /\ Len(accounts) <= MaxAccounts /\ Len(accounts) \in Nat
  BY DEF I!TypeOK
<1>2. /\ DOMAIN users = 1..Len(users) /\ DOMAIN accounts = 1..Len(accounts)
      /\ \A u \in DOMAIN users : users[u] \in I!User
      /\ \A a \in DOMAIN accounts : accounts[a] \in I!Account
  BY <1>1
<1>3. 1..Len(users) \subseteq 1..MaxUsers /\ 1..Len(accounts) \subseteq 1..MaxAccounts
  BY <1>1
<1> QED
  BY <1>1, <1>2, <1>3 DEF I!Account, I!User

\* A row of users is registered.
LEMMA RegisterKept ==
  ASSUME I!TypeOK, IdentityInv, AccountsAssumption, Remember, NEW n \in Names, NEW e \in Names,
         I!Register(n, e)
  PROVE  I!TypeOK' /\ IdentityInv'
<1>1. UNCHANGED <<accounts, map, icalls, served>>
  BY DEF I!Register
<1>2. UsersGrow
  BY UserAdded DEF I!Register, AccountsAssumption
<1> QED
  BY <1>1, <1>2, AccountsStand, MapStands, ServedStands, CallsStand, GrowKept

\* A user takes another name and address, which are nobody's.
LEMMA ProfileKept ==
  ASSUME I!TypeOK, IdentityInv, AccountsAssumption, Remember, NEW u \in DOMAIN users,
         NEW n \in Names, NEW e \in Names, I!UpdateProfile(u, n, e)
  PROVE  I!TypeOK' /\ IdentityInv'
<1> DEFINE row == [name |-> n, email |-> e]
<1>1. /\ users' = [users EXCEPT ![u] = row]
      /\ \A v \in DOMAIN users \ {u} : users[v].name # n /\ users[v].email # e
      /\ UNCHANGED <<accounts, map, icalls, served>>
  BY DEF I!UpdateProfile
<1>2. users \in Seq(I!User) /\ Len(users) <= MaxUsers
  BY DEF I!TypeOK
<1>3. row \in I!User /\ row.name = n /\ row.email = e
  BY DEF I!User
<1> HIDE DEF row
<1>4. users' \in Seq(I!User) /\ Len(users') = Len(users) /\ DOMAIN users' = DOMAIN users
  BY <1>1, <1>2, <1>3, ExceptSeq
<1>5. \A v \in DOMAIN users : users'[v] = IF v = u THEN row ELSE users[v]
  BY <1>1
<1>6. \A v, w \in DOMAIN users' :
        users'[v].name = users'[w].name \/ users'[v].email = users'[w].email => v = w
  BY <1>1, <1>3, <1>4, <1>5 DEF I!TypeOK
<1>7. UsersGrow
  BY <1>2, <1>4, <1>6 DEF UsersGrow
<1> QED
  BY <1>1, <1>7, AccountsStand, MapStands, ServedStands, CallsStand, GrowKept

\* An account is deleted softly: its name stays.
LEMMA SoftDeleteKept ==
  ASSUME I!TypeOK, IdentityInv, AccountsAssumption, Remember, NEW a \in DOMAIN accounts,
         I!SoftDelete(a)
  PROVE  I!TypeOK' /\ IdentityInv'
<1>1. /\ accounts' = [accounts EXCEPT ![a].live = FALSE]
      /\ UNCHANGED <<users, map, icalls, served>>
  BY DEF I!SoftDelete
<1>2. accounts \in Seq(I!Account) /\ Len(accounts) <= MaxAccounts
  BY DEF I!TypeOK
<1> DEFINE row == [accounts[a] EXCEPT !.live = FALSE]
<1>3. accounts[a] \in I!Account
  BY <1>2
<1>4. row \in I!Account /\ row.name = accounts[a].name
  BY <1>3 DEF I!Account
<1>5. accounts' = [accounts EXCEPT ![a] = row]
  BY <1>1
<1> HIDE DEF row
<1>6. /\ accounts' \in Seq(I!Account) /\ Len(accounts') = Len(accounts)
      /\ DOMAIN accounts' = DOMAIN accounts
  BY <1>2, <1>4, <1>5, ExceptSeq
<1>7. \A b \in DOMAIN accounts : accounts'[b].name = accounts[b].name
  BY <1>4, <1>5
<1>8. AccountsGrow
  BY <1>2, <1>6, <1>7 DEF AccountsGrow
<1> QED
  BY <1>1, <1>8, UsersStand, MapStands, ServedStands, CallsStand, GrowKept

\* An account that is found by a name, or by the map, fits its user.
LEMMA FoundFits ==
  ASSUME I!TypeOK, IdentityInv, AccountsAssumption, NEW u \in DOMAIN users
  PROVE  /\ \A S : S # {} /\ S \subseteq I!Named(accounts, users[u].name)
                     => I!First(S) \in 1..MaxAccounts /\ Fits(u, I!First(S))
         /\ \A S : S # {} /\ S \subseteq I!FindLegacyOJUserBySharedID(u)
                     => I!First(S) \in 1..MaxAccounts /\ Fits(u, I!First(S))
<1>1. \A S : S # {} /\ S \subseteq DOMAIN accounts => I!First(S) \in S /\ I!First(S) \in 1..MaxAccounts
  BY Positions, FirstIsIn DEF AccountsAssumption
<1>2. I!Named(accounts, users[u].name) \subseteq DOMAIN accounts
  BY DEF I!Named, I!Live
<1>3. I!FindLegacyOJUserBySharedID(u) \subseteq DOMAIN accounts
  BY DEF I!FindLegacyOJUserBySharedID, I!Live
<1>4. \A a \in I!Named(accounts, users[u].name) : Fits(u, a)
  BY DEF I!Named, I!Live, Fits
<1>5. \A a \in I!FindLegacyOJUserBySharedID(u) : Fits(u, a)
  BY DEF I!FindLegacyOJUserBySharedID, IdentityInv
<1> QED
  BY <1>1, <1>2, <1>3, <1>4, <1>5

\* A request of a signed in user is served, or sets out to make the account.
LEMMA ServeKept ==
  ASSUME I!TypeOK, IdentityInv, AccountsAssumption, Remember, NEW r \in Requests,
         NEW u \in DOMAIN users, I!EnsureFromSharedUserID(r, u)
  PROVE  I!TypeOK' /\ IdentityInv'
<1>1. UNCHANGED <<users, accounts, map>> /\ mixed \in BOOLEAN
  BY DEF I!EnsureFromSharedUserID, I!TypeOK
<1>2. UsersGrow /\ AccountsGrow /\ MapGrows /\ (~mixed' => ~mixed)
  BY <1>1, UsersStand, AccountsStand, MapStands, Remembering
<1>3. u \in 1..MaxUsers /\ users[u].name \in Names
  BY Positions DEF AccountsAssumption
<1> DEFINE found == IF I!FindLegacyOJUserBySharedID(u) # {} THEN I!FindLegacyOJUserBySharedID(u)
                    ELSE I!Named(accounts, users[u].name)
<1>4. CASE found # {}
  <2>1. I!Serve(u, I!First(found)) /\ UNCHANGED icalls
    BY <1>4 DEF I!EnsureFromSharedUserID
  <2>2. I!First(found) \in 1..MaxAccounts /\ Fits(u, I!First(found))
    BY <1>4, FoundFits
  <2> HIDE DEF found
  <2>3. PICK a \in 1..MaxAccounts : a = I!First(found)
    BY <2>2
  <2>4. Fits(u, a)' /\ I!Serve(u, a)
    BY <1>1, <1>2, <2>1, <2>2, <2>3 DEF Fits
  <2>5. ServedGrows
    BY <1>3, <2>4, ServedAdded
  <2> QED
    BY <1>2, <2>1, <2>5, CallsStand, GrowKept
<1>5. CASE found = {}
  <2> DEFINE c == [at |-> "serve", user |-> u, name |-> users[u].name]
  <2>1. I!Go(r, c) /\ UNCHANGED served
    BY <1>5 DEF I!EnsureFromSharedUserID
  <2>2. c \in I!Call
    BY <1>3 DEF I!Call
  <2>3. c.at = "serve" /\ c.user = u /\ c.name = users[u].name
    OBVIOUS
  <2> HIDE DEF c
  <2>4. PICK d \in I!Call : d = c
    BY <2>2
  <2>5. CallFits(d)'
    BY <1>1, <1>2, <2>3, <2>4 DEF CallFits
  <2>6. CallsGrow
    BY <2>1, <2>4, <2>5, CallSet
  <2> QED
    BY <1>2, <2>1, <2>6, ServedStands, GrowKept
<1> QED
  BY <1>4, <1>5

\* A name is looked for; its account is to be made.
LEMMA JudgeRegisterKept ==
  ASSUME I!TypeOK, IdentityInv, AccountsAssumption, Remember, NEW r \in Requests, NEW n \in Names,
         I!JudgeRegister(r, n)
  PROVE  I!TypeOK' /\ IdentityInv'
<1> DEFINE c == [at |-> "register", name |-> n]
<1>1. I!Go(r, c) /\ UNCHANGED <<users, accounts, map, served>>
  BY DEF I!JudgeRegister
<1>2. c \in I!Call /\ c.at = "register"
  BY DEF I!Call
<1> HIDE DEF c
<1>3. CallsGrow
  BY <1>1, <1>2, CallDone
<1> QED
  BY <1>1, <1>3, UsersStand, AccountsStand, MapStands, ServedStands, GrowKept

LEMMA IdentityFailKept ==
  ASSUME I!TypeOK, IdentityInv, AccountsAssumption, Remember, NEW r \in Requests, I!Fail(r)
  PROVE  I!TypeOK' /\ IdentityInv'
<1>1. I!Go(r, I!Idle) /\ UNCHANGED <<users, accounts, map, served>>
  BY DEF I!Fail
<1>2. CallsGrow
  BY <1>1, IdleFits, CallDone
<1> QED
  BY <1>1, <1>2, UsersStand, AccountsStand, MapStands, ServedStands, GrowKept

\* The account a user was found not to have is made, and the user is served as it.
LEMMA CreateForUserKept ==
  ASSUME I!TypeOK, IdentityInv, AccountsAssumption, Remember, NEW r \in Requests,
         I!CreateForShared(r)
  PROVE  I!TypeOK' /\ IdentityInv'
<1>1. icalls[r].at = "serve" /\ icalls[r] \in I!Call /\ CallFits(icalls[r]) /\ mixed \in BOOLEAN
  BY DEF I!CreateForShared, I!TypeOK, IdentityInv
<1>2. PICK n \in Names, u \in 1..MaxUsers : n = icalls[r].name /\ u = icalls[r].user
  BY <1>1, IdentityCalls
<1>3. u \in DOMAIN users /\ (~mixed => n = users[u].name)
  BY <1>1, <1>2 DEF CallFits
<1>4. /\ AccountsGrow
      /\ Len(accounts') \in DOMAIN accounts' /\ Len(accounts') \in 1..MaxAccounts
      /\ accounts'[Len(accounts')].name = n
  BY <1>2, AccountAdded DEF AccountsAssumption, I!CreateForShared
<1>5. PICK a \in 1..MaxAccounts : a = Len(accounts')
  BY <1>4
<1>6. UNCHANGED <<users, map>> /\ I!Serve(u, a) /\ I!Go(r, I!Idle)
  BY <1>2, <1>5 DEF I!CreateForShared
<1>7. ~mixed' => ~mixed
  BY <1>1, Remembering
<1>8. Fits(u, a)'
  BY <1>3, <1>4, <1>5, <1>6, <1>7 DEF Fits
<1>9. ServedGrows /\ UsersGrow /\ MapGrows
  BY <1>6, <1>8, ServedAdded, UsersStand, MapStands
<1>10. CallsGrow
  BY <1>6, IdleFits, CallDone
<1> QED
  BY <1>4, <1>9, <1>10, GrowKept

\* The account is made at a login, to be matched.
LEMMA CreateAtLoginKept ==
  ASSUME I!TypeOK, IdentityInv, AccountsAssumption, Remember, NEW r \in Requests,
         I!CreateAtLogin(r)
  PROVE  I!TypeOK' /\ IdentityInv'
<1>1. icalls[r].at = "login" /\ icalls[r] \in I!Call
  BY DEF I!CreateAtLogin, I!TypeOK
<1>2. PICK n \in Names : n = icalls[r].name
  BY <1>1, IdentityCalls
<1>3. AccountsGrow /\ Len(accounts') \in DOMAIN accounts' /\ Len(accounts') \in 1..MaxAccounts
  BY <1>2, AccountAdded DEF AccountsAssumption, I!CreateAtLogin
<1>4. PICK a \in 1..MaxAccounts : a = Len(accounts')
  BY <1>3
<1>5. UNCHANGED <<users, map, served>> /\ I!Go(r, [at |-> "match", account |-> a])
  BY <1>4 DEF I!CreateAtLogin
<1>6. CallsGrow
  BY <1>3, <1>4, <1>5, CallMatch
<1> QED
  BY <1>3, <1>5, <1>6, UsersStand, MapStands, ServedStands, GrowKept

\* An account is registered, with its row of users, or made by an administrator.
LEMMA CreateKept ==
  ASSUME I!TypeOK, IdentityInv, AccountsAssumption, Remember, NEW r \in Requests,
         I!CreateRegistered(r)
  PROVE  I!TypeOK' /\ IdentityInv'
<1>1. icalls[r].at = "register" /\ icalls[r] \in I!Call
  BY DEF I!CreateRegistered, I!TypeOK
<1>2. PICK n \in Names : n = icalls[r].name
  BY <1>1, IdentityCalls
<1>3. /\ I!Create(n, TRUE) /\ I!EnsureSharedUser(n) /\ I!Go(r, I!Idle)
      /\ UNCHANGED <<map, served>>
  BY <1>2 DEF I!CreateRegistered
<1>4. AccountsGrow /\ UsersGrow /\ CallsGrow
  BY <1>3, AccountAdded, SharedEnsured, IdleFits, CallDone DEF AccountsAssumption
<1> QED
  BY <1>3, <1>4, MapStands, ServedStands, GrowKept

LEMMA CreateByAdminKept ==
  ASSUME I!TypeOK, IdentityInv, AccountsAssumption, Remember, NEW n \in Names, I!CreateByAdmin(n)
  PROVE  I!TypeOK' /\ IdentityInv'
<1>1. I!Create(n, TRUE) /\ UNCHANGED <<users, map, icalls, served>>
  BY DEF I!CreateByAdmin
<1>2. AccountsGrow
  BY <1>1, AccountAdded DEF AccountsAssumption
<1> QED
  BY <1>1, <1>2, UsersStand, MapStands, ServedStands, CallsStand, GrowKept

\* A login with either password finds the account that is to be matched, or sets
\* out to make it.
LEMMA LoginKept ==
  ASSUME I!TypeOK, IdentityInv, AccountsAssumption, Remember, NEW r \in Requests,
         NEW a \in DOMAIN accounts, I!Login(r, a)
  PROVE  I!TypeOK' /\ IdentityInv'
<1>1. PICK n \in Names : n = accounts[a].name
  BY Positions DEF AccountsAssumption
<1>2. /\ I!EnsureSharedUser(n) /\ I!Go(r, [at |-> "match", account |-> a])
      /\ UNCHANGED <<accounts, map, served>>
  BY <1>1 DEF I!Login
<1>3. a \in 1..MaxAccounts /\ a \in DOMAIN accounts'
  BY <1>2, Positions DEF AccountsAssumption
<1>4. UsersGrow /\ CallsGrow
  BY <1>2, <1>3, SharedEnsured, CallMatch
<1> QED
  BY <1>2, <1>4, AccountsStand, MapStands, ServedStands, GrowKept

LEMMA LoginSharedIdentityKept ==
  ASSUME I!TypeOK, IdentityInv, AccountsAssumption, Remember, NEW r \in Requests,
         NEW u \in DOMAIN users, I!LoginFromSharedUser(r, u)
  PROVE  I!TypeOK' /\ IdentityInv'
<1> DEFINE found == I!Named(accounts, users[u].name)
<1>1. UNCHANGED <<users, accounts, map, served>> /\ users[u].name \in Names
  BY Positions DEF I!LoginFromSharedUser, AccountsAssumption
<1>2. CallsGrow
  <2>1. CASE found # {}
    <3>1. I!First(found) \in 1..MaxAccounts /\ I!First(found) \in DOMAIN accounts
      BY <2>1, FoundFits DEF Fits
    <3>2. I!Go(r, [at |-> "match", account |-> I!First(found)])
      BY <2>1 DEF I!LoginFromSharedUser
    <3> HIDE DEF found
    <3>3. PICK a \in 1..MaxAccounts : a = I!First(found)
      BY <3>1
    <3> QED
      BY <1>1, <3>1, <3>2, <3>3, CallMatch
  <2>2. CASE found = {}
    <3> DEFINE c == [at |-> "login", name |-> users[u].name]
    <3>1. I!Go(r, c)
      BY <2>2 DEF I!LoginFromSharedUser
    <3>2. c \in I!Call /\ c.at = "login"
      BY <1>1 DEF I!Call
    <3> HIDE DEF c
    <3> QED
      BY <3>1, <3>2, CallDone
  <2> QED
    BY <2>1, <2>2
<1> QED
  BY <1>1, <1>2, UsersStand, AccountsStand, MapStands, ServedStands, GrowKept

\* A row of users is found by the account's name, as a name or as an address, or
\* made; while names are plain it has the name.
LEMMA EnsureSharedKept ==
  ASSUME I!TypeOK, IdentityInv, AccountsAssumption, Remember, NEW r \in Requests,
         I!EnsureSharedUserForOJUser(r)
  PROVE  I!TypeOK' /\ IdentityInv'
<1>1. icalls[r].at = "match" /\ icalls[r] \in I!Call /\ CallFits(icalls[r]) /\ mixed \in BOOLEAN
  BY DEF I!EnsureSharedUserForOJUser, I!TypeOK, IdentityInv
<1>2. PICK a \in 1..MaxAccounts : a = icalls[r].account /\ a \in DOMAIN accounts
  BY <1>1, IdentityCalls DEF CallFits
<1>3. PICK n \in Names : n = Trim[accounts[a].name]
  BY <1>2, Positions, NamesTyped DEF AccountsAssumption
<1> DEFINE w == IF I!Users(n) # {} THEN I!First(I!Users(n)) ELSE Len(users) + 1
<1>4. /\ IF I!Users(n) # {} THEN UNCHANGED users ELSE I!AddUser(n, MailOf[n])
      /\ map' = I!EnsureIdentityMap(w, a) /\ I!Serve(w, a)
      /\ I!Go(r, I!Idle) /\ UNCHANGED accounts
  BY <1>2, <1>3 DEF I!EnsureSharedUserForOJUser
<1>5. MailOf[n] \in Names
  BY NamesTyped
<1>6. /\ UsersGrow
      /\ w \in DOMAIN users' /\ w \in 1..MaxUsers
      /\ n \in {users'[w].name, users'[w].email}
      /\ users'[w].name # n => users'[w].email = n
  <2>1. CASE I!Users(n) # {}
    <3>1. I!Users(n) \subseteq DOMAIN users
          /\ \A u \in I!Users(n) : n \in {users[u].name, users[u].email}
      BY DEF I!Users
    <3>2. I!First(I!Users(n)) \in I!Users(n)
      BY <2>1, <3>1, FirstIsIn, Positions DEF AccountsAssumption
    <3>3. users' = users
      BY <1>4, <2>1
    <3> QED
      BY <2>1, <3>1, <3>2, <3>3, Positions, UsersStand DEF AccountsAssumption
  <2>2. CASE I!Users(n) = {}
    <3>1. I!AddUser(n, MailOf[n]) /\ w = Len(users) + 1
      BY <1>4, <2>2
    <3>2. /\ UsersGrow /\ Len(users') = Len(users) + 1 /\ Len(users') \in DOMAIN users'
          /\ Len(users') \in 1..MaxUsers /\ users'[Len(users')].name = n
      BY <1>5, <3>1, UserAdded DEF AccountsAssumption
    <3> QED
      BY <3>1, <3>2
  <2> QED
    BY <2>1, <2>2
<1> HIDE DEF w
<1>7. PICK u \in 1..MaxUsers : u = w
  BY <1>6
<1>8. Fits(u, a)'
  <2>1. u \in DOMAIN users' /\ a \in DOMAIN accounts'
    BY <1>2, <1>4, <1>6, <1>7
  <2>2. ASSUME ~mixed' PROVE accounts'[a].name = users'[u].name
    <3>1. I!Plain'
      BY <1>1, <2>2, Remembering
    <3>2. n = accounts'[a].name
      BY <1>3, <1>4, <2>1, <3>1 DEF I!Plain
    <3>3. users'[u].email = accounts'[a].name => users'[u].name = accounts'[a].name
      BY <2>1, <3>1 DEF I!Plain
    <3> QED
      BY <1>6, <1>7, <3>2, <3>3
  <2> QED
    BY <2>1, <2>2 DEF Fits
<1>9. ServedGrows /\ MapGrows
  BY <1>4, <1>7, <1>8, ServedAdded, MatchAdded
<1>10. AccountsGrow /\ CallsGrow
  BY <1>4, AccountsStand, IdleFits, CallDone
<1> QED
  BY <1>6, <1>9, <1>10, GrowKept

\* Every step on the identities.
LEMMA IdentityStep ==
  ASSUME I!TypeOK, IdentityInv, AccountsAssumption, I!Next
  PROVE  I!TypeOK' /\ IdentityInv'
<1>0. Remember
  BY DEF I!Next, Remember
<1>1. ASSUME NEW n \in Names, NEW e \in Names, I!Register(n, e)
      PROVE  I!TypeOK' /\ IdentityInv'
  BY <1>0, <1>1, RegisterKept
<1>2. ASSUME NEW n \in Names, I!CreateByAdmin(n)
      PROVE  I!TypeOK' /\ IdentityInv'
  BY <1>0, <1>2, CreateByAdminKept
<1>3. ASSUME NEW u \in DOMAIN users, NEW n \in Names, NEW e \in Names, I!UpdateProfile(u, n, e)
      PROVE  I!TypeOK' /\ IdentityInv'
  BY <1>0, <1>3, ProfileKept
<1>4. ASSUME NEW a \in DOMAIN accounts, I!SoftDelete(a)
      PROVE  I!TypeOK' /\ IdentityInv'
  BY <1>0, <1>4, SoftDeleteKept
<1>5. ASSUME NEW r \in Requests, NEW u \in DOMAIN users,
             I!EnsureFromSharedUserID(r, u) \/ I!LoginFromSharedUser(r, u)
      PROVE  I!TypeOK' /\ IdentityInv'
  BY <1>0, <1>5, ServeKept, LoginSharedIdentityKept
<1>6. ASSUME NEW r \in Requests, NEW a \in DOMAIN accounts, I!Login(r, a)
      PROVE  I!TypeOK' /\ IdentityInv'
  BY <1>0, <1>6, LoginKept
<1>7. ASSUME NEW r \in Requests, NEW n \in Names, I!JudgeRegister(r, n)
      PROVE  I!TypeOK' /\ IdentityInv'
  BY <1>0, <1>7, JudgeRegisterKept
<1>8. ASSUME NEW r \in Requests,
             \/ I!CreateForShared(r) \/ I!CreateAtLogin(r) \/ I!CreateRegistered(r)
             \/ I!EnsureSharedUserForOJUser(r) \/ I!Fail(r)
      PROVE  I!TypeOK' /\ IdentityInv'
  BY <1>0, <1>8, CreateForUserKept, CreateAtLoginKept, CreateKept, EnsureSharedKept, IdentityFailKept
<1> QED
  BY <1>1, <1>2, <1>3, <1>4, <1>5, <1>6, <1>7, <1>8 DEF I!Next

\* There is nobody at the start.
LEMMA IdentityStart ==
  ASSUME I!Init, AccountsAssumption
  PROVE  I!TypeOK /\ IdentityInv
<1>1. users = <<>> /\ accounts = <<>> /\ map = {} /\ ~mixed
  BY DEF I!Init
<1>2. \A r \in Requests : icalls[r] = I!Idle
  BY DEF I!Init
<1>3. I!TypeOK
  <2>1. users \in Seq(I!User) /\ Len(users) = 0 /\ DOMAIN users = {}
    BY <1>1
  <2>2. accounts \in Seq(I!Account) /\ Len(accounts) = 0
    BY <1>1
  <2>3. 0 <= MaxUsers /\ 0 <= MaxAccounts
    BY DEF AccountsAssumption
  <2>4. served \in [1..MaxUsers -> SUBSET (1..MaxAccounts)] /\ mixed \in BOOLEAN
    BY DEF I!Init
  <2>5. icalls \in [Requests -> I!Call]
    BY IdleFits DEF I!Init
  <2> QED
    BY <1>1, <2>1, <2>2, <2>3, <2>4, <2>5 DEF I!TypeOK
<1>4. \A r \in Requests : CallFits(icalls[r])
  BY <1>2, IdleFits DEF CallFits
<1>5. I!Plain
  BY <1>1 DEF I!Plain, I!Live
<1> QED
  BY <1>1, <1>3, <1>4, <1>5 DEF I!Init, IdentityInv

\* While a person's rows are at work the identities stand.
LEMMA IdentityIdle ==
  ASSUME I!TypeOK, IdentityInv, UNCHANGED iVars
  PROVE  I!TypeOK' /\ IdentityInv'
<1>1. UNCHANGED <<users, accounts, map, icalls, served, mixed>>
  BY DEF iVars
<1>2. I!TypeOK'
  BY <1>1 DEF I!TypeOK
<1>3. ~mixed' => I!Plain'
  BY <1>1 DEF IdentityInv, I!Plain, I!Live
<1> QED
  BY <1>1, <1>2, <1>3 DEF IdentityInv, Fits, CallFits

\* Accounts that a user was served as and that live have the user's name, so they
\* are one; an account two users were served as would have two names.
LEMMA IdentityGives ==
  ASSUME I!TypeOK, IdentityInv, AccountsAssumption
  PROVE  OneUser
<1>1. ASSUME ~mixed, NEW u \in DOMAIN users
      PROVE  Cardinality(served[u] \cap I!Live(accounts)) <= 1
  <2>1. u \in 1..MaxUsers
    BY Positions DEF AccountsAssumption
  <2>2. \A a, b \in served[u] \cap I!Live(accounts) : a = b
    BY <1>1, <2>1 DEF IdentityInv, Fits, I!Plain
  <2>3. \/ served[u] \cap I!Live(accounts) = {}
        \/ \E a : served[u] \cap I!Live(accounts) = {a}
    BY <2>2
  <2>4. Cardinality(served[u] \cap I!Live(accounts)) \in {0, 1}
    BY <2>3, FS_EmptySet, FS_Singleton
  <2>5. \A k \in {0, 1} : k <= 1
    OBVIOUS
  <2> QED
    BY <2>4, <2>5
<1>2. ASSUME ~mixed, NEW u \in DOMAIN users, NEW v \in DOMAIN users, u # v
      PROVE  served[u] \cap served[v] = {}
  <2>1. u \in 1..MaxUsers /\ v \in 1..MaxUsers /\ users[u].name # users[v].name
    BY <1>2, Positions DEF AccountsAssumption, I!TypeOK
  <2> QED
    BY <1>2, <2>1 DEF IdentityInv, Fits
<1>3. I!MatchesByName
  BY DEF IdentityInv, Fits, I!MatchesByName
<1> QED
  BY <1>1, <1>2, <1>3 DEF OneUser, I!OneUser, I!OneToOne, Cardinality, I!Cardinality

----------------------------------------------------------------------------
(* The theorems.                                                            *)

AccountsInv == TypeOK /\ RowsInv /\ I!TypeOK /\ IdentityInv

\* The invariants of the rows and of the identities hold together.
LEMMA AccountsInvKept ==
  /\ AccountsInit => AccountsInv
  /\ AccountsInv /\ [AccountsNext]_<<part, vars, iVars>> => AccountsInv'
<1>1. AccountsInit => AccountsInv
  BY AccountsAssumption, RowsStart, IdentityStart DEF AccountsInit, AccountsInv, AccountsAssumption
<1>2. AccountsInv /\ [AccountsNext]_<<part, vars, iVars>> => AccountsInv'
  BY AccountsAssumption, RowsStep, RowsIdle, IdentityStep, IdentityIdle
  DEF AccountsNext, AccountsInv, AccountsAssumption
<1> QED
  BY <1>1, <1>2

\* A person's rows, the two tables of people and the keys of the map are well typed
\* (the calls of both halves on users, user and user_identity_map).
THEOREM AccountsTypes == AccountsSpec => []TypesOK
<1>1. AccountsInv => TypesOK
  BY DEF AccountsInv, TypesOK
<1> QED
  BY <1>1, AccountsInvKept, PTL DEF AccountsSpec

\* A call changes what it was asked to and nothing else, although the blog saves
\* the whole row, unless another wrote in between (UserRepository.Update).
THEOREM CallsDoWhatWasAsked == AccountsSpec => []OnlyWhatWasAsked
<1>1. AccountsInv => OnlyWhatWasAsked
  BY DEF AccountsInv, RowsInv
<1> QED
  BY <1>1, AccountsInvKept, PTL DEF AccountsSpec

\* A role in either table is one that one of the two rows began with or a super
\* administrator gave, however calls overlap, and a ban stays with the judge
\* (UpdateRoleStatusByAdmin, syncOJUserFromShared, EnsureSharedUserForOJUser).
THEOREM RolesStayInPlace == AccountsSpec => []RolesInPlace
<1>1. AccountsInv => RolesInPlace
  BY DEF AccountsInv, RowsInv
<1> QED
  BY <1>1, AccountsInvKept, PTL DEF AccountsSpec

\* Unless names are mixed, a user of both halves is one account, and a match is of
\* equal names (EnsureFromSharedUserID, EnsureSharedUserForOJUser).
THEOREM UsersAreOneAccount == AccountsSpec => []OneUser
<1>1. AccountsInv => OneUser
  BY AccountsAssumption, IdentityGives DEF AccountsInv
<1> QED
  BY <1>1, AccountsInvKept, PTL DEF AccountsSpec
=============================================================================
