------------------------------- MODULE UserRows --------------------------------
(****************************************************************************)
(* One person's row of users, shared by the two halves of the backend, and  *)
(* the judge's own row, which has a copy of the role. The blog reads the    *)
(* row of users, changes what it was asked to change and saves all of it;   *)
(* the judge updates the columns it compared. Roles are copied both ways:   *)
(* a login of an account of the judge's own writes its role over the shared *)
(* one, whichever of the two was given later. A request reads in one step   *)
(* and writes in another; what lies between is hashing a password, a second *)
(* query, or nothing at all.                                                *)
(****************************************************************************)
EXTENDS Naturals

CONSTANTS
  Requests,
  Profiles,    \* name and mail address of the row; the picture, copied like the role, is left out
  Passwords,
  MaxCalls     \* bound of the requests begun

VARIABLES
  agent,       \* the row is the solution agent's
  user,        \* the row of users
  judgeRole,   \* user.userRole of the judge
  calls, begun,
  intended,    \* history: the row, had every call changed only what it was asked to
  granted,     \* history: roles one of the two rows began with, or a super administrator gave
  overlapped   \* history: a call has written after the row it read had changed

vars == <<agent, user, judgeRole, calls, begun, intended, granted, overlapped>>

Roles      == {"user", "admin", "super_admin"}
JudgeRoles == Roles \cup {"ban"}
Statuses   == {"active", "disabled", "hidden"}
\* The hash of a password, or of the old judge's: to be replaced at a login.
Hash       == [of : Passwords, legacy : BOOLEAN]
User       == [profile : Profiles, password : Hash, role : JudgeRoles, status : Statuses]
\* The blog reads the row and saves it with some columns changed; the judge updates
\* the columns that shall differ from what it read.
Columns    == {"profile", "password", "role", "status"}
Idle       == [at |-> "idle"]
Call       == {Idle} \cup [at : {"login", "copy"}, role : JudgeRoles]
                \cup [at : {"save", "update"}, to : User, asked : SUBSET Columns,
                      grants : SUBSET JudgeRoles, stale : BOOLEAN]

TypeOK ==
  /\ {agent, overlapped} \subseteq BOOLEAN
  /\ {user, intended} \subseteq User
  /\ judgeRole \in JudgeRoles
  /\ granted \subseteq JudgeRoles
  /\ begun \in 0..MaxCalls
  /\ calls \in [Requests -> Call]

\* The judge's account need not agree with the row of users: it is registered with
\* the default role, whoever has the name in users, or made by an administrator
\* with another.
Init ==
  /\ agent \in BOOLEAN
  /\ user \in [profile : Profiles, password : Hash, role : Roles, status : {"active"}]
  /\ judgeRole \in JudgeRoles
  /\ calls = [r \in Requests |-> Idle] /\ begun = 0
  /\ intended = user
  /\ granted = {user.role, judgeRole}
  /\ overlapped = FALSE

----------------------------------------------------------------------------
Free(r) == calls[r] = Idle /\ begun < MaxCalls

Begin(r, call) ==
  /\ Free(r) /\ begun' = begun + 1
  /\ calls' = [calls EXCEPT ![r] = call]
  /\ UNCHANGED <<agent, user, judgeRole, intended, granted, overlapped>>

\* The blog has read the row and will save it so.
ToSave(r, asked, to) ==
  Begin(r, [at |-> "save", to |-> to, asked |-> asked, grants |-> {}, stale |-> FALSE])

\* An administrator's change; only a super administrator grants its role.
ToSaveFor(actor, r, role, status) ==
  Begin(r, [at |-> "save", to |-> [user EXCEPT !.role = role, !.status = status],
            asked |-> {"role", "status"},
            grants |-> IF actor = "super_admin" THEN {role} ELSE {}, stale |-> FALSE])

\* What is in the way of a signed in person, and of a login.
RequireActiveUser == user.status = "active"

\* Slip: the row is made anew from the request.
ProfileAnew(r) ==
  /\ RequireActiveUser
  /\ \E p \in Profiles :
       ToSave(r, {"profile"}, [user EXCEPT !.profile = p, !.role = "user"])

UpdateProfile(r) ==
  /\ RequireActiveUser
  /\ \E p \in Profiles : ToSave(r, {"profile"}, [user EXCEPT !.profile = p])

ChangePassword(r) ==
  /\ RequireActiveUser /\ ~user.password.legacy
  /\ \E p \in Passwords :
       ToSave(r, {"password"}, [user EXCEPT !.password = [of |-> p, legacy |-> FALSE]])

\* A login with a password hashed by the old judge hashes it again.
UpgradeLegacyPassword(r) ==
  /\ RequireActiveUser /\ user.password.legacy
  /\ ToSave(r, {"password"}, [user EXCEPT !.password.legacy = FALSE])

\* Slip: the role is not looked at.
AdminGivesAny(r) ==
  \E actor \in {"admin", "super_admin"}, role \in Roles \cup {"root"}, status \in Statuses :
    /\ actor # "super_admin" =>
         /\ role # "super_admin" /\ user.role # "super_admin" /\ role = user.role
         /\ "hidden" \notin {status, user.status}
    /\ ToSaveFor(actor, r, role, status)

\* Slip: an administrator may give roles.
AdminGrants(r) ==
  \E actor \in {"admin", "super_admin"}, role \in Roles, status \in Statuses :
    /\ actor # "super_admin" =>
         /\ role # "super_admin" /\ user.role # "super_admin"
         /\ "hidden" \notin {status, user.status}
    /\ ToSaveFor(actor, r, role, status)

\* Only a super administrator changes roles, hides, or touches another one.
UpdateRoleStatusByAdmin(r) ==
  \E actor \in {"admin", "super_admin"}, role \in Roles, status \in Statuses :
    /\ actor # "super_admin" =>
         /\ role # "super_admin" /\ user.role # "super_admin" /\ role = user.role
         /\ "hidden" \notin {status, user.status}
    /\ ToSaveFor(actor, r, role, status)

DeleteByAdmin(r) ==
  /\ user.role # "super_admin"
  /\ ToSave(r, {"status"}, [user EXCEPT !.status = "hidden"])

\* A published solution brings its author's account back.
EnsureAgentUser(r) ==
  /\ agent /\ user.status # "active"
  /\ ToSave(r, {"status"}, [user EXCEPT !.status = "active"])

\* A row with the columns a call was asked to change.
Changed(row, c) ==
  [profile  |-> IF "profile"  \in c.asked THEN c.to.profile  ELSE row.profile,
   password |-> IF "password" \in c.asked THEN c.to.password ELSE row.password,
   role     |-> IF "role"     \in c.asked THEN c.to.role     ELSE row.role,
   status   |-> IF "status"   \in c.asked THEN c.to.status   ELSE row.status]

Save(r) ==
  /\ calls[r].at = "save"
  /\ user' = calls[r].to
  /\ UNCHANGED judgeRole

----------------------------------------------------------------------------
(* The judge.                                                               *)

\* Slip: a banned person may log in.
LoginAny(r) == Begin(r, [at |-> "login", role |-> judgeRole])

\* With the judge's own password.
Login(r) == judgeRole # "ban" /\ Begin(r, [at |-> "login", role |-> judgeRole])

\* With the shared one; the judge's row then takes the shared role.
LoginFromSharedUser(r) ==
  /\ user.status = "active" /\ user.role # "ban"
  /\ Free(r) /\ begun' = begun + 1
  /\ judgeRole' = user.role
  /\ calls' = [calls EXCEPT ![r] = [at |-> "login", role |-> user.role]]
  /\ UNCHANGED <<agent, user, intended, granted, overlapped>>

\* After either login: the shared row is compared with what was read, or, in a
\* second step, its columns are updated.
EnsureSharedUserForOJUser(r) ==
  /\ calls[r].at = "login"
  /\ LET to    == [user EXCEPT !.status = "active", !.role = calls[r].role]
         asked == {c \in {"role", "status"} : to[c] # user[c]}
     IN calls' = [calls EXCEPT ![r] =
          IF asked = {} THEN Idle
          ELSE [at |-> "update", to |-> to, asked |-> asked, grants |-> {}, stale |-> FALSE]]
  /\ UNCHANGED <<agent, user, judgeRole, begun, intended, granted, overlapped>>

Update(r) ==
  /\ calls[r].at = "update"
  /\ user' = Changed(user, calls[r])
  /\ UNCHANGED judgeRole

\* Every request of a signed in person first copies the shared role.
EnsureFromSharedUserID(r) ==
  /\ user.status = "active" /\ user.role # judgeRole
  /\ Begin(r, [at |-> "copy", role |-> user.role])

SyncOJUserFromShared(r) ==
  /\ calls[r].at = "copy"
  /\ judgeRole' = calls[r].role
  /\ calls' = [calls EXCEPT ![r] = Idle]
  /\ UNCHANGED <<agent, user, begun, intended, granted, overlapped>>

\* The judge's super administrators give roles of their own.
UpdateByAdmin ==
  /\ judgeRole' \in JudgeRoles
  /\ granted' = granted \cup {judgeRole'}
  /\ UNCHANGED <<agent, user, calls, begun, intended, overlapped>>

----------------------------------------------------------------------------
\* A write to the row makes stale what others have read of it.
Write(r) ==
  /\ Save(r) \/ Update(r)
  /\ overlapped' = (overlapped \/ calls[r].stale)
  /\ intended' = Changed(intended, calls[r])
  /\ granted' = granted \cup calls[r].grants
  /\ calls' = [c \in Requests |->
       IF c = r THEN Idle
       ELSE IF calls[c].at \in {"save", "update"} THEN [calls[c] EXCEPT !.stale = TRUE]
       ELSE calls[c]]
  /\ UNCHANGED <<agent, begun>>

\* A statement fails, or the process dies.
Fail(r) ==
  /\ calls[r] # Idle
  /\ calls' = [calls EXCEPT ![r] = Idle]
  /\ UNCHANGED <<agent, user, judgeRole, begun, intended, granted, overlapped>>

Next ==
  \/ \E r \in Requests :
       \/ UpdateProfile(r) \/ ChangePassword(r) \/ UpgradeLegacyPassword(r)
       \/ UpdateRoleStatusByAdmin(r) \/ DeleteByAdmin(r) \/ EnsureAgentUser(r)
       \/ Login(r) \/ LoginFromSharedUser(r) \/ EnsureSharedUserForOJUser(r)
       \/ EnsureFromSharedUserID(r) \/ SyncOJUserFromShared(r)
       \/ Write(r) \/ Fail(r)
  \/ UpdateByAdmin

Spec == Init /\ [][Next]_vars
----------------------------------------------------------------------------
\* A call changes what it was asked to and nothing else, though most of them save
\* the whole row: unless one writes after what it read has changed.
OnlyWhatWasAsked == ~overlapped => user = intended

\* However calls overlap, a role is one that the row of users or the judge's began
\* with, or that a super administrator of either half gave. It may still be one
\* given earlier, or the other table's: a login copies whatever it finds.
RolesWereGranted == {user.role, judgeRole} \subseteq granted

\* A ban is the judge's: it never reaches the shared row, which would not mean
\* anything to the blog.
BanStaysWithJudge == user.role # "ban"

\* Roles come from those who may give them, and stay where they mean something.
RolesInPlace == RolesWereGranted /\ BanStaysWithJudge
=============================================================================
