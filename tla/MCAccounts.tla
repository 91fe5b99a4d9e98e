------------------------------- MODULE MCAccounts ------------------------------
(****************************************************************************)
(* Users for TLC: one person's rows, and the map between the two tables of  *)
(* people. In this instance they share no state: part says which of the two *)
(* a behaviour is about, and the other stands at its start.                 *)
(****************************************************************************)
EXTENDS UserRows, TLC

CONSTANTS r1, r2, n1, n2, w1, w2, Names, Trim, MailOf, MaxUsers, MaxAccounts

ASSUME AccountsAssumption ==
  /\ {MaxCalls, MaxUsers, MaxAccounts} \subseteq Nat
  /\ {Trim, MailOf} \subseteq [Names -> Names]

VARIABLES part, users, accounts, map, icalls, served, mixed

MCRequests  == {r1, r2}
MCProfiles  == {n1, n2}
MCPasswords == {w1, w2}

\* A name, its address, and both with a space before them.
MCNames  == {"ann", "ann@kkgoj.local", " ann", " ann@kkgoj.local"}
MCTrim   == [n \in MCNames |-> IF n \in {"ann", " ann"} THEN "ann" ELSE "ann@kkgoj.local"]
MCMailOf == [n \in MCNames |-> CASE n = "ann"  -> "ann@kkgoj.local"
                                 [] n = " ann" -> " ann@kkgoj.local"
                                 [] OTHER      -> n]

I == INSTANCE IdentityMap WITH calls <- icalls

iVars == <<users, accounts, map, icalls, served, mixed>>

AccountsInit ==
  /\ part \in {"rows", "identity"}
  /\ Init /\ I!Init
  /\ part = "identity" =>
       /\ ~agent /\ user.role = "user" /\ judgeRole = "user" /\ ~user.password.legacy
       /\ user.profile = (CHOOSE p \in Profiles : TRUE)
       /\ user.password.of = (CHOOSE w \in Passwords : TRUE)

AccountsNext ==
  /\ UNCHANGED part
  /\ \/ part = "rows" /\ Next /\ UNCHANGED iVars
     \/ part = "identity" /\ I!Next /\ UNCHANGED vars

AccountsSpec == AccountsInit /\ [][AccountsNext]_<<part, vars, iVars>>

\* Requests differ in nothing, nor do profiles or passwords.
MCSymmetry == Permutations(MCRequests) \cup Permutations(MCProfiles) \cup Permutations(MCPasswords)

----------------------------------------------------------------------------
(* What the map promises; its module says more.                             *)

\* Types of one person's rows, and of users, accounts and the keys of the map.
TypesOK == TypeOK /\ I!TypeOK

\* A user of both halves is one account, found by its name, unless it was renamed
\* or names have not been plain.
OneUser == I!OneUser
=============================================================================
