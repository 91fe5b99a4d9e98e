----------------------------- MODULE SessionManager -----------------------------
(****************************************************************************)
(* Sign-in sessions. A session is a pair of random tokens, access and       *)
(* refresh, each a key in Redis and a cookie in the browser. A refresh      *)
(* deletes the pair it was shown and issues another; logout deletes         *)
(* the pair. Every command to Redis is a step of its own, a browser sends   *)
(* requests without waiting for the answers to earlier ones (lib/api.ts     *)
(* refreshes once for each call that got 401), and answers set or clear its *)
(* cookies in the order they arrive.                                        *)
(****************************************************************************)
EXTENDS Naturals, FiniteSets

CONSTANTS
  Browsers,   \* each with one account
  Pairs,      \* token pairs; a bound on how many are ever issued
  Requests,   \* bound: requests in flight at once
  MaxTrouble, \* bound: failed commands, requests that die, lost answers
  None

ASSUME SessionAssumption ==
  /\ None \notin Pairs \cup Browsers
  /\ MaxTrouble \in Nat

VARIABLES
  access, refresh,  \* pairs whose key is in Redis
  active,           \* accounts with status 1
  jar,              \* each browser's two cookies
  pc, by, kind,     \* each request: its place, its browser, which handler it is,
  shown, new, ok,   \*   the cookies it came with, the pair it issues, its outcome
  root,             \* history: the pair of the login each pair descends from
  handed,           \* history: pairs that reached a browser
  signedIn,         \* history: browsers that should still be signed in
  overlapped,       \* history: browsers that had two requests in flight since login
  raced,            \* history: logins that two requests refreshed at once
  loggedOut,        \* history: logins whose pair a logout has deleted
  trouble

keys    == <<access, refresh>>
request == <<pc, by, kind, shown, new, ok>>
history == <<root, handed, signedIn, overlapped, raced, loggedOut>>
vars    == <<keys, active, jar, request, history, trouble>>

Token  == Pairs \cup {None}
Cookie == [access : Token, refresh : Token]
Empty  == [access |-> None, refresh |-> None]
CookiesOf(p) == [access |-> p, refresh |-> p]

Places == {"idle", "readKey", "deletePair", "setAccess", "setRefresh", "undoAccess",
           "checkUser", "respond"}
Kinds  == {"login", "refresh", "logout"}

TypeOK ==
  /\ access \subseteq Pairs /\ refresh \subseteq Pairs
  /\ active \subseteq Browsers
  /\ jar \in [Browsers -> Cookie]
  /\ \A b \in Browsers : jar[b].access \in {None, jar[b].refresh}
  /\ pc \in [Requests -> Places]
  /\ by \in [Requests -> Browsers \cup {None}]
  /\ kind \in [Requests -> Kinds]
  /\ shown \in [Requests -> Cookie]
  /\ new \in [Requests -> Token]
  /\ ok \in [Requests -> BOOLEAN]
  /\ \A r \in Requests : pc[r] # "idle" => by[r] # None
  /\ root \in [Pairs -> Token]
  /\ handed \subseteq Pairs
  /\ signedIn \subseteq Browsers
  /\ overlapped \subseteq Browsers
  /\ raced \subseteq Pairs
  /\ loggedOut \subseteq Pairs
  /\ trouble \in Nat

Init ==
  /\ access = {} /\ refresh = {}
  /\ active = Browsers
  /\ jar = [b \in Browsers |-> Empty]
  /\ pc = [r \in Requests |-> "idle"]
  /\ by = [r \in Requests |-> None]
  /\ kind = [r \in Requests |-> "login"]
  /\ shown = [r \in Requests |-> Empty]
  /\ new = [r \in Requests |-> None]
  /\ ok = [r \in Requests |-> FALSE]
  /\ root = [p \in Pairs |-> None]
  /\ handed = {} /\ signedIn = {} /\ overlapped = {} /\ raced = {}
  /\ loggedOut = {}
  /\ trouble = 0

----------------------------------------------------------------------------
(* Helpers                                                                  *)

Trouble == trouble < MaxTrouble /\ trouble' = trouble + 1

Refreshes(r, p) == kind[r] = "refresh" /\ root[shown[r].refresh] = p

InFlight(b) == {r \in Requests : pc[r] # "idle" /\ by[r] = b}

Goto(r, place) == pc' = [pc EXCEPT ![r] = place]

Fail(r) == Goto(r, "respond") /\ ok' = [ok EXCEPT ![r] = FALSE]

\* randomToken never repeats itself.
Unused == {p \in Pairs : root[p] = None} \ {new[r] : r \in Requests}

\* DEL of a pair's keys; None stands for a token left blank. A DEL that reports
\* an error may have been done or not.
Delete(accessToken, refreshToken) ==
  /\ access' = access \ {accessToken}
  /\ refresh' = refresh \ {refreshToken}

----------------------------------------------------------------------------
(* A request arrives with the cookies its browser has at that moment.       *)

Begin(r, b, which, place) ==
  /\ pc[r] = "idle"
  /\ Goto(r, place)
  /\ by' = [by EXCEPT ![r] = b]
  /\ kind' = [kind EXCEPT ![r] = which]
  /\ shown' = [shown EXCEPT ![r] = jar[b]]
  /\ overlapped' = IF InFlight(b) # {} THEN overlapped \cup {b}
                   ELSE IF which = "login" THEN overlapped \ {b}
                   ELSE overlapped
  /\ UNCHANGED <<keys, active, jar, ok, root, handed, loggedOut, trouble>>

\* AuthService.Login: an account with another status gets 401, which changes
\* nothing.
Login(r, b) ==
  /\ b \in active
  /\ \E p \in Unused : new' = [new EXCEPT ![r] = p]
  /\ Begin(r, b, "login", "setAccess")
  /\ UNCHANGED <<signedIn, raced>>

\* Without the cookie the answer is 401 and nothing changes.
Refresh(r, b) ==
  /\ jar[b].refresh # None
  /\ \E p \in Unused : new' = [new EXCEPT ![r] = p]
  /\ Begin(r, b, "refresh", "readKey")
  /\ raced' = raced \cup {p \in {root[jar[b].refresh]} :
                            \E q \in Requests : pc[q] # "idle" /\ Refreshes(q, p)}
  /\ UNCHANGED signedIn

Logout(r, b) ==
  /\ Begin(r, b, "logout", "deletePair")
  /\ signedIn' = signedIn \ {b}
  /\ UNCHANGED <<new, raced>>

----------------------------------------------------------------------------
(* Manager.Refresh, DeletePair and IssuePair                                *)

\* Slip: what is not found is refreshed all the same.
ReadKeyUnchecked(r) ==
  /\ pc[r] = "readKey"
  /\ Goto(r, "deletePair")
  /\ UNCHANGED <<keys, active, jar, by, kind, shown, new, ok, history, trouble>>

ReadKey(r) ==
  /\ pc[r] = "readKey"
  /\ \/ /\ shown[r].refresh \in refresh
        /\ Goto(r, "deletePair")
        /\ UNCHANGED <<ok, trouble>>
     \/ /\ shown[r].refresh \notin refresh
        /\ Fail(r)
        /\ UNCHANGED trouble
     \/ Trouble /\ Fail(r)
  /\ UNCHANGED <<keys, active, jar, by, kind, shown, new, history>>

\* A refresh takes the access token from the record of the refresh key, which
\* names the other half of its pair; a logout has two cookies.
AccessToken(r) == IF kind[r] = "refresh" THEN shown[r].refresh ELSE shown[r].access

\* Slip: a refresh deletes the refresh key alone.
DeleteRefreshKey(r) ==
  /\ pc[r] = "deletePair"
  /\ Delete(IF kind[r] = "refresh" THEN None ELSE shown[r].access, shown[r].refresh)
  /\ Goto(r, IF kind[r] = "refresh" THEN "setAccess" ELSE "respond")
  /\ ok' = [ok EXCEPT ![r] = TRUE]
  /\ UNCHANGED <<active, jar, by, kind, shown, new, history, trouble>>

\* Slip: only the access token is replaced.
DeleteAccessKey(r) ==
  /\ pc[r] = "deletePair"
  /\ Delete(AccessToken(r), IF kind[r] = "refresh" THEN None ELSE shown[r].refresh)
  /\ Goto(r, IF kind[r] = "refresh" THEN "setAccess" ELSE "respond")
  /\ ok' = [ok EXCEPT ![r] = TRUE]
  /\ UNCHANGED <<active, jar, by, kind, shown, new, history, trouble>>

\* One DEL for both keys; how many were there is not looked at. A refresh gives
\* up on an error, a logout ignores it.
DeletePair(r) ==
  /\ pc[r] = "deletePair"
  /\ \/ /\ Delete(AccessToken(r), shown[r].refresh)
        /\ Goto(r, IF kind[r] = "refresh" THEN "setAccess" ELSE "respond")
        /\ ok' = [ok EXCEPT ![r] = TRUE]
        /\ loggedOut' = IF kind[r] = "logout" /\ shown[r].refresh # None
                        THEN loggedOut \cup {root[shown[r].refresh]} ELSE loggedOut
        /\ UNCHANGED trouble
     \/ /\ Trouble
        /\ Fail(r)
        /\ UNCHANGED keys \/ Delete(AccessToken(r), shown[r].refresh)
        /\ UNCHANGED loggedOut
  /\ UNCHANGED <<active, jar, by, kind, shown, new, root, handed, signedIn, overlapped, raced>>

SetAccess(r) ==
  /\ pc[r] = "setAccess"
  /\ root' = [root EXCEPT ![new[r]] = IF kind[r] = "login" THEN new[r]
                                      ELSE root[shown[r].refresh]]
  /\ \/ /\ access' = access \cup {new[r]}
        /\ Goto(r, "setRefresh")
        /\ UNCHANGED <<ok, trouble>>
     \/ /\ Trouble
        /\ access' \in {access, access \cup {new[r]}}
        /\ Fail(r)
  /\ UNCHANGED <<refresh, active, jar, by, kind, shown, new, handed, signedIn, overlapped,
                 raced, loggedOut>>

SetRefresh(r) ==
  /\ pc[r] = "setRefresh"
  /\ \/ /\ refresh' = refresh \cup {new[r]}
        /\ Goto(r, IF kind[r] = "login" THEN "respond" ELSE "checkUser")
        /\ ok' = [ok EXCEPT ![r] = TRUE]
        /\ UNCHANGED trouble
     \/ /\ Trouble
        /\ refresh' \in {refresh, refresh \cup {new[r]}}
        /\ Goto(r, "undoAccess")
        /\ UNCHANGED ok
  /\ UNCHANGED <<access, active, jar, by, kind, shown, new, history>>

\* The access key is deleted again; an error is ignored.
UndoAccess(r) ==
  /\ pc[r] = "undoAccess"
  /\ \/ access' = access \ {new[r]} /\ UNCHANGED trouble
     \/ Trouble /\ UNCHANGED access
  /\ Fail(r)
  /\ UNCHANGED <<refresh, active, jar, by, kind, shown, new, history>>

\* AuthService.Refresh looks at the account after the new pair is in Redis, and
\* leaves it there.
CheckUser(r) ==
  /\ pc[r] = "checkUser"
  /\ \/ by[r] \in active /\ Goto(r, "respond") /\ UNCHANGED <<ok, trouble>>
     \/ by[r] \notin active /\ Fail(r) /\ UNCHANGED trouble
     \/ Trouble /\ Fail(r)
  /\ UNCHANGED <<keys, active, jar, by, kind, shown, new, history>>

----------------------------------------------------------------------------
(* Answers                                                                  *)

Finish(r) ==
  /\ Goto(r, "idle")
  /\ by' = [by EXCEPT ![r] = None]
  /\ kind' = [kind EXCEPT ![r] = "login"]
  /\ shown' = [shown EXCEPT ![r] = Empty]
  /\ new' = [new EXCEPT ![r] = None]
  /\ ok' = [ok EXCEPT ![r] = FALSE]

\* Slip: the access cookie is left to expire.
AnswerClearRefresh(r) ==
  IF kind[r] # "logout" /\ ok[r] THEN CookiesOf(new[r])
  ELSE IF kind[r] = "login" THEN jar[by[r]]
  ELSE [jar[by[r]] EXCEPT !.refresh = None]

\* A pair replaces the cookies; a logout and a failed refresh clear them; a
\* failed login leaves them alone.
Answer(r) ==
  IF kind[r] # "logout" /\ ok[r] THEN CookiesOf(new[r])
  ELSE IF kind[r] = "login" THEN jar[by[r]]
  ELSE Empty

Note(r) ==
  /\ handed' = IF kind[r] # "logout" /\ ok[r] THEN handed \cup {new[r]} ELSE handed
  /\ signedIn' = IF kind[r] = "login" /\ ok[r] THEN signedIn \cup ({by[r]} \cap active)
                 ELSE signedIn

\* Slip: a refresh sets no cookies, as though the tokens had stayed the same.
RespondKeepCookies(r) ==
  /\ pc[r] = "respond"
  /\ jar' = [jar EXCEPT ![by[r]] = IF kind[r] = "refresh" /\ ok[r] THEN jar[by[r]]
                                   ELSE Answer(r)]
  /\ Note(r)
  /\ Finish(r)
  /\ UNCHANGED <<keys, active, root, overlapped, raced, loggedOut, trouble>>

Respond(r) ==
  /\ pc[r] = "respond"
  /\ jar' = [jar EXCEPT ![by[r]] = Answer(r)]
  /\ Note(r)
  /\ Finish(r)
  /\ UNCHANGED <<keys, active, root, overlapped, raced, loggedOut, trouble>>

\* The process dies, or the answer never arrives.
Abort(r) ==
  /\ pc[r] # "idle"
  /\ Trouble
  /\ Finish(r)
  /\ UNCHANGED <<keys, active, jar, history>>

----------------------------------------------------------------------------
(* Time and administrators. A key expires before its cookie, which is set   *)
(* later for as long; the access key (30 minutes) before the refresh key    *)
(* (7 days).                                                                *)

AccessKeyExpire(p) ==
  /\ p \in access /\ \A r \in Requests : new[r] # p
  /\ access' = access \ {p}
  /\ UNCHANGED <<refresh, active, jar, request, history, trouble>>

RefreshKeyExpire(p) ==
  /\ p \in refresh \ access /\ \A r \in Requests : new[r] # p
  /\ refresh' = refresh \ {p}
  /\ signedIn' = signedIn \ {b \in Browsers : jar[b].refresh = p}
  /\ UNCHANGED <<access, active, jar, request, root, handed, overlapped, raced, loggedOut, trouble>>

CookieExpire(b) ==
  /\ \/ /\ jar[b].access \notin access \cup {None}
        /\ jar' = [jar EXCEPT ![b].access = None]
     \/ /\ jar[b].access = None
        /\ jar[b].refresh \notin refresh \cup {None}
        /\ jar' = [jar EXCEPT ![b] = Empty]
  /\ UNCHANGED <<keys, active, request, history, trouble>>

\* UpdateRoleStatusByAdmin and DeleteByAdmin leave the sessions alone.
SetStatus(b) ==
  /\ \/ b \in active /\ active' = active \ {b}
     \/ b \notin active /\ active' = active \cup {b}
  /\ signedIn' = signedIn \ {b}
  /\ UNCHANGED <<keys, jar, request, root, handed, overlapped, raced, loggedOut, trouble>>

----------------------------------------------------------------------------
Next ==
  \/ \E r \in Requests, b \in Browsers : Login(r, b) \/ Refresh(r, b) \/ Logout(r, b)
  \/ \E r \in Requests :
       \/ ReadKey(r) \/ DeletePair(r) \/ SetAccess(r) \/ SetRefresh(r) \/ UndoAccess(r)
       \/ CheckUser(r) \/ Respond(r) \/ Abort(r)
  \/ \E p \in Pairs : AccessKeyExpire(p) \/ RefreshKeyExpire(p)
  \/ \E b \in Browsers : CookieExpire(b) \/ SetStatus(b)

Spec == Init /\ [][Next]_vars

----------------------------------------------------------------------------
(* Properties                                                               *)

\* A pair in the hands of a browser is whole: no access token works after its
\* refresh token has been rotated away or logged out, whatever failed and
\* however requests overlapped.
PairWhole == access \cap handed \subseteq refresh

\* Refreshes of one login that do not overlap leave at most one pair to refresh
\* it with, whatever fails and wherever one of them stops.
OneSessionPerLogin ==
  \A p \in Pairs \ raced : Cardinality({q \in refresh : root[q] = p}) <= 1

\* What Redis holds of logins, however requests overlap and whatever fails.
SessionsWhole == TypeOK /\ PairWhole /\ OneSessionPerLogin

\* A browser that sends one request at a time is not signed out by a refresh:
\* until it logs out, its account changes or its refresh token expires, its
\* cookie opens a session.
SignedInStays ==
  trouble = 0 =>
    \A b \in signedIn \ overlapped : InFlight(b) = {} => jar[b].refresh \in refresh

\* When the last key of a login is gone and no request that has found one is
\* still at work, nothing brings the login back.
Carries(r, p) ==
  /\ pc[r] \in {"deletePair", "setAccess", "setRefresh"}
  /\ \/ kind[r] = "login" /\ new[r] = p
     \/ Refreshes(r, p)

Over(p) ==
  /\ root[p] = p
  /\ \A q \in access \cup refresh : root[q] # p
  /\ \A r \in Requests : ~Carries(r, p)

NoRevival == [][\A p \in Pairs : Over(p) => Over(p)']_vars

\* kkg-backend/README.md:61, "logout deletes the session at once": once a logout
\* has deleted its pair, no key of that login is in Redis.
LogoutEndsSession ==
  \A p \in access \cup refresh : root[p] \notin loggedOut
=============================================================================
