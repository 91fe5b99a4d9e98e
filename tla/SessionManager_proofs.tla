------------------------- MODULE SessionManager_proofs -------------------------
(****************************************************************************)
(* Proofs about sessions, for every set of browsers and requests and any    *)
(* number of token pairs: Redis holds at most one refresh key of a login    *)
(* that was not refreshed twice at once, a browser that sends one request   *)
(* at a time stays signed in, and a login whose last key is gone does not   *)
(* come back. None of the three is inductive: what a request may still do   *)
(* to the keys depends on the pair it has drawn, the cookie it was shown    *)
(* and the step it has reached, and IInv says how these fit together.       *)
(****************************************************************************)
EXTENDS SessionManager, FiniteSetTheorems, TLAPS

----------------------------------------------------------------------------
(* The inductive invariant                                                  *)

\* A cookie the server has handed out, or none; the two tokens of a cookie are
\* of one pair, and a cookie without its access token has no access key.
Held(c) ==
  /\ c.refresh \in handed \cup {None}
  /\ c.access \in {None, c.refresh}
  /\ c.access = None => c.refresh \notin access

\* Every cookie, kept by a browser or shown by a request, was handed out.
CookiesHeld ==
  /\ \A b \in Browsers : Held(jar[b])
  /\ \A r \in Requests : Held(shown[r])

\* The login a new pair will belong to.
RootOf(r) == IF kind[r] = "login" THEN new[r] ELSE root[shown[r].refresh]

\* A pair drawn for a request belongs to that request alone until it is handed
\* out.
NewPairs ==
  /\ \A r \in Requests : /\ new[r] \notin handed
                         /\ new[r] # None <=> pc[r] # "idle" /\ kind[r] # "logout"
  /\ \A r, q \in Requests : new[r] = new[q] /\ new[r] # None => r = q

\* What a request has found and done by the time it has reached a step.
Phases ==
  \A r \in Requests :
    /\ pc[r] = "idle" => kind[r] = "login" /\ by[r] = None /\ shown[r] = Empty
    /\ kind[r] = "login" => pc[r] \in {"idle", "setAccess", "setRefresh", "undoAccess", "respond"}
    /\ kind[r] = "logout" => pc[r] \in {"deletePair", "respond"}
    /\ kind[r] = "refresh" => shown[r].refresh # None
    /\ pc[r] \in {"readKey", "deletePair", "setAccess"} /\ kind[r] # "logout" => root[new[r]] = None
    /\ pc[r] = "setRefresh" => new[r] \notin refresh /\ root[new[r]] = RootOf(r)
    /\ pc[r] = "checkUser" => ok[r]
    /\ pc[r] \in {"checkUser", "respond"} /\ ok[r] /\ kind[r] # "logout" => new[r] \in refresh

\* A pair has a login before it has keys, and its login is the pair of a login.
RootsKnown ==
  \A p \in Pairs :
    /\ root[p] = None => p \notin access \cup refresh \cup handed
    /\ root[p] # None => root[root[p]] = root[p]
    /\ root[p] \in Pairs \ {p} => root[p] \in handed

\* Of a login that was not refreshed by two requests at once, one refresh key is
\* left, one request has found it, and that request has deleted it before it
\* sets another.
OneKey ==
  \A p \in Pairs \ raced :
    /\ \A q1, q2 \in refresh : root[q1] = p /\ root[q2] = p => q1 = q2
    /\ \A r1, r2 \in Requests : Refreshes(r1, p) /\ Refreshes(r2, p) => r1 = r2
    /\ \A r \in Requests, q \in refresh : Refreshes(r, p) /\ root[q] = p =>
         /\ pc[r] = "deletePair" => q = shown[r].refresh
         /\ pc[r] \notin {"setAccess", "setRefresh"}

\* A refresh token is in the cookie of one browser, and only its requests show
\* it.
OwnTokens ==
  \A b \in Browsers : jar[b].refresh # None =>
    /\ \A c \in Browsers : jar[c].refresh = jar[b].refresh => c = b
    /\ \A r \in Requests : shown[r].refresh = jar[b].refresh => by[r] = b

\* A browser that has sent one request at a time has one in progress.
Alone == \A r, q \in Requests : by[r] = by[q] /\ by[r] \notin overlapped \cup {None} => r = q

\* While nothing has failed or expired, the cookie of a signed-in browser opens
\* a session between its requests; during one of them either the old key is
\* still there or a new one is on its way.
SignedIn ==
  /\ signedIn \subseteq active
  /\ trouble = 0 => \A b \in signedIn \ overlapped :
       /\ (\A r \in Requests : by[r] # b) => jar[b].refresh \in refresh
       /\ \A r \in Requests : by[r] = b =>
            /\ kind[r] # "logout" /\ pc[r] # "undoAccess"
            /\ pc[r] = "respond" => ok[r]
            /\ pc[r] \in {"readKey", "deletePair"} =>
                 shown[r].refresh = jar[b].refresh /\ jar[b].refresh \in refresh

\* The inductive invariant.
IInv ==
  /\ TypeOK /\ PairWhole /\ CookiesHeld /\ NewPairs /\ Phases /\ RootsKnown /\ OneKey
  /\ OwnTokens /\ Alone /\ SignedIn

\* A request that has drawn a pair knows the login it will belong to.
LEMMA RootIsKnown ==
  ASSUME IInv, NEW r \in Requests, new[r] # None, kind[r] # "logout"
  PROVE  RootOf(r) \in Pairs
<1>1. CASE kind[r] = "login"
  BY <1>1 DEF IInv, TypeOK, Token, RootOf
<1>2. CASE kind[r] = "refresh"
  <2>1. shown[r].refresh \in handed /\ shown[r].refresh \in Pairs
    BY <1>2 DEF IInv, TypeOK, Phases, CookiesHeld, Held
  <2> QED BY <1>2, <2>1 DEF IInv, TypeOK, Token, RootsKnown, RootOf
<1> QED BY <1>1, <1>2 DEF IInv, TypeOK, Kinds

----------------------------------------------------------------------------
(* One lemma per action                                                     *)

\* A request of each kind begins.
LEMMA LoginKeeps ==
  ASSUME IInv, NEW r \in Requests, NEW b \in Browsers, Login(r, b)
  PROVE  IInv'
<1>1. TypeOK'
  BY SessionAssumption, SMTT(30) DEF IInv, TypeOK, Token, Cookie, Places, Kinds, Login,
     Begin, Goto, Unused, keys
<1>2. CookiesHeld'
  BY SessionAssumption, SMTT(30) DEF IInv, CookiesHeld, Held, TypeOK, Token, Cookie,
     Login, Begin, Goto, Unused, keys
<1>3. NewPairs'
  BY SessionAssumption, SMTT(30) DEF IInv, NewPairs, TypeOK, Token, RootsKnown, Login,
     Begin, Goto, Unused, keys
<1>4. Phases'
  BY SessionAssumption, SMTT(30) DEF IInv, Phases, RootOf, NewPairs, TypeOK, Token,
     Cookie, Login, Begin, Goto, Unused, keys
<1>5. OneKey'
  BY SessionAssumption, SMTT(30) DEF IInv, OneKey, Refreshes, TypeOK, Token, Cookie,
     Login, Begin, Goto, Unused, keys
<1>6. OwnTokens'
  BY SessionAssumption, SMTT(30) DEF IInv, OwnTokens, TypeOK, Token, Cookie, Login,
     Begin, Goto, Unused, keys
<1>7. Alone'
  BY SessionAssumption, SMTT(30) DEF IInv, Alone, Phases, InFlight, TypeOK, Login,
     Begin, Goto, Unused, keys
<1>8. SignedIn'
  BY SessionAssumption, SMTT(30) DEF IInv, SignedIn, Phases, InFlight, TypeOK, Token,
     Cookie, Login, Begin, Goto, Unused, keys
<1>9. PairWhole' /\ RootsKnown'
  BY DEF IInv, PairWhole, RootsKnown, Login, Begin, Goto, Unused, keys
<1> QED BY <1>1, <1>2, <1>3, <1>4, <1>5, <1>6, <1>7, <1>8, <1>9 DEF IInv

\* A refresh shows the cookie; beside another refresh of the same login, that
\* login is raced.
LEMMA RefreshKeeps ==
  ASSUME IInv, NEW r \in Requests, NEW b \in Browsers, Refresh(r, b)
  PROVE  IInv'
<1>1. TypeOK'
  <2>1. shown' \in [Requests -> Cookie] /\ new' \in [Requests -> Token]
    BY DEF IInv, TypeOK, Token, Cookie, Refresh, Begin, Unused
  <2>2. kind' \in [Requests -> Kinds] /\ pc' \in [Requests -> Places]
    BY DEF IInv, TypeOK, Kinds, Places, Refresh, Begin, Goto
  <2>3. /\ by' \in [Requests -> Browsers \cup {None}]
        /\ \A q \in Requests : pc'[q] # "idle" => by'[q] # None
    BY SessionAssumption DEF IInv, TypeOK, Refresh, Begin, Goto
  <2>4. overlapped' \subseteq Browsers
    BY DEF IInv, TypeOK, Refresh, Begin
  <2>5. raced' \subseteq Pairs
    BY DEF IInv, TypeOK, Refresh, RootsKnown, CookiesHeld, Held, Token, Cookie
  <2> QED BY <2>1, <2>2, <2>3, <2>4, <2>5 DEF IInv, TypeOK, Refresh, Begin, keys
<1>2. CookiesHeld'
  BY SessionAssumption, SMTT(30) DEF IInv, CookiesHeld, Held, TypeOK, Token, Cookie,
     Refresh, Begin, Goto, Unused, keys
<1>3. NewPairs'
  BY SessionAssumption, SMTT(30) DEF IInv, NewPairs, TypeOK, Token, RootsKnown, Refresh,
     Begin, Goto, Unused, keys
<1>4. Phases'
  BY SessionAssumption, SMTT(30) DEF IInv, Phases, RootOf, NewPairs, TypeOK, Token,
     Cookie, Refresh, Begin, Goto, Unused, keys
<1>5. OneKey'
  BY SessionAssumption, SMTT(30) DEF IInv, OneKey, Refreshes, TypeOK, Token, Cookie,
     Phases, Refresh, Begin, Goto, Unused, keys
<1>6. OwnTokens'
  BY SessionAssumption, SMTT(30) DEF IInv, OwnTokens, TypeOK, Token, Cookie, Refresh,
     Begin, Goto, Unused, keys
<1>7. Alone'
  BY SessionAssumption, SMTT(30) DEF IInv, Alone, Phases, InFlight, TypeOK, Refresh,
     Begin, Goto, Unused, keys
<1>8. SignedIn'
  BY SessionAssumption, SMTT(30) DEF IInv, SignedIn, Phases, InFlight, TypeOK, Token,
     Cookie, Refresh, Begin, Goto, Unused, keys
<1>9. PairWhole' /\ RootsKnown'
  BY DEF IInv, PairWhole, RootsKnown, Refresh, Begin, Goto, Unused, keys
<1> QED BY <1>1, <1>2, <1>3, <1>4, <1>5, <1>6, <1>7, <1>8, <1>9 DEF IInv

\* A logout shows the cookie and draws no pair.
LEMMA LogoutKeeps ==
  ASSUME IInv, NEW r \in Requests, NEW b \in Browsers, Logout(r, b)
  PROVE  IInv'
<1>1. TypeOK'
  BY SessionAssumption, SMTT(30) DEF IInv, TypeOK, Token, Cookie, Places, Kinds, Logout,
     Begin, Goto, keys
<1>2. CookiesHeld'
  BY SessionAssumption, SMTT(30) DEF IInv, CookiesHeld, Held, TypeOK, Token, Cookie,
     Logout, Begin, Goto, keys
<1>3. NewPairs'
  BY SessionAssumption, SMTT(30) DEF IInv, NewPairs, TypeOK, Token, Logout, Begin, Goto,
     keys
<1>4. Phases'
  BY SessionAssumption, SMTT(30) DEF IInv, Phases, RootOf, NewPairs, TypeOK, Token,
     Cookie, Logout, Begin, Goto, keys
<1>5. OneKey'
  BY SessionAssumption, SMTT(30) DEF IInv, OneKey, Refreshes, TypeOK, Token, Cookie,
     Logout, Begin, Goto, keys
<1>6. OwnTokens'
  BY SessionAssumption, SMTT(30) DEF IInv, OwnTokens, TypeOK, Token, Cookie, Logout,
     Begin, Goto, keys
<1>7. Alone'
  BY SessionAssumption, SMTT(30) DEF IInv, Alone, Phases, InFlight, TypeOK, Logout,
     Begin, Goto, keys
<1>8. SignedIn'
  BY SessionAssumption, SMTT(30) DEF IInv, SignedIn, Phases, InFlight, TypeOK, Token,
     Cookie, Logout, Begin, Goto, keys
<1>9. PairWhole' /\ RootsKnown'
  BY DEF IInv, PairWhole, RootsKnown, Logout, Begin, Goto, keys
<1> QED BY <1>1, <1>2, <1>3, <1>4, <1>5, <1>6, <1>7, <1>8, <1>9 DEF IInv

\* The key of the cookie is read: found, gone, or Redis does not answer.
LEMMA ReadKeyKeeps ==
  ASSUME IInv, NEW r \in Requests, ReadKey(r)
  PROVE  IInv'
<1>1. TypeOK'
  <2>1. ok' \in [Requests -> BOOLEAN]
    BY SessionAssumption DEF IInv, TypeOK, Token, Cookie, Places, ReadKey, Goto, Fail,
       Trouble
  <2>2. trouble' \in Nat
    BY SessionAssumption DEF IInv, TypeOK, Token, Cookie, Places, ReadKey, Goto, Fail,
       Trouble
  <2>3. pc' \in [Requests -> Places]
    BY SessionAssumption DEF IInv, TypeOK, Token, Cookie, Places, ReadKey, Goto, Fail,
       Trouble
  <2> QED BY <2>1, <2>2, <2>3, SMTT(30) DEF IInv, TypeOK, Token, Cookie, Places,
     ReadKey, Goto, Fail, Trouble, keys, request, history
<1>2. NewPairs'
  BY SessionAssumption, SMTT(30) DEF IInv, NewPairs, TypeOK, Token, ReadKey, Goto, Fail,
     Trouble, keys, history
<1>3. Phases'
  BY SessionAssumption, SMTT(30) DEF IInv, Phases, RootOf, NewPairs, TypeOK, Token,
     Cookie, ReadKey, Goto, Fail, Trouble, keys, history
<1>4. OneKey'
  BY SessionAssumption, SMTT(30) DEF IInv, OneKey, Refreshes, TypeOK, Token, Cookie,
     ReadKey, Goto, Fail, Trouble, keys, history
<1>5. SignedIn'
  BY SessionAssumption, SMTT(30) DEF IInv, SignedIn, Phases, TypeOK, Token, Cookie,
     ReadKey, Goto, Fail, Trouble, keys, history
<1>6. PairWhole' /\ CookiesHeld' /\ RootsKnown' /\ OwnTokens' /\ Alone'
  BY DEF IInv, PairWhole, CookiesHeld, RootsKnown, OwnTokens, Alone, Held, ReadKey,
     Goto, Fail, Trouble, keys, history
<1> QED BY <1>1, <1>2, <1>3, <1>4, <1>5, <1>6 DEF IInv

\* The old pair is deleted: the one refresh key of its login, unless the login
\* is raced.
LEMMA DeletePairKeeps ==
  ASSUME IInv, NEW r \in Requests, DeletePair(r)
  PROVE  IInv'
<1>1. TypeOK'
  <2>1. ok' \in [Requests -> BOOLEAN]
    BY SessionAssumption DEF IInv, TypeOK, Token, Cookie, Places, DeletePair, Delete,
       Goto, Fail, Trouble
  <2>2. trouble' \in Nat
    BY SessionAssumption DEF IInv, TypeOK, Token, Cookie, Places, DeletePair, Delete,
       Goto, Fail, Trouble
  <2>3. pc' \in [Requests -> Places]
    BY SessionAssumption DEF IInv, TypeOK, Token, Cookie, Places, DeletePair, Delete,
       Goto, Fail, Trouble
  <2>4. loggedOut' \subseteq Pairs
    BY DEF IInv, TypeOK, Token, Cookie, RootsKnown, CookiesHeld, Held, DeletePair
  <2> QED BY <2>1, <2>2, <2>3, <2>4, SMTT(30) DEF IInv, TypeOK, Token, Cookie, Places,
     DeletePair, Delete, Goto, Fail, Trouble, keys, request, history
<1>2. PairWhole'
  BY SessionAssumption, SMTT(30) DEF IInv, PairWhole, CookiesHeld, Held, TypeOK, Kinds, Phases,
     DeletePair, Delete, AccessToken, keys, Token, Cookie
<1>3. CookiesHeld'
  BY SessionAssumption, SMTT(30) DEF IInv, CookiesHeld, Held, TypeOK, Token, Cookie,
     DeletePair, Delete, AccessToken, Goto, Fail, Trouble, keys
<1>4. NewPairs'
  BY SessionAssumption, SMTT(30) DEF IInv, NewPairs, TypeOK, Token, DeletePair, Delete,
     AccessToken, Goto, Fail, Trouble, keys
<1>5. Phases'
  <2>1. \A q \in Requests : new[q] # None => new[q] # shown[r].refresh
    BY DEF IInv, NewPairs, CookiesHeld, Held
  <2>2. /\ pc[r] = "deletePair" /\ new' = new /\ shown' = shown
        /\ kind' = kind /\ root' = root /\ by' = by
    BY DEF DeletePair
  <2>3. pc' \in {[pc EXCEPT ![r] = "setAccess"], [pc EXCEPT ![r] = "respond"]}
    BY DEF DeletePair, Goto, Fail
  <2>4. kind[r] = "refresh" => pc'[r] = "setAccess" \/ ~ok'[r]
    BY DEF IInv, TypeOK, DeletePair, Goto, Fail
  <2>5. kind[r] = "logout" => pc'[r] = "respond"
    BY DEF IInv, TypeOK, DeletePair, Goto, Fail
  <2>6. \A q \in Requests \ {r} : pc'[q] = pc[q] /\ ok'[q] = ok[q]
    BY DEF IInv, TypeOK, DeletePair, Goto, Fail
  <2>7. refresh' \subseteq refresh /\ refresh \ {shown[r].refresh} \subseteq refresh'
    BY DEF DeletePair, Delete, keys
  <2> QED BY <2>1, <2>2, <2>3, <2>4, <2>5, <2>6, <2>7, SMTT(30)
        DEF IInv, TypeOK, Phases, RootOf, NewPairs, Kinds
<1>6. RootsKnown'
  BY SessionAssumption, SMTT(30) DEF IInv, RootsKnown, TypeOK, Token, Cookie,
     DeletePair, Delete, AccessToken, Goto, Fail, Trouble, keys
<1>7. OneKey'
  BY SessionAssumption, SMTT(30) DEF IInv, OneKey, Refreshes, TypeOK, Token, Cookie,
     DeletePair, Delete, AccessToken, Goto, Fail, Trouble, keys
<1>8. SignedIn'
  <2>1. /\ signedIn' = signedIn /\ active' = active
        /\ overlapped' = overlapped /\ jar' = jar /\ by' = by
        /\ kind' = kind /\ shown' = shown
    BY DEF DeletePair
  <2> SUFFICES ASSUME trouble' = 0, NEW b \in signedIn \ overlapped
               PROVE  /\ (\A q \in Requests : by[q] # b) => jar[b].refresh \in refresh'
                      /\ \A q \in Requests : by[q] = b =>
                           /\ kind[q] # "logout" /\ pc'[q] # "undoAccess"
                           /\ pc'[q] = "respond" => ok'[q]
                           /\ pc'[q] \in {"readKey", "deletePair"} =>
                                shown[q].refresh = jar[b].refresh /\ jar[b].refresh \in refresh'
    BY <2>1 DEF IInv, SignedIn
  <2>2. trouble = 0 /\ trouble' = trouble
    BY DEF IInv, TypeOK, DeletePair, Trouble
  <2>3. /\ refresh' = refresh \ {shown[r].refresh}
        /\ pc' = [pc EXCEPT ![r] = IF kind[r] = "refresh" THEN "setAccess" ELSE "respond"]
        /\ ok' = [ok EXCEPT ![r] = TRUE]
    BY <2>2 DEF IInv, TypeOK, DeletePair, Delete, Goto, Trouble
  <2>4. jar[b].refresh # None /\ shown[r].refresh = jar[b].refresh => by[r] = b
    BY DEF IInv, OwnTokens, TypeOK
  <2>5. \A q \in Requests : by[q] = b /\ by[r] = b => q = r
    BY SessionAssumption DEF IInv, Alone, TypeOK
  <2>6. pc[r] = "deletePair"
    BY DEF DeletePair
  <2> QED BY <2>1, <2>2, <2>3, <2>4, <2>5, <2>6, SessionAssumption, SMTT(30)
          DEF IInv, SignedIn, TypeOK, Token, Cookie
<1>9. OwnTokens' /\ Alone'
  BY DEF IInv, OwnTokens, Alone, DeletePair, Delete, AccessToken, Goto, Fail, Trouble,
     keys
<1> QED BY <1>1, <1>2, <1>3, <1>4, <1>5, <1>6, <1>7, <1>8, <1>9 DEF IInv

\* The access key is set, and with it the pair gets its login.
LEMMA SetAccessKeeps ==
  ASSUME IInv, NEW r \in Requests, SetAccess(r)
  PROVE  IInv'
<1>1. TypeOK'
  <2>1. ok' \in [Requests -> BOOLEAN]
    BY SessionAssumption DEF IInv, TypeOK, Token, Cookie, Places, SetAccess, Goto, Fail,
       Trouble
  <2>2. trouble' \in Nat
    BY SessionAssumption DEF IInv, TypeOK, Token, Cookie, Places, SetAccess, Goto, Fail,
       Trouble
  <2>3. pc' \in [Requests -> Places]
    BY SessionAssumption DEF IInv, TypeOK, Token, Cookie, Places, SetAccess, Goto, Fail,
       Trouble
  <2>4. access' \subseteq Pairs
    BY SessionAssumption DEF IInv, TypeOK, Token, Cookie, Places, Phases, Kinds, NewPairs,
       SetAccess, Goto, Fail, Trouble
  <2>5. root' \in [Pairs -> Token]
    BY SessionAssumption DEF IInv, TypeOK, Token, Cookie, Places, Phases, Kinds, NewPairs,
       SetAccess, Goto, Fail, Trouble
  <2> QED BY <2>1, <2>2, <2>3, <2>4, <2>5, SMTT(30) DEF IInv, TypeOK, Token, Cookie,
     Places, SetAccess, Goto, Fail, Trouble, keys, request, history
<1>2. PairWhole'
  BY DEF IInv, PairWhole, NewPairs, SetAccess
<1>3. CookiesHeld'
  BY SessionAssumption, SMTT(30) DEF IInv, CookiesHeld, Held, TypeOK, Token, Cookie,
     NewPairs, Phases, SetAccess, Goto, Fail, Trouble
<1>4. NewPairs'
  BY SessionAssumption, SMTT(30) DEF IInv, NewPairs, TypeOK, Token, SetAccess, Goto,
     Fail, Trouble
<1>5. Phases'
  BY SessionAssumption, SMTT(30) DEF IInv, Phases, RootOf, NewPairs, TypeOK, Token,
     Cookie, CookiesHeld, Held, RootsKnown, SetAccess, Goto, Fail, Trouble
<1>6. RootsKnown'
  <2> DEFINE n == new[r]
              o == IF kind[r] = "login" THEN n ELSE root[shown[r].refresh]
  <2>1. n \in Pairs /\ n \notin handed /\ root[n] = None
    BY DEF IInv, TypeOK, Token, Kinds, NewPairs, Phases, SetAccess
  <2>2. root' = [root EXCEPT ![n] = o] /\ refresh' = refresh /\ handed' = handed
        /\ access' \subseteq access \cup {n}
    BY DEF SetAccess
  <2>3. o = n \/ (o \in handed /\ root[o] = o)
    <3>1. CASE kind[r] = "login"
      BY <3>1
    <3>2. CASE kind[r] # "login"
      <4>1. shown[r].refresh \in handed /\ shown[r].refresh \in Pairs
        BY <3>2 DEF IInv, TypeOK, Kinds, Phases, CookiesHeld, Held, SetAccess
      <4> QED BY <3>2, <4>1 DEF IInv, RootsKnown, TypeOK, Token
    <3> QED BY <3>1, <3>2
  <2>4. o \in Pairs /\ o # None
    BY <2>1, <2>3, SessionAssumption DEF IInv, TypeOK
  <2> HIDE DEF n, o
  <2> QED BY <2>1, <2>2, <2>3, <2>4, SessionAssumption, SMTT(30) DEF IInv, RootsKnown, TypeOK, Token
<1>7. OneKey'
  BY SessionAssumption, SMTT(30) DEF IInv, OneKey, Refreshes, TypeOK, Token, Cookie,
     CookiesHeld, Held, NewPairs, Phases, RootsKnown, SetAccess, Goto, Fail, Trouble
<1>8. SignedIn'
  BY SessionAssumption, SMTT(30) DEF IInv, SignedIn, Phases, TypeOK, Token, Cookie,
     SetAccess, Goto, Fail, Trouble
<1>9. OwnTokens' /\ Alone'
  BY DEF IInv, OwnTokens, Alone, SetAccess, Goto, Fail, Trouble
<1> QED BY <1>1, <1>2, <1>3, <1>4, <1>5, <1>6, <1>7, <1>8, <1>9 DEF IInv

\* The refresh key is set: the only one of its login, since the old one was
\* deleted before.
LEMMA SetRefreshKeeps ==
  ASSUME IInv, NEW r \in Requests, SetRefresh(r)
  PROVE  IInv'
<1>1. TypeOK'
  <2>1. ok' \in [Requests -> BOOLEAN]
    BY SessionAssumption DEF IInv, TypeOK, Token, Cookie, Places, SetRefresh, Goto,
       Trouble
  <2>2. trouble' \in Nat
    BY SessionAssumption DEF IInv, TypeOK, Token, Cookie, Places, SetRefresh, Goto,
       Trouble
  <2>3. pc' \in [Requests -> Places]
    BY SessionAssumption DEF IInv, TypeOK, Token, Cookie, Places, SetRefresh, Goto,
       Trouble
  <2>4. refresh' \subseteq Pairs
    BY SessionAssumption DEF IInv, TypeOK, Token, Cookie, Places, Phases, NewPairs,
       SetRefresh, Goto, Trouble
  <2> QED BY <2>1, <2>2, <2>3, <2>4, SMTT(30) DEF IInv, TypeOK, Token, Cookie, Places,
     SetRefresh, Goto, Trouble, keys, request, history
<1>2. PairWhole'
  BY SessionAssumption, SMTT(30) DEF IInv, PairWhole, TypeOK, SetRefresh, Goto, Trouble,
     history
<1>3. NewPairs'
  BY SessionAssumption, SMTT(30) DEF IInv, NewPairs, TypeOK, Token, SetRefresh, Goto,
     Trouble, history
<1>4. Phases'
  BY SessionAssumption, SMTT(30) DEF IInv, Phases, RootOf, NewPairs, TypeOK, Token,
     Cookie, SetRefresh, Goto, Trouble, history
<1>5. RootsKnown'
  <2>1. root[new[r]] # None
    BY SessionAssumption, RootIsKnown DEF IInv, TypeOK, NewPairs, Phases, SetRefresh
  <2>2. /\ refresh' \subseteq refresh \cup {new[r]}
        /\ root' = root /\ access' = access /\ handed' = handed
    BY DEF SetRefresh, history
  <2> QED BY <2>1, <2>2 DEF IInv, RootsKnown
<1>6. OneKey'
  <2> DEFINE n == new[r]
  <2>1. /\ n \in Pairs /\ n \notin handed /\ n \notin refresh
        /\ root[n] = RootOf(r) /\ pc[r] = "setRefresh"
    BY DEF IInv, TypeOK, Token, Kinds, NewPairs, Phases, SetRefresh
  <2>2. /\ refresh' \subseteq refresh \cup {n} /\ UNCHANGED <<root, raced, kind, shown>>
        /\ \E place \in {"respond", "checkUser", "undoAccess"} : pc' = [pc EXCEPT ![r] = place]
    BY DEF SetRefresh, Goto, history
  <2>3. CASE kind[r] = "login"
    \* The fresh root n is nobody else's: a root that is not its own key was handed out.
    <3>1. /\ \A q \in refresh : root[q] # n
          /\ \A q \in Requests : ~Refreshes(q, n)
      BY <2>1, SessionAssumption
      DEF IInv, RootsKnown, CookiesHeld, Held, Phases, Refreshes, TypeOK, Token, Cookie
    <3> QED BY <2>1, <2>2, <2>3, <3>1, SMTT(30) DEF IInv, OneKey, Refreshes, RootOf, TypeOK
  <2>4. CASE kind[r] # "login"
    <3>1. Refreshes(r, root[n])
      BY <2>1, <2>4 DEF IInv, TypeOK, Kinds, Phases, Refreshes, RootOf
    <3> QED BY <2>1, <2>2, <3>1, SMTT(30) DEF IInv, OneKey, Refreshes, TypeOK
  <2> QED BY <2>3, <2>4
<1>7. SignedIn'
  BY SessionAssumption, SMTT(30) DEF IInv, SignedIn, Phases, TypeOK, Token, Cookie,
     SetRefresh, Goto, Trouble, history
<1>8. CookiesHeld' /\ OwnTokens' /\ Alone'
  BY DEF IInv, CookiesHeld, OwnTokens, Alone, Held, SetRefresh, Goto, Trouble, history
<1> QED BY <1>1, <1>2, <1>3, <1>4, <1>5, <1>6, <1>7, <1>8 DEF IInv

\* The refresh key could not be set, and the access key is deleted again.
LEMMA UndoAccessKeeps ==
  ASSUME IInv, NEW r \in Requests, UndoAccess(r)
  PROVE  IInv'
<1>1. TypeOK'
  BY SessionAssumption, SMTT(30) DEF IInv, TypeOK, Token, Cookie, Places, Kinds,
     UndoAccess, Goto, Fail, Trouble, history
<1>2. PairWhole'
  BY SessionAssumption, SMTT(30) DEF IInv, PairWhole, TypeOK, UndoAccess, Goto, Fail,
     Trouble, history
<1>3. CookiesHeld'
  BY SessionAssumption, SMTT(30) DEF IInv, CookiesHeld, Held, TypeOK, Token, Cookie,
     UndoAccess, Goto, Fail, Trouble, history
<1>4. NewPairs'
  BY SessionAssumption, SMTT(30) DEF IInv, NewPairs, TypeOK, Token, UndoAccess, Goto,
     Fail, Trouble, history
<1>5. Phases'
  BY SessionAssumption, SMTT(30) DEF IInv, Phases, RootOf, NewPairs, TypeOK, Token,
     Cookie, UndoAccess, Goto, Fail, Trouble, history
<1>6. RootsKnown'
  BY SessionAssumption, SMTT(30) DEF IInv, RootsKnown, TypeOK, Token, Cookie,
     UndoAccess, Goto, Fail, Trouble, history
<1>7. OneKey'
  BY SessionAssumption, SMTT(30) DEF IInv, OneKey, Refreshes, TypeOK, Token, Cookie,
     UndoAccess, Goto, Fail, Trouble, history
<1>8. SignedIn'
  BY SessionAssumption, SMTT(30) DEF IInv, SignedIn, Phases, TypeOK, Token, Cookie,
     UndoAccess, Goto, Fail, Trouble, history
<1>9. OwnTokens' /\ Alone'
  BY DEF IInv, OwnTokens, Alone, UndoAccess, Goto, Fail, Trouble, history
<1> QED BY <1>1, <1>2, <1>3, <1>4, <1>5, <1>6, <1>7, <1>8, <1>9 DEF IInv

\* The account is looked up.
LEMMA CheckUserKeeps ==
  ASSUME IInv, NEW r \in Requests, CheckUser(r)
  PROVE  IInv'
<1>1. TypeOK'
  <2>1. ok' \in [Requests -> BOOLEAN]
    BY SessionAssumption DEF IInv, TypeOK, Token, Cookie, Places, CheckUser, Goto, Fail,
       Trouble
  <2>2. trouble' \in Nat
    BY SessionAssumption DEF IInv, TypeOK, Token, Cookie, Places, CheckUser, Goto, Fail,
       Trouble
  <2>3. pc' \in [Requests -> Places]
    BY SessionAssumption DEF IInv, TypeOK, Token, Cookie, Places, CheckUser, Goto, Fail,
       Trouble
  <2> QED BY <2>1, <2>2, <2>3, SMTT(30) DEF IInv, TypeOK, Token, Cookie, Places,
     CheckUser, Goto, Fail, Trouble, keys, request, history
<1>2. NewPairs'
  BY SessionAssumption, SMTT(30) DEF IInv, NewPairs, TypeOK, Token, CheckUser, Goto,
     Fail, Trouble, keys, history
<1>3. Phases'
  BY SessionAssumption, SMTT(30) DEF IInv, Phases, RootOf, NewPairs, TypeOK, Token,
     Cookie, CheckUser, Goto, Fail, Trouble, keys, history
<1>4. OneKey'
  BY SessionAssumption, SMTT(30) DEF IInv, OneKey, Refreshes, TypeOK, Token, Cookie,
     CheckUser, Goto, Fail, Trouble, keys, history
<1>5. SignedIn'
  BY SessionAssumption, SMTT(30) DEF IInv, SignedIn, Phases, TypeOK, Token, Cookie,
     CheckUser, Goto, Fail, Trouble, keys, history
<1>6. PairWhole' /\ CookiesHeld' /\ RootsKnown' /\ OwnTokens' /\ Alone'
  BY DEF IInv, PairWhole, CookiesHeld, RootsKnown, OwnTokens, Alone, Held, CheckUser,
     Goto, Fail, Trouble, keys, history
<1> QED BY <1>1, <1>2, <1>3, <1>4, <1>5, <1>6 DEF IInv

\* A browser without cookies holds nothing that was not handed out.
LEMMA EmptyIsHeld ==
  ASSUME access' \subseteq Pairs
  PROVE  Held(Empty)'
BY SessionAssumption DEF Held, Empty

\* The answer puts the new pair into the jar of the browser, or clears it.
LEMMA RespondKeeps ==
  ASSUME IInv, NEW r \in Requests, Respond(r)
  PROVE  IInv'
<1>1. TypeOK'
  BY SessionAssumption, SMTT(30) DEF IInv, TypeOK, Token, Cookie, Places, Kinds, Phases,
     NewPairs, Respond, Answer, Note, Finish, Goto, CookiesOf, keys, Empty
<1>2. PairWhole'
  BY DEF IInv, PairWhole, Phases, Kinds, TypeOK, Respond, Note, keys
<1>3. CookiesHeld'
  <2>1. access' = access /\ access' \subseteq Pairs /\ handed \subseteq handed'
    BY DEF IInv, TypeOK, Respond, Note, keys
  <2>2. \A c \in Cookie : Held(c) => Held(c)'
    BY <2>1 DEF Held
  <2>3. PICK a : a = Answer(r)
    OBVIOUS
  <2>4. by[r] \in Browsers /\ Held(jar[by[r]]) /\ jar[by[r]] \in Cookie
    BY DEF IInv, Phases, CookiesHeld, TypeOK, Respond
  <2>5. Held(a)'
    <3>1. CASE kind[r] # "logout" /\ ok[r]
      <4>1. a.access = new[r] /\ a.refresh = new[r] /\ new[r] \in handed'
        BY <2>3, <3>1 DEF Answer, CookiesOf, Respond, Note
      <4>2. new[r] # None
        BY <3>1 DEF IInv, NewPairs, Respond
      <4> QED
        BY <4>1, <4>2 DEF Held
    <3>2. CASE ~(kind[r] # "logout" /\ ok[r]) /\ kind[r] = "login"
      <4>1. a = jar[by[r]]
        BY <2>3, <3>2 DEF Answer
      <4> QED
        BY <2>2, <2>4, <4>1
    <3>3. CASE ~(kind[r] # "logout" /\ ok[r]) /\ kind[r] # "login"
      <4>1. a = Empty
        BY <2>3, <3>3 DEF Answer
      <4> QED
        BY <2>1, <4>1, EmptyIsHeld
    <3> QED
      BY <3>1, <3>2, <3>3
  <2>6. \A b \in Browsers : jar'[b] \in {a, jar[b]} /\ jar[b] \in Cookie
    BY <2>3 DEF IInv, TypeOK, Respond
  <2>7. \A q \in Requests : shown'[q] \in {Empty, shown[q]} /\ shown[q] \in Cookie
    BY DEF IInv, TypeOK, Respond, Finish
  <2>8. \A b \in Browsers : Held(jar[b])
    BY DEF IInv, CookiesHeld
  <2>9. \A q \in Requests : Held(shown[q])
    BY DEF IInv, CookiesHeld
  <2> QED
    BY <2>1, <2>2, <2>5, <2>6, <2>7, <2>8, <2>9, EmptyIsHeld DEF CookiesHeld
<1>4. NewPairs'
  BY SessionAssumption, SMTT(30) DEF IInv, NewPairs, TypeOK, Token, Phases, Respond,
     Answer, Note, Finish, Goto, CookiesOf, keys, Empty
<1>5. Phases'
  BY SessionAssumption, SMTT(30) DEF IInv, Phases, RootOf, NewPairs, TypeOK, Token,
     Cookie, Respond, Answer, Note, Finish, Goto, CookiesOf, keys, Empty
<1>6. RootsKnown'
  BY SessionAssumption, SMTT(30) DEF IInv, RootsKnown, TypeOK, Token, Cookie, NewPairs,
     Phases, Respond, Answer, Note, Finish, Goto, CookiesOf, keys, Empty
<1>7. OneKey'
  BY SessionAssumption, SMTT(30) DEF IInv, OneKey, Refreshes, TypeOK, Token, Cookie,
     Respond, Answer, Note, Finish, Goto, CookiesOf, keys, Empty
<1>8. OwnTokens'
  BY SessionAssumption, SMTT(30) DEF IInv, OwnTokens, TypeOK, Token, Cookie,
     CookiesHeld, Held, NewPairs, Phases, Respond, Answer, Note, Finish, Goto,
     CookiesOf, keys, Empty
<1>9. Alone'
  BY SessionAssumption, SMTT(30) DEF IInv, Alone, Phases, TypeOK, Respond, Answer, Note,
     Finish, Goto, CookiesOf, keys, Empty
<1>10. SignedIn'
  BY SessionAssumption, SMTT(30) DEF IInv, SignedIn, Phases, TypeOK, Token, Cookie,
     Alone, NewPairs, Respond, Answer, Note, Finish, Goto, CookiesOf, keys, Empty
<1> QED BY <1>1, <1>2, <1>3, <1>4, <1>5, <1>6, <1>7, <1>8, <1>9, <1>10 DEF IInv

\* The process dies in the middle of a request.
LEMMA AbortKeeps ==
  ASSUME IInv, NEW r \in Requests, Abort(r)
  PROVE  IInv'
<1>1. TypeOK'
  BY SessionAssumption, SMTT(30) DEF IInv, TypeOK, Token, Cookie, Places, Kinds, Abort,
     Finish, Goto, Trouble, keys, history, Empty
<1>2. CookiesHeld'
  BY SessionAssumption, SMTT(30) DEF IInv, CookiesHeld, Held, TypeOK, Token, Cookie,
     Abort, Finish, Goto, Trouble, keys, history, Empty
<1>3. NewPairs'
  BY SessionAssumption, SMTT(30) DEF IInv, NewPairs, TypeOK, Token, Abort, Finish, Goto,
     Trouble, keys, history, Empty
<1>4. Phases'
  BY SessionAssumption, SMTT(30) DEF IInv, Phases, RootOf, NewPairs, TypeOK, Token,
     Cookie, Abort, Finish, Goto, Trouble, keys, history, Empty
<1>5. OneKey'
  BY SessionAssumption, SMTT(30) DEF IInv, OneKey, Refreshes, TypeOK, Token, Cookie,
     Abort, Finish, Goto, Trouble, keys, history, Empty
<1>6. OwnTokens'
  BY SessionAssumption, SMTT(30) DEF IInv, OwnTokens, TypeOK, Token, Cookie, Abort,
     Finish, Goto, Trouble, keys, history, Empty
<1>7. Alone'
  BY SessionAssumption, SMTT(30) DEF IInv, Alone, Phases, TypeOK, Abort, Finish, Goto,
     Trouble, keys, history, Empty
<1>8. SignedIn'
  BY SessionAssumption, SMTT(30) DEF IInv, SignedIn, Phases, TypeOK, Token, Cookie,
     Abort, Finish, Goto, Trouble, keys, history, Empty
<1>9. PairWhole' /\ RootsKnown'
  BY DEF IInv, PairWhole, RootsKnown, Abort, Finish, Goto, Trouble, keys, history
<1> QED BY <1>1, <1>2, <1>3, <1>4, <1>5, <1>6, <1>7, <1>8, <1>9 DEF IInv

\* An access key expires.
LEMMA AccessKeyExpireKeeps ==
  ASSUME IInv, NEW p \in Pairs, AccessKeyExpire(p)
  PROVE  IInv'
<1>1. TypeOK'
  BY SessionAssumption, SMTT(30) DEF IInv, TypeOK, Token, Cookie, Places, Kinds,
     AccessKeyExpire, request, history
<1>2. PairWhole'
  BY SessionAssumption, SMTT(30) DEF IInv, PairWhole, TypeOK, AccessKeyExpire, request,
     history
<1>3. CookiesHeld'
  BY SessionAssumption, SMTT(30) DEF IInv, CookiesHeld, Held, TypeOK, Token, Cookie,
     AccessKeyExpire, request, history
<1>4. RootsKnown'
  BY SessionAssumption, SMTT(30) DEF IInv, RootsKnown, TypeOK, Token, Cookie,
     AccessKeyExpire, request, history
<1>5. NewPairs' /\ Phases' /\ OneKey' /\ OwnTokens' /\ Alone' /\ SignedIn'
  BY DEF IInv, NewPairs, Phases, OneKey, OwnTokens, Alone, SignedIn, RootOf, Refreshes,
     AccessKeyExpire, request, history
<1> QED BY <1>1, <1>2, <1>3, <1>4, <1>5 DEF IInv

\* A refresh key expires.
LEMMA RefreshKeyExpireKeeps ==
  ASSUME IInv, NEW p \in Pairs, RefreshKeyExpire(p)
  PROVE  IInv'
<1>1. TypeOK'
  BY SessionAssumption, SMTT(30) DEF IInv, TypeOK, Token, Cookie, Places, Kinds,
     RefreshKeyExpire, request
<1>2. PairWhole'
  BY DEF IInv, PairWhole, RefreshKeyExpire, history
<1>3. Phases'
  BY SessionAssumption, SMTT(30) DEF IInv, Phases, RootOf, NewPairs, TypeOK, Token,
     Cookie, RefreshKeyExpire, request
<1>4. RootsKnown'
  BY SessionAssumption, SMTT(30) DEF IInv, RootsKnown, TypeOK, Token, Cookie,
     RefreshKeyExpire, request
<1>5. OneKey'
  BY SessionAssumption, SMTT(30) DEF IInv, OneKey, Refreshes, TypeOK, Token, Cookie,
     RefreshKeyExpire, request
<1>6. SignedIn'
  BY SessionAssumption, SMTT(30) DEF IInv, SignedIn, Phases, TypeOK, Token, Cookie,
     RefreshKeyExpire, request
<1>7. CookiesHeld' /\ NewPairs' /\ OwnTokens' /\ Alone'
  BY DEF IInv, CookiesHeld, NewPairs, OwnTokens, Alone, Held, RefreshKeyExpire, request
<1> QED BY <1>1, <1>2, <1>3, <1>4, <1>5, <1>6, <1>7 DEF IInv

\* The access cookie of a browser expires.
LEMMA CookieExpireKeeps ==
  ASSUME IInv, NEW b \in Browsers, CookieExpire(b)
  PROVE  IInv'
<1>1. TypeOK'
  <2>1. jar' \in [Browsers -> Cookie]
    <3>1. Empty \in Cookie /\ [jar[b] EXCEPT !.access = None] \in Cookie
      BY DEF IInv, TypeOK, Token, Cookie, Empty
    <3>2. \E c \in Cookie : jar' = [jar EXCEPT ![b] = c]
      BY <3>1 DEF CookieExpire
    <3> QED BY <3>2 DEF IInv, TypeOK
  <2>2. \A c \in Browsers : jar'[c].access \in {None, jar'[c].refresh}
    BY DEF IInv, TypeOK, Token, Cookie, CookieExpire, Empty
  <2> QED BY <2>1, <2>2 DEF IInv, TypeOK, CookieExpire, keys, request, history
<1>2. CookiesHeld'
  BY SessionAssumption, SMTT(30) DEF IInv, CookiesHeld, Held, TypeOK, Token, Cookie,
     CookieExpire, keys, request, history, Empty
<1>3. OwnTokens'
  BY SessionAssumption, SMTT(30) DEF IInv, OwnTokens, TypeOK, Token, Cookie,
     CookieExpire, keys, request, history, Empty
<1>4. SignedIn'
  BY SessionAssumption, SMTT(30) DEF IInv, SignedIn, Phases, TypeOK, Token, Cookie,
     CookieExpire, keys, request, history, Empty
<1>5. PairWhole' /\ NewPairs' /\ Phases' /\ RootsKnown' /\ OneKey' /\ Alone'
  BY DEF IInv, PairWhole, NewPairs, Phases, RootsKnown, OneKey, Alone, RootOf,
     Refreshes, CookieExpire, keys, request, history
<1> QED BY <1>1, <1>2, <1>3, <1>4, <1>5 DEF IInv

\* An administrator bans or restores an account.
LEMMA SetStatusKeeps ==
  ASSUME IInv, NEW b \in Browsers, SetStatus(b)
  PROVE  IInv'
<1>1. TypeOK'
  BY SessionAssumption, SMTT(30) DEF IInv, TypeOK, Token, Cookie, Places, Kinds,
     SetStatus, keys, request
<1>2. SignedIn'
  BY SessionAssumption, SMTT(30) DEF IInv, SignedIn, Phases, TypeOK, Token, Cookie,
     SetStatus, keys, request
<1>3. PairWhole' /\ CookiesHeld' /\ NewPairs' /\ Phases' /\ RootsKnown' /\ OneKey' /\
   OwnTokens' /\ Alone'
  BY DEF IInv, PairWhole, CookiesHeld, NewPairs, Phases, RootsKnown, OneKey, OwnTokens,
     Alone, Held, RootOf, Refreshes, SetStatus, keys, request
<1> QED BY <1>1, <1>2, <1>3 DEF IInv

\* A stuttering step.
LEMMA UnchangedKeeps ==
  ASSUME IInv, UNCHANGED vars
  PROVE  IInv'
<1>1. UNCHANGED <<access, refresh, active, jar, pc, by, kind, shown, new, ok>>
  BY DEF vars, keys, request
<1>2. UNCHANGED <<root, handed, signedIn, overlapped, raced, loggedOut, trouble>>
  BY DEF vars, history
<1>3. TypeOK' /\ PairWhole' /\ CookiesHeld' /\ NewPairs' /\ Phases'
  BY <1>1, <1>2 DEF IInv, TypeOK, PairWhole, CookiesHeld, Held, NewPairs, Phases, RootOf
<1>4. RootsKnown' /\ OneKey' /\ OwnTokens' /\ Alone' /\ SignedIn'
  BY <1>1, <1>2 DEF IInv, RootsKnown, OneKey, Refreshes, OwnTokens, Alone, SignedIn
<1> QED BY <1>3, <1>4 DEF IInv

\* No request, no key, no cookie.
LEMMA InitIInv == Init => IInv
<1> SUFFICES ASSUME Init PROVE IInv
  OBVIOUS
<1>1. TypeOK
  BY SessionAssumption DEF Init, TypeOK, Token, Cookie, Empty, Places, Kinds
<1>2. PairWhole /\ CookiesHeld /\ NewPairs /\ Phases /\ RootsKnown
  BY SessionAssumption DEF Init, PairWhole, CookiesHeld, Held, NewPairs, Phases, RootsKnown, Empty
<1>3. OneKey /\ OwnTokens /\ Alone /\ SignedIn
  BY DEF Init, OneKey, Refreshes, OwnTokens, Alone, SignedIn, Empty
<1> QED BY <1>1, <1>2, <1>3 DEF IInv

\* Every step keeps the invariant.
LEMMA StepIInv == IInv /\ [Next]_vars => IInv'
<1> SUFFICES ASSUME IInv, [Next]_vars PROVE IInv'
  OBVIOUS
<1>1. ASSUME NEW r \in Requests, NEW b \in Browsers, Login(r, b) \/ Refresh(r, b) \/ Logout(r, b)
      PROVE  IInv'
  BY <1>1, LoginKeeps, RefreshKeeps, LogoutKeeps
<1>2. ASSUME NEW r \in Requests, ReadKey(r) \/ DeletePair(r) \/ SetAccess(r) \/ SetRefresh(r)
      PROVE  IInv'
  BY <1>2, ReadKeyKeeps, DeletePairKeeps, SetAccessKeeps, SetRefreshKeeps
<1>3. ASSUME NEW r \in Requests, UndoAccess(r) \/ CheckUser(r) \/ Respond(r) \/ Abort(r)
      PROVE  IInv'
  BY <1>3, UndoAccessKeeps, CheckUserKeeps, RespondKeeps, AbortKeeps
<1>4. ASSUME NEW p \in Pairs, AccessKeyExpire(p) \/ RefreshKeyExpire(p)
      PROVE  IInv'
  BY <1>4, AccessKeyExpireKeeps, RefreshKeyExpireKeeps
<1>5. ASSUME NEW b \in Browsers, CookieExpire(b) \/ SetStatus(b)
      PROVE  IInv'
  BY <1>5, CookieExpireKeeps, SetStatusKeeps
<1>6. CASE UNCHANGED vars
  BY <1>6, UnchangedKeeps
<1> QED BY <1>1, <1>2, <1>3, <1>4, <1>5, <1>6 DEF Next

----------------------------------------------------------------------------
(* Theorems                                                                 *)

\* The inductive invariant holds of every reachable state of the sessions.
THEOREM InvariantHolds == Spec => []IInv
BY InitIInv, StepIInv, PTL DEF Spec

\* At most one key of a login means a set of at most one element.
LEMMA WholeFromIInv == IInv => SessionsWhole
<1> SUFFICES ASSUME IInv PROVE SessionsWhole
  OBVIOUS
<1>1. PairWhole
  BY DEF IInv
<1>2. OneSessionPerLogin
  <2> SUFFICES ASSUME NEW p \in Pairs \ raced
               PROVE  Cardinality({q \in refresh : root[q] = p}) <= 1
    BY DEF OneSessionPerLogin
  <2>1. CASE {q \in refresh : root[q] = p} = {}
    BY <2>1, FS_EmptySet
  <2>2. CASE {q \in refresh : root[q] = p} # {}
    <3>1. PICK q \in refresh : root[q] = p
      BY <2>2
    <3>2. \A s \in refresh : root[s] = p => s = q
      BY <3>1 DEF IInv, OneKey
    <3> DEFINE K == {s \in refresh : root[s] = p}
    <3>3. q \in K /\ K \subseteq {q}
      BY <3>1, <3>2
    <3> HIDE DEF K
    <3>4. K = {q}
      BY <3>3
    <3>5. Cardinality(K) = 1
      BY <3>4, FS_Singleton
    <3> QED BY <3>5 DEF K
  <2> QED BY <2>1, <2>2
<1> QED BY <1>1, <1>2 DEF IInv, SessionsWhole

\* session/manager.go, Login and Refresh: however the requests of browsers
\* overlap and whatever fails or expires, no access token works after its
\* refresh token is gone, and Redis holds at most one refresh key of a login
\* unless two refreshes of it have overlapped.
THEOREM SessionsAreWhole == Spec => []SessionsWhole
BY InvariantHolds, WholeFromIInv, PTL

\* Between its requests, the cookie of a signed-in browser opens a session.
LEMMA SignedInFromIInv == IInv => SignedInStays
BY SessionAssumption DEF IInv, SignedIn, Phases, SignedInStays, InFlight, TypeOK

\* session/manager.go, Refresh: a browser that sends one request at a time is
\* not signed out by rotating its tokens.
THEOREM SignedInStay == Spec => []SignedInStays
BY InvariantHolds, SignedInFromIInv, PTL

\* No step brings back a login that is over: only a request that has found one
\* of its keys could.
LEMMA RevivesNothing == IInv /\ [Next]_vars => [\A p \in Pairs : Over(p) => Over(p)']_vars
<1> SUFFICES ASSUME IInv, Next, NEW p \in Pairs, Over(p) PROVE Over(p)'
  OBVIOUS
<1> USE DEF IInv
<1>0. /\ root[p] = p /\ p # None
      /\ \A q \in access \cup refresh : root[q] # p
      /\ \A r \in Requests : ~Carries(r, p)
  BY SessionAssumption DEF Over
<1>1. ASSUME NEW r \in Requests, NEW b \in Browsers, Login(r, b) \/ Refresh(r, b) \/ Logout(r, b)
      PROVE  Over(p)'
  <2>1. UNCHANGED <<root, access, refresh>>
    BY <1>1 DEF Login, Refresh, Logout, Begin, keys
  <2>2. \A q \in Requests \ {r} : ~Carries(q, p)'
    BY <1>0, <1>1 DEF TypeOK, Carries, Refreshes, Login, Refresh, Logout, Begin, Goto
  <2>3. ~Carries(r, p)'
    BY <1>0, <1>1 DEF TypeOK, Carries, Refreshes, Login, Refresh, Logout, Begin, Goto, Unused
  <2> QED BY <1>0, <2>1, <2>2, <2>3 DEF Over
<1>2. ASSUME NEW r \in Requests, ReadKey(r) PROVE Over(p)'
  BY <1>0, <1>2, SMTT(30)
  DEF TypeOK, Phases, Over, Carries, Refreshes, ReadKey, Goto, Fail, keys, history
<1>3. ASSUME NEW r \in Requests, DeletePair(r) PROVE Over(p)'
  BY <1>0, <1>3, SMTT(30) DEF TypeOK, Over, Carries, Refreshes, DeletePair, Delete, Goto, Fail, keys
<1>4. ASSUME NEW r \in Requests, SetAccess(r) PROVE Over(p)'
  <2> DEFINE n == new[r]
  <2>1. n \in Pairs /\ n \notin handed /\ root[n] = None
    BY <1>4 DEF TypeOK, Token, Kinds, NewPairs, Phases, SetAccess
  <2>2. pc[r] = "setAccess" /\ Carries(r, RootOf(r))
    BY <1>4 DEF TypeOK, Kinds, Phases, Carries, Refreshes, RootOf, SetAccess
  <2>3. /\ root' = [root EXCEPT ![n] = RootOf(r)] /\ RootOf(r) # p
        /\ refresh' = refresh /\ access' \subseteq access \cup {n}
        /\ UNCHANGED <<kind, shown, new>>
    BY <1>0, <1>4, <2>2 DEF SetAccess, RootOf
  <2>4. \A q \in Requests : shown[q].refresh # n
    BY <2>1, SessionAssumption DEF CookiesHeld, Held
  <2>5. \A q \in Requests : ~Carries(q, p)'
    BY <1>0, <1>4, <2>1, <2>2, <2>3, <2>4, SMTT(30)
    DEF TypeOK, Token, Cookie, Carries, Refreshes, SetAccess, Goto, Fail
  <2>6. root'[p] = p /\ \A q \in access' \cup refresh' : root'[q] # p
    BY <1>0, <2>1, <2>3 DEF TypeOK
  <2> QED BY <2>5, <2>6 DEF Over
<1>5. ASSUME NEW r \in Requests, SetRefresh(r) PROVE Over(p)'
  <2>1. Carries(r, RootOf(r)) /\ root[new[r]] = RootOf(r) /\ new[r] \in Pairs
    BY <1>5 DEF TypeOK, Token, Kinds, Phases, NewPairs, Carries, Refreshes, RootOf, SetRefresh
  <2>2. root[new[r]] # p
    BY <1>0, <2>1
  <2> QED BY <1>0, <1>5, <2>2, SMTT(30)
          DEF TypeOK, Over, Carries, Refreshes, SetRefresh, Goto, history
<1>6. ASSUME NEW r \in Requests, UndoAccess(r) \/ CheckUser(r) PROVE Over(p)'
  BY <1>0, <1>6, SMTT(30)
  DEF TypeOK, Over, Carries, Refreshes, UndoAccess, CheckUser, Goto, Fail, keys, history
<1>7. ASSUME NEW r \in Requests, Respond(r) \/ Abort(r) PROVE Over(p)'
  BY <1>0, <1>7, SMTT(30)
  DEF TypeOK, Over, Carries, Refreshes, Respond, Abort, Finish, Goto, keys, history
<1>8. ASSUME NEW q \in Pairs, AccessKeyExpire(q) \/ RefreshKeyExpire(q) PROVE Over(p)'
  BY <1>0, <1>8 DEF Over, Carries, Refreshes, AccessKeyExpire, RefreshKeyExpire, request, history
<1>9. ASSUME NEW b \in Browsers, CookieExpire(b) \/ SetStatus(b) PROVE Over(p)'
  BY <1>0, <1>9 DEF Over, Carries, Refreshes, CookieExpire, SetStatus, keys, request, history
<1> QED BY <1>1, <1>2, <1>3, <1>4, <1>5, <1>6, <1>7, <1>8, <1>9 DEF Next

\* session/manager.go, Logout and Refresh: when the last key of a login is gone
\* and no request that has found one is at work, no later step brings the login
\* back.
THEOREM NothingRevived == Spec => NoRevival
BY InvariantHolds, RevivesNothing, PTL DEF Spec, NoRevival
================================================================================
