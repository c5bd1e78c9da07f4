------------------------ MODULE BrowserSessionProofs ------------------------
(***************************************************************************)
(* Theorems about BrowserSession, for any number of tabs and accounts and  *)
(* either value of BOOTSTRAP_FIRST_USER_ADMIN.                             *)
(*                                                                         *)
(* One inductive invariant, in parts.  The type invariant needs to know    *)
(* whose form is under way; who is shown depends on the me() that is still *)
(* awaited; and who is administrator on the registrations that have        *)
(* counted and not yet committed.                                          *)
(***************************************************************************)
EXTENDS BrowserSession, TLAPS

\* A form names an account, which is registered once its transaction committed.
FormsNameAccounts ==
    \A t \in Tabs :
        /\ sign[t].stage # "none" => sign[t].as \in Accounts
        /\ sign[t].stage = "created" => sign[t].as \in Registered

\* A tab that waits for me() is not on its way to the sign-in page, and asked
\* with the token that is still there if nothing has disturbed it.
AsksWithToken ==
    \A t \in Tabs :
        check[t] # None =>
            /\ tab[t].going # "login"
            /\ ~disturbed[t] => token = check[t]

\* What a registration has counted stays true: of one that found somebody for
\* good, of the first one unless another overlaps with it.
CountsHold ==
    /\ \A t \in Tabs : sign[t].stage = "later" => Registered # {}
    /\ ~overlapped =>
          /\ \A t \in Tabs : sign[t].stage = "first" => Registered = {}
          /\ \A t, u \in Counting : t = u

Typed == TypeOK /\ FormsNameAccounts

-----------------------------------------------------------------------------
(***************************************************************************)
(* Accounts are never removed and keep their role: CreateUser is the only  *)
(* statement that writes one, and it inserts.                              *)
(***************************************************************************)
LEMMA RolesAreKept ==
    ASSUME Typed, [Next]_vars
    PROVE  \A a \in Registered : a \in Registered' /\ roles'[a] = roles[a]
<1>1. CASE \E t \in Tabs : CreateUser(t)
  <2>1. PICK t \in Tabs : CreateUser(t)
    BY <1>1
  <2>2. \A a \in Accounts : a # sign[t].as => roles'[a] = roles[a]
    BY <2>1 DEF CreateUser, Typed, TypeOK
  <2>3. sign[t].as \notin Registered
    BY <2>1 DEF CreateUser
  <2>. QED  BY <2>2, <2>3 DEF Registered
<1>2. CASE UNCHANGED roles
  BY <1>2 DEF Registered
<1>3. (\E t \in Tabs : CreateUser(t)) \/ UNCHANGED roles
  BY DEF Next, vars, Acted, Answers, Navigate, Enter, MoveWithin, Logout, Submit, Redirect,
         CountUsers, MeAnswered, MeRejected, SignedIn, SignInRejected
<1>. QED  BY <1>1, <1>2, <1>3

(***************************************************************************)
(* The transaction of a registration makes exactly one account more.       *)
(***************************************************************************)
LEMMA OneMore ==
    ASSUME Typed, NEW t \in Tabs, CreateUser(t)
    PROVE  /\ sign[t].as \in Accounts
           /\ roles' \in [Accounts -> Roles \cup {None}]
           /\ roles'[sign[t].as] = RoleOf(sign[t].stage)
           /\ Registered' = Registered \cup {sign[t].as}
<1>1. sign[t].stage \in {"first", "later"}
  BY DEF CreateUser, Counting
<1>2. sign[t].as \in Accounts
  BY <1>1 DEF Typed, FormsNameAccounts
<1>3. RoleOf(sign[t].stage) \in Roles
  BY DEF RoleOf, Roles
<1>4. /\ roles \in [Accounts -> Roles \cup {None}]
      /\ roles' = [roles EXCEPT ![sign[t].as] = RoleOf(sign[t].stage)]
  BY DEF CreateUser, Typed, TypeOK
<1>5. RoleOf(sign[t].stage) # None
  BY <1>3, SessionAssumption
<1>. QED  BY <1>2, <1>3, <1>4, <1>5 DEF Registered

-----------------------------------------------------------------------------
(***************************************************************************)
(* Everything keeps its type, whatever answers late: the token is that of  *)
(* a registered account, and a tab outside the shells shows nobody.        *)
(***************************************************************************)
LEMMA TypedStep ==
    ASSUME Typed, [Next]_vars
    PROVE  Typed'
<1>. USE DEF Typed
<1>1. ASSUME NEW t \in Tabs, Navigate(t) \/ (tab[t].going # None /\ Enter(t, tab[t].going))
      PROVE  Typed'
  <2>1. PICK v \in Views : Enter(t, v)
    BY <1>1 DEF Navigate, TypeOK
  <2>2. Opened(v) \in [view : Views, user : {None}, going : Views \cup {None}]
    BY DEF Opened, Views
  <2>3. UNCHANGED <<roles, token, sign, overlapped, Registered>>
    BY <2>1 DEF Enter, Registered
  <2>4. /\ tab' \in [Tabs -> [view : Views, user : Accounts \cup {None}, going : Views \cup {None}]]
        /\ check' \in [Tabs -> Registered \cup {None}]
        /\ disturbed' \in [Tabs -> BOOLEAN]
        /\ lost' \in [Tabs -> BOOLEAN]
    BY <2>1, <2>2 DEF Enter, TypeOK
  <2>5. ASSUME NEW u \in Tabs
        PROVE  /\ tab'[u].user # None => tab'[u].view \in Shells /\ tab'[u].user \in Registered
               /\ check'[u] # None => tab'[u].view \in Shells /\ tab'[u].user = None
    <3>1. CASE u = t
      <4>1. tab'[u] = Opened(v) /\ check'[u] = IF v \in Shells /\ token # None THEN token ELSE None
        BY <2>1, <3>1 DEF Enter, TypeOK
      <4>. QED  BY <4>1 DEF Opened
    <3>2. CASE u # t
      <4>1. tab'[u] = tab[u] /\ check'[u] = check[u]
        BY <2>1, <3>2 DEF Enter, TypeOK
      <4>. QED  BY <4>1 DEF TypeOK
    <3>. QED  BY <3>1, <3>2
  <2>. QED  BY <2>3, <2>4, <2>5 DEF TypeOK, FormsNameAccounts
<1>2. ASSUME NEW t \in Tabs, tab[t].going = tab[t].view,
             tab' = [tab EXCEPT ![t].going = None],
             UNCHANGED <<roles, token, check, sign, disturbed, lost, overlapped>>
      PROVE  Typed'
  BY <1>2 DEF TypeOK, FormsNameAccounts, Registered
<1>3. ASSUME NEW t \in Tabs, Logout(t)
      PROVE  Typed'
  BY <1>3 DEF Logout, TypeOK, FormsNameAccounts, Registered, Disturbing, Views
<1>4. ASSUME NEW t \in Tabs, NEW a \in Accounts, NEW op \in {"login", "register"}, Submit(t, op, a)
      PROVE  Typed'
  <2>1. Sent(op, a) \in Forms
    BY DEF Sent, Forms
  <2>2. sign' \in [Tabs -> Forms]
    BY <1>4, <2>1 DEF Submit, TypeOK
  <2>3. FormsNameAccounts'
    BY <1>4 DEF Submit, Sent, FormsNameAccounts, TypeOK, Registered
  <2>. QED  BY <1>4, <2>2, <2>3 DEF Submit, TypeOK, Registered
<1>5. ASSUME NEW t \in Tabs, CountUsers(t)
      PROVE  Typed'
  <2>1. /\ sign' \in [Tabs -> Forms]
        /\ overlapped' \in BOOLEAN
    BY <1>5 DEF CountUsers, TypeOK, Forms
  <2>2. FormsNameAccounts'
    BY <1>5 DEF CountUsers, FormsNameAccounts, TypeOK, Forms, Registered
  <2>. QED  BY <1>5, <2>1, <2>2 DEF CountUsers, TypeOK, Registered
<1>6. ASSUME NEW t \in Tabs, CreateUser(t)
      PROVE  Typed'
  <2>1. /\ sign[t].as \in Accounts
        /\ roles' \in [Accounts -> Roles \cup {None}]
        /\ Registered' = Registered \cup {sign[t].as}
    BY <1>6, OneMore
  <2>2. /\ sign' \in [Tabs -> Forms]
        /\ FormsNameAccounts'
    <3>1. CASE sign' = [sign EXCEPT ![t].stage = "created"]
      BY <2>1, <3>1 DEF TypeOK, Forms, FormsNameAccounts
    <3>2. CASE sign' = [sign EXCEPT ![t] = NoCall]
      <4>1. NoCall \in Forms
        BY DEF NoCall, Forms
      <4>2. sign' \in [Tabs -> Forms]
        BY <3>2, <4>1 DEF TypeOK
      <4>3. \A u \in Tabs : sign'[u] = IF u = t THEN NoCall ELSE sign[u]
        BY <3>2 DEF TypeOK
      <4>. QED  BY <2>1, <4>2, <4>3 DEF FormsNameAccounts, NoCall
    <3>. QED  BY <1>6, <3>1, <3>2 DEF CreateUser
  <2>. QED  BY <1>6, <2>1, <2>2 DEF CreateUser, TypeOK
<1>7. ASSUME NEW t \in Tabs, MeAnswered(t)
      PROVE  Typed'
  <2>1. check[t] \in Registered /\ tab[t].view \in Shells /\ check[t] \in Accounts
    BY <1>7 DEF MeAnswered, TypeOK, Registered
  <2>2. /\ tab' \in [Tabs -> [view : Views, user : Accounts \cup {None}, going : Views \cup {None}]]
        /\ check' \in [Tabs -> Registered \cup {None}]
    <3>1. PICK led \in {"dashboard", tab[t].going} :
            tab' = [tab EXCEPT ![t].user = check[t], ![t].going = led]
      BY <1>7 DEF MeAnswered, TurnedAway
    <3>2. led \in Views \cup {None}
      BY DEF TypeOK, Views, Shells
    <3>3. [tab[t] EXCEPT !.user = check[t], !.going = led]
            \in [view : Views, user : Accounts \cup {None}, going : Views \cup {None}]
      BY <2>1, <3>2 DEF TypeOK
    <3>4. tab' = [tab EXCEPT ![t] = [tab[t] EXCEPT !.user = check[t], !.going = led]]
      BY <3>1
    <3>5. check' = [check EXCEPT ![t] = None]
      BY <1>7 DEF MeAnswered
    <3>. QED  BY <3>3, <3>4, <3>5 DEF TypeOK
  <2>3. \A u \in Tabs :
          IF u = t THEN tab'[u].user = check[t] /\ tab'[u].view = tab[t].view /\ check'[u] = None
                   ELSE tab'[u] = tab[u] /\ check'[u] = check[u]
    BY <1>7 DEF MeAnswered, TypeOK
  <2>. QED  BY <1>7, <2>1, <2>2, <2>3 DEF MeAnswered, TypeOK, FormsNameAccounts, Registered
<1>8. ASSUME NEW t \in Tabs, MeRejected(t)
      PROVE  Typed'
  BY <1>8 DEF MeRejected, TypeOK, FormsNameAccounts, Registered, Disturbing, Views
<1>9. ASSUME NEW t \in Tabs, SignedIn(t)
      PROVE  Typed'
  <2>1. sign[t].as \in Registered
    BY <1>9 DEF SignedIn, FormsNameAccounts
  <2>2. NoCall \in Forms
    BY DEF NoCall, Forms
  <2>3. /\ sign' \in [Tabs -> Forms]
        /\ \A u \in Tabs : sign'[u] = IF u = t THEN NoCall ELSE sign[u]
    BY <1>9, <2>2 DEF SignedIn, TypeOK
  <2>4. FormsNameAccounts'
    BY <1>9, <2>3 DEF SignedIn, FormsNameAccounts, NoCall, Registered
  <2>. QED  BY <1>9, <2>1, <2>3, <2>4 DEF SignedIn, TypeOK, Registered, Disturbing, Views, Shells
<1>10. ASSUME NEW t \in Tabs, SignInRejected(t)
       PROVE  Typed'
  <2>1. NoCall \in Forms
    BY DEF NoCall, Forms
  <2>2. /\ sign' \in [Tabs -> Forms]
        /\ \A u \in Tabs : sign'[u] = IF u = t THEN NoCall ELSE sign[u]
    BY <1>10, <2>1 DEF SignInRejected, TypeOK
  <2>3. FormsNameAccounts'
    BY <1>10, <2>2 DEF SignInRejected, FormsNameAccounts, NoCall, Registered
  <2>. QED  BY <1>10, <2>2, <2>3 DEF SignInRejected, TypeOK, Registered
<1>11. ASSUME NEW t \in Tabs, MoveWithin(t)
       PROVE  Typed'
  BY <1>11 DEF MoveWithin, TypeOK, FormsNameAccounts, Registered
<1>12. CASE UNCHANGED vars
  BY <1>12 DEF vars, TypeOK, FormsNameAccounts, Registered, Counting
<1>. QED  BY <1>1, <1>2, <1>3, <1>4, <1>5, <1>6, <1>7, <1>8, <1>9, <1>10, <1>11, <1>12
          DEF Next, Acted, Answers, Redirect

LEMMA TypedInit == Init => Typed
<1>. SUFFICES ASSUME Init
              PROVE  Typed
  OBVIOUS
<1>1. Opened("login") = [view |-> "login", user |-> None, going |-> None]
  BY DEF Opened, Shells
<1>2. NoCall \in Forms
  BY DEF NoCall, Forms
<1>3. \A t \in Tabs : tab[t].user = None /\ check[t] = None /\ sign[t].stage = "none"
  BY <1>1 DEF Init, NoCall
<1>4. tab \in [Tabs -> [view : Views, user : Accounts \cup {None}, going : Views \cup {None}]]
  BY <1>1 DEF Init, Views
<1>. QED  BY <1>2, <1>3, <1>4 DEF Init, Typed, TypeOK, FormsNameAccounts

(***************************************************************************)
(* The type invariant of the session: above all, the token names a         *)
(* registered account, and a tab that shows no shell neither has a user    *)
(* nor waits for one (AppShell's effect and its cleanup).                  *)
(***************************************************************************)
THEOREM TypeCorrect == Spec => []TypeOK
<1>1. Init => Typed
  BY TypedInit
<1>2. Typed /\ [Next]_vars => Typed'
  BY TypedStep
<1>3. Typed => TypeOK
  BY DEF Typed
<1>. QED  BY <1>1, <1>2, <1>3, PTL DEF Spec

-----------------------------------------------------------------------------
(***************************************************************************)
(* The tab that waits for me().  Only Enter makes it wait, with the token  *)
(* of that moment; every change of the token by other code disturbs it.    *)
(***************************************************************************)
LEMMA AskingStep ==
    ASSUME Typed, Typed', AsksWithToken, [Next]_vars
    PROVE  AsksWithToken'
<1>. USE DEF Typed
<1>1. ASSUME NEW t \in Tabs, NEW v \in Views, Enter(t, v)
      PROVE  AsksWithToken'
  <2>1. \A u \in Tabs :
          IF u = t THEN /\ tab'[u] = Opened(v)
                        /\ check'[u] = IF v \in Shells /\ token # None THEN token ELSE None
                   ELSE tab'[u] = tab[u] /\ check'[u] = check[u] /\ disturbed'[u] = disturbed[u]
    BY <1>1 DEF Enter, TypeOK
  <2>2. token # None => Opened(v).going = None
    BY DEF Opened
  <2>3. None # "login"
    BY SessionAssumption DEF Views
  <2>. QED  BY <1>1, <2>1, <2>2, <2>3 DEF Enter, AsksWithToken
<1>2. ASSUME NEW t \in Tabs, tab' = [tab EXCEPT ![t].going = None],
             UNCHANGED <<token, check, disturbed>>
      PROVE  AsksWithToken'
  <2>1. None # "login"
    BY SessionAssumption DEF Views
  <2>. QED  BY <1>2, <2>1 DEF AsksWithToken, TypeOK
<1>3. ASSUME NEW t \in Tabs, Logout(t) \/ MeRejected(t)
      PROVE  AsksWithToken'
  <2>1. check'[t] = None
    BY <1>3 DEF Logout, MeRejected, TypeOK
  <2>2. \A u \in Tabs \ {t} :
          /\ tab'[u] = tab[u]
          /\ check'[u] = check[u]
          /\ tab[u].view \in Shells => disturbed'[u]
    BY <1>3 DEF Logout, MeRejected, TypeOK, Disturbing
  <2>. QED  BY <2>1, <2>2 DEF AsksWithToken, TypeOK
<1>4. ASSUME NEW t \in Tabs, MeAnswered(t)
      PROVE  AsksWithToken'
  <2>1. /\ check'[t] = None
        /\ \A u \in Tabs \ {t} : tab'[u] = tab[u] /\ check'[u] = check[u]
        /\ UNCHANGED <<token, disturbed>>
    BY <1>4 DEF MeAnswered, TypeOK
  <2>. QED  BY <2>1 DEF AsksWithToken
<1>5. ASSUME NEW t \in Tabs, SignedIn(t)
      PROVE  AsksWithToken'
  <2>1. \A u \in Tabs : tab[u].view \in Shells => disturbed'[u]
    BY <1>5 DEF SignedIn, Disturbing
  <2>2. \A u \in Tabs :
          /\ tab'[u].going = IF u = t THEN "dashboard" ELSE tab[u].going
          /\ check'[u] = check[u]
    BY <1>5 DEF SignedIn, TypeOK
  <2>. QED  BY <2>1, <2>2 DEF AsksWithToken, TypeOK
<1>6. CASE UNCHANGED <<token, tab, check, disturbed>>
  BY <1>6 DEF AsksWithToken
<1>. QED  BY <1>1, <1>2, <1>3, <1>4, <1>5, <1>6
          DEF Next, Acted, Answers, Navigate, MoveWithin, Redirect, Submit, CountUsers, CreateUser,
              SignInRejected, vars, TypeOK

(***************************************************************************)
(* Who is shown.  An answer of me() is shown for the account of a token    *)
(* that is still there, by AskingStep; from then on the token changes only *)
(* with a sign-out of the tab, which removes it and leads away, or is      *)
(* changed by others.  A navigation that takes the place of the one that   *)
(* leads away is recorded as lost.                                         *)
(***************************************************************************)
LEMMA NameStep ==
    ASSUME Typed, Typed', AsksWithToken, NameMatchesToken, [Next]_vars
    PROVE  NameMatchesToken'
<1>. USE DEF Typed
<1>1. ASSUME NEW t \in Tabs, NEW v \in Views, Enter(t, v)
      PROVE  NameMatchesToken'
  <2>1. \A u \in Tabs :
          IF u = t THEN tab'[u].user = None
                   ELSE tab'[u] = tab[u] /\ disturbed'[u] = disturbed[u] /\ lost'[u] = lost[u]
    BY <1>1 DEF Enter, TypeOK, Opened
  <2>. QED  BY <1>1, <2>1 DEF Enter, NameMatchesToken
<1>2. ASSUME NEW t \in Tabs, tab' = [tab EXCEPT ![t].going = None],
             tab[t].going = "login" /\ tab[t].user # None => lost'[t],
             lost[t] => lost'[t],
             \A u \in Tabs \ {t} : lost'[u] = lost[u],
             UNCHANGED <<token, disturbed>>
      PROVE  NameMatchesToken'
  <2>1. \A u \in Tabs : tab'[u].user = tab[u].user /\ (u # t => tab'[u].going = tab[u].going)
    BY <1>2 DEF TypeOK
  <2>. QED  BY <1>2, <2>1 DEF NameMatchesToken
<1>3. ASSUME NEW t \in Tabs, Logout(t) \/ MeRejected(t)
      PROVE  NameMatchesToken'
  <2>1. tab'[t].going = "login" /\ token' = None
    BY <1>3 DEF Logout, MeRejected, TypeOK
  <2>2. \A u \in Tabs \ {t} :
          /\ tab'[u] = tab[u]
          /\ tab[u].view \in Shells => disturbed'[u]
    BY <1>3 DEF Logout, MeRejected, TypeOK, Disturbing
  <2>. QED  BY <2>1, <2>2 DEF NameMatchesToken, TypeOK
<1>4. ASSUME NEW t \in Tabs, MeAnswered(t)
      PROVE  NameMatchesToken'
  <2>1. /\ tab'[t].user = check[t]
        /\ \A u \in Tabs \ {t} : tab'[u] = tab[u] /\ lost'[u] = lost[u]
        /\ UNCHANGED <<token, disturbed>>
    BY <1>4 DEF MeAnswered, TypeOK
  <2>2. ~disturbed[t] => token = check[t]
    BY <1>4 DEF MeAnswered, AsksWithToken
  <2>. QED  BY <2>1, <2>2 DEF NameMatchesToken
<1>5. ASSUME NEW t \in Tabs, SignedIn(t)
      PROVE  NameMatchesToken'
  <2>1. \A u \in Tabs : tab[u].view \in Shells => disturbed'[u]
    BY <1>5 DEF SignedIn, Disturbing
  <2>2. \A u \in Tabs : tab'[u].user = tab[u].user
    BY <1>5 DEF SignedIn, TypeOK
  <2>. QED  BY <2>1, <2>2 DEF NameMatchesToken, TypeOK
<1>6. CASE UNCHANGED <<token, tab, check, disturbed, lost>>
  BY <1>6 DEF NameMatchesToken
<1>7. ASSUME NEW t \in Tabs, MoveWithin(t)
      PROVE  NameMatchesToken'
  <2>1. /\ tab' = [tab EXCEPT ![t].going = None]
        /\ lost'[t] = (lost[t] \/ WayOut(t))
        /\ \A u \in Tabs \ {t} : lost'[u] = lost[u]
        /\ UNCHANGED <<token, disturbed>>
    BY <1>7 DEF MoveWithin, TypeOK
  <2>2. tab[t].going = "login" => WayOut(t)
    BY <1>7, SessionAssumption DEF MoveWithin, WayOut, Shells, Views
  <2>. QED  BY <1>2, <2>1, <2>2
<1>8. ASSUME NEW t \in Tabs, tab[t].going = tab[t].view, tab' = [tab EXCEPT ![t].going = None],
             UNCHANGED <<token, disturbed, lost>>
      PROVE  NameMatchesToken'
  <2>1. tab[t].user # None => tab[t].going # "login"
    BY <1>8 DEF TypeOK, Shells
  <2>. QED  BY <1>2, <1>8, <2>1
<1>. QED  BY <1>1, <1>3, <1>4, <1>5, <1>6, <1>7, <1>8
          DEF Next, Acted, Answers, Navigate, Redirect, Submit, CountUsers, CreateUser,
              SignInRejected, vars, TypeOK

(***************************************************************************)
(* Unless the token was changed behind the back of the shell, the calls of *)
(* a page are made as the account whose name is above it, or without a     *)
(* token once the tab has signed out: on the way to the sign-in page, or   *)
(* where another navigation has taken that redirect's place.               *)
(***************************************************************************)
THEOREM NamesMatchTokens == Spec => []NameMatchesToken
<1>. DEFINE Inv == Typed /\ AsksWithToken /\ NameMatchesToken
<1>1. Init => Inv
  <2>. SUFFICES ASSUME Init
                PROVE  Inv
    OBVIOUS
  <2>1. Typed
    BY TypedInit
  <2>2. \A t \in Tabs : tab[t].user = None /\ check[t] = None
    BY DEF Init, Opened
  <2>. QED  BY <2>1, <2>2 DEF AsksWithToken, NameMatchesToken
<1>2. Inv /\ [Next]_vars => Inv'
  BY TypedStep, AskingStep, NameStep
<1>3. Inv => NameMatchesToken
  OBVIOUS
<1>. QED  BY <1>1, <1>2, <1>3, PTL DEF Spec

-----------------------------------------------------------------------------
(***************************************************************************)
(* The shell of the administrators shows somebody else only on the way     *)
(* out: a role never changes, a redirect that follows leads out too, and a *)
(* navigation inside the shell that takes its place is recorded as lost.   *)
(***************************************************************************)
LEMMA GuardStep ==
    ASSUME Typed, AdminShellGuarded, [Next]_vars
    PROVE  AdminShellGuarded'
<1>. USE DEF Typed, Misplaced
<1>0. \A a \in Registered : roles'[a] = roles[a]
  BY RolesAreKept
<1>1. ASSUME NEW t \in Tabs, NEW v \in Views, Enter(t, v)
      PROVE  AdminShellGuarded'
  <2>1. tab'[t].user = None /\ \A u \in Tabs \ {t} : tab'[u] = tab[u] /\ lost'[u] = lost[u]
    BY <1>1 DEF Enter, TypeOK, Opened
  <2>. QED  BY <1>0, <2>1 DEF AdminShellGuarded, TypeOK
<1>2. ASSUME NEW t \in Tabs, tab' = [tab EXCEPT ![t].going = None],
             tab[t].view = "admin" /\ tab[t].going \in {"dashboard", "login"} => lost'[t],
             lost[t] => lost'[t],
             \A u \in Tabs \ {t} : lost'[u] = lost[u]
      PROVE  AdminShellGuarded'
  <2>1. \A u \in Tabs :
          /\ tab'[u].view = tab[u].view /\ tab'[u].user = tab[u].user
          /\ u # t => tab'[u].going = tab[u].going
    BY <1>2 DEF TypeOK
  <2>. QED  BY <1>0, <1>2, <2>1 DEF AdminShellGuarded, TypeOK
<1>3. ASSUME NEW t \in Tabs, Logout(t) \/ MeRejected(t)
      PROVE  AdminShellGuarded'
  <2>1. /\ tab'[t].going = "login"
        /\ \A u \in Tabs \ {t} : tab'[u] = tab[u] /\ lost'[u] = lost[u]
    BY <1>3 DEF Logout, MeRejected, TypeOK
  <2>. QED  BY <1>0, <2>1 DEF AdminShellGuarded, TypeOK
<1>4. ASSUME NEW t \in Tabs, MeAnswered(t)
      PROVE  AdminShellGuarded'
  <2>1. check[t] \in Registered
    BY <1>4 DEF MeAnswered, TypeOK
  <2>2. /\ tab'[t].user = check[t]
        /\ tab'[t].view = tab[t].view
        /\ tab[t].view = "admin" /\ roles[check[t]] # "admin" => tab'[t].going = "dashboard"
        /\ \A u \in Tabs \ {t} : tab'[u] = tab[u] /\ lost'[u] = lost[u]
    BY <1>4 DEF MeAnswered, TurnedAway, TypeOK
  <2>. QED  BY <1>0, <2>1, <2>2 DEF AdminShellGuarded, TypeOK
<1>5. ASSUME NEW t \in Tabs, SignedIn(t)
      PROVE  AdminShellGuarded'
  <2>1. \A u \in Tabs :
          /\ tab'[u].view = tab[u].view /\ tab'[u].user = tab[u].user
          /\ IF u = t THEN tab'[u].going = "dashboard"
                      ELSE tab'[u].going = tab[u].going /\ lost'[u] = lost[u]
    BY <1>5 DEF SignedIn, TypeOK
  <2>. QED  BY <1>0, <2>1 DEF AdminShellGuarded, TypeOK
<1>6. CASE UNCHANGED <<tab, lost>>
  BY <1>0, <1>6 DEF AdminShellGuarded, TypeOK
<1>7. ASSUME NEW t \in Tabs, MoveWithin(t)
      PROVE  AdminShellGuarded'
  <2>1. /\ tab' = [tab EXCEPT ![t].going = None]
        /\ lost'[t] = (lost[t] \/ WayOut(t))
        /\ \A u \in Tabs \ {t} : lost'[u] = lost[u]
    BY <1>7 DEF MoveWithin, TypeOK
  <2>2. tab[t].view = "admin" /\ tab[t].going \in {"dashboard", "login"} => WayOut(t)
    BY SessionAssumption DEF WayOut, Shells, Views
  <2>. QED  BY <1>2, <2>1, <2>2
<1>8. ASSUME NEW t \in Tabs, tab[t].going = tab[t].view, tab' = [tab EXCEPT ![t].going = None],
             UNCHANGED lost
      PROVE  AdminShellGuarded'
  BY <1>2, <1>8
<1>. QED  BY <1>1, <1>3, <1>4, <1>5, <1>6, <1>7, <1>8
          DEF Next, Acted, Answers, Navigate, Redirect, Submit, CountUsers, CreateUser,
              SignInRejected, vars, TypeOK

(***************************************************************************)
(* AppShell's redirect of an account that is no administrator is lost only *)
(* to a navigation inside the shell: nothing else that happens in this tab *)
(* or another leaves such an account in the administrators' shell with no  *)
(* way out under way.                                                      *)
(***************************************************************************)
THEOREM AdminShellIsGuarded == Spec => []AdminShellGuarded
<1>. DEFINE Inv == Typed /\ AdminShellGuarded
<1>1. Init => Inv
  <2>. SUFFICES ASSUME Init
                PROVE  Inv
    OBVIOUS
  <2>1. Typed
    BY TypedInit
  <2>2. \A t \in Tabs : tab[t].user = None
    BY DEF Init, Opened
  <2>. QED  BY <2>1, <2>2 DEF AdminShellGuarded, Misplaced
<1>2. Inv /\ [Next]_vars => Inv'
  BY TypedStep, GuardStep
<1>3. Inv => AdminShellGuarded
  OBVIOUS
<1>. QED  BY <1>1, <1>2, <1>3, PTL DEF Spec

-----------------------------------------------------------------------------
(***************************************************************************)
(* What a registration has counted holds until it commits.  Registrations  *)
(* that have counted and not committed are alone, or have overlapped.      *)
(***************************************************************************)
LEMMA CountsStep ==
    ASSUME Typed, CountsHold, [Next]_vars
    PROVE  CountsHold'
<1>. USE DEF Typed
<1>1. ASSUME NEW t \in Tabs, CountUsers(t)
      PROVE  CountsHold'
  <2>1. /\ Registered' = Registered
        /\ sign'[t].stage = IF Registered = {} THEN "first" ELSE "later"
        /\ \A u \in Tabs \ {t} : sign'[u] = sign[u]
    BY <1>1 DEF CountUsers, TypeOK, Registered
  <2>2. \A u \in Tabs : sign'[u].stage = "later" => Registered' # {}
    BY <2>1 DEF CountsHold
  <2>3. ASSUME ~overlapped'
        PROVE  /\ \A u \in Tabs : sign'[u].stage = "first" => Registered' = {}
               /\ \A u, w \in Counting' : u = w
    <3>1. ~overlapped /\ Counting = {}
      BY <1>1, <2>3 DEF CountUsers
    <3>2. Counting' \subseteq {t}
      BY <2>1, <3>1 DEF Counting
    <3>. QED  BY <2>1, <3>1, <3>2 DEF CountsHold
  <2>. QED  BY <2>2, <2>3 DEF CountsHold
<1>2. ASSUME NEW t \in Tabs, CreateUser(t)
      PROVE  CountsHold'
  <2>1. /\ Registered' = Registered \cup {sign[t].as}
        /\ t \in Counting
        /\ UNCHANGED overlapped
    BY <1>2, OneMore DEF CreateUser
  <2>2. /\ sign'[t].stage \in {"created", "none"}
        /\ \A u \in Tabs \ {t} : sign'[u] = sign[u]
    <3>1. CASE sign' = [sign EXCEPT ![t].stage = "created"]
      BY <3>1 DEF TypeOK, Forms
    <3>2. CASE sign' = [sign EXCEPT ![t] = NoCall]
      BY <3>2 DEF TypeOK, NoCall
    <3>. QED  BY <1>2, <3>1, <3>2 DEF CreateUser
  <2>3. Counting' = Counting \ {t}
    BY <2>2 DEF Counting
  <2>. QED  BY <2>1, <2>2, <2>3 DEF CountsHold, Counting
<1>3. ASSUME NEW t \in Tabs, \E op \in {"login", "register"}, a \in Accounts : Submit(t, op, a)
      PROVE  CountsHold'
  <2>1. /\ UNCHANGED <<Registered, overlapped>>
        /\ sign'[t].stage = "sent"
        /\ \A u \in Tabs \ {t} : sign'[u] = sign[u]
    BY <1>3 DEF Submit, Sent, TypeOK, Registered
  <2>2. Counting' \subseteq Counting
    BY <2>1 DEF Counting
  <2>. QED  BY <2>1, <2>2 DEF CountsHold
<1>4. ASSUME NEW t \in Tabs, SignedIn(t) \/ SignInRejected(t)
      PROVE  CountsHold'
  <2>1. /\ UNCHANGED <<Registered, overlapped>>
        /\ sign'[t].stage = "none"
        /\ \A u \in Tabs \ {t} : sign'[u] = sign[u]
    BY <1>4 DEF SignedIn, SignInRejected, NoCall, TypeOK, Registered
  <2>2. Counting' \subseteq Counting
    BY <2>1 DEF Counting
  <2>. QED  BY <2>1, <2>2 DEF CountsHold
<1>5. CASE UNCHANGED <<roles, sign, overlapped>>
  BY <1>5 DEF CountsHold, Counting, Registered
<1>. QED  BY <1>1, <1>2, <1>3, <1>4, <1>5
          DEF Next, Acted, Answers, Navigate, Enter, MoveWithin, Redirect, Logout, MeAnswered,
              MeRejected, vars

LEMMA FirstStep ==
    ASSUME Typed, CountsHold, FirstIsAdmin, [Next]_vars
    PROVE  FirstIsAdmin'
<1>1. ASSUME NEW t \in Tabs, CreateUser(t)
      PROVE  FirstIsAdmin'
  <2>. SUFFICES ASSUME BootstrapFirstUserAdmin
                PROVE  /\ \E a \in Registered' : roles'[a] = "admin"
                       /\ ~overlapped => \A a, b \in Registered' :
                            roles'[a] = "admin" /\ roles'[b] = "admin" => a = b
    BY <1>1 DEF FirstIsAdmin, CreateUser
  <2>. DEFINE new == sign[t].as
  <2>1. /\ Registered' = Registered \cup {new}
        /\ roles'[new] = RoleOf(sign[t].stage)
        /\ \A a \in Registered : roles'[a] = roles[a]
    BY <1>1, OneMore, RolesAreKept
  <2>2. CASE sign[t].stage = "first"
    <3>1. roles'[new] = "admin"
      BY <2>1, <2>2 DEF RoleOf
    <3>2. ~overlapped => Registered' = {new}
      BY <2>1, <2>2 DEF CountsHold
    <3>. QED  BY <2>1, <3>1, <3>2
  <2>3. CASE sign[t].stage # "first"
    <3>1. roles'[new] # "admin"
      BY <2>1, <2>3 DEF RoleOf
    <3>2. Registered # {}
      BY <1>1, <2>3 DEF CreateUser, Counting, CountsHold
    <3>. QED  BY <2>1, <3>1, <3>2 DEF FirstIsAdmin
  <2>. QED  BY <2>2, <2>3
<1>2. ASSUME UNCHANGED roles, overlapped' \/ ~overlapped
      PROVE  FirstIsAdmin'
  BY <1>2 DEF FirstIsAdmin, Registered
<1>3. (\E t \in Tabs : CreateUser(t)) \/ (UNCHANGED roles /\ (overlapped' \/ ~overlapped))
  BY DEF Next, vars, Acted, Answers, Navigate, Enter, MoveWithin, Logout, Submit, Redirect,
         CountUsers, MeAnswered, MeRejected, SignedIn, SignInRejected
<1>. QED  BY <1>1, <1>2, <1>3

(***************************************************************************)
(* With BOOTSTRAP_FIRST_USER_ADMIN a system with accounts has an           *)
(* administrator, and only registrations that overlap make a second one.   *)
(***************************************************************************)
THEOREM FirstUserIsAdmin == Spec => []FirstIsAdmin
<1>. DEFINE Inv == Typed /\ CountsHold /\ FirstIsAdmin
<1>1. Init => Inv
  <2>. SUFFICES ASSUME Init
                PROVE  Inv
    OBVIOUS
  <2>1. Typed
    BY TypedInit
  <2>2. Registered = {} /\ \A t \in Tabs : sign[t].stage = "none"
    BY DEF Init, Registered, NoCall
  <2>. QED  BY <2>1, <2>2 DEF CountsHold, FirstIsAdmin, Counting
<1>2. Inv /\ [Next]_vars => Inv'
  BY TypedStep, CountsStep, FirstStep
<1>3. Inv => FirstIsAdmin
  OBVIOUS
<1>. QED  BY <1>1, <1>2, <1>3, PTL DEF Spec
=============================================================================
