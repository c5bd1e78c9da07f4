--------------------------- MODULE BrowserSession ---------------------------
(***************************************************************************)
(* Who is signed in: the tabs of one browser, which share one token in     *)
(* localStorage (lib/session.ts), the shell around the pages of the        *)
(* dashboard and of the administrators (components/AppShell.tsx), the      *)
(* pages that sign in and register, and the accounts of the API.           *)
(*                                                                         *)
(* The token is read when a call is made, the account is asked for once    *)
(* when a shell is mounted, and no tab hears of what another one does to   *)
(* the token.  A token names an account; one that has expired is a call    *)
(* that fails.                                                             *)
(*                                                                         *)
(* A navigation of the router is under way for a while, and the next one   *)
(* takes its place.  The pages of one shell share the shell (the layout of *)
(* app/dashboard and of app/admin): a link between them, or a step back,   *)
(* does not mount it again.                                                *)
(***************************************************************************)
EXTENDS Naturals, FiniteSets

CONSTANTS Tabs, Accounts, None,
          BootstrapFirstUserAdmin

Shells == {"dashboard", "admin"}
Views  == Shells \cup {"login"}     \* with the other pages outside, which are a link away
Roles  == {"user", "admin"}

ASSUME SessionAssumption ==
    /\ BootstrapFirstUserAdmin \in BOOLEAN
    /\ None \notin Accounts \cup Views \cup Roles

VARIABLES roles,      \* role of each account that is registered
          token,      \* the account of the token in localStorage
          tab,        \* what each tab shows
          check,      \* its shell's call of me(), by the account of the token
          sign,       \* the form it sent, login or register; one at a time, a bound
          disturbed,  \* history: the token was changed by other code than the
                      \* tab's shell since that was mounted
          lost,       \* history: another navigation, which mounted nothing, took the
                      \* place of the redirect that was to lead out of the shell
          overlapped  \* history: two registrations were under way at once

vars == <<roles, token, tab, check, sign, disturbed, lost, overlapped>>

Registered == {a \in Accounts : roles[a] # None}

\* A form that was sent: what it names, and how far a registration is: "first"
\* or "later" by the number of accounts it counted, "created" when it committed.
NoCall == [op |-> "none", as |-> None, stage |-> "none"]
Sent(op, a) == [op |-> op, as |-> a, stage |-> "sent"]

\* A view that is mounted.  A shell without a token leaves for the sign-in page.
Opened(v) ==
    [view |-> v, user |-> None, going |-> IF v \in Shells /\ token = None THEN "login" ELSE None]

\* The shells of these tabs, when the token changes.
Disturbing(tabs) == [t \in Tabs |-> disturbed[t] \/ (t \in tabs /\ tab[t].view \in Shells)]

\* A redirect is under way to another view.
WayOut(t) == tab[t].going \notin {None, tab[t].view}

Init ==
    /\ roles = [a \in Accounts |-> None]
    /\ token = None
    /\ tab = [t \in Tabs |-> Opened("login")]
    /\ check = [t \in Tabs |-> None]
    /\ sign = [t \in Tabs |-> NoCall]
    /\ disturbed = [t \in Tabs |-> FALSE]
    /\ lost = [t \in Tabs |-> FALSE]
    /\ overlapped = FALSE

-----------------------------------------------------------------------------
(***************************************************************************)
(* Tabs.                                                                   *)
(***************************************************************************)

\* Mutant: one shell for the two modes, which keeps its user.
Enter_SameShell(t, v) ==
    /\ tab' = [tab EXCEPT ![t] = [Opened(v) EXCEPT !.user = IF v \in Shells THEN tab[t].user ELSE None]]
    /\ check' = [check EXCEPT ![t] = IF v \in Shells /\ token # None THEN token ELSE None]
    /\ disturbed' = [disturbed EXCEPT ![t] = FALSE]
    /\ lost' = [lost EXCEPT ![t] = FALSE]
    /\ UNCHANGED <<roles, token, sign, overlapped>>

\* A view is mounted in the place of the one that is there, and no redirect is
\* under way any more but its own.  The me() of a shell that goes is cancelled,
\* which is to say that its answer is thrown away; a sign-in is not: it still sets
\* the token and leads to the dashboard.
Enter(t, v) ==
    /\ tab' = [tab EXCEPT ![t] = Opened(v)]
    /\ check' = [check EXCEPT ![t] = IF v \in Shells /\ token # None THEN token ELSE None]
    /\ disturbed' = [disturbed EXCEPT ![t] = FALSE]
    /\ lost' = [lost EXCEPT ![t] = FALSE]
    /\ UNCHANGED <<roles, token, sign, overlapped>>

\* The user follows a link outside the shells, goes back to another view, types an
\* address or loads the page again.
Navigate(t) == \E v \in Views : Enter(t, v)

\* The user follows a link from one page of the shell to another, or goes back to
\* one.  The shell stays as it is, with its user and its me(), and the redirect
\* under way is given up.
MoveWithin(t) ==
    /\ tab[t].view \in Shells
    /\ tab' = [tab EXCEPT ![t].going = None]
    /\ lost' = [lost EXCEPT ![t] = @ \/ WayOut(t)]
    /\ UNCHANGED <<roles, token, check, sign, disturbed, overlapped>>

\* router.replace takes effect.  To the view that is there already it mounts
\* nothing.
Redirect(t) ==
    /\ tab[t].going # None
    /\ \/ /\ tab[t].going # tab[t].view
          /\ Enter(t, tab[t].going)
       \/ /\ tab[t].going = tab[t].view
          /\ tab' = [tab EXCEPT ![t].going = None]
          /\ UNCHANGED <<roles, token, check, sign, disturbed, lost, overlapped>>

\* Mutant: signing out does not lead away.
Logout_Stay(t) ==
    /\ tab[t].user # None
    /\ token' = None
    /\ disturbed' = Disturbing(Tabs \ {t})
    /\ UNCHANGED <<roles, tab, check, sign, lost, overlapped>>

Logout(t) ==
    /\ tab[t].user # None
    /\ token' = None
    /\ tab' = [tab EXCEPT ![t].going = "login"]
    /\ disturbed' = Disturbing(Tabs \ {t})
    /\ lost' = [lost EXCEPT ![t] = FALSE]
    /\ UNCHANGED <<roles, check, sign, overlapped>>

\* The forms of the two pages outside; the button is disabled while the answer
\* is awaited.
Submit(t, op, a) ==
    /\ tab[t].view = "login"
    /\ sign[t] = NoCall
    /\ sign' = [sign EXCEPT ![t] = Sent(op, a)]
    /\ UNCHANGED <<roles, token, tab, check, disturbed, lost, overlapped>>

-----------------------------------------------------------------------------
(***************************************************************************)
(* The API.  A registration is a transaction that counts the accounts and  *)
(* then inserts one; at PostgreSQL's read committed level it does not see  *)
(* others that have not committed.  Nothing else an answer depends on      *)
(* changes while it is on its way, so that the other calls are answered    *)
(* and handled in one step.                                                *)
(***************************************************************************)
Counting == {t \in Tabs : sign[t].stage \in {"first", "later"}}

CountUsers(t) ==
    /\ sign[t].op = "register"
    /\ sign[t].stage = "sent"
    /\ sign' = [sign EXCEPT ![t].stage = IF Registered = {} THEN "first" ELSE "later"]
    /\ overlapped' = (overlapped \/ Counting # {})
    /\ UNCHANGED <<roles, token, tab, check, disturbed, lost>>

\* Mutant: nobody is the first.
RoleOf_User(stage) == "user"

RoleOf(stage) == IF stage = "first" /\ BootstrapFirstUserAdmin THEN "admin" ELSE "user"

\* The email is unique.  The transaction may commit and its answer be lost.
CreateUser(t) ==
    /\ t \in Counting
    /\ sign[t].as \notin Registered
    /\ roles' = [roles EXCEPT ![sign[t].as] = RoleOf(sign[t].stage)]
    /\ \/ sign' = [sign EXCEPT ![t].stage = "created"]
       \/ sign' = [sign EXCEPT ![t] = NoCall]
    /\ UNCHANGED <<token, tab, check, disturbed, lost, overlapped>>

-----------------------------------------------------------------------------
(***************************************************************************)
(* The answers.                                                            *)
(***************************************************************************)

\* Mutant: the shell of the administrators takes everybody.
MeAnswered_AnyRole(t) ==
    /\ check[t] # None
    /\ tab' = [tab EXCEPT ![t].user = check[t]]
    /\ check' = [check EXCEPT ![t] = None]
    /\ UNCHANGED <<roles, token, sign, disturbed, lost, overlapped>>

TurnedAway(t) == tab[t].view = "admin" /\ roles[check[t]] # "admin"

MeAnswered(t) ==
    /\ check[t] # None
    /\ tab' = [tab EXCEPT ![t].user = check[t],
                          ![t].going = IF TurnedAway(t) THEN "dashboard" ELSE @]
    /\ check' = [check EXCEPT ![t] = None]
    /\ lost' = [lost EXCEPT ![t] = @ /\ ~TurnedAway(t)]
    /\ UNCHANGED <<roles, token, sign, disturbed, overlapped>>

\* Mutant: the loading screen stays when the account cannot be read.
MeRejected_Stay(t) ==
    /\ check[t] # None
    /\ token' = None
    /\ check' = [check EXCEPT ![t] = None]
    /\ disturbed' = Disturbing(Tabs \ {t})
    /\ UNCHANGED <<roles, tab, sign, lost, overlapped>>

\* The token has expired, or anything failed between the browser and the
\* database: the token goes, whoever's it is by now.
MeRejected(t) ==
    /\ check[t] # None
    /\ token' = None
    /\ tab' = [tab EXCEPT ![t].going = "login"]
    /\ check' = [check EXCEPT ![t] = None]
    /\ disturbed' = Disturbing(Tabs \ {t})
    /\ lost' = [lost EXCEPT ![t] = FALSE]
    /\ UNCHANGED <<roles, sign, overlapped>>

\* The continuation of the form, whether its page is still there or not.  On the
\* dashboard its redirect takes the place of one that leads out and mounts nothing.
SignedIn(t) ==
    /\ \/ sign[t].op = "login" /\ sign[t].as \in Registered
       \/ sign[t].stage = "created"
    /\ token' = sign[t].as
    /\ tab' = [tab EXCEPT ![t].going = "dashboard"]
    /\ sign' = [sign EXCEPT ![t] = NoCall]
    /\ disturbed' = Disturbing(Tabs)
    /\ lost' = [lost EXCEPT ![t] = tab[t].view = "dashboard" /\ (@ \/ WayOut(t))]
    /\ UNCHANGED <<roles, check, overlapped>>

\* A wrong password, an email that is taken, or a failure.
SignInRejected(t) ==
    /\ sign[t] # NoCall
    /\ sign' = [sign EXCEPT ![t] = NoCall]
    /\ UNCHANGED <<roles, token, tab, check, disturbed, lost, overlapped>>

Acted(t) ==
    \/ Navigate(t)
    \/ MoveWithin(t)
    \/ Logout(t)
    \/ \E a \in Accounts, op \in {"login", "register"} : Submit(t, op, a)

Answers(t) ==
    \/ CountUsers(t) \/ CreateUser(t)
    \/ MeAnswered(t) \/ MeRejected(t)
    \/ SignedIn(t) \/ SignInRejected(t)

Next == \E t \in Tabs : Acted(t) \/ Redirect(t) \/ Answers(t)

\* me() is answered or fails, and the router does what it is told.  Users do as
\* they like.
Fairness ==
    \A t \in Tabs : WF_vars(Redirect(t)) /\ WF_vars(MeAnswered(t) \/ MeRejected(t))

Spec == Init /\ [][Next]_vars
LiveSpec == Spec /\ Fairness

-----------------------------------------------------------------------------
Forms == [op : {"none", "login", "register"}, as : Accounts \cup {None},
          stage : {"none", "sent", "first", "later", "created"}]

(***************************************************************************)
(* Each variable has values of its type, and a tab that shows no shell has *)
(* neither a user nor a question who that is.                              *)
(***************************************************************************)
TypeOK ==
    /\ roles \in [Accounts -> Roles \cup {None}]
    /\ token \in Registered \cup {None}
    /\ tab \in [Tabs -> [view : Views, user : Accounts \cup {None}, going : Views \cup {None}]]
    /\ check \in [Tabs -> Registered \cup {None}]
    /\ sign \in [Tabs -> Forms]
    /\ disturbed \in [Tabs -> BOOLEAN]
    /\ lost \in [Tabs -> BOOLEAN]
    /\ overlapped \in BOOLEAN
    /\ \A t \in Tabs :
        /\ tab[t].user # None => tab[t].view \in Shells /\ tab[t].user \in Registered
        /\ check[t] # None => tab[t].view \in Shells /\ tab[t].user = None

\* The shell of the administrators shows somebody who is none.
Misplaced(t) ==
    tab[t].view = "admin" /\ tab[t].user # None /\ roles[tab[t].user] # "admin"

(***************************************************************************)
(* The shell of the administrators shows somebody else only while the      *)
(* redirect of AppShell.tsx:70 is under way, or one that replaced it and   *)
(* leads out too, whatever signs in, signs out or is answered late in this *)
(* tab or in another; or after a link inside the shell, or a step back,    *)
(* has taken the place of that redirect.  No other step keeps such an      *)
(* account there.                                                          *)
(***************************************************************************)
AdminShellGuarded ==
    \A t \in Tabs :
        Misplaced(t) => tab[t].going \in {"dashboard", "login"} \/ lost[t]

(***************************************************************************)
(* As long as nothing but the shell itself has changed the token, the      *)
(* calls of a page are made as the account whose name is above it, and     *)
(* never as another one: apiFetch reads the token at each call, the shell  *)
(* its account once.  They are made without a token only after signing     *)
(* out, on the way to the sign-in page, or after another navigation has    *)
(* taken the place of the one that leads there (AppShell.tsx:157).         *)
(***************************************************************************)
NameMatchesToken ==
    \A t \in Tabs :
        tab[t].user # None /\ ~disturbed[t] =>
            \/ token = tab[t].user
            \/ token = None /\ (tab[t].going = "login" \/ lost[t])

(***************************************************************************)
(* "First user can become admin if BOOTSTRAP_FIRST_USER_ADMIN=true"        *)
(* (docs/architecture/04_backend_implementation_spec.md:54): a system with *)
(* accounts has an administrator then, and registrations that do not       *)
(* overlap make no second one.  Two that do overlap may.                   *)
(***************************************************************************)
FirstIsAdmin ==
    BootstrapFirstUserAdmin =>
        /\ Registered # {} => \E a \in Registered : roles[a] = "admin"
        /\ ~overlapped => \A a, b \in Registered : roles[a] = "admin" /\ roles[b] = "admin" => a = b

\* The shell shows its loading screen, or its error, or an account that is no
\* administrator among the pages of administrators.
Unsettled(t) == tab[t].view \in Shells /\ (tab[t].user = None \/ Misplaced(t))

(***************************************************************************)
(* A tab settles: on a shell with the name of an account that may see it,  *)
(* or outside the shells, whatever fails, whatever other tabs do and       *)
(* however late a form is answered, unless it is led to other views, or    *)
(* loaded again, by its user for ever.  What can keep it from there is a   *)
(* redirect that is lost: to a link inside the shell, to a step back, or   *)
(* to the router.replace("/dashboard") of a form whose page was left for   *)
(* the dashboard.                                                          *)
(***************************************************************************)
ShellSettles ==
    \A t \in Tabs :
        <>[][~Navigate(t)]_vars => (Unsettled(t) ~> (~Unsettled(t) \/ lost[t]))
=============================================================================
