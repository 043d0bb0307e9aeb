-------------------------------- MODULE Session -------------------------------
(***************************************************************************)
(* Who the command center takes its user to be (lib/auth.ts, App.tsx,      *)
(* LoginPage.tsx, AuthGuard.tsx).  All pages of a browser share the token  *)
(* and the user in local storage, each keeps the user it shows, and every  *)
(* request is sent with the token that is stored at that time              *)
(* (apiClient.ts).  A page verifies its token once, when it is loaded, by  *)
(* a request that has no time limit and that nothing aborts.               *)
(***************************************************************************)
EXTENDS FiniteSets

CONSTANTS
  Screens,    \* bound: pages open at once
  Accounts,
  DemoMode,   \* VITE_DEMO_MODE: a login that reaches no backend is mocked
  Nobody

VARIABLES
  storage,    \* local storage: the account whose token it is, whether the
              \* token has not expired, and the user
  screens,    \* each page: the user it shows, the token it is verifying, the
              \* account it is logging in or registering
  mixed,      \* history: the stored user is one that a late answer put there
  aside       \* history: the pages that missed a change of the token

sessionVars == <<storage, screens, mixed, aside>>

Guest == "guest"  \* the mock user, with the token `mock.jwt.token`
GuestSession == [token |-> Guest, fresh |-> TRUE, user |-> Guest]
Cleared == [token |-> Nobody, fresh |-> FALSE, user |-> Nobody]
NewScreen == [user |-> Nobody, verifying |-> Nobody, entering |-> Nobody]

SessionInit ==
  /\ storage = Cleared
  /\ screens = [s \in Screens |-> NewScreen]
  /\ mixed = FALSE /\ aside = {}

(* isAuthenticated, which AuthGuard asks on every route of the console.    *)
IsAuthenticated == storage.token # Nobody /\ (storage.fresh \/ storage.token = Guest)

-------------------------------------------------------------------------------
(* The page is loaded, or loaded again: what it waited for is forgotten.   *)
LoadScreen(s) ==
  /\ screens' = [screens EXCEPT ![s] =
       IF ~IsAuthenticated THEN NewScreen
       ELSE [NewScreen EXCEPT !.user = storage.user,
                              !.verifying = IF storage.token = Guest THEN Nobody ELSE storage.token]]
  /\ aside' = IF mixed THEN aside \cup {s} ELSE aside \ {s}
  /\ UNCHANGED <<storage, mixed>>

(* apiGetMe answers: the user is shown, and stored whatever the token is   *)
(* now.                                                                    *)
Verified(s) ==
  /\ screens[s].verifying # Nobody
  /\ LET late == screens[s].verifying # storage.token IN
       /\ mixed' = late
       /\ aside' = IF late THEN aside \cup {s} ELSE aside \ {s}
  /\ screens' = [screens EXCEPT ![s].verifying = Nobody, ![s].user = screens[s].verifying]
  /\ storage' = [storage EXCEPT !.user = screens[s].verifying]

(* Page s, left entering e, replaces the session: the others are not told. *)
Replace(s, session, e) ==
  /\ storage' = session
  /\ screens' = [screens EXCEPT ![s].user = session.user, ![s].entering = e]
  /\ mixed' = FALSE
  /\ aside' = IF session.token = storage.token THEN aside \ {s}
              ELSE {r \in Screens \ {s} : r \in aside \/ screens[r].user # Nobody}

(* Mutant: a failed verification forgets the token, not the user shown.    *)
ForgetTokenOnly(s) ==
  /\ screens[s].verifying # Nobody
  /\ storage' = Cleared
  /\ screens' = [screens EXCEPT ![s].verifying = Nobody]
  /\ mixed' = FALSE
  /\ aside' = {r \in Screens \ {s} : screens[r].user # Nobody}

(* apiGetMe fails, for any reason: the page logs out, whoever is logged in *)
(* now.                                                                    *)
VerificationFails(s) ==
  /\ screens[s].verifying # Nobody
  /\ storage' = Cleared
  /\ screens' = [screens EXCEPT ![s].user = Nobody, ![s].verifying = Nobody]
  /\ mixed' = FALSE
  /\ aside' = {r \in Screens \ {s} : screens[r].user # Nobody}

Logout(s) ==
  /\ screens[s].entering = Nobody \/ screens[s].user # Nobody
  /\ Replace(s, Cleared, screens[s].entering)

(* handleLogin and handleRegister: the button is disabled meanwhile.       *)
(* Bound: one at a time, also once the page that sent it was left.         *)
SubmitLogin(s) ==
  /\ screens[s].entering = Nobody
  /\ \E a \in Accounts : screens' = [screens EXCEPT ![s].entering = a]
  /\ UNCHANGED <<storage, mixed, aside>>

LoggedIn(s) ==
  /\ screens[s].entering # Nobody
  /\ LET account == screens[s].entering
     IN  Replace(s, [token |-> account, fresh |-> TRUE, user |-> account], Nobody)

(* The backend is not reached.                                             *)
MockLogin(s) ==
  /\ DemoMode /\ screens[s].entering # Nobody
  /\ Replace(s, GuestSession, Nobody)

(* The guest button, which is not disabled while a login is in flight.     *)
EnterAsGuest(s) == Replace(s, GuestSession, screens[s].entering)

LoginFails(s) ==
  /\ screens[s].entering # Nobody
  /\ screens' = [screens EXCEPT ![s].entering = Nobody]
  /\ UNCHANGED <<storage, mixed, aside>>

TokenExpires ==
  /\ storage.fresh /\ storage.token # Guest
  /\ storage' = [storage EXCEPT !.fresh = FALSE]
  /\ UNCHANGED <<screens, mixed, aside>>

SessionNext ==
  \/ TokenExpires
  \/ \E s \in Screens :
       \/ LoadScreen(s) \/ Verified(s) \/ VerificationFails(s) \/ Logout(s)
       \/ SubmitLogin(s) \/ LoggedIn(s) \/ MockLogin(s) \/ EnterAsGuest(s)
       \/ LoginFails(s)

SessionSpec == SessionInit /\ [][SessionNext]_sessionVars

-------------------------------------------------------------------------------
Users == Accounts \cup {Guest, Nobody}
SessionTypeOK ==
  /\ storage \in [token : Users, fresh : BOOLEAN, user : Users]
  /\ screens \in [Screens -> [user : Users, verifying : Accounts \cup {Nobody},
                              entering : Accounts \cup {Nobody}]]
  /\ aside \subseteq Screens

(* App.tsx:75-93, lib/auth.ts:18-58, 137-150.  The user a page shows is    *)
(* the account its requests are made for, and so is the user another page  *)
(* would start with: unless the token was changed by another page, or the  *)
(* page's own verification was answered after it had logged out or in      *)
(* again, which nothing but the next load puts right.                      *)
ShownUserOwnsToken ==
  /\ ~mixed => storage.user = storage.token
  /\ \A s \in Screens \ aside : screens[s].user \in {Nobody, storage.token}
===============================================================================
