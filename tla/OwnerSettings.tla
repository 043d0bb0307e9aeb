---------------------------- MODULE OwnerSettings -----------------------------
(***************************************************************************)
(* An owner's trading switch, between the pages the owner has open         *)
(* (MyAgentPage.tsx) and the row the broker keeps (me.ts, preference-      *)
(* Service.ts).  The switch stands for the whole row of limits: a page     *)
(* sends it by itself (the Pause/Resume button) or in the form with all    *)
(* the others, as they were when the page last heard of them.              *)
(***************************************************************************)
EXTENDS Integers, FiniteSets, FiniteSetsExt

CONSTANTS
  Tabs,        \* bound: pages open at once
  MaxSent      \* bound: updates a page has under way

VARIABLES
  entitled,    \* the account is active and a microgrid was provisioned for it
  stored,      \* tradingEnabled of the tradingPreference row
  tabs,        \* the pages: the switch shown, and the one in the form
  updates,     \* PUT /api/me/preferences requests under way; latest: history
  unasked      \* history: trading was resumed by nobody's choice

settingsVars == <<entitled, stored, tabs, updates, unasked>>

(* shown and form are 0 for paused, 1 for trading, 2 while nothing is      *)
(* known.  History: whether what the page last heard is still the latest,  *)
(* whether the owner ticked the form's box, and whether two updates of the *)
(* page were under way at once.                                            *)
Unknown == 2
ClosedTab == [shown |-> Unknown, form |-> Unknown, latest |-> FALSE, ticked |-> FALSE, overlap |-> FALSE]

SettingsInit ==
  /\ entitled = FALSE
  /\ stored = 1  \* DEFAULT_PREFERENCES
  /\ tabs = [t \in Tabs |-> ClosedTab]
  /\ updates = {} /\ unasked = FALSE

(* Provisioning gives the owner a microgrid; an operator may deactivate    *)
(* and reactivate the account, in the database.                            *)
AccountChanges ==
  /\ entitled' = ~entitled
  /\ UNCHANGED <<stored, tabs, updates, unasked>>

-------------------------------------------------------------------------------
(* The page.                                                               *)
Sent(t) == {u \in updates : u.tab = t}
Awaited(t) == {u \in Sent(t) : u.awaited}

(* loadDashboardData: GET /preferences answers with the row, or it does    *)
(* not and nothing is known.                                               *)
OpenTab(t) ==
  /\ Sent(t) = {}
  /\ \/ /\ entitled
        /\ tabs' = [tabs EXCEPT ![t] = [ClosedTab EXCEPT !.shown = stored, !.form = stored,
                                                         !.latest = TRUE]]
     \/ tabs' = [tabs EXCEPT ![t] = ClosedTab]
  /\ UNCHANGED <<entitled, stored, updates, unasked>>

TickForm(t) ==
  /\ tabs[t].form # Unknown
  /\ tabs' = [tabs EXCEPT ![t].form = 1 - @, ![t].ticked = TRUE]
  /\ UNCHANGED <<entitled, stored, updates, unasked>>

Send(t, kind, enabled, asked) ==
  /\ tabs[t].shown # Unknown
  /\ Cardinality(Sent(t)) < MaxSent
  /\ updates' = updates \cup
       {[tab |-> t, n |-> Min((1 .. MaxSent) \ {u.n : u \in Sent(t)}), kind |-> kind,
         enabled |-> enabled, asked |-> asked, latest |-> tabs[t].latest, awaited |-> TRUE,
         step |-> "sent"]}
  /\ tabs' = [tabs EXCEPT ![t].overlap = @ \/ Awaited(t) # {}]
  /\ UNCHANGED <<entitled, stored, unasked>>

(* The button sends the opposite of what the page shows.                   *)
ToggleTrading(t) == Send(t, "toggle", 1 - tabs[t].shown, TRUE)

(* The form sends all it holds; its button is disabled while it saves.     *)
SavePreferences(t) ==
  /\ \A u \in Awaited(t) : u.kind # "save"
  /\ Send(t, "save", tabs[t].form, tabs[t].ticked)

(* Mutant: the button leaves the form alone.                               *)
HearWithoutForm(u) ==
  /\ u.step \in {"stored", "refused"} /\ u.awaited
  /\ updates' = updates \ {u}
  /\ tabs' = IF u.step = "refused" THEN tabs
             ELSE [tabs EXCEPT ![u.tab].shown = u.enabled, ![u.tab].latest = u.latest]
  /\ UNCHANGED <<entitled, stored, unasked>>

(* The reply.  Both show the row as it was stored; the button also puts    *)
(* its own value into the form.                                            *)
HearUpdate(u) ==
  /\ u.step \in {"stored", "refused"} /\ u.awaited
  /\ updates' = updates \ {u}
  /\ tabs' = IF u.step = "refused" THEN tabs
             ELSE LET shown == [tabs[u.tab] EXCEPT !.shown = u.enabled, !.latest = u.latest] IN
                  [tabs EXCEPT ![u.tab] =
                     IF u.kind = "toggle" THEN [shown EXCEPT !.form = u.enabled, !.ticked = FALSE]
                     ELSE shown]
  /\ UNCHANGED <<entitled, stored, unasked>>

(* The client gives up after ten seconds; the broker goes on.              *)
GiveUpUpdate(u) ==
  /\ u.awaited
  /\ updates' = (updates \ {u}) \cup IF u.step \in {"sent", "checked"}
                                     THEN {[u EXCEPT !.awaited = FALSE]} ELSE {}
  /\ UNCHANGED <<entitled, stored, tabs, unasked>>

-------------------------------------------------------------------------------
(* The broker.  Step(u, v): request u goes on as v, or is forgotten when   *)
(* nobody waits for its reply.                                             *)
Step(u, v) == updates' = (updates \ {u}) \cup IF v.awaited \/ v.step = "checked" THEN {v} ELSE {}

(* The account is active and the microgrid its owner's; or 401, 403, 400.  *)
CheckOwner(u) ==
  /\ u.step = "sent"
  /\ Step(u, [u EXCEPT !.step = IF entitled THEN "checked" ELSE "refused"])
  /\ UNCHANGED <<entitled, stored, tabs, unasked>>

(* The row and its audit event, in one transaction.                        *)
StoreUpdate(u) ==
  /\ u.step = "checked"
  /\ stored' = u.enabled
  /\ updates' = {[v EXCEPT !.latest = FALSE] : v \in updates \ {u}} \cup
                IF u.awaited THEN {[u EXCEPT !.step = "stored", !.latest = TRUE]} ELSE {}
  /\ tabs' = [t \in Tabs |-> [tabs[t] EXCEPT !.latest = FALSE]]
  /\ unasked' = (unasked \/ /\ stored = 0 /\ u.enabled = 1 /\ ~u.asked
                            /\ u.latest /\ ~tabs[u.tab].overlap)
  /\ UNCHANGED entitled

(* A value is invalid, or the transaction fails.                           *)
UpdateFails(u) ==
  /\ u.step \in {"sent", "checked"}
  /\ Step(u, [u EXCEPT !.step = "refused"])
  /\ UNCHANGED <<entitled, stored, tabs, unasked>>

SettingsNext ==
  \/ AccountChanges
  \/ \E t \in Tabs : OpenTab(t) \/ TickForm(t) \/ ToggleTrading(t) \/ SavePreferences(t)
  \/ \E u \in updates : \/ HearUpdate(u) \/ GiveUpUpdate(u)
                        \/ CheckOwner(u) \/ StoreUpdate(u) \/ UpdateFails(u)

SettingsSpec == SettingsInit /\ [][SettingsNext]_settingsVars

-------------------------------------------------------------------------------
SettingsTypeOK ==
  /\ stored \in 0 .. 1
  /\ \A t \in Tabs : tabs[t].shown \in 0 .. Unknown /\ tabs[t].form \in 0 .. Unknown
  /\ \A u \in updates : u.tab \in Tabs /\ u.step \in {"sent", "checked", "stored", "refused"}

(* MyAgentPage.tsx:93-149.  An owner's pause is undone by a form whose box *)
(* the owner did not tick only if the form's page had not heard of the     *)
(* latest change, or had two updates under way at once: the form is sent   *)
(* whole, so the button has to keep it in step with what it stores.        *)
PauseHolds == ~unasked
===============================================================================
