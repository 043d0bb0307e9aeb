---------------------------- MODULE ConsoleProofs ----------------------------
(***************************************************************************)
(* Theorems about the pages of the command center, each for its own        *)
(* specification: Session, ReviewPage, LiveFeed, OraclePage, OwnerSettings *)
(* and OwnerPages, for any number of pages, accounts, requests in flight   *)
(* and packets on their way; and about what an owner is told of the        *)
(* owner's deals, Explanations, for any history of them.                   *)
(***************************************************************************)
EXTENDS Session, ReviewPage, LiveFeed, OraclePage, OwnerSettings, OwnerPages, Explanations,
        SequenceTheorems, FiniteSetTheorems, WellFoundedInduction, NaturalsInduction, TLAPS

(***************************************************************************)
(* Session.  ShownUserOwnsToken is inductive with the types.               *)
(***************************************************************************)
SessionInv == SessionTypeOK /\ mixed \in BOOLEAN /\ ShownUserOwnsToken

(***************************************************************************)
(* ReviewPage.  What the dialog asks about stays on the page while the     *)
(* dialog is open, if no inspection was in flight when it was opened: none *)
(* is asked for under it.                                                  *)
(***************************************************************************)
Inspection == [app : Applications, by : {"table", "handler"}]
ReviewInv ==
  /\ ReviewTypeOK
  /\ inspections \in Seq(Inspection)
  /\ dialog # "NONE" => inspected # Closed
  /\ dialog # "NONE" /\ pressed # NoApplication =>
       inspections = <<>> /\ inspected.app = pressed /\ dialog \in Offered(inspected.status)
  /\ review.step = "sent" => dialog # "NONE" /\ review.app \in Applications
  /\ ReviewIsOfPressed

(***************************************************************************)
(* LiveFeed.  The packets on their way to a page say what its client will  *)
(* be once they are heard; the rooms of an open link cover the active      *)
(* negotiations; and what is owed is kept or on its way.                   *)
(***************************************************************************)
Packet == [kind : {"connect", "disconnect"}]
          \cup [kind : {"event"}, talk : Talks, n : 1 .. MaxEvents]
OnTheWay(t) ==
  {packets[i].n : i \in {j \in 1 .. Len(packets) : packets[j].kind = "event" /\ packets[j].talk = t}}
FeedTyped ==
  /\ FeedTypeOK
  /\ link \in [open : BOOLEAN, rooms : SUBSET Talks]
  /\ packets \in Seq(Packet)
  /\ client \in [state : {"connecting", "connected", "disconnected", "destroyed"}, timer : BOOLEAN]
  /\ feed \in [Talks -> SUBSET (1 .. MaxEvents)] /\ owed \in [Talks -> SUBSET (1 .. MaxEvents)]
ClientFollows ==
  /\ client.timer <=> client.state = "disconnected"
  /\ link.open =>
       /\ \A i \in 1 .. Len(packets) : packets[i].kind = "event" \/ (i = 1 /\ packets[1].kind = "connect")
       /\ IF packets # <<>> /\ packets[1].kind = "connect" THEN client.state = "connecting"
          ELSE client.state = "connected"
  /\ ~link.open =>
       /\ link.rooms = {} /\ packets \in {<<>>, Farewell}
       /\ packets = <<>> => client.state # "connected"
OwedIsCovered ==
  link.open => \A t \in Talks : /\ talks[t].status = "active" => t \in link.rooms
                                /\ owed[t] \subseteq feed[t] \cup OnTheWay(t)
FeedInv == FeedTyped /\ ClientFollows /\ OwedIsCovered

(***************************************************************************)
(* OraclePage.  While list requests are in flight, the latest is for the   *)
(* filter that is selected.                                                *)
(***************************************************************************)
ViewInv ==
  /\ view \in [filter : Filters, list : Filters \cup {"none"}]
  /\ fetches \in Seq(Filters) /\ Len(fetches) <= MaxFetches
  /\ handlers \in Seq(Filters) /\ Len(handlers) <= MaxChanges
  /\ crossed \in BOOLEAN /\ behind \in BOOLEAN
  /\ ~crossed /\ ~behind =>
       view.filter = IF fetches = <<>> THEN view.list ELSE fetches[Len(fetches)]

(***************************************************************************)
(* OwnerSettings.  A page that is up to date, and whose owner ticked       *)
(* nothing, holds the stored switch in its form, and so does every update  *)
(* it sent unasked.                                                        *)
(***************************************************************************)
UpdateRecord ==
  [tab : Tabs, n : {Min(S) : S \in SUBSET (1 .. MaxSent)}, kind : {"toggle", "save"},
   enabled : 0 .. 1, asked : BOOLEAN, latest : BOOLEAN, awaited : BOOLEAN,
   step : {"sent", "checked", "stored", "refused"}]
TabRecord == [shown : 0 .. Unknown, form : 0 .. Unknown, latest : BOOLEAN, ticked : BOOLEAN,
              overlap : BOOLEAN]
SettingsTyped ==
  /\ entitled \in BOOLEAN /\ stored \in 0 .. 1 /\ unasked \in BOOLEAN
  /\ tabs \in [Tabs -> TabRecord] /\ updates \subseteq UpdateRecord
TabOK(t) ==
  /\ tabs[t].shown = Unknown <=> tabs[t].form = Unknown
  /\ tabs[t].latest /\ ~tabs[t].ticked /\ ~tabs[t].overlap => tabs[t].form = stored
UpdateOK(u) ==
  /\ tabs[u.tab].shown # Unknown
  /\ u.step = "stored" /\ u.latest => u.enabled = stored
  /\ u.step \in {"sent", "checked"} /\ u.latest /\ ~u.asked /\ ~tabs[u.tab].overlap =>
       u.enabled = stored
  /\ u.kind = "save" /\ u.awaited /\ ~tabs[u.tab].ticked /\ ~tabs[u.tab].overlap =>
       tabs[u.tab].form = u.enabled
OneAwaited ==
  \A u, v \in updates :
    u.awaited /\ v.awaited /\ u.tab = v.tab /\ ~tabs[u.tab].overlap => u = v
SettingsInv ==
  /\ SettingsTyped /\ ~unasked /\ OneAwaited
  /\ \A t \in Tabs : TabOK(t)
  /\ \A u \in updates : UpdateOK(u)
-------------------------------------------------------------------------------
(***************************************************************************)
(* Session.                                                                *)
(***************************************************************************)
ScreenRecord == [user : Users, verifying : Accounts \cup {Nobody},
                 entering : Accounts \cup {Nobody}]
StorageRecord == [token : Users, fresh : BOOLEAN, user : Users]

LEMMA SessionInvInit == SessionInit => SessionInv
<1> SUFFICES ASSUME SessionInit PROVE SessionInv
  OBVIOUS
<1>1. SessionTypeOK
  BY DEF SessionInit, SessionTypeOK, Cleared, NewScreen, Users
<1>2. ShownUserOwnsToken /\ mixed \in BOOLEAN
  BY DEF SessionInit, ShownUserOwnsToken, Cleared, NewScreen
<1> QED
  BY <1>1, <1>2 DEF SessionInv

LEMMA SessionTyped ==
  ASSUME SessionInv
  PROVE  /\ storage \in StorageRecord /\ screens \in [Screens -> ScreenRecord]
         /\ aside \subseteq Screens /\ mixed \in BOOLEAN
BY DEF SessionInv, SessionTypeOK, StorageRecord, ScreenRecord

(***************************************************************************)
(* A page that replaces the session, by a login or a logout.               *)
(***************************************************************************)
LEMMA ReplaceKeeps ==
  ASSUME SessionInv, NEW s \in Screens, NEW u \in Users, NEW fresh \in BOOLEAN,
         NEW e \in Accounts \cup {Nobody},
         Replace(s, [token |-> u, fresh |-> fresh, user |-> u], e)
  PROVE  SessionInv'
<1>1. /\ storage' \in StorageRecord /\ storage'.token = u /\ storage'.user = u /\ mixed' = FALSE
  BY DEF Replace, StorageRecord
<1>2. screens' = [screens EXCEPT ![s].user = u, ![s].entering = e]
  BY DEF Replace
<1>3. screens' \in [Screens -> ScreenRecord]
  BY <1>2, SessionTyped DEF ScreenRecord
<1>4. screens'[s].user = u /\ \A r \in Screens \ {s} : screens'[r] = screens[r]
  BY <1>2, SessionTyped DEF ScreenRecord
<1>5. aside' = IF u = storage.token THEN aside \ {s}
               ELSE {r \in Screens \ {s} : r \in aside \/ screens[r].user # Nobody}
  BY DEF Replace
<1>6. \A r \in Screens \ aside' : screens'[r].user \in {Nobody, storage'.token}
  BY <1>1, <1>4, <1>5 DEF SessionInv, ShownUserOwnsToken
<1> QED
  BY <1>1, <1>3, <1>5, <1>6, SessionTyped
     DEF SessionInv, SessionTypeOK, ShownUserOwnsToken, StorageRecord, ScreenRecord

(***************************************************************************)
(* The verification of a page's token.                                     *)
(***************************************************************************)
LEMMA VerifiedKeeps ==
  ASSUME SessionInv, NEW s \in Screens, Verified(s)
  PROVE  SessionInv'
<1>1. PICK a \in Accounts : a = screens[s].verifying
  BY SessionTyped DEF Verified, ScreenRecord
<1>2. screens' = [screens EXCEPT ![s].verifying = Nobody, ![s].user = a]
  BY <1>1 DEF Verified
<1>3. storage' = [storage EXCEPT !.user = a]
  BY <1>1 DEF Verified
<1>4. /\ mixed' = (a # storage.token)
      /\ aside' = IF a # storage.token THEN aside \cup {s} ELSE aside \ {s}
  BY <1>1 DEF Verified
<1>5. screens' \in [Screens -> ScreenRecord] /\ screens'[s].user = a
      /\ \A r \in Screens \ {s} : screens'[r] = screens[r]
  BY <1>2, SessionTyped DEF ScreenRecord, Users
<1>6. storage' \in StorageRecord /\ storage'.user = a /\ storage'.token = storage.token
  BY <1>3, SessionTyped DEF StorageRecord, Users
<1>7. ShownUserOwnsToken'
  BY <1>4, <1>5, <1>6 DEF SessionInv, ShownUserOwnsToken
<1> QED
  BY <1>4, <1>5, <1>6, <1>7, SessionTyped DEF SessionInv, SessionTypeOK, StorageRecord, ScreenRecord

LEMMA VerificationFailsKeeps ==
  ASSUME SessionInv, NEW s \in Screens, VerificationFails(s)
  PROVE  SessionInv'
<1>1. storage' \in StorageRecord /\ storage'.user = Nobody /\ storage'.token = Nobody
  BY DEF VerificationFails, Cleared, StorageRecord, Users
<1>2. screens' = [screens EXCEPT ![s].user = Nobody, ![s].verifying = Nobody]
  BY DEF VerificationFails
<1>3. screens' \in [Screens -> ScreenRecord] /\ screens'[s].user = Nobody
      /\ \A r \in Screens \ {s} : screens'[r] = screens[r]
  BY <1>2, SessionTyped DEF ScreenRecord, Users
<1>4. aside' = {r \in Screens \ {s} : screens[r].user # Nobody} /\ mixed' = FALSE
  BY DEF VerificationFails
<1>5. ShownUserOwnsToken'
  BY <1>1, <1>3, <1>4 DEF ShownUserOwnsToken
<1> QED
  BY <1>1, <1>3, <1>4, <1>5 DEF SessionInv, SessionTypeOK, StorageRecord, ScreenRecord

LEMMA LoadScreenKeeps ==
  ASSUME SessionInv, NEW s \in Screens, LoadScreen(s)
  PROVE  SessionInv'
<1>1. PICK page : page = IF ~IsAuthenticated THEN NewScreen
        ELSE [NewScreen EXCEPT !.user = storage.user,
                               !.verifying = IF storage.token = Guest THEN Nobody ELSE storage.token]
  OBVIOUS
<1>2. page \in ScreenRecord /\ page.user \in {Nobody, storage.user}
  BY <1>1, SessionTyped DEF NewScreen, ScreenRecord, StorageRecord, Users
<1>3. screens' = [screens EXCEPT ![s] = page]
  BY <1>1 DEF LoadScreen
<1>4. screens' \in [Screens -> ScreenRecord] /\ screens'[s] = page
      /\ \A r \in Screens \ {s} : screens'[r] = screens[r]
  BY <1>2, <1>3, SessionTyped
<1>5. /\ aside' = IF mixed THEN aside \cup {s} ELSE aside \ {s}
      /\ UNCHANGED <<storage, mixed>>
  BY DEF LoadScreen
<1>6. ShownUserOwnsToken'
  BY <1>2, <1>4, <1>5 DEF SessionInv, ShownUserOwnsToken
<1> QED
  BY <1>4, <1>5, <1>6, SessionTyped DEF SessionInv, SessionTypeOK, ScreenRecord

LEMMA EnteringKeeps ==
  ASSUME SessionInv, NEW s \in Screens, NEW a \in Accounts \cup {Nobody},
         screens' = [screens EXCEPT ![s].entering = a], UNCHANGED <<storage, mixed, aside>>
  PROVE  SessionInv'
<1>1. screens' \in [Screens -> ScreenRecord] /\ \A r \in Screens : screens'[r].user = screens[r].user
  BY SessionTyped DEF ScreenRecord
<1> QED
  BY <1>1, SessionTyped DEF SessionInv, SessionTypeOK, ShownUserOwnsToken, ScreenRecord

LEMMA SessionStep == SessionInv /\ [SessionNext]_sessionVars => SessionInv'
<1> SUFFICES ASSUME SessionInv, [SessionNext]_sessionVars PROVE SessionInv'
  OBVIOUS
<1>1. CASE TokenExpires
  <2>1. /\ storage' \in StorageRecord /\ storage'.user = storage.user
        /\ storage'.token = storage.token /\ UNCHANGED <<screens, mixed, aside>>
    BY <1>1, SessionTyped DEF TokenExpires, StorageRecord
  <2> QED
    BY <2>1 DEF SessionInv, SessionTypeOK, ShownUserOwnsToken, StorageRecord
<1>2. ASSUME NEW s \in Screens,
             \/ LoadScreen(s) \/ Verified(s) \/ VerificationFails(s) \/ Logout(s)
             \/ SubmitLogin(s) \/ LoggedIn(s) \/ MockLogin(s) \/ EnterAsGuest(s)
             \/ LoginFails(s)
      PROVE  SessionInv'
  <2>1. Nobody \in Users /\ Guest \in Users /\ Accounts \subseteq Users
    BY DEF Users
  <2>2. screens[s].entering \in Accounts \cup {Nobody}
    BY SessionTyped DEF ScreenRecord
  <2>3. CASE LoadScreen(s) \/ Verified(s) \/ VerificationFails(s)
    BY <2>3, LoadScreenKeeps, VerifiedKeeps, VerificationFailsKeeps
  <2>4. CASE Logout(s)
    BY <2>1, <2>2, <2>4, ReplaceKeeps DEF Logout, Cleared
  <2>5. CASE SubmitLogin(s)
    BY <2>5, EnteringKeeps DEF SubmitLogin
  <2>6. CASE LoggedIn(s)
    BY <2>1, <2>2, <2>6, ReplaceKeeps DEF LoggedIn
  <2>7. CASE MockLogin(s) \/ EnterAsGuest(s)
    BY <2>1, <2>2, <2>7, ReplaceKeeps DEF MockLogin, EnterAsGuest, GuestSession
  <2>8. CASE LoginFails(s)
    BY <2>8, EnteringKeeps DEF LoginFails
  <2> QED
    BY <1>2, <2>3, <2>4, <2>5, <2>6, <2>7, <2>8
<1>3. CASE UNCHANGED sessionVars
  BY <1>3 DEF SessionInv, SessionTypeOK, ShownUserOwnsToken, sessionVars
<1> QED
  BY <1>1, <1>2, <1>3 DEF SessionNext

(***************************************************************************)
(* App.tsx:75-93, lib/auth.ts:18-58, 137-150.  The user a page shows is    *)
(* the one its requests are made for, through logins, logouts, failed and  *)
(* late verifications of any number of pages, but for the two ways in      *)
(* which a page can miss a change of the token.                            *)
(***************************************************************************)
THEOREM ShownUsersOwnTheToken == SessionSpec => []ShownUserOwnsToken
<1>1. SessionInv => ShownUserOwnsToken
  BY DEF SessionInv
<1> QED
  BY <1>1, SessionInvInit, SessionStep, PTL DEF SessionSpec

(* Tokens and users are those of accounts, a guest or nobody.              *)
THEOREM SessionsTyped == SessionSpec => []SessionTypeOK
<1>1. SessionInv => SessionTypeOK
  BY DEF SessionInv
<1> QED
  BY <1>1, SessionInvInit, SessionStep, PTL DEF SessionSpec
-------------------------------------------------------------------------------
(***************************************************************************)
(* What RemoveAt leaves of a sequence.                                     *)
(***************************************************************************)
LEMMA RemoveAtKeeps ==
  ASSUME NEW S, NEW s \in Seq(S), NEW i \in DOMAIN s
  PROVE  /\ i \in 1 .. Len(s) /\ Len(s) \in Nat
         /\ RemoveAt(s, i) \in Seq(S) /\ Len(RemoveAt(s, i)) = Len(s) - 1
         /\ i < Len(s) => RemoveAt(s, i)[Len(s) - 1] = s[Len(s)]
<1>1. i \in 1 .. Len(s) /\ Len(s) \in Nat /\ \A k \in 1 .. Len(s) : s[k] \in S
  OBVIOUS
<1>2. PICK before : before = SubSeq(s, 1, i - 1)
  OBVIOUS
<1>3. PICK after : after = SubSeq(s, i + 1, Len(s))
  OBVIOUS
<1>4. before \in Seq(S) /\ Len(before) = i - 1
  <2>1. 1 \in Int /\ i - 1 \in Int /\ \A k \in 1 .. i - 1 : s[k] \in S
    BY <1>1
  <2> QED
    BY <1>1, <1>2, <2>1, SubSeqProperties
<1>5. /\ after \in Seq(S) /\ Len(after) = Len(s) - i
      /\ i < Len(s) => after[Len(s) - i] = s[Len(s)]
  <2>1. i + 1 \in Int /\ Len(s) \in Int /\ \A k \in i + 1 .. Len(s) : s[k] \in S
    BY <1>1
  <2>2. /\ after \in Seq(S) /\ Len(after) = IF i + 1 <= Len(s) THEN Len(s) - (i + 1) + 1 ELSE 0
        /\ \A k \in 1 .. Len(s) - (i + 1) + 1 : after[k] = s[i + 1 + k - 1]
    BY <1>3, <2>1, SubSeqProperties
  <2>3. PICK n \in Nat : n = Len(s)
    BY <1>1
  <2>4. i \in 1 .. n /\ Len(after) = n - i
    BY <1>1, <2>2, <2>3
  <2>5. ASSUME i < n PROVE after[n - i] = s[n]
    <3>1. n - i \in 1 .. n - (i + 1) + 1 /\ i + 1 + (n - i) - 1 = n
      BY <2>4, <2>5
    <3> QED
      BY <2>2, <2>3, <3>1
  <2> QED
    BY <2>2, <2>3, <2>4, <2>5
<1>6. PICK rest : rest = RemoveAt(s, i)
  OBVIOUS
<1>7. rest = before \o after
  BY <1>2, <1>3, <1>6 DEF RemoveAt
<1>8. /\ rest \in Seq(S) /\ Len(rest) = Len(before) + Len(after)
      /\ \A k \in 1 .. Len(before) + Len(after) :
           rest[k] = IF k <= Len(before) THEN before[k] ELSE after[k - Len(before)]
  BY <1>4, <1>5, <1>7, ConcatProperties
<1>9. i < Len(s) => rest[Len(s) - 1] = s[Len(s)]
  <2> SUFFICES ASSUME i < Len(s) PROVE rest[Len(s) - 1] = s[Len(s)]
    OBVIOUS
  <2>1. /\ Len(s) - 1 \in 1 .. Len(before) + Len(after) /\ ~(Len(s) - 1 <= Len(before))
        /\ Len(s) - 1 - Len(before) = Len(s) - i
    BY <1>1, <1>4, <1>5
  <2> QED
    BY <1>5, <1>8, <2>1
<1> QED
  BY <1>1, <1>4, <1>5, <1>6, <1>8, <1>9

(***************************************************************************)
(* ReviewPage.                                                             *)
(***************************************************************************)
LEMMA ReviewInvInit == ReviewInit => ReviewInv
BY DEF ReviewInit, ReviewInv, ReviewTypeOK, ReviewIsOfPressed, Closed, Resting

LEMMA ReviewStep == ReviewInv /\ [ReviewNext]_reviewVars => ReviewInv'
<1> SUFFICES ASSUME ReviewInv, [ReviewNext]_reviewVars PROVE ReviewInv'
  OBVIOUS
<1> USE DEF ReviewInv, ReviewTypeOK
<1>1. ASSUME NEW a \in Applications, Inspect(a) PROVE ReviewInv'
  BY <1>1 DEF Inspect, Inspection, ReviewIsOfPressed
<1>2. CASE CloseInspection
  BY <1>2 DEF CloseInspection, ReviewIsOfPressed
<1>3. CASE HearInspection
  <2>1. PICK i \in DOMAIN inspections :
          /\ inspections' = RemoveAt(inspections, i)
          /\ inspected' \in {inspected} \cup [app : {inspections[i].app}, status : Statuses]
          /\ review' = IF inspections[i].by = "handler"
                       THEN [review EXCEPT !.step = "listing"] ELSE review
    BY <1>3 DEF HearInspection
  <2>2. inspections' \in Seq(Inspection) /\ inspections # <<>> /\ inspections[i].app \in Applications
    <3>1. inspections \in Seq(Inspection) /\ i \in 1 .. Len(inspections)
      OBVIOUS
    <3>2. inspections' \in Seq(Inspection)
      BY <2>1, <3>1, RemoveAtKeeps
    <3>3. inspections # <<>> /\ inspections[i] \in Inspection
      BY <3>1
    <3> QED
      BY <3>2, <3>3 DEF Inspection
  <2>3. /\ inspected' \in [app : Applications, status : Statuses] \cup {Closed}
        /\ inspected # Closed => inspected' # Closed
    BY <2>1, <2>2 DEF Closed, Statuses
  <2>4. review' = review \/ review'.step = "listing"
    BY <2>1
  <2> QED
    BY <1>3, <2>2, <2>3, <2>4 DEF HearInspection, ReviewIsOfPressed
<1>4. CASE PressAction
  BY <1>4 DEF PressAction, Offered, Statuses, Closed, ReviewIsOfPressed
<1>5. CASE CancelDialog
  BY <1>5 DEF CancelDialog, ReviewIsOfPressed
<1>6. CASE ConfirmReview
  BY <1>6 DEF ConfirmReview, ReviewIsOfPressed
<1>7. CASE ReviewSucceeds
  BY <1>7 DEF ReviewSucceeds, Inspection, ReviewIsOfPressed
<1>8. CASE ReviewFails
  BY <1>8 DEF ReviewFails, Resting, ReviewIsOfPressed
<1>9. CASE EndReview
  BY <1>9 DEF EndReview, Resting, ReviewIsOfPressed
<1>10. CASE UNCHANGED reviewVars
  BY <1>10 DEF reviewVars, ReviewIsOfPressed
<1> QED
  BY <1>1, <1>2, <1>3, <1>4, <1>5, <1>6, <1>7, <1>8, <1>9, <1>10 DEF ReviewNext

(***************************************************************************)
(* AdminOnboardingPage.tsx:70-119, 490-553.  A review is of the            *)
(* application whose button was pressed and is one its status offers,      *)
(* however inspections are answered, if none was in flight at the press.   *)
(***************************************************************************)
THEOREM ReviewsAreOfThePressed == ReviewSpec => []ReviewIsOfPressed
<1>1. ReviewInv => ReviewIsOfPressed
  BY DEF ReviewInv
<1> QED
  BY <1>1, ReviewInvInit, ReviewStep, PTL DEF ReviewSpec

(* The dialog asks only what is offered for some status.                   *)
THEOREM ReviewsTyped == ReviewSpec => []ReviewTypeOK
<1>1. ReviewInv => ReviewTypeOK
  BY DEF ReviewInv
<1> QED
  BY <1>1, ReviewInvInit, ReviewStep, PTL DEF ReviewSpec
-------------------------------------------------------------------------------
(***************************************************************************)
(* OraclePage.                                                             *)
(***************************************************************************)
LEMMA ViewInvInit == ViewInit => ViewInv
<1> SUFFICES ASSUME ViewInit PROVE ViewInv
  OBVIOUS
<1>1. fetches = <<"all">> /\ handlers = <<>> /\ crossed = FALSE /\ behind = FALSE
  BY DEF ViewInit
<1>2. fetches \in Seq(Filters) /\ Len(fetches) = 1 /\ fetches[1] = "all" /\ fetches # <<>>
  BY <1>1, ViewAssumption
<1>3. handlers \in Seq(Filters) /\ Len(handlers) = 0
  BY <1>1
<1>4. /\ view \in [filter : Filters, list : Filters \cup {"none"}] /\ view.filter = "all"
      /\ 1 <= MaxFetches /\ 0 <= MaxChanges
  BY ViewAssumption DEF ViewInit
<1> QED
  BY <1>1, <1>2, <1>3, <1>4 DEF ViewInv

LEMMA FetchSourcesKeeps ==
  ASSUME ViewInv, NEW f \in Filters, FetchSources(f), view'.filter \in Filters,
         view' \in [filter : Filters, list : Filters \cup {"none"}],
         handlers' \in Seq(Filters), Len(handlers') <= MaxChanges, UNCHANGED crossed
  PROVE  ViewInv'
<1>1. fetches' \in Seq(Filters) /\ Len(fetches') = Len(fetches) + 1 /\ fetches'[Len(fetches')] = f
  BY DEF ViewInv, FetchSources
<1>2. Len(fetches') <= MaxFetches /\ fetches' # <<>>
  <2>1. Len(fetches) \in Nat /\ Len(fetches) < MaxFetches
    BY DEF ViewInv, FetchSources
  <2>2. Len(fetches') <= MaxFetches /\ Len(fetches') # 0
    BY <1>1, <2>1, ViewAssumption
  <2> QED
    BY <2>2
<1>3. behind' = (f # view'.filter)
  BY DEF FetchSources
<1> QED
  BY <1>1, <1>2, <1>3 DEF ViewInv

LEMMA ViewStep == ViewInv /\ [ViewNext]_viewVars => ViewInv'
<1> SUFFICES ASSUME ViewInv, [ViewNext]_viewVars PROVE ViewInv'
  OBVIOUS
<1>1. CASE ChangeFilter
  <2>1. PICK f \in Filters : view' = [view EXCEPT !.filter = f] /\ FetchSources(f)
    BY <1>1 DEF ChangeFilter
  <2>2. view' \in [filter : Filters, list : Filters \cup {"none"}]
    BY <2>1 DEF ViewInv
  <2> QED
    BY <1>1, <2>1, <2>2, FetchSourcesKeeps DEF ViewInv, ChangeFilter
<1>2. CASE ListArrives
  <2>1. PICK i \in DOMAIN fetches :
          /\ fetches' = RemoveAt(fetches, i)
          /\ \/ /\ view' = [view EXCEPT !.list = fetches[i]]
                /\ crossed' = (crossed \/ i > 1)
                /\ UNCHANGED behind
             \/ /\ behind' = (behind \/ i = Len(fetches))
                /\ UNCHANGED <<view, crossed>>
    BY <1>2 DEF ListArrives
  <2>2. /\ i \in 1 .. Len(fetches) /\ Len(fetches) \in Nat /\ fetches[i] \in Filters
        /\ fetches' \in Seq(Filters) /\ Len(fetches') = Len(fetches) - 1
        /\ i < Len(fetches) => fetches'[Len(fetches')] = fetches[Len(fetches)]
    BY <2>1, RemoveAtKeeps, SMTT(30) DEF ViewInv
  <2>3. UNCHANGED handlers /\ fetches # <<>> /\ (fetches' = <<>> <=> Len(fetches) = 1)
    BY <1>2, <2>2 DEF ListArrives
  <2>4. Len(fetches') <= MaxFetches
    BY <2>2, ViewAssumption DEF ViewInv
  <2>5. CASE /\ view' = [view EXCEPT !.list = fetches[i]]
             /\ crossed' = (crossed \/ i > 1) /\ UNCHANGED behind
    <3>1. /\ view' \in [filter : Filters, list : Filters \cup {"none"}]
          /\ view'.list = fetches[i] /\ view'.filter = view.filter
      BY <2>2, <2>5 DEF ViewInv
    <3>2. crossed' \in BOOLEAN /\ (~crossed' => ~crossed /\ i = 1)
      <4>1. crossed \in BOOLEAN /\ (i > 1 \/ i = 1)
        BY <2>2 DEF ViewInv
      <4> QED
        BY <2>5, <4>1, Zenon
    <3>3. ~crossed' /\ ~behind' =>
            view'.filter = IF fetches' = <<>> THEN view'.list ELSE fetches'[Len(fetches')]
      BY <2>2, <2>3, <2>5, <3>1, <3>2 DEF ViewInv
    <3> QED
      BY <2>2, <2>3, <2>4, <2>5, <3>1, <3>2, <3>3 DEF ViewInv
  <2>6. CASE behind' = (behind \/ i = Len(fetches)) /\ UNCHANGED <<view, crossed>>
    <3>1. behind' \in BOOLEAN /\ (~behind' => ~behind /\ i < Len(fetches))
      <4>1. behind \in BOOLEAN /\ (i = Len(fetches) \/ i < Len(fetches))
        BY <2>2 DEF ViewInv
      <4> QED
        BY <2>6, <4>1, Zenon
    <3>2. ~crossed' /\ ~behind' =>
            view'.filter = IF fetches' = <<>> THEN view'.list ELSE fetches'[Len(fetches')]
      BY <2>2, <2>3, <2>6, <3>1 DEF ViewInv
    <3> QED
      BY <2>2, <2>3, <2>4, <2>6, <3>1, <3>2 DEF ViewInv
  <2> QED
    BY <2>1, <2>5, <2>6
<1>3. CASE PressButton
  <2>1. handlers' \in Seq(Filters) /\ Len(handlers') <= MaxChanges
    BY <1>3, ViewAssumption DEF PressButton, ViewInv
  <2> QED
    BY <1>3, <2>1 DEF PressButton, ViewInv
<1>4. CASE HearReply
  <2>1. PICK i \in DOMAIN handlers :
          /\ handlers' = RemoveAt(handlers, i)
          /\ FetchSources(handlers[i]) \/ UNCHANGED <<fetches, behind>>
    BY <1>4 DEF HearReply
  <2>2. handlers[i] \in Filters /\ handlers' \in Seq(Filters) /\ Len(handlers') <= MaxChanges
    BY <2>1, RemoveAtKeeps, ViewAssumption DEF ViewInv
  <2>3. UNCHANGED <<view, crossed>>
    BY <1>4 DEF HearReply
  <2>4. CASE FetchSources(handlers[i])
    BY <2>2, <2>3, <2>4, FetchSourcesKeeps DEF ViewInv
  <2>5. CASE UNCHANGED <<fetches, behind>>
    BY <2>2, <2>3, <2>5 DEF ViewInv
  <2> QED
    BY <2>1, <2>4, <2>5
<1>5. CASE UNCHANGED viewVars
  BY <1>5 DEF viewVars, ViewInv
<1> QED
  BY <1>1, <1>2, <1>3, <1>4, <1>5 DEF ViewNext

(***************************************************************************)
(* AdminOraclePage.tsx:76-114, 203, 224, 242.  A page at rest shows the    *)
(* list of the filter it has selected, whatever was asked for and answered *)
(* before, but for the three ways out that the property names.             *)
(***************************************************************************)
THEOREM ListsMatchTheFilter == ViewSpec => []ListMatchesFilter
<1>1. ViewInv => ListMatchesFilter
  BY DEF ViewInv, ListMatchesFilter
<1> QED
  BY <1>1, ViewInvInit, ViewStep, PTL DEF ViewSpec

(* Lists, requests and handlers are for filters of the page.               *)
THEOREM ViewsTyped == ViewSpec => []ViewTypeOK
<1>1. ViewInv => ViewTypeOK
  <2> SUFFICES ASSUME ViewInv PROVE ViewTypeOK
    OBVIOUS
  <2>1. \A s \in Seq(Filters) : Range(s) \subseteq Filters
    BY DEF Range
  <2> QED
    BY <2>1 DEF ViewInv, ViewTypeOK
<1> QED
  BY <1>1, ViewInvInit, ViewStep, PTL DEF ViewSpec
-------------------------------------------------------------------------------
(***************************************************************************)
(* LiveFeed.                                                               *)
(***************************************************************************)
ClientRecord == [state : {"connecting", "connected", "disconnected", "destroyed"},
                 timer : BOOLEAN]
TalkRecord == [status : {"none", "active", "gone"}, events : 0 .. MaxEvents]

LEMMA FeedKnown ==
  ASSUME FeedInv
  PROVE  /\ talks \in [Talks -> TalkRecord]
         /\ link \in [open : BOOLEAN, rooms : SUBSET Talks]
         /\ packets \in Seq(Packet) /\ Len(packets) <= MaxPackets
         /\ client \in ClientRecord
         /\ feed \in [Talks -> SUBSET (1 .. MaxEvents)]
         /\ owed \in [Talks -> SUBSET (1 .. MaxEvents)]
BY DEF FeedInv, FeedTyped, FeedTypeOK, ClientRecord, TalkRecord

LEMMA FeedInvInit == FeedInit => FeedInv
<1> SUFFICES ASSUME FeedInit PROVE FeedInv
  OBVIOUS
<1>1. /\ talks \in [Talks -> TalkRecord] /\ client \in ClientRecord
      /\ feed \in [Talks -> SUBSET (1 .. MaxEvents)] /\ owed \in [Talks -> SUBSET (1 .. MaxEvents)]
      /\ client.state = "connecting" /\ client.timer = FALSE
  BY FeedAssumption DEF FeedInit, NewClient, NoEvents, TalkRecord, ClientRecord
<1>2. /\ link \in [open : BOOLEAN, rooms : SUBSET Talks] /\ ~link.open /\ link.rooms = {}
  BY DEF FeedInit, NoLink
<1>3. packets = <<>> /\ packets \in Seq(Packet) /\ Len(packets) <= MaxPackets
  BY FeedAssumption DEF FeedInit
<1>4. FeedTyped
  BY <1>1, <1>2, <1>3 DEF FeedTyped, FeedTypeOK, ClientRecord, TalkRecord
<1> QED
  BY <1>1, <1>2, <1>3, <1>4 DEF FeedInv, ClientFollows, OwedIsCovered

(***************************************************************************)
(* An event of a negotiation, told to the rooms of the link.               *)
(***************************************************************************)
LEMMA TellKeeps ==
  ASSUME FeedInv, NEW t \in Talks, NEW rooms \in SUBSET Talks, Tell(t, rooms),
         link.rooms \subseteq rooms, ~link.open => rooms = link.rooms,
         \A u \in rooms : u = t \/ u \in link.rooms,
         link' = [link EXCEPT !.rooms = rooms],
         talks' \in [Talks -> TalkRecord],
         \A u \in Talks \ {t} : talks'[u] = talks[u],
         link.open /\ (talks[t].status # "gone" \/ talks'[t].status = "active") =>
           talks[t].status = "active" \/ t \in rooms,
         UNCHANGED <<client, feed>>
  PROVE  FeedInv'
<1>1. PICK event : event = [kind |-> "event", talk |-> t, n |-> talks[t].events + 1]
  OBVIOUS
<1>2. /\ talks[t].events + 1 \in 1 .. MaxEvents /\ event \in Packet
      /\ event.kind = "event" /\ event.talk = t /\ event.n = talks[t].events + 1
  <2>1. talks[t].events \in 0 .. MaxEvents /\ talks[t].events < MaxEvents
    BY FeedKnown DEF Tell, TalkRecord
  <2>2. talks[t].events + 1 \in 1 .. MaxEvents
    BY <2>1, FeedAssumption
  <2> QED
    BY <1>1, <2>2 DEF Packet
<1>3. /\ packets' = IF t \in rooms THEN Append(packets, event) ELSE packets
      /\ owed' = IF link.open /\ (talks[t].status # "gone" \/ t \in rooms)
                 THEN [owed EXCEPT ![t] = @ \cup {event.n}] ELSE owed
      /\ Len(packets) < MaxPackets
  BY <1>1 DEF Tell
<1>4. link' \in [open : BOOLEAN, rooms : SUBSET Talks] /\ link'.open = link.open /\ link'.rooms = rooms
  BY FeedKnown
<1>5. /\ packets' \in Seq(Packet) /\ Len(packets') <= MaxPackets /\ Len(packets) <= Len(packets')
      /\ \A i \in 1 .. Len(packets) : packets'[i] = packets[i]
      /\ t \in rooms => Len(packets') = Len(packets) + 1 /\ packets'[Len(packets')] = event
      /\ t \notin rooms => packets' = packets
  BY <1>2, <1>3, FeedKnown, FeedAssumption
<1>6. owed' \in [Talks -> SUBSET (1 .. MaxEvents)]
  BY <1>2, <1>3, FeedKnown
<1>7. FeedTyped'
  BY <1>4, <1>5, <1>6, FeedKnown DEF FeedTyped, FeedTypeOK, ClientRecord, TalkRecord
<1>8. ClientFollows'
  BY <1>2, <1>4, <1>5, SMTT(30) DEF FeedInv, ClientFollows
<1>9. ASSUME link.open, NEW u \in Talks
      PROVE  /\ talks'[u].status = "active" => u \in rooms
             /\ owed'[u] \subseteq feed[u] \cup OnTheWay(u)'
  <2>1. /\ talks[u].status = "active" => u \in link.rooms
        /\ owed[u] \subseteq feed[u] \cup OnTheWay(u)
    BY <1>9 DEF FeedInv, OwedIsCovered
  <2>2. OnTheWay(u) \subseteq OnTheWay(u)'
    BY <1>5, FeedKnown DEF OnTheWay
  <2>3. t \in rooms => event.n \in OnTheWay(t)'
    BY <1>2, <1>5, FeedKnown, SMTT(30) DEF OnTheWay
  <2>4. talks'[u].status = "active" => u \in rooms
    BY <1>9, <2>1
  <2>5. CASE u = t /\ t \in rooms
    BY <1>3, <2>1, <2>2, <2>3, <2>5, <1>9, FeedKnown
  <2>6. CASE u # t
    BY <1>3, <2>1, <2>2, <2>6, <1>9, FeedKnown
  <2>7. CASE u = t /\ t \notin rooms
    <3>1. t \notin link.rooms /\ talks[t].status = "gone"
      BY <1>9, <2>1, <2>7
    <3> QED
      BY <1>3, <2>1, <2>2, <2>4, <2>7, <3>1
  <2> QED
    BY <2>4, <2>5, <2>6, <2>7
<1>10. OwedIsCovered'
  BY <1>4, <1>9 DEF OwedIsCovered
<1> QED
  BY <1>7, <1>8, <1>10 DEF FeedInv

(***************************************************************************)
(* A packet reaches the client: an event of an open link, the welcome of   *)
(* one, or the farewell of a link that is lost.                            *)
(***************************************************************************)
LEMMA HearPacketKeeps ==
  ASSUME FeedInv, HearPacket
  PROVE  FeedInv'
<1>1. /\ packets # <<>> /\ packets' = Tail(packets) /\ UNCHANGED <<talks, link, owed>>
  BY DEF HearPacket
<1>2. PICK packet : packet = Head(packets)
  OBVIOUS
<1>3. /\ packet = packets[1] /\ packet \in Packet /\ 1 \in 1 .. Len(packets)
      /\ packets' \in Seq(Packet) /\ Len(packets') = Len(packets) - 1
      /\ \A i \in 1 .. Len(packets') : packets'[i] = packets[i + 1]
  BY <1>1, <1>2, FeedKnown
<1>4. \/ /\ packet.kind = "connect"
         /\ client' = [client EXCEPT !.state = "connected"] /\ UNCHANGED feed
      \/ packet.kind = "disconnect" /\ ScheduleReconnect /\ UNCHANGED feed
      \/ /\ packet.kind = "event"
         /\ feed' = [feed EXCEPT ![packet.talk] = @ \cup {packet.n}] /\ UNCHANGED client
  BY <1>2 DEF HearPacket
<1>5. Len(packets) \in Nat /\ Len(packets) <= MaxPackets /\ Len(packets') <= MaxPackets
  BY <1>3, FeedKnown, FeedAssumption
<1>6. CASE packet.kind = "connect"
  <2>1. client' = [client EXCEPT !.state = "connected"] /\ UNCHANGED feed
    BY <1>4, <1>6
  <2>2. client' \in ClientRecord /\ client'.state = "connected" /\ client'.timer = client.timer
    BY <2>1, FeedKnown DEF ClientRecord
  <2>3. link.open
    BY <1>1, <1>3, <1>6 DEF FeedInv, ClientFollows, Farewell
  <2>4. client.state = "connecting" /\ \A i \in 2 .. Len(packets) : packets[i].kind = "event"
    BY <1>1, <1>3, <1>5, <1>6, <2>3 DEF FeedInv, ClientFollows
  <2>5. \A i \in 1 .. Len(packets') : packets'[i].kind = "event"
    BY <1>3, <1>5, <2>4
  <2>6. ClientFollows'
    BY <1>1, <1>3, <2>2, <2>3, <2>4, <2>5 DEF FeedInv, ClientFollows
  <2>7. ASSUME NEW t \in Talks PROVE OnTheWay(t) \subseteq OnTheWay(t)'
    <3> SUFFICES ASSUME NEW i \in 1 .. Len(packets), packets[i].kind = "event", packets[i].talk = t
                 PROVE  packets[i].n \in OnTheWay(t)'
      BY DEF OnTheWay
    <3>1. i - 1 \in 1 .. Len(packets') /\ packets'[i - 1] = packets[i]
      BY <1>3, <1>5, <1>6
    <3> QED
      BY <3>1 DEF OnTheWay
  <2>8. OwedIsCovered'
    BY <1>1, <2>1, <2>7 DEF FeedInv, OwedIsCovered
  <2> QED
    BY <1>1, <1>3, <1>5, <2>1, <2>2, <2>6, <2>8, FeedKnown
       DEF FeedInv, FeedTyped, FeedTypeOK, ClientRecord, TalkRecord
<1>7. CASE packet.kind = "disconnect"
  <2>1. ScheduleReconnect /\ UNCHANGED feed
    BY <1>4, <1>7
  <2>2. client' \in ClientRecord /\ client'.state = "disconnected" /\ client'.timer = TRUE
    BY <2>1 DEF ScheduleReconnect, ClientRecord
  <2>3. ~link.open
    BY <1>3, <1>7 DEF FeedInv, ClientFollows
  <2>4. packets = Farewell /\ packets' = <<>>
    BY <1>1, <2>3 DEF FeedInv, ClientFollows, Farewell
  <2>5. ClientFollows' /\ OwedIsCovered'
    BY <1>1, <2>2, <2>3, <2>4 DEF FeedInv, ClientFollows, OwedIsCovered
  <2> QED
    BY <1>1, <1>3, <1>5, <2>1, <2>2, <2>5, FeedKnown
       DEF FeedInv, FeedTyped, FeedTypeOK, ClientRecord, TalkRecord
<1>8. CASE packet.kind = "event"
  <2>1. feed' = [feed EXCEPT ![packet.talk] = @ \cup {packet.n}] /\ UNCHANGED client
    BY <1>4, <1>8
  <2>2. packet.talk \in Talks /\ packet.n \in 1 .. MaxEvents
    BY <1>3, <1>8 DEF Packet
  <2>3. feed' \in [Talks -> SUBSET (1 .. MaxEvents)]
    BY <2>1, <2>2, FeedKnown
  <2>4. link.open
    BY <1>1, <1>3, <1>8 DEF FeedInv, ClientFollows, Farewell
  <2>5. client.state = "connected" /\ \A i \in 2 .. Len(packets) : packets[i].kind = "event"
    BY <1>1, <1>3, <1>5, <1>8, <2>4 DEF FeedInv, ClientFollows
  <2>6. \A i \in 1 .. Len(packets') : packets'[i].kind = "event"
    BY <1>3, <1>5, <2>5
  <2>7. ClientFollows'
    BY <1>1, <1>3, <2>1, <2>4, <2>5, <2>6 DEF FeedInv, ClientFollows
  <2>8. ASSUME NEW t \in Talks
        PROVE  feed[t] \cup OnTheWay(t) \subseteq (feed[t] \cup OnTheWay(t))'
    <3>1. feed[t] \subseteq feed'[t] /\ (packet.talk = t => packet.n \in feed'[t])
      BY <2>1, <2>2, FeedKnown
    <3>2. ASSUME NEW i \in 1 .. Len(packets), packets[i].kind = "event", packets[i].talk = t
          PROVE  packets[i].n \in (feed[t] \cup OnTheWay(t))'
      <4>1. CASE i = 1
        BY <1>3, <3>1, <3>2, <4>1
      <4>2. CASE i # 1
        <5>1. i - 1 \in 1 .. Len(packets') /\ packets'[i - 1] = packets[i]
          BY <1>3, <1>5, <4>2
        <5> QED
          BY <3>2, <5>1 DEF OnTheWay
      <4> QED
        BY <4>1, <4>2
    <3> QED
      BY <3>1, <3>2 DEF OnTheWay
  <2>9. OwedIsCovered'
    BY <1>1, <2>8 DEF FeedInv, OwedIsCovered
  <2> QED
    BY <1>1, <1>3, <1>5, <2>1, <2>3, <2>7, <2>9, FeedKnown
       DEF FeedInv, FeedTyped, FeedTypeOK, ClientRecord, TalkRecord
<1> QED
  BY <1>4, <1>6, <1>7, <1>8

(***************************************************************************)
(* The connection, and the page.                                           *)
(***************************************************************************)
LEMMA ObserveKeeps ==
  ASSUME FeedInv, Observe
  PROVE  FeedInv'
<1>1. /\ client.state = "connecting" /\ ~link.open /\ packets = <<>>
      /\ link' = [open |-> TRUE, rooms |-> {t \in Talks : talks[t].status = "active"}]
      /\ packets' = Welcome /\ owed' = NoEvents /\ UNCHANGED <<talks, client, feed>>
  BY DEF Observe
<1>2. /\ packets' \in Seq(Packet) /\ Len(packets') = 1 /\ packets'[1].kind = "connect"
      /\ packets' # <<>> /\ Len(packets') <= MaxPackets
  BY <1>1, FeedAssumption DEF Welcome, Packet
<1>3. /\ link' \in [open : BOOLEAN, rooms : SUBSET Talks] /\ link'.open
      /\ owed' \in [Talks -> SUBSET (1 .. MaxEvents)] /\ \A t \in Talks : owed'[t] = {}
  BY <1>1 DEF NoEvents
<1>4. ClientFollows' /\ OwedIsCovered'
  BY <1>1, <1>2, <1>3 DEF FeedInv, ClientFollows, OwedIsCovered
<1> QED
  BY <1>1, <1>2, <1>3, <1>4, FeedKnown
     DEF FeedInv, FeedTyped, FeedTypeOK, ClientRecord, TalkRecord

LEMMA LoseLinkKeeps ==
  ASSUME FeedInv, LoseLink
  PROVE  FeedInv'
<1>1. /\ link.open /\ link' = NoLink /\ packets' = Farewell /\ owed' = NoEvents
      /\ UNCHANGED <<talks, client, feed>>
  BY DEF LoseLink
<1>2. /\ packets' \in Seq(Packet) /\ packets' # <<>> /\ Len(packets') <= MaxPackets
  BY <1>1, FeedAssumption DEF Farewell, Packet
<1>3. /\ link' \in [open : BOOLEAN, rooms : SUBSET Talks] /\ ~link'.open /\ link'.rooms = {}
      /\ owed' \in [Talks -> SUBSET (1 .. MaxEvents)]
  BY <1>1 DEF NoLink, NoEvents
<1>4. ClientFollows' /\ OwedIsCovered'
  BY <1>1, <1>2, <1>3 DEF FeedInv, ClientFollows, OwedIsCovered
<1> QED
  BY <1>1, <1>2, <1>3, <1>4, FeedKnown
     DEF FeedInv, FeedTyped, FeedTypeOK, ClientRecord, TalkRecord

LEMMA ClosePageKeeps ==
  ASSUME FeedInv, ClosePage
  PROVE  FeedInv'
<1>1. /\ client' = [state |-> "destroyed", timer |-> FALSE] /\ UNCHANGED talks
      /\ link' = NoLink /\ packets' = <<>> /\ feed' = NoEvents /\ owed' = NoEvents
  BY DEF ClosePage
<1>2. /\ packets' \in Seq(Packet) /\ Len(packets') = 0 /\ 0 <= MaxPackets
      /\ client' \in ClientRecord
  BY <1>1, FeedAssumption DEF ClientRecord
<1>3. /\ link' \in [open : BOOLEAN, rooms : SUBSET Talks] /\ ~link'.open /\ link'.rooms = {}
      /\ owed' \in [Talks -> SUBSET (1 .. MaxEvents)] /\ feed' \in [Talks -> SUBSET (1 .. MaxEvents)]
  BY <1>1 DEF NoLink, NoEvents
<1>4. ClientFollows' /\ OwedIsCovered'
  BY <1>1, <1>2, <1>3 DEF FeedInv, ClientFollows, OwedIsCovered
<1> QED
  BY <1>1, <1>2, <1>3, <1>4, FeedKnown
     DEF FeedInv, FeedTyped, FeedTypeOK, ClientRecord, TalkRecord

LEMMA ReconnectKeeps ==
  ASSUME FeedInv, ~link.open, UNCHANGED <<talks, link, packets, feed, owed>>,
         client' \in ClientRecord, client'.timer <=> client'.state = "disconnected",
         client'.state # "connected"
  PROVE  FeedInv'
<1>1. ClientFollows' /\ OwedIsCovered'
  BY DEF FeedInv, ClientFollows, OwedIsCovered
<1> QED
  BY <1>1, FeedKnown DEF FeedInv, FeedTyped, FeedTypeOK, ClientRecord, TalkRecord

LEMMA FeedStep == FeedInv /\ [FeedNext]_feedVars => FeedInv'
<1> SUFFICES ASSUME FeedInv, [FeedNext]_feedVars PROVE FeedInv'
  OBVIOUS
<1>1. ASSUME NEW t \in Talks, StartTalk(t) PROVE FeedInv'
  <2>1. PICK rooms : rooms = IF link.open THEN link.rooms \cup {t} ELSE link.rooms
    OBVIOUS
  <2>2. /\ rooms \in SUBSET Talks /\ link.rooms \subseteq rooms
        /\ ~link.open => rooms = link.rooms
        /\ \A u \in rooms : u = t \/ u \in link.rooms
    BY <2>1, FeedKnown
  <2>3. Tell(t, rooms) /\ link' = [link EXCEPT !.rooms = rooms] /\ UNCHANGED <<client, feed>>
    BY <1>1, <2>1 DEF StartTalk
  <2>4. talks[t].status = "none" /\ talks' = [talks EXCEPT ![t] = [status |-> "active", events |-> 1]]
    BY <1>1 DEF StartTalk
  <2>5. 1 \in 0 .. MaxEvents
    <3>1. talks[t].events \in 0 .. MaxEvents /\ talks[t].events < MaxEvents
      BY <2>3, FeedKnown DEF Tell, TalkRecord
    <3> QED
      BY <3>1, FeedAssumption
  <2>6. talks' \in [Talks -> TalkRecord] /\ \A u \in Talks \ {t} : talks'[u] = talks[u]
    BY <2>4, <2>5, FeedKnown DEF TalkRecord
  <2>7. link.open => t \in rooms
    BY <2>1
  <2> QED
    BY <2>2, <2>3, <2>6, <2>7, TellKeeps
<1>2. ASSUME NEW t \in Talks, TalkEvent(t) PROVE FeedInv'
  <2>1. /\ talks[t].status # "none" /\ Tell(t, link.rooms)
        /\ talks' = [talks EXCEPT ![t].events = @ + 1] /\ UNCHANGED <<link, client, feed>>
    BY <1>2 DEF TalkEvent
  <2>2. talks[t].events + 1 \in 0 .. MaxEvents
    <3>1. talks[t].events \in 0 .. MaxEvents /\ talks[t].events < MaxEvents
      BY <2>1, FeedKnown DEF Tell, TalkRecord
    <3> QED
      BY <3>1, FeedAssumption
  <2>3. /\ talks' \in [Talks -> TalkRecord] /\ \A u \in Talks \ {t} : talks'[u] = talks[u]
        /\ talks'[t].status = talks[t].status
    BY <2>1, <2>2, FeedKnown DEF TalkRecord
  <2>4. talks[t].status # "gone" => talks[t].status = "active"
    BY <2>1, FeedKnown DEF TalkRecord
  <2>5. PICK rooms \in SUBSET Talks : rooms = link.rooms
    BY FeedKnown
  <2>6. link' = [link EXCEPT !.rooms = rooms]
    BY <2>1, <2>5, FeedKnown
  <2> QED
    BY <2>1, <2>3, <2>4, <2>5, <2>6, TellKeeps
<1>3. ASSUME NEW t \in Talks, EndTalk(t) PROVE FeedInv'
  <2>1. /\ talks' \in [Talks -> TalkRecord]
        /\ \A u \in Talks : talks'[u].status = "active" => talks[u].status = "active"
    BY <1>3, FeedKnown DEF EndTalk, TalkRecord
  <2>2. ClientFollows' /\ OwedIsCovered'
    BY <1>3, <2>1 DEF EndTalk, FeedInv, ClientFollows, OwedIsCovered, OnTheWay
  <2> QED
    BY <1>3, <2>1, <2>2, FeedKnown
       DEF EndTalk, FeedInv, FeedTyped, FeedTypeOK, ClientRecord, TalkRecord
<1>4. CASE ConnectFails
  <2>1. client' = [state |-> "disconnected", timer |-> TRUE]
    BY <1>4 DEF ConnectFails, ScheduleReconnect
  <2> QED
    BY <1>4, <2>1, ReconnectKeeps DEF ConnectFails, ClientRecord
<1>5. CASE ReconnectTimer
  <2>1. ~link.open
    BY <1>5 DEF ReconnectTimer, FeedInv, ClientFollows
  <2> QED
    BY <1>5, <2>1, ReconnectKeeps DEF ReconnectTimer, NewClient, ClientRecord
<1>6. CASE OpenPage
  <2>1. ~link.open
    BY <1>6 DEF OpenPage, FeedInv, ClientFollows
  <2> QED
    BY <1>6, <2>1, ReconnectKeeps DEF OpenPage, NewClient, ClientRecord
<1>7. CASE UNCHANGED feedVars
  BY <1>7 DEF feedVars, FeedInv, FeedTyped, FeedTypeOK, ClientFollows, OwedIsCovered, OnTheWay
<1> QED
  BY <1>1, <1>2, <1>3, <1>4, <1>5, <1>6, <1>7, ObserveKeeps, LoseLinkKeeps, HearPacketKeeps,
     ClosePageKeeps DEF FeedNext

(***************************************************************************)
(* negotiate.ts:191-199, 386-400, wsClient.ts:86-104.  Whenever the link   *)
(* is lost and made again, a connected page has every event that it is     *)
(* owed once nothing is on its way, and a page that has lost its link      *)
(* comes back.                                                             *)
(***************************************************************************)
THEOREM FeedsFollow == FeedSpec => []FeedFollows
<1>1. FeedInv => FeedFollows
  <2> SUFFICES ASSUME FeedInv PROVE FeedFollows
    OBVIOUS
  <2>1. packets = <<>> => \A t \in Talks : OnTheWay(t) = {}
    BY DEF OnTheWay
  <2> QED
    BY <2>1, FeedKnown DEF FeedInv, ClientFollows, OwedIsCovered, FeedFollows, ClientRecord
<1> QED
  BY <1>1, FeedInvInit, FeedStep, PTL DEF FeedSpec

(* Feed, packets and rooms are of the negotiations there are.              *)
THEOREM FeedsTyped == FeedSpec => []FeedTypeOK
<1>1. FeedInv => FeedTypeOK
  BY DEF FeedInv, FeedTyped
<1> QED
  BY <1>1, FeedInvInit, FeedStep, PTL DEF FeedSpec
-------------------------------------------------------------------------------
(***************************************************************************)
(* OwnerSettings.                                                          *)
(***************************************************************************)
LEMMA SettingsKnown ==
  ASSUME SettingsInv
  PROVE  /\ tabs \in [Tabs -> TabRecord] /\ updates \subseteq UpdateRecord
         /\ stored \in 0 .. 1 /\ entitled \in BOOLEAN /\ unasked = FALSE
         /\ OneAwaited /\ (\A t \in Tabs : TabOK(t)) /\ (\A u \in updates : UpdateOK(u))
BY DEF SettingsInv, SettingsTyped

LEMMA SettingsInvInit == SettingsInit => SettingsInv
<1> SUFFICES ASSUME SettingsInit PROVE SettingsInv
  OBVIOUS
<1>1. tabs \in [Tabs -> TabRecord] /\ \A t \in Tabs : TabOK(t)
  BY DEF SettingsInit, ClosedTab, TabRecord, TabOK, Unknown
<1>2. updates = {} /\ stored = 1 /\ entitled = FALSE /\ unasked = FALSE
  BY DEF SettingsInit
<1>3. SettingsTyped /\ ~unasked
  <2>1. updates \subseteq UpdateRecord /\ stored \in 0 .. 1
    BY <1>2
  <2> QED
    BY <1>1, <1>2, <2>1 DEF SettingsTyped
<1>4. OneAwaited /\ \A u \in updates : UpdateOK(u)
  BY <1>2 DEF OneAwaited
<1> QED
  BY <1>1, <1>3, <1>4 DEF SettingsInv

(***************************************************************************)
(* A page is opened, or its form ticked.                                   *)
(***************************************************************************)
LEMMA OpenTabKeeps ==
  ASSUME SettingsInv, NEW t \in Tabs, OpenTab(t)
  PROVE  SettingsInv'
<1>1. /\ \A u \in updates : u.tab # t
      /\ UNCHANGED <<entitled, stored, updates, unasked>>
  BY DEF OpenTab, Sent
<1>2. PICK tab : /\ tabs' = [tabs EXCEPT ![t] = tab]
                 /\ \/ tab = [ClosedTab EXCEPT !.shown = stored, !.form = stored, !.latest = TRUE]
                    \/ tab = ClosedTab
  BY DEF OpenTab
<1>3. /\ tab \in TabRecord /\ (tab.shown = Unknown <=> tab.form = Unknown)
      /\ tab.latest => tab.form = stored
  <2>1. stored \in 0 .. 1
    BY SettingsKnown
  <2>2. CASE tab = ClosedTab
    BY <2>2 DEF ClosedTab, TabRecord, Unknown
  <2>3. CASE tab = [ClosedTab EXCEPT !.shown = stored, !.form = stored, !.latest = TRUE]
    <3>1. stored \in 0 .. Unknown /\ stored # Unknown
      BY <2>1 DEF Unknown
    <3>2. /\ tab.shown = stored /\ tab.form = stored
          /\ tab = [shown |-> stored, form |-> stored, latest |-> TRUE, ticked |-> FALSE,
                    overlap |-> FALSE]
      BY <2>3 DEF ClosedTab
    <3> QED
      BY <3>1, <3>2 DEF TabRecord
  <2> QED
    BY <1>2, <2>2, <2>3
<1>4. tabs' \in [Tabs -> TabRecord] /\ tabs'[t] = tab /\ \A s \in Tabs \ {t} : tabs'[s] = tabs[s]
  BY <1>2, <1>3, SettingsKnown
<1>5. \A s \in Tabs : TabOK(s)'
  BY <1>1, <1>3, <1>4, SettingsKnown DEF TabOK
<1>6. ASSUME NEW u \in updates PROVE UpdateOK(u)'
  <2>1. u.tab \in Tabs \ {t} /\ UpdateOK(u)
    BY <1>1, <1>6, SettingsKnown DEF UpdateRecord
  <2>2. tabs'[u.tab] = tabs[u.tab]
    BY <1>4, <2>1
  <2> QED
    BY <1>1, <2>1, <2>2 DEF UpdateOK
<1>7. OneAwaited'
  BY <1>1, <1>4, SettingsKnown DEF OneAwaited, UpdateRecord
<1> QED
  BY <1>1, <1>4, <1>5, <1>6, <1>7, SettingsKnown DEF SettingsInv, SettingsTyped

LEMMA TickFormKeeps ==
  ASSUME SettingsInv, NEW t \in Tabs, TickForm(t)
  PROVE  SettingsInv'
<1>1. /\ tabs[t].form # Unknown /\ UNCHANGED <<entitled, stored, updates, unasked>>
      /\ tabs' = [tabs EXCEPT ![t].form = 1 - @, ![t].ticked = TRUE]
  BY DEF TickForm
<1>2. 1 - tabs[t].form \in 0 .. 1
  BY <1>1, SettingsKnown DEF TabRecord, Unknown
<1>3. /\ tabs' \in [Tabs -> TabRecord] /\ tabs'[t].form = 1 - tabs[t].form /\ tabs'[t].ticked = TRUE
      /\ tabs'[t].shown = tabs[t].shown /\ tabs'[t].overlap = tabs[t].overlap
      /\ \A s \in Tabs \ {t} : tabs'[s] = tabs[s]
  <2>1. PICK form \in 0 .. Unknown : form = 1 - tabs[t].form
    BY <1>2 DEF Unknown
  <2>2. tabs' = [tabs EXCEPT ![t].form = form, ![t].ticked = TRUE]
    BY <1>1, <2>1
  <2> QED
    BY <2>1, <2>2, SettingsKnown, ZenonT(40) DEF TabRecord
<1>4. \A s \in Tabs : TabOK(s)'
  BY <1>1, <1>2, <1>3, SettingsKnown DEF TabOK, Unknown
<1>5. ASSUME NEW u \in updates PROVE UpdateOK(u)'
  <2>1. u.tab \in Tabs /\ UpdateOK(u)
    BY <1>5, SettingsKnown DEF UpdateRecord
  <2> QED
    BY <1>1, <1>3, <2>1 DEF UpdateOK
<1>6. OneAwaited'
  BY <1>1, <1>3, SettingsKnown DEF OneAwaited, UpdateRecord
<1> QED
  BY <1>1, <1>3, <1>4, <1>5, <1>6, SettingsKnown DEF SettingsInv, SettingsTyped

(***************************************************************************)
(* An update is sent.  What the form sends unasked is the stored switch,   *)
(* if the page is up to date and has not two updates under way.            *)
(***************************************************************************)
LEMMA SendKeeps ==
  ASSUME SettingsInv, NEW t \in Tabs, NEW kind \in {"toggle", "save"}, NEW enabled \in 0 .. 1,
         NEW asked \in BOOLEAN, Send(t, kind, enabled, asked),
         kind = "save" => enabled = tabs[t].form,
         ~asked => enabled = tabs[t].form /\ ~tabs[t].ticked
  PROVE  SettingsInv'
<1>1. PICK n : n = Min((1 .. MaxSent) \ {u.n : u \in Sent(t)})
  OBVIOUS
<1>2. PICK new : new = [tab |-> t, n |-> n, kind |-> kind, enabled |-> enabled, asked |-> asked,
                        latest |-> tabs[t].latest, awaited |-> TRUE, step |-> "sent"]
  OBVIOUS
<1>3. /\ tabs[t].shown # Unknown /\ updates' = updates \cup {new}
      /\ tabs' = [tabs EXCEPT ![t].overlap = @ \/ Awaited(t) # {}]
      /\ UNCHANGED <<entitled, stored, unasked>>
  BY <1>1, <1>2 DEF Send
<1>4. n \in {Min(S) : S \in SUBSET (1 .. MaxSent)}
  BY <1>1
<1>5. new \in UpdateRecord
  BY <1>2, <1>4, SettingsKnown DEF UpdateRecord, TabRecord
<1>6. PICK overlap \in BOOLEAN : overlap = (tabs[t].overlap \/ Awaited(t) # {})
  OBVIOUS
<1>7. tabs' = [tabs EXCEPT ![t].overlap = overlap]
  BY <1>3, <1>6
<1>8. /\ tabs' \in [Tabs -> TabRecord] /\ tabs'[t].overlap = overlap
      /\ tabs'[t].form = tabs[t].form /\ tabs'[t].ticked = tabs[t].ticked
      /\ tabs'[t].shown = tabs[t].shown /\ tabs'[t].latest = tabs[t].latest
      /\ \A s \in Tabs \ {t} : tabs'[s] = tabs[s]
  BY <1>7, SettingsKnown DEF TabRecord
<1>9. ~overlap => ~tabs[t].overlap /\ \A u \in updates : u.tab = t => ~u.awaited
  BY <1>6 DEF Awaited, Sent
<1>10. \A s \in Tabs : TabOK(s)'
  BY <1>3, <1>8, <1>9, SettingsKnown DEF TabOK
<1>11. ASSUME NEW u \in updates PROVE UpdateOK(u)'
  <2>1. u.tab \in Tabs /\ UpdateOK(u)
    BY <1>11, SettingsKnown DEF UpdateRecord
  <2> QED
    BY <1>3, <1>8, <1>9, <2>1 DEF UpdateOK
<1>12. UpdateOK(new)'
  <2>1. TabOK(t) /\ new.tab = t /\ new.enabled = enabled /\ new.asked = asked
        /\ new.latest = tabs[t].latest /\ new.kind = kind /\ new.step = "sent"
    BY <1>2, SettingsKnown
  <2> QED
    BY <1>3, <1>8, <1>9, <2>1 DEF UpdateOK, TabOK
<1>13. OneAwaited'
  <2> SUFFICES ASSUME NEW u \in updates', NEW v \in updates', u.awaited, v.awaited,
                      u.tab = v.tab, ~tabs'[u.tab].overlap
               PROVE  u = v
    BY DEF OneAwaited
  <2>1. CASE u.tab = t
    BY <1>2, <1>3, <1>8, <1>9, <2>1
  <2>2. CASE u.tab # t
    <3>1. u \in updates /\ v \in updates /\ u.tab \in Tabs
      BY <1>2, <1>3, <2>2, SettingsKnown DEF UpdateRecord
    <3>2. tabs'[u.tab] = tabs[u.tab]
      BY <1>8, <2>2, <3>1
    <3> QED
      BY <3>1, <3>2, SettingsKnown DEF OneAwaited
  <2> QED
    BY <2>1, <2>2
<1> QED
  BY <1>3, <1>5, <1>8, <1>10, <1>11, <1>12, <1>13, SettingsKnown DEF SettingsInv, SettingsTyped

(***************************************************************************)
(* The page hears of an update, or gives it up.                            *)
(***************************************************************************)
LEMMA HearUpdateKeeps ==
  ASSUME SettingsInv, NEW u \in updates, HearUpdate(u)
  PROVE  SettingsInv'
<1>1. /\ u.step \in {"stored", "refused"} /\ u.awaited /\ updates' = updates \ {u}
      /\ UNCHANGED <<entitled, stored, unasked>>
  BY DEF HearUpdate
<1>2. PICK t \in Tabs : t = u.tab
  BY SettingsKnown DEF UpdateRecord
<1>3. /\ u.enabled \in 0 .. 1 /\ u.latest \in BOOLEAN /\ u.kind \in {"toggle", "save"}
      /\ UpdateOK(u) /\ TabOK(t) /\ tabs[t] \in TabRecord
  BY <1>2, SettingsKnown DEF UpdateRecord
<1>4. CASE u.step = "refused"
  <2>1. UNCHANGED tabs
    BY <1>4 DEF HearUpdate
  <2>2. (\A s \in Tabs : TabOK(s)') /\ (\A v \in updates' : UpdateOK(v)')
    BY <1>1, <2>1, SettingsKnown DEF TabOK, UpdateOK
  <2>3. OneAwaited'
    BY <1>1, <2>1, SettingsKnown DEF OneAwaited
  <2> QED
    BY <1>1, <2>1, <2>2, <2>3, SettingsKnown DEF SettingsInv, SettingsTyped
<1>5. CASE u.step = "stored"
  <2>1. PICK shown : shown = [tabs[t] EXCEPT !.shown = u.enabled, !.latest = u.latest]
    OBVIOUS
  <2>2. PICK tab : tab = IF u.kind = "toggle"
                         THEN [shown EXCEPT !.form = u.enabled, !.ticked = FALSE] ELSE shown
    OBVIOUS
  <2>3. tabs' = [tabs EXCEPT ![t] = tab]
    BY <1>2, <1>5, <2>1, <2>2 DEF HearUpdate
  <2>4. /\ shown \in TabRecord /\ shown.shown = u.enabled /\ shown.latest = u.latest
        /\ shown.form = tabs[t].form /\ shown.ticked = tabs[t].ticked
        /\ shown.overlap = tabs[t].overlap
    <3>1. u.enabled \in 0 .. Unknown
      BY <1>3 DEF Unknown
    <3> QED
      BY <1>3, <2>1, <3>1 DEF TabRecord
  <2>5. /\ tab \in TabRecord /\ tab.shown = u.enabled /\ tab.latest = u.latest
        /\ tab.overlap = tabs[t].overlap
        /\ u.kind = "toggle" => tab.form = u.enabled /\ tab.ticked = FALSE
        /\ u.kind = "save" => tab.form = tabs[t].form /\ tab.ticked = tabs[t].ticked
    BY <1>3, <2>2, <2>4 DEF TabRecord, Unknown
  <2>6. tabs' \in [Tabs -> TabRecord] /\ tabs'[t] = tab /\ \A s \in Tabs \ {t} : tabs'[s] = tabs[s]
    BY <2>3, <2>5, SettingsKnown
  <2>7. TabOK(t)'
    BY <1>1, <1>2, <1>3, <1>5, <2>5, <2>6 DEF TabOK, UpdateOK, Unknown
  <2>8. \A s \in Tabs : TabOK(s)'
    BY <1>1, <2>6, <2>7, SettingsKnown DEF TabOK
  <2>9. ASSUME NEW v \in updates \ {u} PROVE UpdateOK(v)'
    <3>1. v.tab \in Tabs /\ UpdateOK(v)
      BY SettingsKnown DEF UpdateRecord
    <3>2. CASE v.tab = t
      <4>1. v.awaited => tabs[t].overlap
        BY <1>1, <1>2, <2>9, <3>2, SettingsKnown DEF OneAwaited
      <4> QED
        BY <1>1, <1>3, <2>5, <2>6, <3>1, <3>2, <4>1 DEF UpdateOK, Unknown
    <3>3. CASE v.tab # t
      BY <1>1, <2>6, <3>1, <3>3 DEF UpdateOK
    <3> QED
      BY <3>2, <3>3
  <2>10. OneAwaited'
    <3>1. \A s \in Tabs : tabs'[s].overlap = tabs[s].overlap
      BY <2>5, <2>6
    <3> QED
      BY <1>1, <3>1, SettingsKnown DEF OneAwaited, UpdateRecord
  <2> QED
    BY <1>1, <2>6, <2>8, <2>9, <2>10, SettingsKnown DEF SettingsInv, SettingsTyped
<1> QED
  BY <1>1, <1>4, <1>5

(***************************************************************************)
(* Where request u goes on as v, with the same contents, or ends.          *)
(***************************************************************************)
LEMMA UpdateGoesOn ==
  ASSUME SettingsInv, NEW u \in updates, NEW v \in UpdateRecord,
         updates' \subseteq (updates \ {u}) \cup {v},
         v.tab = u.tab, v.kind = u.kind, v.enabled = u.enabled, v.asked = u.asked,
         v.latest = u.latest, v.awaited => u.awaited, v.step # "stored",
         v.step = "checked" => u.step \in {"sent", "checked"},
         v.step = "sent" => u.step \in {"sent", "checked"},
         UNCHANGED <<entitled, stored, tabs, unasked>>
  PROVE  SettingsInv'
<1>1. UpdateOK(u) /\ \A t \in Tabs : TabOK(t)'
  BY SettingsKnown DEF TabOK
<1>2. UpdateOK(v)'
  BY <1>1 DEF UpdateOK
<1>3. \A w \in updates : UpdateOK(w)'
  BY SettingsKnown DEF UpdateOK
<1>4. OneAwaited'
  BY SettingsKnown DEF OneAwaited
<1> QED
  BY <1>1, <1>2, <1>3, <1>4, SettingsKnown DEF SettingsInv, SettingsTyped

(***************************************************************************)
(* The broker stores an update: every other one, and every page, is behind *)
(* from then on.                                                           *)
(***************************************************************************)
LEMMA StoreUpdateKeeps ==
  ASSUME SettingsInv, NEW u \in updates, StoreUpdate(u)
  PROVE  SettingsInv'
<1>1. u \in UpdateRecord /\ u.tab \in Tabs /\ u.enabled \in 0 .. 1 /\ u.step = "checked" /\ UpdateOK(u)
  BY SettingsKnown DEF UpdateRecord, StoreUpdate
<1>2. /\ stored' = u.enabled /\ UNCHANGED entitled
      /\ updates' = {[v EXCEPT !.latest = FALSE] : v \in updates \ {u}} \cup
                    IF u.awaited THEN {[u EXCEPT !.step = "stored", !.latest = TRUE]} ELSE {}
      /\ tabs' = [t \in Tabs |-> [tabs[t] EXCEPT !.latest = FALSE]]
  BY DEF StoreUpdate
<1>3. unasked' = FALSE
  <2>1. unasked' = (unasked \/ /\ stored = 0 /\ u.enabled = 1 /\ ~u.asked
                               /\ u.latest /\ ~tabs[u.tab].overlap)
    BY DEF StoreUpdate
  <2>2. ~ (/\ stored = 0 /\ u.enabled = 1 /\ ~u.asked /\ u.latest /\ ~tabs[u.tab].overlap)
    BY <1>1 DEF UpdateOK
  <2> QED
    BY <2>1, <2>2, SettingsKnown
<1>4. /\ tabs' \in [Tabs -> TabRecord]
      /\ \A t \in Tabs : /\ tabs'[t].latest = FALSE /\ tabs'[t].shown = tabs[t].shown
                         /\ tabs'[t].form = tabs[t].form /\ tabs'[t].ticked = tabs[t].ticked
                         /\ tabs'[t].overlap = tabs[t].overlap
  BY <1>2, SettingsKnown DEF TabRecord
<1>5. \A t \in Tabs : TabOK(t)'
  BY <1>4, SettingsKnown DEF TabOK
<1>6. ASSUME NEW w \in updates'
      PROVE  \E v \in updates : /\ w \in UpdateRecord /\ w.tab = v.tab /\ w.kind = v.kind
                                /\ w.enabled = v.enabled /\ w.asked = v.asked
                                /\ w.awaited = v.awaited
                                /\ v # u => w = [v EXCEPT !.latest = FALSE] /\ ~w.latest
                                /\ v = u => /\ u.awaited /\ w.step = "stored"
                                            /\ w = [u EXCEPT !.step = "stored", !.latest = TRUE]
  <2>1. CASE \E v \in updates \ {u} : w = [v EXCEPT !.latest = FALSE]
    BY <2>1, SettingsKnown DEF UpdateRecord
  <2>2. CASE u.awaited /\ w = [u EXCEPT !.step = "stored", !.latest = TRUE]
    BY <1>1, <2>2 DEF UpdateRecord
  <2> QED
    BY <1>2, <2>1, <2>2
<1>7. \A w \in updates' : UpdateOK(w)'
  <2> SUFFICES ASSUME NEW w \in updates' PROVE UpdateOK(w)'
    OBVIOUS
  <2>1. PICK v \in updates : /\ w.tab = v.tab /\ w.kind = v.kind
                             /\ w.enabled = v.enabled /\ w.asked = v.asked
                             /\ w.awaited = v.awaited /\ (v # u => ~w.latest)
                             /\ v = u => w.step = "stored"
    BY <1>6
  <2>2. UpdateOK(v) /\ v.tab \in Tabs
    BY SettingsKnown DEF UpdateRecord
  <2> QED
    BY <1>2, <1>4, <2>1, <2>2 DEF UpdateOK
<1>8. OneAwaited'
  <2> SUFFICES ASSUME NEW w \in updates', NEW x \in updates', w.awaited, x.awaited,
                      w.tab = x.tab, ~tabs'[w.tab].overlap
               PROVE  w = x
    BY DEF OneAwaited
  <2>1. PICK v \in updates : /\ w.tab = v.tab /\ v.awaited
                             /\ v # u => w = [v EXCEPT !.latest = FALSE]
                             /\ v = u => w = [u EXCEPT !.step = "stored", !.latest = TRUE]
    BY <1>6
  <2>2. PICK y \in updates : /\ x.tab = y.tab /\ y.awaited
                             /\ y # u => x = [y EXCEPT !.latest = FALSE]
                             /\ y = u => x = [u EXCEPT !.step = "stored", !.latest = TRUE]
    BY <1>6
  <2>3. v = y
    BY <1>4, <2>1, <2>2, SettingsKnown, ZenonT(40) DEF OneAwaited, UpdateRecord
  <2> QED
    BY <2>1, <2>2, <2>3
<1>9. SettingsTyped'
  BY <1>1, <1>2, <1>3, <1>4, <1>6, SettingsKnown DEF SettingsTyped
<1> QED
  BY <1>3, <1>5, <1>7, <1>8, <1>9 DEF SettingsInv

LEMMA SettingsStep == SettingsInv /\ [SettingsNext]_settingsVars => SettingsInv'
<1> SUFFICES ASSUME SettingsInv, [SettingsNext]_settingsVars PROVE SettingsInv'
  OBVIOUS
<1>1. CASE AccountChanges
  <2>1. entitled' \in BOOLEAN /\ UNCHANGED <<stored, tabs, updates, unasked>>
    BY <1>1 DEF AccountChanges
  <2> QED
    BY <2>1 DEF SettingsInv, SettingsTyped, OneAwaited, TabOK, UpdateOK
<1>2. ASSUME NEW t \in Tabs, ToggleTrading(t) PROVE SettingsInv'
  <2>1. tabs[t].shown \in 0 .. 1
    BY <1>2, SettingsKnown DEF ToggleTrading, Send, TabRecord, Unknown
  <2>2. PICK enabled \in 0 .. 1 : enabled = 1 - tabs[t].shown
    BY <2>1
  <2>3. Send(t, "toggle", enabled, TRUE)
    BY <1>2, <2>2 DEF ToggleTrading
  <2> QED
    BY <2>3, SendKeeps
<1>3. ASSUME NEW t \in Tabs, SavePreferences(t) PROVE SettingsInv'
  <2>1. TabOK(t) /\ tabs[t] \in TabRecord /\ Send(t, "save", tabs[t].form, tabs[t].ticked)
    BY <1>3, SettingsKnown DEF SavePreferences
  <2>2. PICK enabled \in 0 .. 1 : enabled = tabs[t].form
    BY <2>1 DEF Send, TabOK, TabRecord, Unknown
  <2>3. PICK asked \in BOOLEAN : asked = tabs[t].ticked
    BY <2>1 DEF TabRecord
  <2>4. Send(t, "save", enabled, asked)
    BY <2>1, <2>2, <2>3
  <2> QED
    BY <2>2, <2>3, <2>4, SendKeeps
<1>4. ASSUME NEW u \in updates, GiveUpUpdate(u) PROVE SettingsInv'
  <2>1. PICK v : v = [u EXCEPT !.awaited = FALSE]
    OBVIOUS
  <2>2. /\ v \in UpdateRecord /\ v.tab = u.tab /\ v.kind = u.kind /\ v.enabled = u.enabled
        /\ v.asked = u.asked /\ v.latest = u.latest /\ v.awaited = FALSE /\ v.step = u.step
    BY <2>1, SettingsKnown DEF UpdateRecord
  <2>3. CASE u.step \in {"sent", "checked"}
    BY <1>4, <2>1, <2>2, <2>3, UpdateGoesOn DEF GiveUpUpdate
  <2>4. CASE u.step \notin {"sent", "checked"}
    <3>1. updates' = updates \ {u} /\ UNCHANGED <<entitled, stored, tabs, unasked>>
      BY <1>4, <2>4 DEF GiveUpUpdate
    <3>2. OneAwaited' /\ (\A t \in Tabs : TabOK(t)') /\ (\A w \in updates' : UpdateOK(w)')
      BY <3>1, SettingsKnown DEF OneAwaited, TabOK, UpdateOK
    <3> QED
      BY <3>1, <3>2, SettingsKnown DEF SettingsInv, SettingsTyped
  <2> QED
    BY <2>3, <2>4
<1>5. ASSUME NEW u \in updates, CheckOwner(u) \/ UpdateFails(u) PROVE SettingsInv'
  <2>1. PICK step \in {"checked", "refused"} :
          Step(u, [u EXCEPT !.step = step]) /\ (step = "checked" => u.step = "sent")
    BY <1>5 DEF CheckOwner, UpdateFails
  <2>2. PICK v : v = [u EXCEPT !.step = step]
    OBVIOUS
  <2>3. /\ v \in UpdateRecord /\ v.tab = u.tab /\ v.kind = u.kind /\ v.enabled = u.enabled
        /\ v.asked = u.asked /\ v.latest = u.latest /\ v.awaited = u.awaited /\ v.step = step
    BY <2>1, <2>2, SettingsKnown DEF UpdateRecord
  <2>4. updates' \subseteq (updates \ {u}) \cup {v}
    BY <2>1, <2>2 DEF Step
  <2>5. UNCHANGED <<entitled, stored, tabs, unasked>>
    BY <1>5 DEF CheckOwner, UpdateFails
  <2> QED
    BY <2>1, <2>3, <2>4, <2>5, UpdateGoesOn
<1>6. CASE UNCHANGED settingsVars
  BY <1>6 DEF settingsVars, SettingsInv, SettingsTyped, OneAwaited, TabOK, UpdateOK
<1> QED
  BY <1>1, <1>2, <1>3, <1>4, <1>5, <1>6, OpenTabKeeps, TickFormKeeps, HearUpdateKeeps,
     StoreUpdateKeeps DEF SettingsNext

(***************************************************************************)
(* MyAgentPage.tsx:93-149.  No form undoes a pause unasked, through any    *)
(* number of pages, updates given up, refused or stored in any order, but  *)
(* for the two ways out that the property names.                           *)
(***************************************************************************)
THEOREM PausesHold == SettingsSpec => []PauseHolds
<1>1. SettingsInv => PauseHolds
  BY DEF SettingsInv, PauseHolds
<1> QED
  BY <1>1, SettingsInvInit, SettingsStep, PTL DEF SettingsSpec

(* Switches and updates are in one of their states.                        *)
THEOREM SettingsKeepTypes == SettingsSpec => []SettingsTypeOK
<1>1. SettingsInv => SettingsTypeOK
  BY DEF SettingsInv, SettingsTyped, SettingsTypeOK, TabRecord, UpdateRecord
<1> QED
  BY <1>1, SettingsInvInit, SettingsStep, PTL DEF SettingsSpec

(***************************************************************************)
(* OwnerPages.  What a section shows is what the queries of its request    *)
(* found: deals that agree with those of now but for the ones that changed *)
(* in the meantime, and settlements that are there still, all that there   *)
(* were when the load began among them.  A committed deal has a            *)
(* settlement, and one that has a settlement is never bargained for.       *)
(***************************************************************************)
DealStatuses == Active \cup BrokenOff \cup Rejected \cup {"none", "COMMITTED"}
Settlement == [deal : Deals, round : DealRounds, own : BOOLEAN]
Settled == {i \in DOMAIN settlements : settlements[i].own}
Answered(s) == s \notin awaited /\ ~guessed

DealsInv ==
  /\ provisioned \in BOOLEAN
  /\ dealt \in [Deals -> DealStatuses]
  /\ settlements \in Seq(Settlement)
  /\ past \in Nat /\ past <= Len(settlements)
  /\ \A d \in Deals : dealt[d] = "COMMITTED" =>
       \E i \in DOMAIN settlements : settlements[i].deal = d
  /\ \A i \in DOMAIN settlements :
       /\ dealt[settlements[i].deal] \notin {"none", "NEGOTIATING"}
       /\ settlements[i].own => provisioned
       /\ i > past /\ settlements[i].deal \in Own => settlements[i].deal \in meanwhile

LoadInv ==
  /\ awaited \subseteq Sections /\ meanwhile \subseteq Own /\ guessed \in BOOLEAN
  /\ sections \in [assets : BOOLEAN, negotiations : SUBSET [deal : Own, status : DealStatuses],
                   settlements : SUBSET Nat,
                   analytics : [active : Nat, committed : Nat, assets : BOOLEAN]]

AssetsInv ==
  /\ Answered("assets") => sections.assets = Authorized \/ meanwhile = Own
  /\ Answered("analytics") => sections.analytics.assets = Authorized \/ meanwhile = Own

ListInv ==
  \E sided \in SUBSET Own, shown \in SUBSET Own, status \in [Own -> DealStatuses] :
    /\ shown \subseteq sided /\ Cardinality(shown) <= PageSize
    /\ Cardinality(shown) < PageSize => shown = sided
    /\ sections.negotiations = {[deal |-> d, status |-> status[d]] : d \in shown}
    /\ Answered("negotiations") =>
         \A d \in Own \ meanwhile : status[d] = dealt[d] /\ (d \in sided <=> d \in Sided)

SettledInv ==
  \E settled \in SUBSET Settled :
    /\ sections.settlements \subseteq settled /\ Cardinality(sections.settlements) <= PageSize
    /\ Cardinality(sections.settlements) < PageSize => sections.settlements = settled
    /\ Answered("settlements") => \A i \in Settled : i <= past => i \in settled

CountInv ==
  \E active \in SUBSET Own, committed \in SUBSET Settled :
    /\ sections.analytics.active = Cardinality(active)
    /\ sections.analytics.committed = Cardinality(committed)
    /\ Answered("analytics") =>
         /\ \A d \in Own \ meanwhile : d \in active <=> d \in Sided /\ dealt[d] \in Active
         /\ \A i \in Settled : i <= past => i \in committed

PagesInv == DealsInv /\ LoadInv /\ AssetsInv /\ ListInv /\ SettledInv /\ CountInv

(* A set of numbers that is not empty has a least one.                     *)
LEMMA LeastOf == \A S \in SUBSET Nat : S # {} => \E x \in S : \A y \in S : x <= y
<1> SUFFICES ASSUME NEW S \in SUBSET Nat, S # {} PROVE \E x \in S : \A y \in S : x <= y
  OBVIOUS
<1>1. PICK x \in S : \A y \in S : <<y, x>> \notin OpToRel(<, Nat)
  BY NatLessThanWellFounded, WFMin, Zenon
<1>2. \A y, z \in Nat : y < z => <<y, z>> \in OpToRel(<, Nat)  BY Zenon DEF OpToRel
<1>3. \A y \in S : ~ (y < x)  BY <1>1, <1>2, Zenon
<1>4. QED  BY <1>3

(* A page holds at most as many rows as it may, and holds every row when   *)
(* it holds fewer.                                                         *)
LEMMA NewestOfRows ==
  ASSUME NEW rows \in SUBSET Nat, IsFiniteSet(rows)
  PROVE  /\ Newest(rows) \subseteq rows /\ Cardinality(Newest(rows)) <= PageSize
         /\ Cardinality(Newest(rows)) < PageSize => Newest(rows) = rows
<1> DEFINE after(i) == {j \in rows : j > i}
           page == Newest(rows)
<1>1. PageSize \in Nat /\ PageSize > 0  BY DealAssumption
<1>2. page = {i \in rows : Cardinality(after(i)) < PageSize}  BY DEF Newest
<1>3. page \subseteq rows /\ IsFiniteSet(page) /\ Cardinality(page) \in Nat
  BY <1>2, FS_Subset, FS_CardinalityType
<1>4. ASSUME NEW i PROVE IsFiniteSet(after(i)) /\ Cardinality(after(i)) \in Nat
  <2>1. IsFiniteSet(after(i))  BY FS_Subset
  <2>2. QED  BY <2>1, FS_CardinalityType
<1>5. Cardinality(page) <= PageSize
  <2>1. CASE page = {}  BY <2>1, <1>1, FS_EmptySet
  <2>2. CASE page # {}
    <3>1. page \in SUBSET Nat  BY <1>3
    <3> HIDE DEF page
    <3>2. PICK i \in page : \A j \in page : i <= j  BY <2>2, <3>1, LeastOf
    <3>3. page \subseteq after(i) \cup {i}  BY <3>1, <3>2, <1>3
    <3>4. Cardinality(after(i)) < PageSize  BY <1>2
    <3> HIDE DEF after
    <3>5. i \notin after(i)  BY <3>1 DEF after
    <3>6. IsFiniteSet(after(i) \cup {i}) /\ Cardinality(after(i) \cup {i}) = Cardinality(after(i)) + 1
      BY <3>5, <1>4, FS_AddElement
    <3>7. Cardinality(page) <= Cardinality(after(i) \cup {i})  BY <3>3, <3>6, FS_Subset
    <3>8. QED  BY <3>4, <3>6, <3>7, <1>1, <1>3, <1>4
  <2>3. QED  BY <2>1, <2>2
<1>6. ASSUME page # rows PROVE Cardinality(page) >= PageSize
  <2> DEFINE left == rows \ page
             sizes == {Cardinality(after(i)) : i \in left}
  <2>1. sizes \in SUBSET Nat /\ sizes # {}  BY <1>3, <1>4, <1>6
  <2>2. PICK k \in sizes : \A l \in sizes : k <= l
    <3> HIDE DEF sizes
    <3>1. QED  BY <2>1, LeastOf
  <2>3. PICK i \in left : k = Cardinality(after(i))  BY <2>2
  <2>4. i \in rows /\ i \in Nat /\ ~(Cardinality(after(i)) < PageSize)  BY <2>3, <1>2
  <2>5. ASSUME NEW j \in after(i), j \in left PROVE FALSE
    <3>1. j \in Nat /\ j > i /\ i \in Nat  BY <2>4, <2>5
    <3>2. after(j) \subseteq after(i) \ {j}
      <4> SUFFICES ASSUME NEW x \in after(j) PROVE x \in after(i) \ {j}  OBVIOUS
      <4>1. x \in rows /\ x \in Nat /\ x > j  OBVIOUS
      <4>2. x > i /\ x # j  BY <4>1, <3>1
      <4>3. QED  BY <4>1, <4>2
    <3>3. k <= Cardinality(after(j))  BY <2>2, <2>5
    <3> HIDE DEF after
    <3>4. IsFiniteSet(after(i) \ {j}) /\ Cardinality(after(i) \ {j}) = Cardinality(after(i)) - 1
      BY <2>5, <1>4, FS_RemoveElement
    <3>5. Cardinality(after(j)) <= Cardinality(after(i) \ {j})  BY <3>2, <3>4, FS_Subset
    <3>6. QED  BY <3>3, <3>4, <3>5, <2>3, <1>4
  <2>6. after(i) \subseteq page  BY <2>5
  <2>7. Cardinality(after(i)) <= Cardinality(page)  BY <2>6, <1>3, FS_Subset
  <2>8. QED  BY <2>7, <2>4, <1>1, <1>3, <1>4
<1>7. QED  BY <1>1, <1>3, <1>5, <1>6

(* Two sets that agree outside a third are as large, but for its size.     *)
LEMMA AlikeOutside ==
  ASSUME NEW S, NEW T, NEW M, IsFiniteSet(S), IsFiniteSet(T), IsFiniteSet(M), S \ M \subseteq T
  PROVE  Cardinality(S) <= Cardinality(T) + Cardinality(M)
<1>1. S \subseteq T \cup M  OBVIOUS
<1>2. IsFiniteSet(T \cup M) /\ Cardinality(T \cup M) <= Cardinality(T) + Cardinality(M)
  <2>1. /\ IsFiniteSet(T \cup M) /\ IsFiniteSet(T \cap M)
        /\ Cardinality(T \cup M) = Cardinality(T) + Cardinality(M) - Cardinality(T \cap M)
    BY FS_Union, FS_Intersection
  <2>2. Cardinality(T) \in Nat /\ Cardinality(M) \in Nat /\ Cardinality(T \cap M) \in Nat
    BY <2>1, FS_CardinalityType
  <2>3. QED  BY <2>1, <2>2
<1>3. Cardinality(S) <= Cardinality(T \cup M)  BY <1>1, <1>2, FS_Subset
<1>4. Cardinality(S) \in Nat /\ Cardinality(T) \in Nat /\ Cardinality(M) \in Nat
      /\ Cardinality(T \cup M) \in Nat
  BY <1>2, FS_CardinalityType
<1>5. QED  BY <1>2, <1>3, <1>4

(* Rows that name each a thing of its own are as many as the things.       *)
LEMMA AsManyAsNamed ==
  ASSUME NEW S, IsFiniteSet(S), NEW f, S \subseteq DOMAIN f,
         \A i, j \in S : f[i] = f[j] => i = j
  PROVE  IsFiniteSet({f[i] : i \in S}) /\ Cardinality({f[i] : i \in S}) = Cardinality(S)
<1> DEFINE T == {f[i] : i \in S}
           g == [i \in S |-> f[i]]
<1>1. g \in Surjection(S, T)  BY DEF Surjection
<1>2. g \in Injection(S, T)  BY DEF Injection, IsInjective
<1> HIDE DEF g, T
<1>3. IsFiniteSet(T)  BY <1>1, FS_Surjection
<1>4. Cardinality(T) <= Cardinality(S)  BY <1>1, FS_Surjection
<1>5. Cardinality(S) <= Cardinality(T)  BY <1>2, <1>3, FS_Injection
<1>6. Cardinality(S) \in Nat /\ Cardinality(T) \in Nat  BY <1>3, FS_CardinalityType
<1>7. QED  BY <1>3, <1>4, <1>5, <1>6 DEF T

(* The owner's settlements are numbers of settlements, finitely many.      *)
LEMMA SettledDeals ==
  ASSUME DealsInv
  PROVE  /\ DOMAIN settlements = 1 .. Len(settlements) /\ Len(settlements) \in Nat
         /\ Settled \in SUBSET Nat /\ SettledByOwner = Settled
         /\ \A S \in SUBSET Settled : IsFiniteSet(S) /\ Cardinality(S) \in Nat
<1>1. DOMAIN settlements = 1 .. Len(settlements) /\ Len(settlements) \in Nat  BY DEF DealsInv
<1>2. IsFiniteSet(DOMAIN settlements)  BY <1>1, FS_Interval
<1>3. Settled \subseteq DOMAIN settlements  BY DEF Settled
<1>4. SettledByOwner = Settled  BY DEF SettledByOwner, Settled, Authorized, DealsInv
<1>5. ASSUME NEW S \in SUBSET Settled PROVE IsFiniteSet(S) /\ Cardinality(S) \in Nat
  <2>1. IsFiniteSet(S)  BY <1>2, <1>3, FS_Subset
  <2>2. QED  BY <2>1, FS_CardinalityType
<1>6. Settled \in SUBSET Nat  BY <1>1, <1>3
<1>7. QED  BY <1>1, <1>4, <1>5, <1>6

LEMMA OwnFinite == \A S \in SUBSET Own : IsFiniteSet(S) /\ Cardinality(S) \in Nat
<1> SUFFICES ASSUME NEW S \in SUBSET Own PROVE IsFiniteSet(S) /\ Cardinality(S) \in Nat  OBVIOUS
<1>1. IsFiniteSet(S)  BY DealAssumption, FS_Subset
<1>2. QED  BY <1>1, FS_CardinalityType

(* What the sections agree in is what all of them agree in with now.       *)
LEMMA PagesInvAgrees == PagesInv => SectionsAgree
<1> SUFFICES ASSUME PagesInv, awaited = {}, ~guessed PROVE SectionsAgree
  BY DEF SectionsAgree
<1> DEFINE listed   == sections.negotiations
           settled  == sections.settlements
           counts   == sections.analytics
           open     == {n \in listed : n.status \in Active}
           near(m, n, k) == m <= n + k /\ n <= m + k
<1>0. DealsInv  BY DEF PagesInv
<1>1. \A s : Answered(s)  BY DEF Answered
<1>2. meanwhile \subseteq Own /\ IsFiniteSet(meanwhile) /\ Cardinality(meanwhile) \in Nat
  BY OwnFinite DEF PagesInv, LoadInv
<1>3. PICK sided \in SUBSET Own, shown \in SUBSET Own, status \in [Own -> DealStatuses] :
        /\ shown \subseteq sided
        /\ Cardinality(shown) < PageSize => shown = sided
        /\ listed = {[deal |-> d, status |-> status[d]] : d \in shown}
        /\ \A d \in Own \ meanwhile : status[d] = dealt[d] /\ (d \in sided <=> d \in Sided)
  BY <1>1 DEF PagesInv, ListInv
<1>4. PICK all \in SUBSET Settled :
        /\ settled \subseteq all
        /\ Cardinality(settled) < PageSize => settled = all
        /\ \A i \in Settled : i <= past => i \in all
  BY <1>1 DEF PagesInv, SettledInv
<1>5. PICK active \in SUBSET Own, committed \in SUBSET Settled :
        /\ counts.active = Cardinality(active)
        /\ counts.committed = Cardinality(committed)
        /\ \A d \in Own \ meanwhile : d \in active <=> d \in Sided /\ dealt[d] \in Active
        /\ \A i \in Settled : i <= past => i \in committed
  BY <1>1 DEF PagesInv, CountInv
<1>6. sections.assets = counts.assets \/ meanwhile = Own
  BY <1>1 DEF PagesInv, AssetsInv
<1> HIDE DEF listed, settled, counts
<1>7. Cardinality(listed) = Cardinality(shown)
  <2> DEFINE f == [d \in shown |-> [deal |-> d, status |-> status[d]]]
  <2>1. \A i, j \in shown : f[i] = f[j] => i = j
    <3> SUFFICES ASSUME NEW i \in shown, NEW j \in shown, f[i] = f[j] PROVE i = j  OBVIOUS
    <3>1. f[i].deal = i /\ f[j].deal = j  OBVIOUS
    <3>2. QED  BY <3>1
  <2>2. listed = {f[d] : d \in shown} /\ DOMAIN f = shown  BY <1>3
  <2> HIDE DEF f
  <2>3. QED  BY <2>1, <2>2, OwnFinite, AsManyAsNamed
<1>8. ASSUME Cardinality(listed) < PageSize
      PROVE  near(Cardinality(open), counts.active, Cardinality(meanwhile))
  <2> DEFINE openDeals == {d \in sided : status[d] \in Active}
             f == [d \in openDeals |-> [deal |-> d, status |-> status[d]]]
  <2>1. shown = sided  BY <1>3, <1>7, <1>8
  <2>2. open = {f[d] : d \in openDeals}
    <3>1. \A d \in openDeals : f[d] = [deal |-> d, status |-> status[d]] /\ f[d].status = status[d]
      OBVIOUS
    <3> HIDE DEF f
    <3>2. ASSUME NEW n \in open PROVE \E d \in openDeals : n = f[d]
      <4>1. PICK d \in sided : n = [deal |-> d, status |-> status[d]]  BY <1>3, <2>1
      <4>2. d \in openDeals  BY <4>1
      <4>3. QED  BY <4>1, <4>2, <3>1
    <3>3. ASSUME NEW d \in openDeals PROVE f[d] \in open
      <4>1. f[d] \in listed  BY <3>1, <1>3, <2>1
      <4>2. QED  BY <4>1, <3>1
    <3>4. QED  BY <3>2, <3>3
  <2>3. \A i, j \in openDeals : f[i] = f[j] => i = j
    <3> SUFFICES ASSUME NEW i \in openDeals, NEW j \in openDeals, f[i] = f[j] PROVE i = j
      OBVIOUS
    <3>1. f[i].deal = i /\ f[j].deal = j  OBVIOUS
    <3>2. QED  BY <3>1
  <2>4. DOMAIN f = openDeals  OBVIOUS
  <2> HIDE DEF f, open
  <2>5. IsFiniteSet(openDeals) /\ IsFiniteSet(active)
        /\ Cardinality(openDeals) \in Nat /\ Cardinality(active) \in Nat
    BY OwnFinite
  <2>6. Cardinality(open) = Cardinality(openDeals)  BY <2>2, <2>3, <2>4, <2>5, AsManyAsNamed
  <2>7. openDeals \ meanwhile \subseteq active /\ active \ meanwhile \subseteq openDeals
    <3>1. ASSUME NEW d \in Own \ meanwhile PROVE d \in openDeals <=> d \in active
      BY <3>1, <1>3, <1>5
    <3>2. openDeals \subseteq Own  OBVIOUS
    <3> HIDE DEF openDeals
    <3>3. QED  BY <3>1, <3>2
  <2> HIDE DEF openDeals
  <2>8. /\ Cardinality(openDeals) <= Cardinality(active) + Cardinality(meanwhile)
        /\ Cardinality(active) <= Cardinality(openDeals) + Cardinality(meanwhile)
    BY <1>2, <2>5, <2>7, AlikeOutside
  <2>9. QED  BY <2>6, <2>8, <1>5
<1>9. ASSUME Cardinality(settled) < PageSize
      PROVE  near(Cardinality(settled), counts.committed, Len(settlements) - past)
  <2> DEFINE later == past + 1 .. Len(settlements)
  <2>1. settled = all  BY <1>4, <1>9
  <2>2. /\ IsFiniteSet(all) /\ Cardinality(all) \in Nat
        /\ IsFiniteSet(committed) /\ Cardinality(committed) \in Nat
    BY <1>0, SettledDeals
  <2>3. past \in Nat /\ Len(settlements) \in Nat /\ past <= Len(settlements)
    BY <1>0, SettledDeals DEF DealsInv
  <2>4. IsFiniteSet(later) /\ Cardinality(later) = Len(settlements) - past
    <3> DEFINE n == Len(settlements)
    <3> HIDE DEF n
    <3>1. n \in Nat /\ past \in Nat /\ past <= n  BY <2>3 DEF n
    <3>2. past + 1 \in Int /\ n \in Int  BY <3>1
    <3>3. /\ IsFiniteSet(past + 1 .. n)
          /\ Cardinality(past + 1 .. n) = IF past + 1 > n THEN 0 ELSE n - (past + 1) + 1
      BY ONLY <3>2, FS_Interval
    <3>4. QED  BY <3>1, <3>3 DEF n
  <2>5. \A i \in Settled : i \in Nat /\ i <= Len(settlements)
    BY <1>0, SettledDeals DEF Settled
  <2>6. all \ later \subseteq committed /\ committed \ later \subseteq all
    BY <1>4, <1>5, <2>3, <2>5
  <2> HIDE DEF later
  <2>7. /\ Cardinality(all) <= Cardinality(committed) + Cardinality(later)
        /\ Cardinality(committed) <= Cardinality(all) + Cardinality(later)
    BY <2>2, <2>4, <2>6, AlikeOutside
  <2>8. QED  BY <2>1, <2>4, <2>7, <1>5
<1>10. ASSUME Cardinality(settled) < PageSize, NEW n \in listed,
              n.deal \notin meanwhile, n.status = "COMMITTED"
       PROVE  LET its == {i \in DOMAIN settlements : settlements[i].deal = n.deal}
              IN  its # {} /\ \A i \in its : settlements[i].own => i \in settled
  <2>1. PICK d \in shown : n = [deal |-> d, status |-> status[d]]  BY <1>3, <1>10
  <2>2. n.deal = d /\ dealt[d] = "COMMITTED" /\ d \in Deals
    BY <2>1, <1>3, <1>10, DealAssumption
  <2>3. \E i \in DOMAIN settlements : settlements[i].deal = d  BY <2>2, <1>0 DEF DealsInv
  <2>4. ASSUME NEW i \in DOMAIN settlements, settlements[i].deal = d, settlements[i].own
        PROVE  i \in settled
    <3>1. i \in Settled  BY <2>4 DEF Settled
    <3>2. i <= past
      <4>1. d \in Own \ meanwhile /\ i \in Nat /\ past \in Nat
        BY <2>1, <2>2, <2>4, <1>0, <1>10, SettledDeals DEF DealsInv
      <4>2. QED  BY <4>1, <2>4, <1>0 DEF DealsInv
    <3>3. QED  BY <3>1, <3>2, <1>4, <1>10
  <2>5. QED  BY <2>2, <2>3, <2>4
<1>11. ASSUME Cardinality(listed) < PageSize, NEW i \in settled,
              settlements[i].deal \in Own \ meanwhile
       PROVE  \E n \in listed : n.deal = settlements[i].deal /\ n.status # "NEGOTIATING"
  <2> DEFINE d == settlements[i].deal
  <2>1. i \in DOMAIN settlements /\ settlements[i].own  BY <1>4 DEF Settled
  <2>2. dealt[d] \notin {"none", "NEGOTIATING"} /\ Authorized
    BY <2>1, <1>0 DEF DealsInv, Authorized
  <2>3. d \in Sided  BY <2>2, <1>11 DEF Sided
  <2> HIDE DEF d
  <2>4. d \in Own \ meanwhile  BY <1>11 DEF d
  <2>5. d \in shown /\ status[d] = dealt[d]  BY <2>3, <2>4, <1>3, <1>7, <1>11
  <2>6. [deal |-> d, status |-> status[d]] \in listed  BY <2>5, <1>3
  <2>7. QED  BY <2>2, <2>5, <2>6 DEF d
<1>12. QED  BY <1>6, <1>8, <1>9, <1>10, <1>11 DEF SectionsAgree, listed, settled, counts

-------------------------------------------------------------------------------
LEMMA PagesInvInit == PagesInit => PagesInv
<1> SUFFICES ASSUME PagesInit PROVE PagesInv  OBVIOUS
<1> USE DEF PagesInit
<1>1. DOMAIN settlements = {} /\ settlements \in Seq(Settlement) /\ Len(settlements) = 0
  OBVIOUS
<1>2. DealsInv
  <2>1. dealt \in [Deals -> DealStatuses] /\ \A d \in Deals : dealt[d] = "none"
    BY DEF DealStatuses
  <2>2. provisioned \in BOOLEAN /\ past = 0  OBVIOUS
  <2>3. past \in Nat /\ past <= Len(settlements)  BY ONLY <1>1, <2>2
  <2>4. QED  BY <1>1, <2>1, <2>2, <2>3 DEF DealsInv
<1>3. LoadInv  BY DEF LoadInv, NoSections
<1>4. AssetsInv  BY DEF AssetsInv, NoSections, Authorized
<1>5. Sided = {} /\ Settled = {}  BY <1>1 DEF Sided, Settled, Authorized
<1>6. Cardinality({}) = 0 /\ PageSize \in Nat  BY FS_EmptySet, DealAssumption
<1>7. ListInv
  <2> DEFINE none == [d \in Own |-> "none"]
  <2>1. none \in [Own -> DealStatuses] /\ \A d \in Own : none[d] = dealt[d]
    BY DealAssumption DEF DealStatuses
  <2>2. sections.negotiations = {[deal |-> d, status |-> none[d]] : d \in {}}  BY DEF NoSections
  <2> HIDE DEF none
  <2>3. \A d \in Own \ meanwhile : none[d] = dealt[d] /\ (d \in {} <=> d \in Sided)
    BY <2>1, <1>5
  <2>4. {} \in SUBSET Own /\ {} \subseteq {} /\ Cardinality({}) <= PageSize  BY <1>6
  <2> DEFINE empty == {}
  <2>5. /\ empty \in SUBSET Own /\ empty \subseteq empty /\ Cardinality(empty) <= PageSize
        /\ sections.negotiations = {[deal |-> d, status |-> none[d]] : d \in empty}
        /\ \A d \in Own \ meanwhile : none[d] = dealt[d] /\ (d \in empty <=> d \in Sided)
    BY <2>2, <2>3, <2>4
  <2> HIDE DEF empty
  <2>6. \E sided \in SUBSET Own, shown \in SUBSET Own, status \in [Own -> DealStatuses] :
          /\ shown \subseteq sided /\ Cardinality(shown) <= PageSize
          /\ Cardinality(shown) < PageSize => shown = sided
          /\ sections.negotiations = {[deal |-> d, status |-> status[d]] : d \in shown}
          /\ Answered("negotiations") =>
               \A d \in Own \ meanwhile : status[d] = dealt[d] /\ (d \in sided <=> d \in Sided)
    <3> empty \in SUBSET Own  BY <2>5
    <3> none \in [Own -> DealStatuses]  BY <2>1
    <3> WITNESS empty \in SUBSET Own, empty \in SUBSET Own, none \in [Own -> DealStatuses]
    <3>1. QED  BY <2>5
  <2>7. QED  BY <2>6 DEF ListInv
<1>8. SettledInv
  <2>1. sections.settlements = {}  BY DEF NoSections
  <2>2. QED  BY <2>1, <1>5, <1>6 DEF SettledInv
<1>9. CountInv  BY <1>5, <1>6 DEF CountInv, NoSections
<1>10. QED  BY <1>2, <1>3, <1>4, <1>7, <1>8, <1>9 DEF PagesInv

(* The list of deals stays right while no deal changes that is not noted.  *)
LEMMA ListStays ==
  ASSUME ListInv, sections'.negotiations = sections.negotiations,
         Answered("negotiations")' => Answered("negotiations"),
         \A d \in Own \ meanwhile' : /\ d \notin meanwhile /\ dealt'[d] = dealt[d]
                                     /\ d \in Sided' <=> d \in Sided
  PROVE  ListInv'
<1>1. PICK sided \in SUBSET Own, shown \in SUBSET Own, status \in [Own -> DealStatuses] :
        /\ shown \subseteq sided /\ Cardinality(shown) <= PageSize
        /\ Cardinality(shown) < PageSize => shown = sided
        /\ sections.negotiations = {[deal |-> d, status |-> status[d]] : d \in shown}
        /\ Answered("negotiations") =>
             \A d \in Own \ meanwhile : status[d] = dealt[d] /\ (d \in sided <=> d \in Sided)
  BY DEF ListInv
<1>2. /\ shown \subseteq sided /\ Cardinality(shown) <= PageSize
      /\ Cardinality(shown) < PageSize => shown = sided
      /\ sections'.negotiations = {[deal |-> d, status |-> status[d]] : d \in shown}
      /\ Answered("negotiations")' =>
           \A d \in Own \ meanwhile' : status[d] = dealt'[d] /\ (d \in sided <=> d \in Sided')
  <2>1. sections'.negotiations = {[deal |-> d, status |-> status[d]] : d \in shown}
    BY <1>1
  <2>2. ASSUME Answered("negotiations")', NEW d \in Own \ meanwhile'
        PROVE  status[d] = dealt'[d] /\ (d \in sided <=> d \in Sided')
    <3>1. d \in Own \ meanwhile /\ Answered("negotiations")  BY <2>2
    <3>2. status[d] = dealt[d] /\ (d \in sided <=> d \in Sided)  BY ONLY <3>1, <1>1
    <3>3. dealt'[d] = dealt[d] /\ (d \in Sided' <=> d \in Sided)  OBVIOUS
    <3>4. QED  BY ONLY <3>2, <3>3
  <2>3. QED  BY ONLY <1>1, <2>1, <2>2
<1>3. \E all \in SUBSET Own, rows \in SUBSET Own, f \in [Own -> DealStatuses] :
        /\ rows \subseteq all /\ Cardinality(rows) <= PageSize
        /\ Cardinality(rows) < PageSize => rows = all
        /\ sections'.negotiations = {[deal |-> d, status |-> f[d]] : d \in rows}
        /\ Answered("negotiations")' =>
             \A d \in Own \ meanwhile' : f[d] = dealt'[d] /\ (d \in all <=> d \in Sided')
  <2> WITNESS sided \in SUBSET Own, shown \in SUBSET Own, status \in [Own -> DealStatuses]
  <2>1. QED  BY ONLY <1>2
<1>4. QED  BY ONLY <1>3 DEF ListInv

(* Answers already given stay right while deals and the membership change, *)
(* for the deals that change are noted and settlements only added.         *)
LEMMA AnswersStay ==
  ASSUME PagesInv, DealsInv', UNCHANGED <<awaited, sections, guessed, past>>,
         meanwhile \subseteq meanwhile', meanwhile' \subseteq Own,
         meanwhile' # Own => provisioned' = provisioned,
         \A d \in Own \ meanwhile' : dealt'[d] = dealt[d],
         Len(settlements) <= Len(settlements'),
         \A i \in DOMAIN settlements : settlements'[i] = settlements[i]
  PROVE  PagesInv'
<1>0. DealsInv  BY DEF PagesInv
<1>1. LoadInv'  BY DEF PagesInv, LoadInv
<1>2. AssetsInv'  BY DEF PagesInv, LoadInv, AssetsInv, Answered, Authorized
<1>3. ASSUME NEW d \in Own \ meanwhile'
      PROVE  /\ d \in Own \ meanwhile /\ dealt'[d] = dealt[d]
             /\ d \in Sided' <=> d \in Sided
  BY <1>3 DEF Sided, Authorized
<1>4. /\ Settled \subseteq Settled'
      /\ \A i \in Settled' : i <= past => i \in Settled
  <2>1. /\ DOMAIN settlements = 1 .. Len(settlements) /\ Len(settlements) \in Nat
        /\ past \in Nat /\ past <= Len(settlements)
    BY <1>0 DEF DealsInv
  <2>2. DOMAIN settlements' = 1 .. Len(settlements') /\ Len(settlements') \in Nat
    BY DEF DealsInv
  <2>3. QED  BY <2>1, <2>2 DEF Settled
<1>5. ListInv'
  <2>1. ListInv /\ (Answered("negotiations")' => Answered("negotiations"))
    BY DEF PagesInv, Answered
  <2>2. QED  BY <2>1, <1>3, ListStays
<1>6. SettledInv'
  <2>1. PICK settled \in SUBSET Settled :
          /\ sections.settlements \subseteq settled /\ Cardinality(sections.settlements) <= PageSize
          /\ Cardinality(sections.settlements) < PageSize => sections.settlements = settled
          /\ Answered("settlements") => \A i \in Settled : i <= past => i \in settled
    BY DEF PagesInv, SettledInv
  <2>2. Answered("settlements")' => \A i \in Settled' : i <= past' => i \in settled
    BY <1>4, <2>1 DEF Answered
  <2>3. settled \in SUBSET Settled'  BY <1>4
  <2>4. QED  BY <2>1, <2>2, <2>3 DEF SettledInv
<1>7. CountInv'
  <2>1. PICK active \in SUBSET Own, committed \in SUBSET Settled :
          /\ sections.analytics.active = Cardinality(active)
          /\ sections.analytics.committed = Cardinality(committed)
          /\ Answered("analytics") =>
               /\ \A d \in Own \ meanwhile : d \in active <=> d \in Sided /\ dealt[d] \in Active
               /\ \A i \in Settled : i <= past => i \in committed
    BY DEF PagesInv, CountInv
  <2>2. Answered("analytics")' =>
          /\ \A d \in Own \ meanwhile' : d \in active <=> d \in Sided' /\ dealt'[d] \in Active
          /\ \A i \in Settled' : i <= past' => i \in committed
    BY <1>3, <1>4, <2>1 DEF Answered
  <2>3. committed \in SUBSET Settled'  BY <1>4
  <2>4. QED  BY <2>1, <2>2, <2>3 DEF CountInv
<1>8. QED  BY <1>1, <1>2, <1>5, <1>6, <1>7 DEF PagesInv

-------------------------------------------------------------------------------
(* What an answer shows is what there is now.                              *)
LEMMA SidedFinite ==
  Sided \in SUBSET Own /\ Sided \in SUBSET Nat /\ IsFiniteSet(Sided)
<1>1. Sided \in SUBSET Own  BY DEF Sided
<1>2. QED  BY <1>1, OwnFinite, DealAssumption

LEMMA SettlementsShown ==
  ASSUME DealsInv
  PROVE  /\ MySettlements \subseteq Settled /\ Cardinality(MySettlements) <= PageSize
         /\ Cardinality(MySettlements) < PageSize => MySettlements = Settled
<1> DEFINE shown == Newest(SettledByOwner)
<1>1. /\ shown \subseteq SettledByOwner /\ Cardinality(shown) <= PageSize
      /\ Cardinality(shown) < PageSize => shown = SettledByOwner
  BY SettledDeals, NewestOfRows
<1>2. QED  BY <1>1, SettledDeals DEF MySettlements

LEMMA PageAnswerKeeps ==
  ASSUME PagesInv, NEW s \in Sections, AnswerSection(s)
  PROVE  PagesInv'
<1> USE DEF AnswerSection
<1>0. DealsInv /\ DealsInv'  BY DEF PagesInv, DealsInv
<1>1. /\ Sided' = Sided /\ Settled' = Settled /\ Authorized' = Authorized
  BY DEF Sided, Settled, Authorized
<1>2. /\ \A r \in Sections : Answered(r)' => r = s \/ Answered(r)
      /\ meanwhile' = meanwhile /\ meanwhile \subseteq Own /\ past' = past
  BY DEF Answered, PagesInv, LoadInv
<1>3. ASSUME NEW d \in Own PROVE dealt'[d] = dealt[d] /\ dealt[d] \in DealStatuses
  BY <1>0, DealAssumption DEF DealsInv
<1>9. ASSUME s # "negotiations", sections'.negotiations = sections.negotiations PROVE ListInv'
  <2>1. ListInv /\ (Answered("negotiations")' => Answered("negotiations"))
    BY <1>2, <1>9 DEF PagesInv, Sections
  <2>2. QED  BY <2>1, <1>1, <1>2, <1>9, ListStays
<1>4. CASE s = "assets"
  <2>1. sections' = [sections EXCEPT !.assets = Authorized]  BY <1>4 DEF MyAssets
  <2>2. LoadInv'  BY <2>1, <1>0 DEF PagesInv, LoadInv, DealsInv, Authorized
  <2>3. sections'.assets = Authorized /\ sections'.analytics = sections.analytics
        /\ sections'.negotiations = sections.negotiations /\ sections'.settlements = sections.settlements
    BY <2>1 DEF PagesInv, LoadInv
  <2>4. AssetsInv'  BY <2>3, <1>1, <1>2, <1>4 DEF PagesInv, AssetsInv, Sections
  <2>5. ListInv'  BY <2>3, <1>4, <1>9
  <2>6. SettledInv'  BY <2>3, <1>1, <1>2, <1>4 DEF PagesInv, SettledInv, Sections
  <2>7. CountInv'  BY <2>3, <1>1, <1>2, <1>4 DEF PagesInv, CountInv, Sections
  <2>8. QED  BY <1>0, <2>2, <2>4, <2>5, <2>6, <2>7 DEF PagesInv
<1>5. CASE s = "negotiations"
  <2> DEFINE shown == Newest(Sided)
             status == [d \in Own |-> dealt[d]]
  <2>1. sections' = [sections EXCEPT !.negotiations = MyNegotiations]  BY <1>5
  <2>2. /\ shown \subseteq Sided /\ Cardinality(shown) <= PageSize
        /\ Cardinality(shown) < PageSize => shown = Sided
    BY SidedFinite, NewestOfRows
  <2>3. shown \in SUBSET Own /\ Sided \in SUBSET Own  BY <2>2, SidedFinite
  <2>4. MyNegotiations = {[deal |-> d, status |-> status[d]] : d \in shown}
    BY <2>3 DEF MyNegotiations
  <2>5. status \in [Own -> DealStatuses] /\ \A d \in Own : status[d] = dealt'[d]  BY <1>3
  <2> HIDE DEF shown, status
  <2>6. MyNegotiations \in SUBSET [deal : Own, status : DealStatuses]  BY <2>3, <2>4, <2>5
  <2>7. LoadInv'  BY <2>1, <2>6, <1>0 DEF PagesInv, LoadInv
  <2>8. sections'.negotiations = MyNegotiations /\ sections'.analytics = sections.analytics
        /\ sections'.assets = sections.assets /\ sections'.settlements = sections.settlements
    BY <2>1 DEF PagesInv, LoadInv
  <2>9. AssetsInv'  BY <2>8, <1>1, <1>2, <1>5 DEF PagesInv, AssetsInv, Sections
  <2>10. ListInv'
    <3>1. sections'.negotiations = {[deal |-> d, status |-> status[d]] : d \in shown}
      BY <2>4, <2>8
    <3>2. \A d \in Own \ meanwhile' : status[d] = dealt'[d] /\ (d \in Sided <=> d \in Sided')
      BY <2>5, <1>1
    <3> Sided \in SUBSET Own /\ shown \in SUBSET Own  BY <2>3
    <3> status \in [Own -> DealStatuses]  BY <2>5
    <3>3. \E sided \in SUBSET Own, rows \in SUBSET Own, f \in [Own -> DealStatuses] :
            /\ rows \subseteq sided /\ Cardinality(rows) <= PageSize
            /\ Cardinality(rows) < PageSize => rows = sided
            /\ sections'.negotiations = {[deal |-> d, status |-> f[d]] : d \in rows}
            /\ Answered("negotiations")' =>
                 \A d \in Own \ meanwhile' : f[d] = dealt'[d] /\ (d \in sided <=> d \in Sided')
      <4> WITNESS Sided \in SUBSET Own, shown \in SUBSET Own, status \in [Own -> DealStatuses]
      <4>1. QED  BY <3>1, <3>2, <2>2
    <3>4. QED  BY ONLY <3>3 DEF ListInv
  <2>11. SettledInv'  BY <2>8, <1>1, <1>2, <1>5 DEF PagesInv, SettledInv, Sections
  <2>12. CountInv'  BY <2>8, <1>1, <1>2, <1>5 DEF PagesInv, CountInv, Sections
  <2>13. QED  BY <1>0, <2>7, <2>9, <2>10, <2>11, <2>12 DEF PagesInv
<1>6. CASE s = "settlements"
  <2>1. sections' = [sections EXCEPT !.settlements = MySettlements]  BY <1>6
  <2>2. /\ Settled \in SUBSET Nat
        /\ MySettlements \subseteq Settled /\ Cardinality(MySettlements) <= PageSize
        /\ Cardinality(MySettlements) < PageSize => MySettlements = Settled
    BY <1>0, SettledDeals, SettlementsShown
  <2>3. LoadInv'  BY <2>1, <2>2, <1>0 DEF PagesInv, LoadInv
  <2>4. sections'.settlements = MySettlements /\ sections'.analytics = sections.analytics
        /\ sections'.assets = sections.assets /\ sections'.negotiations = sections.negotiations
    BY <2>1 DEF PagesInv, LoadInv
  <2>5. AssetsInv'  BY <2>4, <1>1, <1>2, <1>6 DEF PagesInv, AssetsInv, Sections
  <2>6. ListInv'  BY <2>4, <1>6, <1>9
  <2>7. SettledInv'  BY <2>2, <2>4, <1>1 DEF SettledInv
  <2>8. CountInv'  BY <2>4, <1>1, <1>2, <1>6 DEF PagesInv, CountInv, Sections
  <2>9. QED  BY <1>0, <2>3, <2>5, <2>6, <2>7, <2>8 DEF PagesInv
<1>7. CASE s = "analytics"
  <2> DEFINE active == {d \in Sided : dealt[d] \in Active}
  <2>1. sections' = [sections EXCEPT !.analytics = MyAnalytics]  BY <1>7
  <2>2. /\ MyAnalytics.active = Cardinality(active) /\ MyAnalytics.committed = Cardinality(Settled)
        /\ MyAnalytics.assets = Authorized
    BY <1>0, SettledDeals DEF MyAnalytics
  <2>3. active \in SUBSET Own /\ Settled \in SUBSET Settled  BY SidedFinite
  <2>4. MyAnalytics \in [active : Nat, committed : Nat, assets : BOOLEAN]
    <3>1. Cardinality(active) \in Nat /\ Cardinality(SettledByOwner) \in Nat
      BY <2>3, <1>0, OwnFinite, SettledDeals
    <3>2. QED  BY <3>1, <1>0 DEF MyAnalytics, DealsInv, Authorized
  <2>5. LoadInv'  BY <2>1, <2>4, <1>0 DEF PagesInv, LoadInv
  <2>6. sections'.analytics = MyAnalytics /\ sections'.settlements = sections.settlements
        /\ sections'.assets = sections.assets /\ sections'.negotiations = sections.negotiations
    BY <2>1 DEF PagesInv, LoadInv
  <2>7. AssetsInv'  BY <2>2, <2>6, <1>1, <1>2, <1>7 DEF PagesInv, AssetsInv, Sections
  <2>8. ListInv'  BY <2>6, <1>7, <1>9
  <2>9. SettledInv'  BY <2>6, <1>1, <1>2, <1>7 DEF PagesInv, SettledInv, Sections
  <2>10. CountInv'
    <3>1. /\ \A d \in Own \ meanwhile' : d \in active <=> d \in Sided' /\ dealt'[d] \in Active
          /\ \A i \in Settled' : i <= past' => i \in Settled
      BY <1>1, <1>3
    <3> HIDE DEF active
    <3>2. QED  BY <3>1, <2>2, <2>3, <2>6, <1>1 DEF CountInv
  <2>11. QED  BY <1>0, <2>5, <2>7, <2>8, <2>9, <2>10 DEF PagesInv
<1>8. QED  BY <1>4, <1>5, <1>6, <1>7 DEF Sections

-------------------------------------------------------------------------------
LEMMA PageFailureKeeps ==
  ASSUME PagesInv, NEW s \in Sections, SectionFails(s)
  PROVE  PagesInv'
<1> USE DEF SectionFails
<1>1. DealsInv'  BY DEF PagesInv, DealsInv
<1>2. LoadInv'  BY DEF PagesInv, LoadInv
<1>3. Sided' = Sided /\ Settled' = Settled /\ Authorized' = Authorized
  BY DEF Sided, Settled, Authorized
<1>4. \A r \in Sections : Answered(r)' => Answered(r)  BY DEF Answered
<1>5. AssetsInv'  BY <1>3, <1>4 DEF PagesInv, AssetsInv, Sections
<1>6. ListInv'  BY <1>3, <1>4, ListStays DEF PagesInv, Sections
<1>7. SettledInv'  BY <1>3, <1>4 DEF PagesInv, SettledInv, Sections
<1>8. CountInv'  BY <1>3, <1>4 DEF PagesInv, CountInv, Sections
<1>9. QED  BY <1>1, <1>2, <1>5, <1>6, <1>7, <1>8 DEF PagesInv

LEMMA PageLoadKeeps == PagesInv /\ LoadPage => PagesInv'
<1> SUFFICES ASSUME PagesInv, LoadPage PROVE PagesInv'  OBVIOUS
<1> USE DEF LoadPage
<1>1. DealsInv'
  <2>1. DealsInv /\ settlements' = settlements  BY DEF PagesInv
  <2>2. /\ Len(settlements) \in Nat /\ past' = Len(settlements)
        /\ \A i \in DOMAIN settlements : i \in Nat /\ i <= Len(settlements)
    BY <2>1, SettledDeals
  <2>3. QED  BY <2>1, <2>2 DEF DealsInv
<1>2. sections' = NoSections /\ \A r \in Sections : ~Answered(r)'  BY DEF Answered
<1>3. LoadInv'
  <2>1. awaited' \subseteq Sections /\ meanwhile' \subseteq Own /\ guessed' \in BOOLEAN  OBVIOUS
  <2>2. NoSections \in [assets : BOOLEAN, negotiations : SUBSET [deal : Own, status : DealStatuses],
                        settlements : SUBSET Nat,
                        analytics : [active : Nat, committed : Nat, assets : BOOLEAN]]
    BY DEF NoSections
  <2>3. QED  BY <1>2, <2>1, <2>2 DEF LoadInv
<1>4. AssetsInv'  BY <1>2 DEF AssetsInv, Sections
<1>5. Cardinality({}) = 0 /\ PageSize \in Nat  BY FS_EmptySet, DealAssumption
<1> DEFINE empty == {}
<1>6. /\ empty \in SUBSET Own /\ Cardinality(empty) = 0 /\ sections'.negotiations = empty
      /\ sections'.settlements = empty /\ \A f : {[deal |-> d, status |-> f[d]] : d \in empty} = empty
  BY <1>2, <1>5 DEF NoSections
<1> HIDE DEF empty
<1>7. ListInv'
  <2>1. [d \in Own |-> "none"] \in [Own -> DealStatuses]  BY DEF DealStatuses
  <2>2. PICK status : status \in [Own -> DealStatuses]  BY <2>1
  <2>3. ~Answered("negotiations")'  BY <1>2 DEF Sections
  <2>4. \E sided \in SUBSET Own, shown \in SUBSET Own, f \in [Own -> DealStatuses] :
          /\ shown \subseteq sided /\ Cardinality(shown) <= PageSize
          /\ Cardinality(shown) < PageSize => shown = sided
          /\ sections'.negotiations = {[deal |-> d, status |-> f[d]] : d \in shown}
    <3> empty \in SUBSET Own  BY <1>6
    <3> WITNESS empty \in SUBSET Own, empty \in SUBSET Own, status \in [Own -> DealStatuses]
    <3>1. QED  BY <1>5, <1>6
  <2>5. QED  BY <2>3, <2>4 DEF ListInv
<1>8. SettledInv'
  <2>1. ~Answered("settlements")'  BY <1>2 DEF Sections
  <2>2. empty \in SUBSET Settled'  BY DEF empty
  <2>3. QED  BY <2>1, <2>2, <1>5, <1>6 DEF SettledInv
<1>9. CountInv'
  <2>1. ~Answered("analytics")'  BY <1>2 DEF Sections
  <2>2. sections'.analytics.active = 0 /\ sections'.analytics.committed = 0
    BY <1>2 DEF NoSections
  <2>3. empty \in SUBSET Settled'  BY DEF empty
  <2>4. QED  BY <2>1, <2>2, <2>3, <1>6 DEF CountInv
<1>10. QED  BY <1>1, <1>3, <1>4, <1>7, <1>8, <1>9 DEF PagesInv

LEMMA SettlementsTyped ==
  ASSUME DealsInv PROVE \A i \in DOMAIN settlements : settlements[i].deal \in Deals
<1>1. settlements \in Seq(Settlement)  BY DEF DealsInv
<1>2. \A i \in DOMAIN settlements : settlements[i] \in Settlement  BY <1>1
<1>3. \A x \in Settlement : x.deal \in Deals  BY DEF Settlement
<1>4. QED  BY <1>2, <1>3

(* A deal that changes is noted as changed, if its row names the owner.     *)
LEMMA DealKeeps ==
  ASSUME PagesInv, NEW d \in Deals, NEW status \in DealStatuses, Deal(d, status), DealsInv',
         Len(settlements) <= Len(settlements'),
         \A i \in DOMAIN settlements : settlements'[i] = settlements[i]
  PROVE  PagesInv'
<1> USE DEF Deal
<1>1. /\ meanwhile \subseteq meanwhile' /\ meanwhile' \subseteq Own
      /\ d \in Own => d \in meanwhile'
  BY DEF PagesInv, LoadInv
<1>2. ASSUME NEW e \in Own \ meanwhile' PROVE dealt'[e] = dealt[e]
  <2>1. e # d /\ e \in Deals  BY <1>1, DealAssumption
  <2>2. QED  BY <2>1 DEF PagesInv, DealsInv
<1>3. QED  BY <1>1, <1>2, AnswersStay

(* A status written without a settlement.                                  *)
LEMMA StatusKeeps ==
  ASSUME PagesInv, NEW d \in Deals, NEW status \in DealStatuses,
         Deal(d, status), UNCHANGED settlements, status \notin {"none", "COMMITTED"},
         dealt[d] # "none" => status # "NEGOTIATING"
  PROVE  PagesInv'
<1>1. DealsInv /\ \A i \in DOMAIN settlements : settlements[i].deal \in Deals
  BY SettlementsTyped DEF PagesInv
<1>2. dealt' \in [Deals -> DealStatuses] /\ dealt'[d] = status
      /\ \A e \in Deals \ {d} : dealt'[e] = dealt[e]
  BY <1>1 DEF Deal, DealsInv
<1>3. meanwhile \subseteq meanwhile' /\ UNCHANGED <<provisioned, past>>  BY DEF Deal
<1>4. DealsInv'  BY <1>1, <1>2, <1>3 DEF DealsInv
<1>5. Len(settlements) \in Nat  BY <1>1, SettledDeals
<1>6. QED  BY <1>4, <1>5, DealKeeps

LEMMA CommitKeeps ==
  ASSUME PagesInv, NEW d \in Deals, NEW round \in DealRounds, NEW own \in BOOLEAN,
         CommitDeal(d, round, own)
  PROVE  PagesInv'
<1> DEFINE new == [deal |-> d, round |-> round, own |-> own]
<1>1. DealsInv /\ \A i \in DOMAIN settlements : settlements[i].deal \in Deals
  BY SettlementsTyped DEF PagesInv
<1>2. /\ Deal(d, "COMMITTED") /\ settlements' = Append(settlements, new)
      /\ new \in Settlement /\ (own => provisioned)
  BY DEF CommitDeal, Settlement
<1>3. new.deal = d /\ new.own = own  OBVIOUS
<1> HIDE DEF new
<1>4. /\ settlements' \in Seq(Settlement) /\ Len(settlements') = Len(settlements) + 1
      /\ Len(settlements) \in Nat /\ DOMAIN settlements = 1 .. Len(settlements)
      /\ DOMAIN settlements' = DOMAIN settlements \cup {Len(settlements) + 1}
      /\ settlements'[Len(settlements) + 1] = new
      /\ \A i \in DOMAIN settlements : settlements'[i] = settlements[i]
  BY <1>1, <1>2 DEF DealsInv
<1>5. dealt' \in [Deals -> DealStatuses] /\ dealt'[d] = "COMMITTED"
      /\ \A e \in Deals \ {d} : dealt'[e] = dealt[e]
  BY <1>1, <1>2 DEF Deal, DealsInv, DealStatuses
<1>6. /\ meanwhile \subseteq meanwhile' /\ UNCHANGED <<provisioned, past>>
      /\ d \in Own => d \in meanwhile'
  BY <1>2 DEF Deal
<1>7. DealsInv'
  <2>1. past' \in Nat /\ past' <= Len(settlements')  BY <1>1, <1>4, <1>6 DEF DealsInv
  <2>2. ASSUME NEW e \in Deals, dealt'[e] = "COMMITTED"
        PROVE  \E i \in DOMAIN settlements' : settlements'[i].deal = e
    <3>1. CASE e = d  BY <3>1, <1>3, <1>4
    <3>2. CASE e # d
      <4>1. PICK i \in DOMAIN settlements : settlements[i].deal = e
        BY <3>2, <2>2, <1>1, <1>5 DEF DealsInv
      <4>2. QED  BY <4>1, <1>4
    <3>3. QED  BY <3>1, <3>2
  <2>3. ASSUME NEW i \in DOMAIN settlements'
        PROVE  /\ dealt'[settlements'[i].deal] \notin {"none", "NEGOTIATING"}
               /\ settlements'[i].own => provisioned'
               /\ i > past' /\ settlements'[i].deal \in Own => settlements'[i].deal \in meanwhile'
    <3>1. CASE i \in DOMAIN settlements
      BY <3>1, <1>1, <1>4, <1>5, <1>6 DEF DealsInv
    <3>2. CASE i = Len(settlements) + 1
      BY <3>2, <1>2, <1>3, <1>4, <1>5, <1>6
    <3>3. QED  BY <3>1, <3>2, <1>4
  <2>4. QED  BY <2>1, <2>2, <2>3, <1>1, <1>4, <1>5, <1>6 DEF DealsInv
<1>8. QED  BY <1>2, <1>4, <1>7, DealKeeps DEF DealStatuses

LEMMA PagesStep == PagesInv /\ [PagesNext]_pageVars => PagesInv'
<1> SUFFICES ASSUME PagesInv, [PagesNext]_pageVars PROVE PagesInv'  OBVIOUS
<1>0. DealsInv /\ meanwhile \subseteq Own /\ Len(settlements) \in Nat
  BY SettledDeals DEF PagesInv, LoadInv
<1>1. CASE UNCHANGED pageVars
  <2>1. DealsInv'  BY <1>0, <1>1 DEF DealsInv, pageVars
  <2>2. QED  BY <2>1, <1>0, <1>1, AnswersStay DEF pageVars
<1>2. CASE Provision
  <2>1. DealsInv'  BY <1>0, <1>2 DEF DealsInv, Provision
  <2>2. QED  BY <2>1, <1>0, <1>2, AnswersStay DEF Provision
<1>3. CASE LoadPage  BY <1>3, PageLoadKeeps
<1>4. ASSUME NEW d \in Deals, CreateDeal(d) PROVE PagesInv'
  BY <1>4, StatusKeeps DEF CreateDeal, DealStatuses, Active
<1>5. ASSUME NEW d \in Deals, EndDeal(d) PROVE PagesInv'
  BY <1>5, StatusKeeps DEF EndDeal, DealStatuses, BrokenOff
<1>6. ASSUME NEW d \in Deals, VerifyDeal(d) PROVE PagesInv'
  BY <1>6, StatusKeeps DEF VerifyDeal, DealStatuses, Active
<1>7. ASSUME NEW d \in Deals, RejectDeal(d) PROVE PagesInv'
  BY <1>7, StatusKeeps DEF RejectDeal, DealStatuses, Rejected
<1>8. ASSUME NEW d \in Deals, NEW round \in DealRounds, NEW own \in BOOLEAN,
             CommitDeal(d, round, own)
      PROVE  PagesInv'
  BY <1>8, CommitKeeps
<1>9. ASSUME NEW s \in Sections, AnswerSection(s) PROVE PagesInv'  BY <1>9, PageAnswerKeeps
<1>10. ASSUME NEW s \in Sections, SectionFails(s) PROVE PagesInv'  BY <1>10, PageFailureKeeps
<1>11. QED  BY <1>1, <1>2, <1>3, <1>4, <1>5, <1>6, <1>7, <1>8, <1>9, <1>10 DEF PagesNext

LEMMA PagesInvTyped == PagesInv => PagesTypeOK
<1> SUFFICES ASSUME PagesInv PROVE PagesTypeOK  OBVIOUS
<1>1. PICK sided \in SUBSET Own, shown \in SUBSET Own, status \in [Own -> DealStatuses] :
        /\ Cardinality(shown) <= PageSize
        /\ sections.negotiations = {[deal |-> d, status |-> status[d]] : d \in shown}
  BY DEF PagesInv, ListInv
<1>2. Cardinality(sections.negotiations) <= PageSize
  <2> DEFINE f == [d \in shown |-> [deal |-> d, status |-> status[d]]]
  <2>1. \A i, j \in shown : f[i] = f[j] => i = j
    <3> SUFFICES ASSUME NEW i \in shown, NEW j \in shown, f[i] = f[j] PROVE i = j  OBVIOUS
    <3>1. f[i].deal = i /\ f[j].deal = j  OBVIOUS
    <3>2. QED  BY <3>1
  <2>2. sections.negotiations = {f[d] : d \in shown} /\ DOMAIN f = shown  BY <1>1
  <2> HIDE DEF f
  <2>3. Cardinality(sections.negotiations) = Cardinality(shown)
    BY <2>1, <2>2, OwnFinite, AsManyAsNamed
  <2>4. QED  BY <2>3, <1>1
<1>3. \A n \in sections.negotiations : n.deal \in Own  BY <1>1
<1>4. /\ Cardinality(sections.settlements) <= PageSize
      /\ \A i \in sections.settlements : i \in DOMAIN settlements /\ settlements[i].own
  BY DEF PagesInv, SettledInv, Settled
<1>5. QED
  BY <1>2, <1>3, <1>4 DEF PagesInv, DealsInv, LoadInv, PagesTypeOK, DealStatuses, Settlement

LEMMA PagesInvariant == PagesSpec => []PagesInv
BY PagesInvInit, PagesStep, PTL DEF PagesSpec

(* The sections of an owner's page, each answered by queries of its own,   *)
(* tell of the same deals but for what changed while the page loaded       *)
(* (me.ts:217-252, 357-380, 462-500): for any number of deals, started     *)
(* again and settled by whomever and however often, and any size of a page. *)
THEOREM PagesAgree == PagesSpec => []SectionsAgree
BY PagesInvariant, PagesInvAgrees, PTL

(* The lists of a page are of rows that name the owner and no longer than  *)
(* a page.                                                                 *)
THEOREM PagesTyped == PagesSpec => []PagesTypeOK
BY PagesInvariant, PagesInvTyped, PTL

(***************************************************************************)
(* Explanations.  What was answered is what the owner's profiles explain.  *)
(***************************************************************************)
ExplainInv ==
  explained # NoExplanation =>
    /\ explained.history \in Histories
    /\ explained.owned \subseteq Sites /\ explained.profiles \in [Sites -> Profiles]
    /\ explained.list = ExplainAll(explained.history, explained.owned, explained.profiles)

(* The rounds of a history: a negotiation, and a number in it, each.       *)
Dated(history) ==
  /\ history \in Seq(Range(history))
  /\ IsInjective([i \in DOMAIN history |-> history[i].id])
  /\ \A i \in DOMAIN history :
       /\ Rounds(history[i]) \in Seq(Range(Rounds(history[i])))
       /\ \A j \in DOMAIN Rounds(history[i]) : Rounds(history[i])[j].at \in Int

(* A history is a list of negotiations with rounds that have a time.       *)
LEMMA HistoriesDated == \A history \in Histories : Dated(history)
<1> SUFFICES ASSUME NEW history \in Histories PROVE Dated(history)  OBVIOUS
<1>1. ASSUME NEW i \in DOMAIN history
      PROVE  /\ Rounds(history[i]) \in Seq(Range(Rounds(history[i])))
             /\ \A j \in DOMAIN Rounds(history[i]) : Rounds(history[i])[j].at \in Int
  <2>1. CASE history[i].rounds = <<>> /\ history[i].settledAt # Nothing
    <3> DEFINE only == [action |-> "ACCEPT", at |-> history[i].settledTime]
    <3>1. only.at \in Int  BY <2>1, <1>1, ExplainAssumption
    <3>2. Rounds(history[i]) = <<only>>  BY <2>1 DEF Rounds
    <3> HIDE DEF only
    <3>3. DOMAIN <<only>> = {1} /\ <<only>>[1] = only /\ <<only>> \in Seq({only})  OBVIOUS
    <3>4. Range(<<only>>) = {only}  BY <3>3 DEF Range
    <3>5. QED  BY <3>1, <3>2, <3>3, <3>4
  <2>2. CASE ~(history[i].rounds = <<>> /\ history[i].settledAt # Nothing)
    <3>1. Rounds(history[i]) = history[i].rounds  BY <2>2 DEF Rounds
    <3>2. QED  BY <3>1, <1>1, ExplainAssumption DEF Range
  <2>3. QED  BY <2>1, <2>2
<1>2. QED  BY <1>1, ExplainAssumption DEF Dated

(* What an owner is told of is a finite set, of rounds of the owner's own.  *)
LEMMA ToldFinite ==
  ASSUME NEW history, NEW owned, Dated(history)
  PROVE  /\ IsFiniteSet(OwnRounds(history, owned))
         /\ \A p \in OwnRounds(history, owned) :
              /\ p[1] \in DOMAIN history /\ p[2] \in DOMAIN Rounds(history[p[1]])
              /\ p = <<p[1], p[2]>>
              /\ p[1] \in Nat /\ p[2] \in Nat /\ At(history, p) \in Int
              /\ OwnSide(history[p[1]], owned) # "none"
         /\ \A i \in DOMAIN history : \A j \in DOMAIN Rounds(history[i]) :
              OwnSide(history[i], owned) # "none" => <<i, j>> \in OwnRounds(history, owned)
<1> DEFINE own == {n \in DOMAIN history : OwnSide(history[n], owned) # "none"}
           some == {{n} \X DOMAIN Rounds(history[n]) : n \in own}
<1>1. history \in Seq(Range(history)) /\ DOMAIN history = 1 .. Len(history) /\ Len(history) \in Nat
  <2>1. history \in Seq(Range(history))  BY DEF Dated
  <2>2. QED  BY <2>1
<1>2. \A n \in DOMAIN history :
        DOMAIN Rounds(history[n]) = 1 .. Len(Rounds(history[n])) /\ Len(Rounds(history[n])) \in Nat
  <2>1. \A n \in DOMAIN history : Rounds(history[n]) \in Seq(Range(Rounds(history[n])))  BY DEF Dated
  <2>2. QED  BY <2>1
<1>3. IsFiniteSet(own)
  <2>1. IsFiniteSet(DOMAIN history)  BY <1>1, FS_Interval
  <2>2. QED  BY <2>1, FS_Subset
<1>4. IsFiniteSet(some)
  <2> DEFINE f == [n \in own |-> {n} \X DOMAIN Rounds(history[n])]
  <2>1. f \in [own -> some] /\ some = {f[n] : n \in own}  OBVIOUS
  <2> HIDE DEF f, some, own
  <2>2. f \in Surjection(own, some)  BY <2>1 DEF Surjection
  <2>3. QED  BY <2>2, <1>3, FS_Surjection
<1>5. \A S \in some : IsFiniteSet(S)
  <2> SUFFICES ASSUME NEW n \in own PROVE IsFiniteSet({n} \X DOMAIN Rounds(history[n]))  OBVIOUS
  <2>1. IsFiniteSet(DOMAIN Rounds(history[n]))  BY <1>2, FS_Interval
  <2>2. IsFiniteSet({n})  BY FS_Singleton
  <2>3. QED  BY <2>1, <2>2, FS_Product
<1>6. IsFiniteSet(UNION some)  BY <1>4, <1>5, FS_UNION
<1>7. ASSUME NEW p \in OwnRounds(history, owned)
      PROVE  /\ p[1] \in DOMAIN history /\ p[2] \in DOMAIN Rounds(history[p[1]])
             /\ p = <<p[1], p[2]>>
             /\ p[1] \in Nat /\ p[2] \in Nat /\ At(history, p) \in Int
             /\ OwnSide(history[p[1]], owned) # "none"
  <2>1. PICK n \in own : p \in {n} \X DOMAIN Rounds(history[n])  BY DEF OwnRounds
  <2>2. p = <<p[1], p[2]>> /\ p[1] = n /\ p[2] \in DOMAIN Rounds(history[n])  BY <2>1
  <2>3. n \in Nat /\ p[2] \in Nat  BY <2>2, <1>1, <1>2
  <2>4. At(history, p) \in Int  BY <2>2 DEF At, Dated
  <2>5. QED  BY <2>2, <2>3, <2>4
<1>8. QED  BY <1>6, <1>7 DEF OwnRounds

(* Among the rounds an owner is told of each has a place of its own, and   *)
(* every place is taken: the order is strict and total.                    *)
LEMMA PlacesTaken ==
  ASSUME NEW history, NEW owned, Dated(history)
  PROVE  LET told == OwnRounds(history, owned)
         IN  /\ \A p \in told : Place(history, told, p) \in 1 .. Cardinality(told)
             /\ \A p, q \in told : Place(history, told, p) = Place(history, told, q) => p = q
             /\ \A k \in 1 .. Cardinality(told) : \E p \in told : Place(history, told, p) = k
<1> DEFINE told == OwnRounds(history, owned)
           before(p) == {q \in told : Precedes(history, q, p)}
           n == Cardinality(told)
<1>1. /\ IsFiniteSet(told)
      /\ \A p \in told : /\ p = <<p[1], p[2]>> /\ p[1] \in Nat /\ p[2] \in Nat
                         /\ At(history, p) \in Int
  BY ToldFinite
<1>2. n \in Nat  BY <1>1, FS_CardinalityType
<1>3. \A p, q \in told : p = q \/ Precedes(history, p, q) \/ Precedes(history, q, p)
  <2> SUFFICES ASSUME NEW p \in told, NEW q \in told, p # q
               PROVE  Precedes(history, p, q) \/ Precedes(history, q, p)
    OBVIOUS
  <2>1. p[1] # q[1] \/ p[2] # q[2]  BY <1>1
  <2>2. QED  BY <2>1, <1>1 DEF Precedes
<1>4. \A p \in told : ~Precedes(history, p, p)  BY <1>1 DEF Precedes
<1>5. \A p, q, r \in told :
        Precedes(history, p, q) /\ Precedes(history, q, r) => Precedes(history, p, r)
  <2> SUFFICES ASSUME NEW p \in told, NEW q \in told, NEW r \in told,
                      Precedes(history, p, q), Precedes(history, q, r)
               PROVE  Precedes(history, p, r)
    OBVIOUS
  <2>1. QED  BY <1>1 DEF Precedes
<1> HIDE DEF told, n
<1>6. \A p \in told : IsFiniteSet(before(p)) /\ Cardinality(before(p)) \in Nat
  <2> SUFFICES ASSUME NEW p \in told PROVE IsFiniteSet(before(p)) /\ Cardinality(before(p)) \in Nat
    OBVIOUS
  <2>1. IsFiniteSet(before(p))  BY <1>1, FS_Subset
  <2>2. QED  BY <2>1, FS_CardinalityType
<1>7. ASSUME NEW p \in told PROVE Cardinality(before(p)) < n
  <2>1. before(p) \subseteq told \ {p}  BY <1>4
  <2>2. IsFiniteSet(told \ {p}) /\ Cardinality(told \ {p}) = n - 1
    BY <1>1, FS_RemoveElement DEF n
  <2>3. Cardinality(before(p)) <= n - 1  BY <2>1, <2>2, FS_Subset
  <2>4. QED  BY <2>3, <1>2, <1>6
<1>8. ASSUME NEW p \in told, NEW q \in told, Precedes(history, p, q)
      PROVE  Cardinality(before(p)) < Cardinality(before(q))
  <2>1. before(p) \subseteq before(q) \ {p}  BY <1>8, <1>4, <1>5
  <2>2. p \in before(q)  BY <1>8
  <2> HIDE DEF before
  <2>3. IsFiniteSet(before(q) \ {p}) /\ Cardinality(before(q) \ {p}) = Cardinality(before(q)) - 1
    BY <1>6, <2>2, FS_RemoveElement
  <2>4. Cardinality(before(p)) <= Cardinality(before(q)) - 1  BY <2>1, <2>3, FS_Subset
  <2>5. QED  BY <2>4, <1>6
<1> DEFINE place(p) == 1 + Cardinality(before(p))
<1>9. \A p \in told : place(p) = Place(history, told, p)  BY DEF Place
<1> HIDE DEF before
<1>10. \A p \in told : place(p) \in 1 .. n  BY <1>2, <1>6, <1>7
<1>11. \A p, q \in told : place(p) = place(q) => p = q
  <2> SUFFICES ASSUME NEW p \in told, NEW q \in told, place(p) = place(q), p # q PROVE FALSE
    OBVIOUS
  <2>1. Cardinality(before(p)) \in Nat /\ Cardinality(before(q)) \in Nat  BY <1>6
  <2>2. Cardinality(before(p)) = Cardinality(before(q))  BY <2>1
  <2>3. QED  BY <1>3, <1>8, <2>1, <2>2
<1> HIDE DEF place
<1>12. ASSUME NEW k \in 1 .. n PROVE \E p \in told : place(p) = k
  <2> SUFFICES ASSUME \A p \in told : place(p) # k PROVE FALSE  OBVIOUS
  <2> DEFINE f == [p \in told |-> place(p)]
             rest == (1 .. n) \ {k}
  <2>1. f \in [told -> rest]  BY <1>10
  <2>2. IsFiniteSet(1 .. n) /\ Cardinality(1 .. n) = n  BY <1>2, FS_Interval
  <2>3. IsFiniteSet(rest) /\ Cardinality(rest) = n - 1  BY <2>2, FS_RemoveElement
  <2>4. Cardinality(rest) < Cardinality(told)  BY <2>3, <1>2 DEF n
  <2> HIDE DEF rest
  <2>5. \E p, q \in told : p # q /\ f[p] = f[q]
    <3> HIDE DEF f
    <3>1. QED  BY <2>1, <2>3, <2>4, <1>1, FS_PigeonHole
  <2>6. QED  BY <2>5, <1>11
<1>13. /\ \A p \in told : Place(history, told, p) \in 1 .. n
       /\ \A p, q \in told : Place(history, told, p) = Place(history, told, q) => p = q
       /\ \A k \in 1 .. n : \E p \in told : Place(history, told, p) = k
  BY <1>9, <1>10, <1>11, <1>12
<1>14. QED  BY <1>13 DEF told, n

(* The order lists the rounds told of, and every one of them.              *)
LEMMA OrderListsTold ==
  ASSUME NEW history, NEW owned, Dated(history)
  PROVE  LET order == LatestFirst(history, OwnRounds(history, owned))
         IN  /\ \A k \in DOMAIN order : order[k] \in OwnRounds(history, owned)
             /\ \A p \in OwnRounds(history, owned) : \E k \in DOMAIN order : order[k] = p
<1> DEFINE told == OwnRounds(history, owned)
           order == LatestFirst(history, told)
<1>1. /\ \A p \in told : Place(history, told, p) \in 1 .. Cardinality(told)
      /\ \A p, q \in told : Place(history, told, p) = Place(history, told, q) => p = q
      /\ \A k \in 1 .. Cardinality(told) : \E p \in told : Place(history, told, p) = k
  BY PlacesTaken
<1> HIDE DEF told
<1>2. /\ DOMAIN order = 1 .. Cardinality(told)
      /\ \A k \in 1 .. Cardinality(told) :
           order[k] = CHOOSE p \in told : Place(history, told, p) = k
  BY DEF LatestFirst
<1> HIDE DEF order
<1>3. \A k \in 1 .. Cardinality(told) : order[k] \in told /\ Place(history, told, order[k]) = k
  BY <1>1, <1>2
<1>4. \A p \in told : order[Place(history, told, p)] = p  BY <1>1, <1>3
<1>5. QED  BY <1>1, <1>2, <1>3, <1>4 DEF order, told
(* What was answered is what the owner's profiles explain.                 *)
LEMMA ExplainInvariant == ExplainSpec => []ExplainInv
<1>1. ExplainInit => ExplainInv  BY DEF ExplainInit, ExplainInv
<1>2. ExplainInv /\ [ExplainNext]_explainVars => ExplainInv'
  <2> SUFFICES ASSUME ExplainInv, [ExplainNext]_explainVars PROVE ExplainInv'  OBVIOUS
  <2>1. CASE UNCHANGED explainVars  BY <2>1 DEF explainVars, ExplainInv
  <2>2. CASE ExplainToOwner  BY <2>2 DEF ExplainToOwner, ExplainInv
  <2>3. QED  BY <2>1, <2>2 DEF ExplainNext
<1>3. QED  BY <1>1, <1>2, PTL DEF ExplainSpec

(* An owner is told of every deal with a round that a microgrid of the     *)
(* owner's is on either side of, and of no other                           *)
(* (explainabilityService.ts:103-110, 478-481): the sort loses none.       *)
THEOREM OwnDealsTold == ExplainSpec => []OwnDealsAreTold
<1>1. ExplainInv => OwnDealsAreTold
  <2>1. CASE explained = NoExplanation
    BY <2>1 DEF NoExplanation, OwnDealsAreTold
  <2>2. ASSUME ExplainInv, explained # NoExplanation, NEW i \in DOMAIN explained.history
        PROVE  LET neg == explained.history[i] IN
               ({neg.seller, neg.buyer} \cap explained.owned # {} /\ Rounds(neg) # <<>>)
                 <=> \E e \in Range(explained.list) : e.neg = neg.id
    <3> DEFINE history == explained.history
               owned == explained.owned
               list == explained.list
               neg == history[i]
               told == OwnRounds(history, owned)
               order == LatestFirst(history, told)
    <3>1. /\ history \in Histories /\ owned \subseteq Sites
          /\ list = ExplainAll(history, owned, explained.profiles)
      BY <2>2 DEF ExplainInv
    <3>2. Dated(history)  BY <3>1, HistoriesDated
    <3>3. OwnSide(neg, owned) # "none" <=> {neg.seller, neg.buyer} \cap owned # {}
      <4>1. Nothing \notin owned  BY <3>1, ExplainAssumption
      <4>2. QED  BY <4>1 DEF OwnSide
    <3>4. Rounds(neg) # <<>> <=> \E j \in DOMAIN Rounds(neg) : TRUE
      <4>1. Rounds(neg) \in Seq(Range(Rounds(neg)))  BY <3>2, <2>2 DEF Dated
      <4> HIDE DEF neg, history
      <4>2. \A s \in Seq(Range(Rounds(neg))) : s # <<>> <=> \E j \in DOMAIN s : TRUE
        <5> SUFFICES ASSUME NEW s \in Seq(Range(Rounds(neg)))
                     PROVE  s # <<>> <=> \E j \in DOMAIN s : TRUE
          OBVIOUS
        <5>1. s # <<>> <=> 1 \in 1 .. Len(s)  OBVIOUS
        <5>2. QED  BY <5>1
      <4>3. QED  BY <4>1, <4>2
    <3>5. /\ \A p \in told : /\ p[1] \in DOMAIN history /\ p[2] \in DOMAIN Rounds(history[p[1]])
                            /\ OwnSide(history[p[1]], owned) # "none"
          /\ \A j \in DOMAIN Rounds(neg) : OwnSide(neg, owned) # "none" => <<i, j>> \in told
      BY <3>2, <2>2, ToldFinite
    <3>6. /\ \A k \in DOMAIN order : order[k] \in told
          /\ \A p \in told : \E k \in DOMAIN order : order[k] = p
      BY <3>2, OrderListsTold
    <3>7. \A k \in DOMAIN history : history[k].id = neg.id => k = i
      BY <3>2, <2>2 DEF Dated, IsInjective
    <3>8. /\ DOMAIN list = DOMAIN order
          /\ \A k \in DOMAIN order : list[k].neg = history[order[k][1]].id
      <4> HIDE DEF order, told
      <4>1. list = [k \in DOMAIN order |->
                      Explain(history[order[k][1]], owned, explained.profiles, order[k][2])]
        BY <3>1 DEF ExplainAll, order, told
      <4>2. \A n, p, k : Explain(n, owned, p, k).neg = n.id  BY DEF Explain, ExplainRound
      <4> HIDE DEF list
      <4>3. QED  BY <4>1, <4>2
    <3> HIDE DEF history, owned, list, neg, told, order
    <3>9. ASSUME {neg.seller, neg.buyer} \cap owned # {}, Rounds(neg) # <<>>
          PROVE  \E e \in Range(list) : e.neg = neg.id
      <4>1. PICK j \in DOMAIN Rounds(neg) : TRUE  BY <3>4, <3>9
      <4>2. <<i, j>> \in told  BY <3>3, <3>5, <3>9
      <4>3. PICK k \in DOMAIN order : order[k] = <<i, j>>  BY <3>6, <4>2
      <4>4. list[k].neg = neg.id  BY <3>8, <4>3 DEF neg
      <4>5. list[k] \in Range(list)  BY <3>8 DEF Range
      <4>6. QED  BY <4>4, <4>5
    <3>10. ASSUME NEW e \in Range(list), e.neg = neg.id
           PROVE  {neg.seller, neg.buyer} \cap owned # {} /\ Rounds(neg) # <<>>
      <4>1. PICK k \in DOMAIN order : e = list[k]  BY <3>8 DEF Range
      <4>2. order[k] \in told /\ history[order[k][1]].id = neg.id  BY <3>6, <3>8, <3>10, <4>1
      <4>3. /\ order[k][1] = i /\ order[k][2] \in DOMAIN Rounds(neg)
            /\ OwnSide(neg, owned) # "none"
        BY <3>5, <3>7, <4>2 DEF neg
      <4>4. QED  BY <3>3, <3>4, <4>3
    <3>11. QED  BY <3>9, <3>10 DEF history, owned, list, neg
  <2>3. QED  BY <2>1, <2>2 DEF OwnDealsAreTold
<1>2. QED  BY <1>1, ExplainInvariant, PTL

(* A negotiation is explained by the profile of a microgrid of the owner.  *)
LEMMA OnlyOwnProfiles ==
  ASSUME NEW owned, NEW profiles, NEW others, \A site \in owned : others[site] = profiles[site],
         NEW neg, NEW i, OwnSide(neg, owned) # "none"
  PROVE  Explain(neg, owned, others, i) = Explain(neg, owned, profiles, i)
<1> DEFINE side == OwnSide(neg, owned)
<1>1. neg[side] \in owned  BY DEF OwnSide
<1>2. others[neg[side]] = profiles[neg[side]]  BY <1>1
<1> HIDE DEF side
<1>3. QED  BY <1>2 DEF Explain, side

(* What an owner is told of all the deals does not depend on the limits    *)
(* and the assets of the microgrids that the owner does not have           *)
(* (explainabilityService.ts:103-133).                                     *)
THEOREM OpponentsStayPrivate == ExplainSpec => []OpponentStaysPrivate
<1>1. ExplainInv => OpponentStaysPrivate
  <2> SUFFICES ASSUME ExplainInv, NEW profile \in Profiles, NEW m \in Sites \ explained.owned,
                      explained.list # <<>>
               PROVE  explained.list = ExplainAll(explained.history, explained.owned,
                                                  [explained.profiles EXCEPT ![m] = profile])
    BY DEF OpponentStaysPrivate
  <2> DEFINE others == [explained.profiles EXCEPT ![m] = profile]
             order == LatestFirst(explained.history, OwnRounds(explained.history, explained.owned))
  <2>1. /\ explained.history \in Histories
        /\ explained.owned \in SUBSET Sites /\ explained.profiles \in [Sites -> Profiles]
        /\ explained.list = ExplainAll(explained.history, explained.owned, explained.profiles)
    BY DEF ExplainInv, NoExplanation
  <2>2. \A site \in explained.owned : others[site] = explained.profiles[site]  BY <2>1
  <2>3. \A k \in DOMAIN order :
          OwnSide(explained.history[order[k][1]], explained.owned) # "none"
    BY <2>1, HistoriesDated, OrderListsTold, ToldFinite
  <2> HIDE DEF others, order
  <2>4. \A k \in DOMAIN order :
          Explain(explained.history[order[k][1]], explained.owned, others, order[k][2])
            = Explain(explained.history[order[k][1]], explained.owned, explained.profiles, order[k][2])
    BY <2>2, <2>3, OnlyOwnProfiles
  <2>5. ExplainAll(explained.history, explained.owned, others)
          = ExplainAll(explained.history, explained.owned, explained.profiles)
    BY <2>4 DEF ExplainAll, order
  <2>6. QED  BY <2>1, <2>5 DEF others
<1>2. QED  BY <1>1, ExplainInvariant, PTL
===============================================================================
