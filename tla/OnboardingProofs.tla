--------------------------- MODULE OnboardingProofs ---------------------------
(***************************************************************************)
(* The safety properties of Onboarding for any number of users, reviewers, *)
(* buses and requests.                                                     *)
(***************************************************************************)
EXTENDS Onboarding, FiniteSetTheorems, TLAPS

(***************************************************************************)
(* What a request in flight still knows: its application exists, a         *)
(* reviewer is not its owner, provisioning was preceded by an approval, and *)
(* a link that was read is the link there is.                              *)
(***************************************************************************)
RequestOK(h) ==
  LET r == request[h] IN
  /\ r.op \in {"submit", "review", "provision"} => Exists(r.user)
  /\ r.op = "review" => r.actor # r.user
  /\ r.op = "provision" => Vetted(r.user)
  /\ r.op = "provision" /\ Linked(r) =>
       r.microgridId = userOnboarding[r.user].microgridId

RequestsOK == \A h \in Handlers : RequestOK(h)

\* Statuses that only follow an approval.
PastReview == \A u \in Users :
  userOnboarding[u].status \in {"APPROVED", "PENDING_GRID_MAPPING", "ACTIVE"}
    => Vetted(u)

Inv ==
  /\ TypeOK
  /\ IsFiniteSet(microgrids)
  /\ RequestsOK
  /\ PastReview
  /\ ProvisionedOnce
  /\ VettedBeforeProvisioned
  /\ ActiveIsMapped
  /\ StatusIsAudited

-------------------------------------------------------------------------------
(***************************************************************************)
(* Nothing is true of the initial state but that it is empty.              *)
(***************************************************************************)
LEMMA InitInv == Init => Inv
<1> SUFFICES ASSUME Init PROVE Inv
  OBVIOUS
<1> USE DEF Init
<1>1. \A u \in Users : userOnboarding[u] = NotStarted
  OBVIOUS
<1>2. \A h \in Handlers : request[h].op = "idle"
  BY DEF Idle
<1>3. TypeOK
  BY DEF TypeOK, Request
<1>4. IsFiniteSet(microgrids)
  BY FS_EmptySet
<1>5. RequestsOK
  BY <1>2 DEF RequestsOK, RequestOK
<1>6. PastReview /\ ActiveIsMapped /\ StatusIsAudited
  BY <1>1 DEF PastReview, ActiveIsMapped, StatusIsAudited, Decided, NotStarted
<1>7. ProvisionedOnce
  BY <1>1 DEF ProvisionedOnce, NotStarted, None
<1>8. VettedBeforeProvisioned
  BY DEF VettedBeforeProvisioned
<1> QED
  BY <1>3, <1>4, <1>5, <1>6, <1>7, <1>8 DEF Inv

(***************************************************************************)
(* The type of a request, by what it does.                                 *)
(***************************************************************************)
LEMMA RequestFields ==
  ASSUME TypeOK, NEW h \in Handlers
  PROVE  /\ request[h].op = "start" =>
              request[h].user \in Users /\ request[h].profile \subseteq Fields
         /\ request[h].op = "submit" =>
              /\ request[h].user \in Users
              /\ request[h].seen \in Application
              /\ request[h].given \in Given
         /\ request[h].op = "review" =>
              /\ request[h].user \in Users
              /\ request[h].actor \in Reviewers
              /\ request[h].verdict \in Review
         /\ request[h].op = "provision" =>
              /\ request[h].user \in Users
              /\ request[h].microgridId \in Nat
              /\ request[h].actor \in Reviewers
              /\ request[h].busId \in BusIds
<1>1. request[h] \in Request
  BY DEF TypeOK
<1> QED
  BY <1>1 DEF Request, Idle, Fields

-------------------------------------------------------------------------------
(***************************************************************************)
(* Audit events are only appended, so an approval stays.                   *)
(***************************************************************************)
LEMMA VettedStays ==
  ASSUME TypeOK, NEW u,
         \/ UNCHANGED auditEvents
         \/ \E s : \E v \in Users, a \in Reviewers : Audit(v, a, s),
         Vetted(u)
  PROVE  Vetted(u)'
<1>1. CASE UNCHANGED auditEvents
  BY <1>1 DEF Vetted
<1>2. CASE \E s : \E v \in Users, a \in Reviewers : Audit(v, a, s)
  <2>1. PICK e : auditEvents' = Append(auditEvents, e)
    BY <1>2 DEF Audit
  <2>2. auditEvents \in Seq(AuditEvent)
    BY DEF TypeOK
  <2>3. Len(auditEvents') = Len(auditEvents) + 1
        /\ \A i \in 1 .. Len(auditEvents) : auditEvents'[i] = auditEvents[i]
    BY <2>1, <2>2
  <2>4. Len(auditEvents) \in Nat
    BY <2>2
  <2> QED
    BY <2>3, <2>4 DEF Vetted
<1> QED
  BY <1>1, <1>2

(***************************************************************************)
(* A finished request is idle, which is a request.                         *)
(***************************************************************************)
LEMMA FinishTyped ==
  ASSUME NEW h \in Handlers, Finish(h), request \in [Handlers -> Request]
  PROVE  request' \in [Handlers -> Request]
BY DEF Finish, Request

(***************************************************************************)
(* A step that finishes one request leaves the others as they were, if     *)
(* applications, approvals and links stay.                                 *)
(***************************************************************************)
LEMMA RequestsStay ==
  ASSUME Inv, NEW h \in Handlers, Finish(h),
         \A u \in Users : Exists(u) => Exists(u)',
         \A u \in Users : Vetted(u) => Vetted(u)',
         \A u \in Users : Linked(userOnboarding[u]) =>
           userOnboarding'[u].microgridId = userOnboarding[u].microgridId
  PROVE  RequestsOK'
<1> SUFFICES ASSUME NEW k \in Handlers PROVE RequestOK(k)'
  BY DEF RequestsOK
<1>1. request \in [Handlers -> Request] /\ RequestOK(k) /\ TypeOK
  BY DEF Inv, TypeOK, RequestsOK
<1>2. CASE k = h
  <2>1. request'[k].op = "idle"
    BY <1>1, <1>2 DEF Finish, Idle
  <2> QED
    BY <2>1 DEF RequestOK
<1>3. CASE k # h
  <2>1. request'[k] = request[k]
    BY <1>1, <1>3 DEF Finish
  <2>2. request[k].op \in {"submit", "review", "provision"} =>
          request[k].user \in Users
    BY <1>1, RequestFields
  <2> QED
    BY <1>1, <2>1, <2>2 DEF RequestOK, Linked
<1> QED
  BY <1>2, <1>3

(***************************************************************************)
(* A request that was read and checked is as RequestOK says.               *)
(***************************************************************************)
LEMMA ReceiveInv ==
  ASSUME Inv, NEW h \in Handlers, NEW r \in Request, Receive(h, r),
         r.op \in {"submit", "review", "provision"} => Exists(r.user),
         r.op = "review" => r.actor # r.user,
         r.op = "provision" => Vetted(r.user),
         r.op = "provision" =>
           r.microgridId = userOnboarding[r.user].microgridId
  PROVE  Inv'
<1> USE DEF Receive
<1>1. TypeOK'
  BY DEF Inv, TypeOK
<1>2. RequestsOK'
  <2> SUFFICES ASSUME NEW k \in Handlers PROVE RequestOK(k)'
    BY DEF RequestsOK
  <2>1. request \in [Handlers -> Request] /\ RequestOK(k)
    BY DEF Inv, TypeOK, RequestsOK
  <2>2. CASE k = h
    <3>1. request'[k] = r
      BY <2>1, <2>2
    <3> QED
      BY <3>1 DEF RequestOK, Exists, Vetted
  <2>3. CASE k # h
    <3>1. request'[k] = request[k]
      BY <2>1, <2>3
    <3> QED
      BY <2>1, <3>1 DEF RequestOK, Exists, Vetted, Linked
  <2> QED
    BY <2>2, <2>3
<1>3. PastReview' /\ VettedBeforeProvisioned'
  BY DEF Inv, PastReview, VettedBeforeProvisioned, Vetted
<1>4. IsFiniteSet(microgrids)' /\ ProvisionedOnce' /\ ActiveIsMapped'
  BY DEF Inv, ProvisionedOnce, ActiveIsMapped
<1>5. StatusIsAudited'
  BY DEF Inv, StatusIsAudited, Decided, IsLatestEvent
<1> QED
  BY <1>1, <1>2, <1>3, <1>4, <1>5 DEF Inv

(***************************************************************************)
(* The four handlers up to their transactions.                             *)
(***************************************************************************)
LEMMA BeginInv ==
  ASSUME Inv, NEW h \in Handlers,
         BeginStart(h) \/ BeginSubmit(h) \/ BeginReview(h) \/ BeginProvision(h)
  PROVE  Inv'
<1>1. userOnboarding \in [Users -> Application \cup {NotStarted}]
  BY DEF Inv, TypeOK
<1>2. \A u \in Users : Exists(u) => userOnboarding[u] \in Application
  BY <1>1 DEF Exists
<1>3. CASE BeginStart(h)
  <2>1. PICK u \in Users, p \in SUBSET PublicFields :
          Receive(h, [op |-> "start", user |-> u, profile |-> p])
    BY <1>3 DEF BeginStart
  <2>2. [op |-> "start", user |-> u, profile |-> p] \in Request
    BY DEF Request
  <2> QED
    BY <2>1, <2>2, ReceiveInv
<1>4. CASE BeginSubmit(h)
  <2>1. PICK u \in Users, g \in Given :
          /\ Exists(u)
          /\ Receive(h, [op |-> "submit", user |-> u,
                         seen |-> userOnboarding[u], given |-> g])
    BY <1>4 DEF BeginSubmit
  <2>2. [op |-> "submit", user |-> u, seen |-> userOnboarding[u],
         given |-> g] \in Request
    BY <1>2, <2>1 DEF Request
  <2> QED
    BY <2>1, <2>2, ReceiveInv
<1>5. CASE BeginReview(h)
  <2>1. PICK u \in Users, a \in Reviewers, v \in Review :
          /\ Exists(u) /\ u # a
          /\ Receive(h, [op |-> "review", user |-> u, actor |-> a,
                         verdict |-> v])
    BY <1>5 DEF BeginReview, MayReview
  <2>2. [op |-> "review", user |-> u, actor |-> a, verdict |-> v] \in Request
    BY DEF Request
  <2> QED
    BY <2>1, <2>2, ReceiveInv
<1>6. CASE BeginProvision(h)
  <2>1. PICK u \in Users, a \in Reviewers, b \in BusIds :
          /\ Exists(u)
          /\ userOnboarding[u].status \in Provisionable
          /\ Receive(h, [op |-> "provision", user |-> u,
                         microgridId |-> userOnboarding[u].microgridId,
                         actor |-> a, busId |-> b])
    BY <1>6 DEF BeginProvision
  <2>2. userOnboarding[u] \in Application
    BY <1>2, <2>1
  <2>3. [op |-> "provision", user |-> u,
         microgridId |-> userOnboarding[u].microgridId,
         actor |-> a, busId |-> b] \in Request
    BY <2>2 DEF Request, Application
  <2>4. userOnboarding[u].status
          \in {"APPROVED", "PENDING_GRID_MAPPING", "ACTIVE"}
    BY <2>1, <2>2 DEF Provisionable, Application, WrittenStatuses
  <2>5. Vetted(u)
    BY <2>4 DEF Inv, PastReview
  <2> QED
    BY <2>1, <2>3, <2>5, ReceiveInv
<1> QED
  BY <1>3, <1>4, <1>5, <1>6

-------------------------------------------------------------------------------
(***************************************************************************)
(* An audit event about u is the latest one about u, and leaves the latest *)
(* events of the others in place.                                          *)
(***************************************************************************)
LEMMA AuditedStays ==
  ASSUME TypeOK, StatusIsAudited,
         NEW u \in Users, NEW a \in Reviewers, NEW s, Audit(u, a, s),
         userOnboarding'[u].status = s,
         \A v \in Users \ {u} : userOnboarding'[v] = userOnboarding[v]
  PROVE  StatusIsAudited'
<1> DEFINE e == [user |-> u, actor |-> a, status |-> s]
<1>1. auditEvents \in Seq(AuditEvent) /\ auditEvents' = Append(auditEvents, e)
  BY DEF TypeOK, Audit
<1> PICK n \in Nat : n = Len(auditEvents)
  BY <1>1
<1>2. /\ Len(auditEvents') = n + 1
      /\ auditEvents'[n + 1] = e
      /\ \A i \in 1 .. n : auditEvents'[i] = auditEvents[i]
  BY <1>1
<1> HIDE DEF e
<1>e. e.user = u /\ e.status = s
  BY DEF e
<1> SUFFICES ASSUME NEW v \in Users, Decided(v)'
             PROVE  \E i \in 1 .. Len(auditEvents') :
                      /\ IsLatestEvent(v, i)'
                      /\ auditEvents'[i].status = userOnboarding'[v].status
  BY DEF StatusIsAudited
<1>3. CASE v = u
  <2>1. IsLatestEvent(u, n + 1)'
    BY <1>2, <1>e DEF IsLatestEvent
  <2>2. n + 1 \in 1 .. Len(auditEvents')
    BY <1>2
  <2> QED
    BY <1>2, <1>3, <1>e, <2>1, <2>2
<1>4. CASE v # u
  <2>1. Decided(v)
    BY <1>4 DEF Decided
  <2>2. PICK i \in 1 .. n :
          /\ IsLatestEvent(v, i)
          /\ auditEvents[i].status = userOnboarding[v].status
    BY <2>1 DEF StatusIsAudited
  <2>3. IsLatestEvent(v, i)'
    BY <1>2, <1>4, <1>e, <2>2 DEF IsLatestEvent
  <2>4. i \in 1 .. Len(auditEvents')
    BY <1>2
  <2> QED
    BY <1>2, <1>4, <2>2, <2>3, <2>4
<1> QED
  BY <1>3, <1>4

(***************************************************************************)
(* A new application is unlinked, undecided and nobody's request.          *)
(***************************************************************************)
LEMMA CreateApplicationInv ==
  ASSUME Inv, NEW h \in Handlers, CreateApplication(h)
  PROVE  Inv'
<1> DEFINE r == request[h]
           app == [status |-> "PROFILE_INCOMPLETE", profile |-> r.profile,
                   microgridId |-> None]
<1>1. /\ TypeOK /\ r.op = "start"
      /\ r.user \in Users /\ r.profile \subseteq Fields
  BY RequestFields DEF Inv, CreateApplication
<1>2. app \in Application
  BY <1>1 DEF Application, WrittenStatuses, None
<1>3. /\ userOnboarding' = [userOnboarding EXCEPT ![r.user] = app]
      /\ userOnboarding[r.user] = NotStarted
      /\ Finish(h)
      /\ UNCHANGED <<microgrids, busMappings, auditEvents>>
  BY DEF CreateApplication, Exists
<1> HIDE DEF r, app
<1>a. app.status = "PROFILE_INCOMPLETE" /\ app.microgridId = None
  BY DEF app
<1>4. /\ userOnboarding'[r.user] = app
      /\ \A u \in Users \ {r.user} : userOnboarding'[u] = userOnboarding[u]
  BY <1>1, <1>3 DEF TypeOK
<1>5. TypeOK'
  BY <1>1, <1>2, <1>3, FinishTyped DEF TypeOK
<1>6. RequestsOK'
  <2>1. \A u \in Users : Exists(u) => Exists(u)'
    BY <1>3, <1>4 DEF Exists
  <2>2. \A u \in Users : Vetted(u) => Vetted(u)'
    BY <1>3 DEF Vetted
  <2>3. \A u \in Users : Linked(userOnboarding[u]) =>
          userOnboarding'[u].microgridId = userOnboarding[u].microgridId
    BY <1>3, <1>4 DEF Linked, NotStarted
  <2> QED
    BY <1>3, <2>1, <2>2, <2>3, RequestsStay
<1>7. PastReview' /\ VettedBeforeProvisioned' /\ ActiveIsMapped'
  BY <1>a, <1>3, <1>4
     DEF Inv, PastReview, VettedBeforeProvisioned, ActiveIsMapped, Vetted
<1>8. IsFiniteSet(microgrids)' /\ ProvisionedOnce'
  BY <1>a, <1>3, <1>4 DEF Inv, ProvisionedOnce, NotStarted
<1>9. StatusIsAudited'
  BY <1>a, <1>3, <1>4 DEF Inv, StatusIsAudited, Decided, IsLatestEvent
<1> QED
  BY <1>5, <1>6, <1>7, <1>8, <1>9 DEF Inv

(***************************************************************************)
(* A submission changes the profile, and of the status only that it may    *)
(* become PENDING_VERIFICATION: never the link, however old what it read.  *)
(***************************************************************************)
LEMMA SubmitProfileInv ==
  ASSUME Inv, NEW h \in Handlers, SubmitProfile(h)
  PROVE  Inv'
<1> DEFINE r == request[h]
           u0 == r.user
           app == Submitted(userOnboarding[u0], r)
<1>1. /\ TypeOK /\ r.op = "submit"
      /\ u0 \in Users /\ r.given \in Given
      /\ Exists(u0)
  BY RequestFields DEF Inv, RequestsOK, RequestOK, SubmitProfile
<1>2. userOnboarding[u0] \in Application
  BY <1>1 DEF TypeOK, Exists
<1>3. /\ app \in Application
      /\ app.microgridId = userOnboarding[u0].microgridId
      /\ app.status \in {userOnboarding[u0].status, "PENDING_VERIFICATION"}
  <2>1. Filled(r.given) \subseteq Fields
    BY DEF Filled, Fields
  <2> QED
    BY <1>2, <2>1 DEF Submitted, Application, WrittenStatuses
<1>4. /\ userOnboarding' = [userOnboarding EXCEPT ![u0] = app]
      /\ Finish(h)
      /\ UNCHANGED <<microgrids, busMappings, auditEvents>>
  BY DEF SubmitProfile
<1> HIDE DEF r, app
<1>5. /\ userOnboarding'[u0] = app
      /\ \A u \in Users \ {u0} : userOnboarding'[u] = userOnboarding[u]
  BY <1>1, <1>4 DEF TypeOK
<1> HIDE DEF u0
<1>6. TypeOK'
  BY <1>1, <1>3, <1>4, FinishTyped DEF TypeOK
<1>7. app # NotStarted
  BY <1>3 DEF Application, NotStarted, WrittenStatuses
<1>8. RequestsOK'
  <2>1. \A u \in Users : Exists(u) => Exists(u)'
    BY <1>5, <1>7 DEF Exists
  <2>2. \A u \in Users : Vetted(u) => Vetted(u)'
    BY <1>4 DEF Vetted
  <2>3. \A u \in Users : Linked(userOnboarding[u]) =>
          userOnboarding'[u].microgridId = userOnboarding[u].microgridId
    BY <1>3, <1>5
  <2> QED
    BY <1>4, <2>1, <2>2, <2>3, RequestsStay
<1>9. \A u \in Users :
        /\ userOnboarding'[u].microgridId = userOnboarding[u].microgridId
        /\ userOnboarding'[u].status
             \in {userOnboarding[u].status, "PENDING_VERIFICATION"}
  BY <1>3, <1>5
<1>10. /\ PastReview'
       /\ VettedBeforeProvisioned'
       /\ ActiveIsMapped'
  <2>1. PastReview'
    BY <1>4, <1>9 DEF Inv, PastReview, Vetted
  <2>2. VettedBeforeProvisioned'
    BY <1>4 DEF Inv, VettedBeforeProvisioned, Vetted
  <2>3. ActiveIsMapped'
    BY <1>4, <1>9 DEF Inv, ActiveIsMapped
  <2> QED
    BY <2>1, <2>2, <2>3
<1>11. IsFiniteSet(microgrids)' /\ ProvisionedOnce'
  BY <1>4, <1>9 DEF Inv, ProvisionedOnce
<1>12. StatusIsAudited'
  BY <1>4, <1>9 DEF Inv, StatusIsAudited, Decided, IsLatestEvent
<1> QED
  BY <1>6, <1>8, <1>10, <1>11, <1>12 DEF Inv

(***************************************************************************)
(* A decision changes the status alone; an approval is somebody else's.    *)
(***************************************************************************)
LEMMA DecideReviewInv ==
  ASSUME Inv, NEW h \in Handlers, DecideReview(h)
  PROVE  Inv'
<1> DEFINE r == request[h]
<1>1. /\ TypeOK /\ r.op = "review"
      /\ r.user \in Users /\ r.actor \in Reviewers /\ r.verdict \in Review
      /\ Exists(r.user) /\ r.actor # r.user
  BY RequestFields DEF Inv, RequestsOK, RequestOK,
     DecideReview, Approve, Reject, Suspend, Decide
<1>2. /\ userOnboarding' =
           [userOnboarding EXCEPT ![r.user].status = r.verdict]
      /\ Audit(r.user, r.actor, r.verdict)
      /\ Finish(h)
      /\ UNCHANGED <<microgrids, busMappings>>
  BY DEF DecideReview, Approve, Reject, Suspend, Decide
<1> HIDE DEF r
<1>3. userOnboarding[r.user] \in Application
  BY <1>1 DEF TypeOK, Exists
<1>4. /\ userOnboarding'[r.user] \in Application
      /\ userOnboarding'[r.user].status = r.verdict
      /\ userOnboarding'[r.user].microgridId =
           userOnboarding[r.user].microgridId
      /\ \A u \in Users \ {r.user} : userOnboarding'[u] = userOnboarding[u]
      /\ userOnboarding' \in [Users -> Application \cup {NotStarted}]
  BY <1>1, <1>2, <1>3 DEF TypeOK, Application, WrittenStatuses, Review
<1>5. TypeOK'
  <2>1. auditEvents' \in Seq(AuditEvent)
    BY <1>1, <1>2 DEF TypeOK, Audit, AuditEvent
  <2> QED
    BY <1>1, <1>2, <1>4, <2>1, FinishTyped DEF TypeOK
<1>6. \A u \in Users : Vetted(u) => Vetted(u)'
  BY <1>1, <1>2, VettedStays
<1> PICK w \in Users : w = r.user
  BY <1>1
<1>7. r.verdict = "APPROVED" => Vetted(w)'
  <2> DEFINE e == [user |-> r.user, actor |-> r.actor, status |-> r.verdict]
  <2>1. auditEvents \in Seq(AuditEvent)
        /\ auditEvents' = Append(auditEvents, e)
    BY <1>1, <1>2 DEF Audit, TypeOK
  <2>2. PICK i \in 1 .. Len(auditEvents') : auditEvents'[i] = e
    BY <2>1
  <2>3. e.user = w /\ e.actor # w /\ e.status = r.verdict
    BY <1>1
  <2> HIDE DEF e
  <2>4. r.verdict = "APPROVED" =>
          /\ auditEvents'[i].user = w
          /\ auditEvents'[i].status = "APPROVED"
          /\ auditEvents'[i].actor # w
    BY <2>2, <2>3
  <2> QED
    BY <2>4 DEF Vetted
<1>8. RequestsOK'
  <2> userOnboarding'[r.user] # NotStarted
    BY <1>4 DEF Application, NotStarted, WrittenStatuses
  <2>1. \A u \in Users : Exists(u) => Exists(u)'
    BY <1>4 DEF Exists
  <2>2. \A u \in Users : Linked(userOnboarding[u]) =>
          userOnboarding'[u].microgridId = userOnboarding[u].microgridId
    BY <1>4
  <2> QED
    BY <1>2, <1>6, <2>1, <2>2, RequestsStay
<1>9. PastReview'
  <2> SUFFICES ASSUME NEW u \in Users,
                      userOnboarding'[u].status
                        \in {"APPROVED", "PENDING_GRID_MAPPING", "ACTIVE"}
               PROVE  Vetted(u)'
    BY DEF PastReview
  <2>1. CASE u = r.user
    BY <1>1, <1>4, <1>7, <2>1 DEF Review
  <2>2. CASE u # r.user
    BY <1>4, <1>6, <2>2 DEF Inv, PastReview
  <2> QED
    BY <2>1, <2>2
<1>10. VettedBeforeProvisioned'
  BY <1>1, <1>2, <1>6
     DEF Inv, VettedBeforeProvisioned, TypeOK, Microgrid
<1>11. ActiveIsMapped'
  BY <1>1, <1>2, <1>4 DEF Inv, ActiveIsMapped, Review
<1>12. IsFiniteSet(microgrids)' /\ ProvisionedOnce'
  BY <1>2, <1>4 DEF Inv, ProvisionedOnce
<1>13. StatusIsAudited'
  BY <1>1, <1>2, <1>4, AuditedStays DEF Inv
<1> QED
  BY <1>5, <1>8, <1>9, <1>10, <1>11, <1>12, <1>13 DEF Inv

(***************************************************************************)
(* The link the request read is still the link, so ACTIVE comes with the   *)
(* mapping of the right microgrid.                                         *)
(***************************************************************************)
LEMMA MapBusInv ==
  ASSUME Inv, NEW h \in Handlers, MapBus(h)
  PROVE  Inv'
<1> DEFINE r == request[h]
<1>1. /\ TypeOK /\ r.op = "provision" /\ Linked(r)
      /\ r.user \in Users /\ r.actor \in Reviewers /\ r.busId \in Buses
      /\ r.microgridId \in Nat
      /\ Exists(r.user) /\ Vetted(r.user)
      /\ r.microgridId = userOnboarding[r.user].microgridId
  BY RequestFields DEF Inv, RequestsOK, RequestOK, MapBus
<1>2. /\ userOnboarding' = [userOnboarding EXCEPT ![r.user].status = "ACTIVE"]
      /\ busMappings' = busMappings \cup {<<r.microgridId, r.busId>>}
      /\ Audit(r.user, r.actor, "ACTIVE")
      /\ Finish(h)
      /\ UNCHANGED microgrids
  BY DEF MapBus
<1> HIDE DEF r
<1>3. userOnboarding[r.user] \in Application
  BY <1>1 DEF TypeOK, Exists
<1>4. /\ userOnboarding'[r.user] \in Application
      /\ userOnboarding'[r.user].status = "ACTIVE"
      /\ userOnboarding'[r.user].microgridId =
           userOnboarding[r.user].microgridId
      /\ \A u \in Users \ {r.user} : userOnboarding'[u] = userOnboarding[u]
      /\ userOnboarding' \in [Users -> Application \cup {NotStarted}]
  BY <1>1, <1>2, <1>3 DEF TypeOK, Application, WrittenStatuses
<1>5. TypeOK'
  <2>1. auditEvents' \in Seq(AuditEvent)
    BY <1>1, <1>2 DEF TypeOK, Audit, AuditEvent
  <2>2. busMappings' \subseteq (Nat \ {None}) \X Buses
    BY <1>1, <1>2 DEF TypeOK, Linked
  <2> QED
    BY <1>1, <1>2, <1>4, <2>1, <2>2, FinishTyped DEF TypeOK
<1>6. \A u \in Users : Vetted(u) => Vetted(u)'
  BY <1>1, <1>2, VettedStays
<1>7. RequestsOK'
  <2> userOnboarding'[r.user] # NotStarted
    BY <1>4 DEF Application, NotStarted, WrittenStatuses
  <2>1. \A u \in Users : Exists(u) => Exists(u)'
    BY <1>4 DEF Exists
  <2>2. \A u \in Users : Linked(userOnboarding[u]) =>
          userOnboarding'[u].microgridId = userOnboarding[u].microgridId
    BY <1>4
  <2> QED
    BY <1>2, <1>6, <2>1, <2>2, RequestsStay
<1>8. PastReview'
  BY <1>1, <1>4, <1>6 DEF Inv, PastReview
<1>9. VettedBeforeProvisioned'
  BY <1>1, <1>2, <1>6
     DEF Inv, VettedBeforeProvisioned, TypeOK, Microgrid
<1>10. ActiveIsMapped'
  <2> SUFFICES ASSUME NEW u \in Users, userOnboarding'[u].status = "ACTIVE"
               PROVE  \E b \in Buses :
                        <<userOnboarding'[u].microgridId, b>> \in busMappings'
    BY DEF ActiveIsMapped
  <2>1. CASE u = r.user
    BY <1>1, <1>2, <1>4, <2>1
  <2>2. CASE u # r.user
    BY <1>2, <1>4, <2>2 DEF Inv, ActiveIsMapped
  <2> QED
    BY <2>1, <2>2
<1>11. IsFiniteSet(microgrids)' /\ ProvisionedOnce'
  BY <1>2, <1>4 DEF Inv, ProvisionedOnce
<1>12. StatusIsAudited'
  BY <1>1, <1>2, <1>4, AuditedStays DEF Inv
<1> QED
  BY <1>5, <1>7, <1>8, <1>9, <1>10, <1>11, <1>12 DEF Inv

(***************************************************************************)
(* The free code makes the new microgrid the only one of its application,  *)
(* and an application without a microgrid has no link.                     *)
(***************************************************************************)
LEMMA CreateMicrogridInv ==
  ASSUME Inv, NEW h \in Handlers, CreateMicrogrid(h)
  PROVE  Inv'
<1> DEFINE r == request[h]
           id == Cardinality(microgrids) + 1
           status == TargetStatus(r.busId)
           new == [id |-> id, externalCode |-> r.user]
<1>1. /\ TypeOK /\ r.op = "provision"
      /\ r.user \in Users /\ r.actor \in Reviewers /\ r.busId \in BusIds
      /\ r.busId # UnknownBus
      /\ Exists(r.user) /\ Vetted(r.user) /\ FreeCode(r.user)
  BY RequestFields DEF Inv, RequestsOK, RequestOK, CreateMicrogrid
<1>2. /\ microgrids' = microgrids \cup {new}
      /\ busMappings' =
           busMappings \cup {<<id, b>> : b \in {r.busId} \cap Buses}
      /\ userOnboarding' =
           [userOnboarding EXCEPT ![r.user].status = status,
                                  ![r.user].microgridId = id]
      /\ Audit(r.user, r.actor, status)
      /\ Finish(h)
  BY DEF CreateMicrogrid
<1>3. id \in Nat \ {None}
  BY FS_CardinalityType DEF Inv, None
<1>4. /\ status \in {"PENDING_GRID_MAPPING", "ACTIVE"}
      /\ status = "ACTIVE" => r.busId \in Buses
  BY <1>1 DEF TargetStatus, BusIds
<1>5. new.id = id /\ new.externalCode = r.user /\ new \in Microgrid
  BY <1>1, <1>3 DEF Microgrid
<1> HIDE DEF r, id, status, new
<1>6. userOnboarding[r.user] \in Application
  BY <1>1 DEF TypeOK, Exists
<1>7. /\ userOnboarding'[r.user] \in Application
      /\ userOnboarding'[r.user].status = status
      /\ userOnboarding'[r.user].microgridId = id
      /\ \A u \in Users \ {r.user} : userOnboarding'[u] = userOnboarding[u]
      /\ userOnboarding' \in [Users -> Application \cup {NotStarted}]
  BY <1>1, <1>2, <1>3, <1>4, <1>6 DEF TypeOK, Application, WrittenStatuses
<1>8. TypeOK'
  <2>1. auditEvents' \in Seq(AuditEvent)
    BY <1>1, <1>2, <1>4 DEF TypeOK, Audit, AuditEvent
  <2>2. busMappings' \subseteq (Nat \ {None}) \X Buses
    BY <1>1, <1>2, <1>3 DEF TypeOK
  <2>3. microgrids' \subseteq Microgrid
    BY <1>1, <1>2, <1>5 DEF TypeOK
  <2> QED
    BY <1>1, <1>2, <1>7, <2>1, <2>2, <2>3, FinishTyped DEF TypeOK
<1>9. IsFiniteSet(microgrids)'
  BY <1>2, FS_AddElement DEF Inv
<1>10. userOnboarding[r.user].microgridId = None
  BY <1>1 DEF Inv, ProvisionedOnce, FreeCode
<1>11. ProvisionedOnce'
  <2> SUFFICES ASSUME NEW u \in Users
               PROVE  {m.id : m \in {n \in microgrids' : n.externalCode = u}} =
                        {userOnboarding'[u].microgridId} \ {None}
    BY DEF ProvisionedOnce
  <2>1. CASE u = r.user
    <3>1. {n \in microgrids' : n.externalCode = u} = {new}
      BY <1>1, <1>2, <1>5, <2>1 DEF FreeCode
    <3> QED
      BY <1>3, <1>5, <1>7, <2>1, <3>1
  <2>2. CASE u # r.user
    <3>1. {n \in microgrids' : n.externalCode = u} =
            {n \in microgrids : n.externalCode = u}
      BY <1>2, <1>5, <2>2
    <3> QED
      BY <1>7, <2>2, <3>1 DEF Inv, ProvisionedOnce
  <2> QED
    BY <2>1, <2>2
<1>12. \A u \in Users : Vetted(u) => Vetted(u)'
  <2>1. \E s : \E v \in Users, a \in Reviewers : Audit(v, a, s)
    BY <1>1, <1>2
  <2> QED
    BY <1>1, <2>1, VettedStays
<1>13. RequestsOK'
  <2> userOnboarding'[r.user] # NotStarted
    BY <1>7 DEF Application, NotStarted, WrittenStatuses
  <2>1. \A u \in Users : Exists(u) => Exists(u)'
    BY <1>7 DEF Exists
  <2>2. \A u \in Users : Linked(userOnboarding[u]) =>
          userOnboarding'[u].microgridId = userOnboarding[u].microgridId
    BY <1>7, <1>10 DEF Linked
  <2> QED
    BY <1>2, <1>12, <2>1, <2>2, RequestsStay
<1>14. PastReview'
  BY <1>1, <1>7, <1>12 DEF Inv, PastReview
<1>15. VettedBeforeProvisioned'
  BY <1>1, <1>2, <1>5, <1>12
     DEF Inv, VettedBeforeProvisioned, TypeOK, Microgrid
<1>16. ActiveIsMapped'
  <2> SUFFICES ASSUME NEW u \in Users, userOnboarding'[u].status = "ACTIVE"
               PROVE  \E b \in Buses :
                        <<userOnboarding'[u].microgridId, b>> \in busMappings'
    BY DEF ActiveIsMapped
  <2>1. CASE u = r.user
    BY <1>2, <1>4, <1>7, <2>1
  <2>2. CASE u # r.user
    BY <1>2, <1>7, <2>2 DEF Inv, ActiveIsMapped
  <2> QED
    BY <2>1, <2>2
<1>17. StatusIsAudited'
  BY <1>1, <1>2, <1>7, AuditedStays DEF Inv
<1> QED
  BY <1>8, <1>9, <1>11, <1>13, <1>14, <1>15, <1>16, <1>17 DEF Inv

(***************************************************************************)
(* A rolled back transaction leaves nothing but an idle handler.           *)
(***************************************************************************)
LEMMA RollBackInv ==
  ASSUME Inv, NEW h \in Handlers, RollBack(h)
  PROVE  Inv'
<1>1. /\ Finish(h)
      /\ UNCHANGED <<userOnboarding, microgrids, busMappings, auditEvents>>
  BY DEF RollBack
<1>2. TypeOK'
  BY <1>1, FinishTyped DEF Inv, TypeOK
<1>3. RequestsOK'
  <2>1. \A u \in Users : Exists(u) => Exists(u)'
    BY <1>1 DEF Exists
  <2>2. \A u \in Users : Vetted(u) => Vetted(u)'
    BY <1>1 DEF Vetted
  <2> QED
    BY <1>1, <2>1, <2>2, RequestsStay
<1>4. PastReview' /\ VettedBeforeProvisioned'
  BY <1>1 DEF Inv, PastReview, VettedBeforeProvisioned, Vetted
<1>5. IsFiniteSet(microgrids)' /\ ProvisionedOnce' /\ ActiveIsMapped'
  BY <1>1 DEF Inv, ProvisionedOnce, ActiveIsMapped
<1>6. StatusIsAudited'
  BY <1>1 DEF Inv, StatusIsAudited, Decided, IsLatestEvent
<1> QED
  BY <1>2, <1>3, <1>4, <1>5, <1>6 DEF Inv

-------------------------------------------------------------------------------
(***************************************************************************)
(* Every step keeps the invariant.                                         *)
(***************************************************************************)
LEMMA StepInv == Inv /\ [Next]_vars => Inv'
<1> SUFFICES ASSUME Inv, [Next]_vars PROVE Inv'
  OBVIOUS
<1>1. CASE Next
  <2> PICK h \in Handlers : HandlerStep(h)
    BY <1>1 DEF Next
  <2>1. CASE BeginStart(h) \/ BeginSubmit(h) \/ BeginReview(h)
               \/ BeginProvision(h)
    BY <2>1, BeginInv
  <2>2. CASE CreateApplication(h)
    BY <2>2, CreateApplicationInv
  <2>3. CASE SubmitProfile(h)
    BY <2>3, SubmitProfileInv
  <2>4. CASE DecideReview(h)
    BY <2>4, DecideReviewInv
  <2>5. CASE MapBus(h)
    BY <2>5, MapBusInv
  <2>6. CASE CreateMicrogrid(h)
    BY <2>6, CreateMicrogridInv
  <2>7. CASE RollBack(h)
    BY <2>7, RollBackInv
  <2> QED
    BY <2>1, <2>2, <2>3, <2>4, <2>5, <2>6, <2>7
       DEF HandlerStep, ProvisionStep
<1>2. CASE UNCHANGED vars
  <2> USE <1>2 DEF vars
  <2>1. TypeOK' /\ IsFiniteSet(microgrids)'
    BY DEF Inv, TypeOK
  <2>2. RequestsOK'
    BY DEF Inv, RequestsOK, RequestOK, Exists, Vetted, Linked
  <2>3. PastReview' /\ VettedBeforeProvisioned'
    BY DEF Inv, PastReview, VettedBeforeProvisioned, Vetted
  <2>4. ProvisionedOnce' /\ ActiveIsMapped'
    BY DEF Inv, ProvisionedOnce, ActiveIsMapped
  <2>5. StatusIsAudited'
    BY DEF Inv, StatusIsAudited, Decided, IsLatestEvent
  <2> QED
    BY <2>1, <2>2, <2>3, <2>4, <2>5 DEF Inv
<1> QED
  BY <1>1, <1>2

(***************************************************************************)
(* The invariant holds in every behaviour of the specification.            *)
(***************************************************************************)
THEOREM OnboardingInvariant == Spec => []Inv
<1> QED
  BY InitInv, StepInv, PTL DEF Spec

(***************************************************************************)
(* The tables and the requests in flight keep their types.                 *)
(***************************************************************************)
THEOREM OnboardingTypeCorrect == Spec => []TypeOK
<1>1. Inv => TypeOK
  BY DEF Inv
<1> QED
  BY OnboardingInvariant, <1>1, PTL

(***************************************************************************)
(* However many provision requests race, one microgrid per application,    *)
(* and the application is linked to it.                                    *)
(***************************************************************************)
THEOREM OneMicrogridPerApplication == Spec => []ProvisionedOnce
<1>1. Inv => ProvisionedOnce
  BY DEF Inv
<1> QED
  BY OnboardingInvariant, <1>1, PTL

(***************************************************************************)
(* Nothing is provisioned that no other account has approved.              *)
(***************************************************************************)
THEOREM OnlyVettedProvisioned == Spec => []VettedBeforeProvisioned
<1>1. Inv => VettedBeforeProvisioned
  BY DEF Inv
<1> QED
  BY OnboardingInvariant, <1>1, PTL

(***************************************************************************)
(* An ACTIVE application's microgrid is on a bus.                          *)
(***************************************************************************)
THEOREM ActiveApplicationsMapped == Spec => []ActiveIsMapped
<1>1. Inv => ActiveIsMapped
  BY DEF Inv
<1> QED
  BY OnboardingInvariant, <1>1, PTL

(***************************************************************************)
(* The audit trail tells the status reviewers and provisioning have set.   *)
(***************************************************************************)
THEOREM StatusAlwaysAudited == Spec => []StatusIsAudited
<1>1. Inv => StatusIsAudited
  BY DEF Inv
<1> QED
  BY OnboardingInvariant, <1>1, PTL
=============================================================================
