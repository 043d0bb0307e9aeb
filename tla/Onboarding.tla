------------------------------ MODULE Onboarding ------------------------------
(***************************************************************************)
(* The application of a DER owner, from the first form to a provisioned    *)
(* microgrid: broker/src/routes/onboarding.ts, routes/adminOnboarding.ts   *)
(* and services/provisioningService.ts.                                    *)
(*                                                                         *)
(* Every handler reads the application, checks it and only then opens the  *)
(* transaction that writes; other handlers run in between.  A transaction  *)
(* keeps the row lock of the application until it commits and is one step. *)
(***************************************************************************)
EXTENDS Integers, FiniteSets, Sequences

CONSTANTS
  Users,      \* the owners; userId is unique, so a user names an application
  Reviewers,  \* ADMIN and GRID_OPERATOR accounts; one may own an application
  Buses,      \* the rows of buses
  NoBus,      \* a request without busId
  UnknownBus, \* a busId that names no row
  Handlers,   \* bound: requests in flight
  MaxEvents   \* bound: audit events of a behaviour

ASSUME OnboardingAssumption ==
  /\ MaxEvents \in Nat
  /\ NoBus \notin Buses /\ UnknownBus \notin Buses /\ NoBus # UnknownBus

None == 0  \* a NULL link; microgrid ids are positive

PublicFields == {"site"}        \* siteName, location, derType
PrivateFields == {"operation"}  \* the three encrypted columns
Fields == PublicFields \cup PrivateFields

\* The values status takes; the schema's REGISTERED, MICROGRID_PROVISIONED
\* and AGENT_PROVISIONED are tested by the code but never written.
WrittenStatuses ==
  {"PROFILE_INCOMPLETE", "PENDING_VERIFICATION", "APPROVED",
   "PENDING_GRID_MAPPING", "ACTIVE", "REJECTED", "SUSPENDED"}

Application ==
  [status : WrittenStatuses, profile : SUBSET Fields, microgridId : Nat]
NotStarted == [status |-> "NOT_STARTED", profile |-> {}, microgridId |-> None]

VARIABLES
  userOnboarding,  \* user_onboarding, per user
  microgrids,      \* each with its DER, agent and membership
  busMappings,     \* microgrid_bus_mappings
  auditEvents,     \* the ONBOARDING_* events, in the order of their commits
  request          \* what each handler has read and what it was asked to do

vars == <<userOnboarding, microgrids, busMappings, auditEvents, request>>

(***************************************************************************)
(* A request in flight: op on the application of user, asked by actor, and *)
(* what its transaction uses of the application that was read before it:   *)
(* seen or the link microgridId.                                           *)
(***************************************************************************)
Idle == [op |-> "idle"]
Given == [Fields -> {"absent", "blank", "filled"}]

BusIds == Buses \cup {NoBus, UnknownBus}
Review == {"APPROVED", "REJECTED", "SUSPENDED"}

Request ==
  {Idle}
  \cup [op : {"start"}, user : Users, profile : SUBSET PublicFields]
  \cup [op : {"submit"}, user : Users, seen : Application, given : Given]
  \cup [op : {"review"}, user : Users, actor : Reviewers, verdict : Review]
  \cup [op : {"provision"}, user : Users, microgridId : Nat,
        actor : Reviewers, busId : BusIds]

Microgrid == [id : Nat \ {None}, externalCode : Users]
AuditEvent ==
  [user : Users, actor : Reviewers,
   status : Review \cup {"PENDING_GRID_MAPPING", "ACTIVE"}]

TypeOK ==
  /\ userOnboarding \in [Users -> Application \cup {NotStarted}]
  /\ microgrids \subseteq Microgrid
  /\ busMappings \subseteq (Nat \ {None}) \X Buses
  /\ auditEvents \in Seq(AuditEvent)
  /\ request \in [Handlers -> Request]

Init ==
  /\ userOnboarding = [u \in Users |-> NotStarted]
  /\ microgrids = {}
  /\ busMappings = {}
  /\ auditEvents = <<>>
  /\ request = [h \in Handlers |-> Idle]

-------------------------------------------------------------------------------
(***************************************************************************)
(* What the handlers read and check.  A refused request changes nothing    *)
(* and is left out.                                                        *)
(***************************************************************************)
Receive(h, r) ==
  /\ request[h] = Idle
  /\ request' = [request EXCEPT ![h] = r]
  /\ UNCHANGED <<userOnboarding, microgrids, busMappings, auditEvents>>

Exists(u) == userOnboarding[u] # NotStarted

\* POST /der-owner
BeginStart(h) ==
  \E u \in Users, p \in SUBSET PublicFields :
    /\ ~Exists(u)
    /\ Receive(h, [op |-> "start", user |-> u, profile |-> p])

Locked ==
  {"PENDING_VERIFICATION", "APPROVED", "MICROGRID_PROVISIONED",
   "AGENT_PROVISIONED", "ACTIVE"}

\* PUT /der-owner
BeginSubmit(h) ==
  \E u \in Users, g \in Given :
    /\ Exists(u)
    /\ userOnboarding[u].status \notin Locked
    /\ Receive(h, [op |-> "submit", user |-> u, seen |-> userOnboarding[u],
                   given |-> g])

(***************************************************************************)
(* Mutant: reviewers may decide about their own application.               *)
(***************************************************************************)
AnyReviewer(u, actor) == TRUE

MayReview(u, actor) == u # actor

Approvable(status) == status = "PENDING_VERIFICATION"
Rejectable(status) ==
  status \notin {"REJECTED", "MICROGRID_PROVISIONED", "AGENT_PROVISIONED",
                 "ACTIVE"}
Suspendable(status) == status \notin {"SUSPENDED", "REJECTED"}

Verdicts(status) ==
  {v \in Review : \/ v = "APPROVED" /\ Approvable(status)
                  \/ v = "REJECTED" /\ Rejectable(status)
                  \/ v = "SUSPENDED" /\ Suspendable(status)}

\* POST /:id/approve, /:id/reject and /:id/suspend
BeginReview(h) ==
  \E u \in Users, a \in Reviewers, v \in Review :
    /\ Exists(u)
    /\ MayReview(u, a)
    /\ v \in Verdicts(userOnboarding[u].status)
    /\ Receive(h, [op |-> "review", user |-> u, actor |-> a, verdict |-> v])

Provisionable ==
  {"APPROVED", "PENDING_GRID_MAPPING", "MICROGRID_PROVISIONED",
   "AGENT_PROVISIONED", "ACTIVE"}

Linked(app) == app.microgridId # None

\* The idempotent return for a linked application.
NeedsWork(app, busId) ==
  Linked(app) => busId # NoBus /\ app.status = "PENDING_GRID_MAPPING"

\* POST /:id/provision, up to its transaction
BeginProvision(h) ==
  \E u \in Users, a \in Reviewers, b \in BusIds :
    /\ Exists(u)
    /\ userOnboarding[u].status \in Provisionable
    /\ NeedsWork(userOnboarding[u], b)
    /\ Receive(h, [op |-> "provision", user |-> u,
                   microgridId |-> userOnboarding[u].microgridId,
                   actor |-> a, busId |-> b])

-------------------------------------------------------------------------------
(***************************************************************************)
(* What they write.                                                        *)
(***************************************************************************)
Finish(h) == request' = [request EXCEPT ![h] = Idle]

\* appendAuditEvent: the links of the chain are the subject of AuditChain.
Audit(u, a, status) ==
  /\ Len(auditEvents) < MaxEvents
  /\ auditEvents' =
       Append(auditEvents, [user |-> u, actor |-> a, status |-> status])

\* The unique index on userId lets only one of two creations through.
CreateApplication(h) ==
  LET r == request[h] IN
  /\ r.op = "start"
  /\ ~Exists(r.user)
  /\ userOnboarding' =
       [userOnboarding EXCEPT ![r.user] =
          [status |-> "PROFILE_INCOMPLETE", profile |-> r.profile,
           microgridId |-> None]]
  /\ Finish(h)
  /\ UNCHANGED <<microgrids, busMappings, auditEvents>>

\* A private value is encrypted before it is tested, so even a blank one
\* counts; a blank public value is stored, but the old one is tested.
Filled(given) ==
  {f \in Fields : given[f] = "filled"}
  \cup {f \in PrivateFields : given[f] = "blank"}
Blanked(given) == {f \in PublicFields : given[f] = "blank"}
IsComplete(r) == Fields \subseteq r.seen.profile \cup Filled(r.given)

(***************************************************************************)
(* Mutant: the whole record that was read is written back.                 *)
(***************************************************************************)
Resubmitted(app, r) ==
  [r.seen EXCEPT
     !.profile = (@ \ Blanked(r.given)) \cup Filled(r.given),
     !.status = IF IsComplete(r) THEN "PENDING_VERIFICATION" ELSE @]

Submitted(app, r) ==
  [app EXCEPT
     !.profile = (@ \ Blanked(r.given)) \cup Filled(r.given),
     !.status = IF IsComplete(r) THEN "PENDING_VERIFICATION" ELSE @]

SubmitProfile(h) ==
  LET r == request[h] IN
  /\ r.op = "submit"
  /\ userOnboarding' =
       [userOnboarding EXCEPT ![r.user] = Submitted(@, r)]
  /\ Finish(h)
  /\ UNCHANGED <<microgrids, busMappings, auditEvents>>

Decide(h, verdict) ==
  LET r == request[h] IN
  /\ r.op = "review" /\ r.verdict = verdict
  /\ userOnboarding' = [userOnboarding EXCEPT ![r.user].status = r.verdict]
  /\ Audit(r.user, r.actor, r.verdict)
  /\ Finish(h)
  /\ UNCHANGED <<microgrids, busMappings>>

Approve(h) == Decide(h, "APPROVED")
Reject(h) == Decide(h, "REJECTED")
Suspend(h) == Decide(h, "SUSPENDED")
DecideReview(h) == Approve(h) \/ Reject(h) \/ Suspend(h)

MapBus(h) ==
  LET r == request[h] IN
  /\ r.op = "provision"
  /\ Linked(r)
  /\ r.busId \in Buses
  /\ busMappings' = busMappings \cup {<<r.microgridId, r.busId>>}
  /\ userOnboarding' = [userOnboarding EXCEPT ![r.user].status = "ACTIVE"]
  /\ Audit(r.user, r.actor, "ACTIVE")
  /\ Finish(h)
  /\ UNCHANGED microgrids

(***************************************************************************)
(* Mutant: the external code of a microgrid is not unique.                 *)
(***************************************************************************)
AnyCode(u) == TRUE

\* externalCode is built from the application's id and has a unique index.
FreeCode(u) == \A m \in microgrids : m.externalCode # u

(***************************************************************************)
(* Mutant: provisioning ends in ACTIVE with and without a bus.             *)
(***************************************************************************)
AlwaysActive(busId) == "ACTIVE"

(***************************************************************************)
(* Mutant: provisioning ends in the state the schema's comment lists.      *)
(***************************************************************************)
SchemaStatus(busId) == IF busId = NoBus THEN "MICROGRID_PROVISIONED" ELSE "ACTIVE"

TargetStatus(busId) ==
  IF busId = NoBus THEN "PENDING_GRID_MAPPING" ELSE "ACTIVE"

CreateMicrogrid(h) ==
  LET r == request[h]
      id == Cardinality(microgrids) + 1
      status == TargetStatus(r.busId) IN
  /\ r.op = "provision"
  /\ ~Linked(r)
  /\ r.busId # UnknownBus
  /\ FreeCode(r.user)
  /\ microgrids' = microgrids \cup {[id |-> id, externalCode |-> r.user]}
  /\ busMappings' =
       busMappings \cup {<<id, b>> : b \in {r.busId} \cap Buses}
  /\ userOnboarding' =
       [userOnboarding EXCEPT ![r.user].status = status,
                              ![r.user].microgridId = id]
  /\ Audit(r.user, r.actor, status)
  /\ Finish(h)

\* The transaction is rolled back: BUS_NOT_FOUND, a unique index, a lost
\* connection, the end of the process.
RollBack(h) ==
  /\ request[h] # Idle
  /\ Finish(h)
  /\ UNCHANGED <<userOnboarding, microgrids, busMappings, auditEvents>>

-------------------------------------------------------------------------------
ProvisionStep(h) == MapBus(h) \/ CreateMicrogrid(h)

HandlerStep(h) ==
  \/ BeginStart(h) \/ BeginSubmit(h) \/ BeginReview(h) \/ BeginProvision(h)
  \/ CreateApplication(h) \/ SubmitProfile(h)
  \/ DecideReview(h)
  \/ ProvisionStep(h)
  \/ RollBack(h)

Next == \E h \in Handlers : HandlerStep(h)

Spec == Init /\ [][Next]_vars

-------------------------------------------------------------------------------
(***************************************************************************)
(* An application owns at most one microgrid, and its links name that      *)
(* microgrid from the moment it exists.  Two provision requests read the   *)
(* application as unprovisioned, a repeated submission overwrites a record *)
(* that was linked meanwhile: no lock is taken, the unique code and the    *)
(* single transaction have to do it.                                       *)
(***************************************************************************)
ProvisionedOnce ==
  \A u \in Users :
    {m.id : m \in {n \in microgrids : n.externalCode = u}} =
      {userOnboarding[u].microgridId} \ {None}

Vetted(u) ==
  \E i \in 1 .. Len(auditEvents) :
    /\ auditEvents[i].user = u
    /\ auditEvents[i].status = "APPROVED"
    /\ auditEvents[i].actor # u

(***************************************************************************)
(* Nothing is built for an application that no other user has approved,    *)
(* however resubmissions, reviews and provisioning overtake one another.   *)
(***************************************************************************)
VettedBeforeProvisioned == \A m \in microgrids : Vetted(m.externalCode)

(***************************************************************************)
(* An ACTIVE application has a microgrid that is mapped to a bus, as the   *)
(* grid gate needs it, also when ACTIVE overwrites another decision.       *)
(***************************************************************************)
ActiveIsMapped ==
  \A u \in Users :
    userOnboarding[u].status = "ACTIVE" =>
      \E b \in Buses : <<userOnboarding[u].microgridId, b>> \in busMappings

IsLatestEvent(u, i) ==
  /\ auditEvents[i].user = u
  /\ \A j \in i + 1 .. Len(auditEvents) : auditEvents[j].user # u

Decided(u) ==
  userOnboarding[u].status
    \notin {"NOT_STARTED", "PROFILE_INCOMPLETE", "PENDING_VERIFICATION"}

(***************************************************************************)
(* The status a reviewer or provisioning gave an application is the one    *)
(* its latest audit event tells, whatever decisions were overwritten.      *)
(***************************************************************************)
StatusIsAudited ==
  \A u \in Users : Decided(u) =>
    \E i \in 1 .. Len(auditEvents) :
      /\ IsLatestEvent(u, i)
      /\ auditEvents[i].status = userOnboarding[u].status

(***************************************************************************)
(* The test start_negotiation and getAgentRuntimeContext make: the agent   *)
(* of a provisioned application takes part unless its status is SUSPENDED. *)
(* Nothing sets Microgrid.active to false.                                 *)
(***************************************************************************)
MayNegotiate(u) ==
  Linked(userOnboarding[u]) /\ userOnboarding[u].status # "SUSPENDED"

ReviewerActs == Len(auditEvents') > Len(auditEvents)

(***************************************************************************)
(* Once an owner's agent is suspended, only a reviewer lets it trade       *)
(* again: reviewers suspend and reactivate, owners do not.                 *)
(***************************************************************************)
SuspensionLasts ==
  [][\A u \in Users :
       Linked(userOnboarding[u]) /\ ~MayNegotiate(u) /\ MayNegotiate(u)'
         => ReviewerActs]_vars
=============================================================================
