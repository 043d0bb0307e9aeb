# GridNexus in TLA+

A verification project for the GridNexus energy market: TLA+ modules of the
broker's core protocols, TLC instances that model-check them, and theorems
about them that TLAPS has checked. Every definition is translated from the
source; `PROJECT.json` maps it to the lines it stands for.

## The system

GridNexus lets autonomous agents trade energy between microgrids on behalf of
their owners. Three programs carry the logic: the **broker** (`broker/src`,
TypeScript: a Node process with socket.io and Express, worker processes with
BullMQ, and PostgreSQL through Prisma), the **engine** (`engine/app`, Python:
FastAPI services for stability, power flow, oracle signals and LLM decisions)
and the **command center** (`command-center/src`, React: the pages of owners
and operators).

| Component | State it keeps | Operations | What makes it correct |
|---|---|---|---|
| Negotiation coordinator (`ws/negotiate.ts`) | the process-local map of `NegotiationState` objects, `negotiations.status`, `negotiation_rounds` | `start_negotiation`, `agent_action`, `handleCommit`, `notifyTurn`, register and disconnect | offers alternate within the round limit; only what both owners admit is settled; a session settles once; an accepted deal is always resolved |
| JointGate (`jointGate.ts`, `jointGatePayload.ts`, `jointWorker.ts`) | a BullMQ job | `check`: enqueue, wait at most 20 s, write a rejection | nothing settles without its own positive verdict; the power flow judges the trade that was agreed |
| Separate gates and workers (`stabilityGate.ts`, `gridGate.ts`, `worker.ts`) | BullMQ jobs, `stabilitychecks`, `grid_feasibility_certificates`, alerts | verify with retries, store evidence, mock outside production | a pass rests on an answer and a stored row; what is given up is alerted |
| Settlement committer (`settlementService.ts`) | `settlements`, `energytransfers`, `rlrewards` | `commitSettlement`, one serializable transaction | idempotency keys name one row for ever |
| Owner preferences (`preferenceService.ts`, `me.ts`) | `trading_preferences` | replace, validate an action | limits hold for what is traded, also per day |
| Audit chain (`auditChain.ts`, `integrityCheck.ts`) | `audit_events`, snapshots | append, nightly check | a linear hash chain; no false or missed alarm |
| Onboarding (`onboarding.ts`, `adminOnboarding.ts`, `provisioningService.ts`) | `user_onboarding`, microgrids, agents, memberships | apply, edit, approve, reject, suspend, provision | provisioning happens once and only for approved applications; suspension lasts |
| Agent runtime (`agentRuntimeService.ts`) | one socket per agent | connect, answer `your_turn`, decide | an agent whose turn it is gets to act; what it decides the broker admits |
| Oracle and beliefs (`oracleBroadcastWorker.ts`, `beliefUpdateService.ts`) | the broadcast job, `beliefupdates`, the ORACLE negotiation | fetch and persist a signal, update beliefs | one posterior per signal and agent, each starting from the last; the queue drains |
| Oracle documents (`adminOracle.ts`, `engine/app/rag`) | `embedded_documents` | submit, revoke, re-ingest, expire | the list agrees with the audit trail |
| Operators' pages (`AdminOraclePage.tsx`, `AdminOnboardingPage.tsx`, `NegotiationFeedPage.tsx`, `wsClient.ts`) | list, filter, dialog, socket, events | fetch, inspect, confirm, reconnect | a page shows what it was asked for and acts on what it shows |
| Owners' pages (`MyAgentPage.tsx`, `me.ts`, `explainabilityService.ts`) | sections, preference form | load, toggle, save, explain | sections tell of the same deals; a pause holds; nobody reads another's limits |
| Session (`lib/auth.ts`, `App.tsx`) | token and user in local storage | log in, verify, log out | the user shown is the one requests are made for |
| Resilience (`engine/app/rag`) | circuit state, cache, tokens | fetch with retry, breaker and cache | one probe after a cooldown; a stale answer is never served as live |
| Dispatch certificates (`engine/app/routers/settlement.py`) | certificates in the database | propose, telemetry update | only a fresh certificate for the current topology is executed |
| LLM retry (`engine/app/negotiate`) | the reasoning-deficit registry | retry, fall back | ends with a valid action |
| Coalition stability (`engine/app/stability`) | none: an algorithm | row generation | a stable verdict is one no coalition refutes |

The broker's handlers are JavaScript async functions: each runs alone up to its
next `await`, where any other handler may run. They share the map of
negotiations and nothing locks an entry. The database is shared with the HTTP
endpoints of owners and administrators; only `commitSettlement` asks for
serializable isolation. The gate is reached through a queue, with a timeout.
What is hard here is therefore state read before an await and used after it,
two handlers of one negotiation, lost database answers, and restarts that
forget the map but not the tables. `PROJECT.json` lists these hazards at their
lines.

## Modules

| Module | Contents |
|---|---|
| `Negotiation` | the coordinator, with preferences, gate and settlement as its handlers call them |
| `SettlementLedger` | the abstract specification of the settlements table, implemented by `Negotiation` |
| `AuditChain` | concurrent transactions that append to the hash chain |
| `Onboarding` | the life of a DER owner's application up to its microgrid |
| `NegotiationProofs` | theorems about `Negotiation`: for any agents, and for agents that wait for their turn |
| `AuditChainProofs`, `OnboardingProofs` | theorems about the module they are named after |
| `GateJobsProofs` | theorems about `GateJobs` and `GatePayload` |
| `AgentProofs` | theorems about `TurnDelivery` and `OwnerBargaining` |
| `WorkerProofs` | theorems about `IntegrityCheck`, `OracleSources` and `BeliefCycles` |
| `ConsoleProofs` | theorems about `Session`, `ReviewPage`, `LiveFeed`, `OraclePage`, `OwnerSettings`, `OwnerPages` and `Explanations` |
| `SurroundingsProofs` | the theorems about the components, carried over to their composition |
| `GateJobs` | the three gates, their jobs and workers: attempts, stalls, time limit, evidence, mocks |
| `GatePayload` | what the gates tell the engine of the agreed trade, bus by bus |
| `TurnDelivery` | sockets, `connectedAgents`, `notifyTurn`, the owner's runner and the demo's second client |
| `OwnerBargaining` | the runtime's strategy on both sides against the broker's rules |
| `BeliefCycles` | the scheduled broadcast, its workers and the belief rows |
| `IntegrityCheck` | the nightly job that compares tables with its own snapshots |
| `OracleSources`, `OraclePage` | the Oracle documents, and the page that lists them |
| `ReviewPage` | the page on which an operator inspects and decides applications |
| `OwnerSettings`, `OwnerPages` | the preference form and the sections of an owner's page |
| `Explanations` | whom a negotiation is explained to, against whose limits |
| `LiveFeed` | the console's socket client and the broker's rooms |
| `Session` | token and user of a browser with several pages |
| `BrokerConfig` | the broker's mode, production or simulation |
| `Surroundings` | the composition of the fourteen components from `GateJobs` to `Session` |
| `MCNegotiation`, `MCAuditChain`, `MCOnboarding`, `MCSurroundings`, `MCGateJobs` | the instances for TLC |

Definitions whose comment starts with *Mutant* are plausible mistakes in the
operator after them. No specification uses them; putting one in the place of
its neighbour must make a property fail.

### Negotiation

One action is "the awaited call answers and the code after it runs up to the
next await". A handler in flight is a record in `start` or `call`: `pc` names
the call it awaits, the other fields are its local variables and those fields
of `negState` it has read already. What the code reads late the action reads
late: `ValidateActive` takes the opponent from the session as it is when the
first answer arrives, `ToPersist` the round number, and `GatePasses` the
idempotency key and the rewarded agent.

| Actions | Code |
|---|---|
| `BeginStart`, `CheckTradingEnabled`, `CheckSuspension`, `OpenNegotiation`, `FailStart` | `start_negotiation` |
| `BeginAction`, `ValidateActive`, `ValidateOpponent`, `ApplyAccept`, `ApplyWalkAway`, `ApplyCounterOffer` | `agent_action` |
| `MarkSafetyVerified`, `GatePasses`, `GateRejects`, `CommitSettlement`, `AbortSettlement`, `RecordOutcome` | `handleCommit`, `JointGate.check`, `commitSettlement` |
| `FailClosed`, `FailCommit`, `LoseCommitAnswer`, `IgnoreFailedUpdate`, `Crash` | failing calls, lost answers, the end of the process |
| `SetPreferences`, `Suspend`, `LeaveSuspension` | the endpoints of owners and administrators |

Abstractions. Terms are a few model values with a quantity; the limits of an
owner on price, size and battery are the set of terms they admit per role. The
standing offer is only a default for the terms of an action, which may be any.
`validateActionAgainstPreferences` makes several queries and is one step. All
steps happen on one day, so the daily export only grows. The gate's verdict is a
free choice. A deal that fails to find its direction is one branch of
`GatePasses`. Of a `Settlement`, the fields `sess` and `acceptedBy`, and of a
round row `sess` and `by`, are history; so are `validated` and `approved`. The
belief-update guard is left out: those rows are created complete, and it never
refuses. A start that names an unknown row, which is refused, is left out.

`TurnTaking` is an assumption about the clients, not about the broker: an agent
sends one action per turn and waits for the answer, as `agentRuntimeService`
does. `EvidenceRecorded` tells whether the identifiers the gate returns name
stored evidence rows. `Faults` switches failures on.

### AuditChain

A transaction takes a snapshot at its first statement, and per event reads the
latest row and inserts. A sequence is drawn by the INSERT, not at the commit,
and is not given back by a rollback. The rules for READ COMMITTED, SERIALIZABLE
and the lack of a transaction are PostgreSQL's and are marked external in the
map; the levels are those the callers ask for. SHA-256 is taken to be free of
collisions, so a row's sequence stands for its hash.

### Onboarding

Every handler of `onboarding.ts`, `adminOnboarding.ts` and
`provisioningService.ts` is two actions: `Begin...` reads the application and
makes the checks, and the second action is the transaction. What a transaction
uses of the record that was read travels in `request`; reviews use nothing of
it, a submission tests completeness on it, provisioning takes the link from it.
A transaction holds the row lock of the application from its update to its
commit, and its audit event is inserted after the update, so the commit is one
step and the order of `auditEvents` is the order of the commits.

| Actions | Code |
|---|---|
| `BeginStart`, `CreateApplication` | `POST /der-owner` |
| `BeginSubmit`, `SubmitProfile` | `PUT /der-owner` |
| `BeginReview`, `Approve`, `Reject`, `Suspend` | `POST /:id/approve`, `/reject`, `/suspend` |
| `BeginProvision`, `MapBus`, `CreateMicrogrid` | `POST /:id/provision`, `provisionOnboarding` |
| `RollBack` | `BUS_NOT_FOUND`, a unique index, a failed transaction, a crash |

Abstractions. The three public and the three encrypted fields are one field
each; negative numbers are refused requests, which are left out. A microgrid
stands for its DER, agent and membership, which the same transaction creates.
The external code is the application: two ids that agree in their first eight
characters are left out.

### The surroundings

`Surroundings` puts the components around the three big modules together. They
share no variable but `production`, which nobody changes. `SideBySide` is their
composition: at each step any one of the fourteen goes on, so their steps are
interleaved in every order; `FairSideBySide` adds the fairness of `GateJobs` and
`BeliefCycles`. What TLC runs is `Spec`, which only has the behaviours that
follow one component: the variable `part` names it, the others stay where they
start, since the product would multiply the states and show nothing new. That
nothing is lost by it is what `SurroundingsProofs` proves: the theorems there
are about `SideBySide`. Where a
component meets one of the big modules, it is the more precise of the two:
`Negotiation` takes any verdict of the gate, `GateJobs` says which ones come
about; `Negotiation` lets an agent send any action or none, `OwnerBargaining`
and `TurnDelivery` say what the runtime sends and when; `ReviewPage` says which
reviews reach the handlers of `Onboarding`.

| Module | Variables | Actions and the code they stand for |
|---|---|---|
| `GateJobs` | `gates`: a check and what it was told; `jobs`: its BullMQ job; evidence rows, alerts, the negotiation's status | `BeginCheck`, `TimeOut`, `ReceiveResult`, `MarkRejected` (the gates); `TakeCheck`, `EngineAnswers`, `EngineFails`, `StoreEvidence`, `StoreMock`, `FailAttempt` (the workers); `BackoffEnds`, `StallJob` (BullMQ) |
| `GatePayload` | a coalition, its buses and the payload | one step of `buildJointGatePayload` and `GridGate.check` |
| `TurnDelivery` | sockets and runner of one agent; the broker's sessions and `registered` socket; the turn; answers on their way | `StartRunner`, `StopRunner`, `DemoConnects`, `DropConnection`, `ReconnectRefused`; `Connect`, `RegisterAgent`, `SessionEnds`; `NotifyTurn`, `EmitAnswer`, `ReceiveAnswer`, `OpponentActs` |
| `OwnerBargaining` | types and limits of two agents, the `NegotiationState`, the action sent | `DecideTurn` (`computeDecision`, `handleTurn`), `ReceiveAction` (parsing, both validations, the three actions), `EditLimits` |
| `BeliefCycles` | broadcast jobs, the workers' locals and cache, belief rows | one action per awaited call of the job, each of which may fail; `CrashWorker` |
| `IntegrityCheck` | rows, snapshots, the job's locals | `ReadRows` and `CompareAndStore` per table, `ChangeRow` by anyone, `CheckStalls` |
| `OracleSources` | documents, the latest event about each id, requests | the three `POST` routes, each as request, change and audit event; `EngineIngests`, `EngineSilent`, `InsertFallback` |
| `OraclePage` | filter and list shown, list requests and button handlers in flight | `ChangeFilter`, `ListArrives`, `PressButton`, `HearReply` |
| `ReviewPage` | application shown, inspections in flight, dialog, handler | `Inspect`, `HearInspection`, `PressAction`, `ConfirmReview`, `ReviewSucceeds`, `ReviewFails`, `EndReview` |
| `OwnerSettings` | the stored switch, the switch shown and in the form per page, updates in flight | `ToggleTrading`, `SavePreferences`, `HearUpdate`, `GiveUpUpdate` (page); `CheckOwner`, `StoreUpdate` (`PUT /preferences`) |
| `OwnerPages` | deals, settlements, sections answered so far | `LoadPage`, `AnswerSection`, `SectionFails` (page and `me.ts`); `CreateDeal`, `EndDeal`, `VerifyDeal`, `RejectDeal`, `CommitDeal` (the writes of `negotiate.ts`, the gate and `commitSettlement`); `Provision` |
| `Explanations` | an account's deals and profiles, the answer | `ExplainToOwner`, the list of all the owner's negotiations |
| `LiveFeed` | talks, rooms, packets, client state and timer, events kept | `StartTalk`, `TalkEvent`, `EndTalk`, `Observe` (broker); `HearPacket`, `ConnectFails`, `ReconnectTimer`, `ClosePage` (client) |
| `Session` | local storage, the pages' users and pending answers | `LoadScreen`, `Verified`, `VerificationFails`, `SubmitLogin`, `LoggedIn`, `MockLogin`, `LoginFails`, `EnterAsGuest` (the guest button), `Logout`, `TokenExpires` |

Abstractions. Prices are cents and power is in whole units, chosen so that the
divisions of the code come out even; probabilities are thousandths. Time passes
by choice: a time limit may strike whenever somebody waits. A page's requests
are answered in any order, each by the tables as they are then. The wording of
explanations and alerts, the sums of energy and money, layout, reconnection
delays and the 250 events a feed keeps are left out.

A deal of `OwnerPages` has no guard on its status, because the handlers have
none: `start_negotiation` takes a row of any status and leaves it as it is
(`negotiate.ts:334`), and what follows overwrites it. So a settled deal may be
started again by its id and walked away from, or settled again under the key of
another round, and its row then says anything beside its settlements.
`SectionsAgree` is about what must fit all the same: the counts and the lists of
one load, a COMMITTED row and its settlements, and a settlement and the row of
its deal, which is listed and not one that was only created. Where a deal
changed while the page loaded (`meanwhile`, `past`) they may differ by as much
as changed. Which microgrids a row names (`Own`) and which took part in a
settlement (`own`) are told apart: the broker creates rows without sides.

An owner of both sides of a deal is told of the seller's side; if that profile
sets no minimum, its maximum for a buyer is what the price is held against
(`PriceLimit`, `explainabilityService.ts:288`). It is a profile of the owner's
either way.

Many of these properties name exceptions, in a variable marked *history*:
`crossed`, `mixed`, `overlapped`, `clashed`, `guessed`, `pressed`. Each stands for
a weakness of the code that the model shows; the property says that nothing
else goes wrong.

- An inspection that was asked for before a button was pressed replaces the
  application under the open dialog, which does not name it; the operator
  confirms for another application than the one whose button was pressed
  (`ReviewIsOfPressed`, `AdminOnboardingPage.tsx:74`, `91`).
- List answers overtake each other, and a confirmed change refetches with the
  filter of an earlier render (`ListMatchesFilter`).
- A form opened before a pause in another page, or saved while a toggle is
  under way, resumes trading (`PauseHolds`).
- The late verification of an old token stores its user beside the new token,
  or logs the new account out (`ShownUserOwnsToken`).
- A revocation and a re-ingestion of one document at once may be audited in the
  other order, and a failed request may have changed the document
  (`StatusFollowsTrail`).

## Runs

| Run | Instance | Shows |
|---|---|---|
| `negotiation_turns` | 1 id, 2 sessions, 1 handler of each kind, 3 rounds, 1 term, faults and crashes, `FairSpec` | `SettledOnce`, `AlternatingOffers`, `NoOrphan`, `LedgerSpec`, and that an accepted deal leaves the map (`AcceptedDealResolves`) |
| `negotiation_owners` | 2 sessions, 2 rounds, owners with two policies, one owner suspended | `OwnersAgreed` |
| `negotiation_pipelined` | 2 handlers of one session at a time, 2 terms, 1 round | `SettlementsGated`, `SettlementsAccepted` without any assumption on the agents |
| `audit_writers` | 2 settlements of 2 events, 1 preference change, 1 revocation | `LinkedBackwards`, `LinearWhileSerialized`, `PrefixStable` |
| `onboarding` | 1 owner who is also a reviewer, 1 other reviewer, 1 bus, 2 requests in flight, 4 audit events | `ProvisionedOnce`, `VettedBeforeProvisioned`, `ActiveIsMapped`, `StatusIsAudited` |
| `surroundings` | one small instance of each component, below | the types of all, an invariant or two of each of the fourteen components, `BroadcastsEnd` and `ChecksEnd` |
| `negotiation_overtaking` | as `negotiation_owners`, agents do not wait | violates `OwnersAgreed` |
| `negotiation_export` | 2 negotiations of one seller | violates `DailyExportRespected` |
| `negotiation_evidence` | no evidence rows, no faults | violates `PassedDealsSettle` |
| `audit_forks` | 1 settlement, 1 preference change, 1 revocation | violates `ChainLinear` |
| `onboarding_suspension` | 1 owner, 2 reviewers, 1 request at a time | violates `SuspensionLasts` |
| `joint_gate_answers` | 2 joint checks, 2 attempts, engine and database that never fail | violates `JointCheckIsAnswered` |

Why the bounds are enough. Two sessions on one id are a restart: the second
session meets the rows, the settlement and the idempotency keys of the first.
Three rounds give each agent a turn after its opponent's answer and reach the
limit. Two handlers in flight are enough for one to overtake the other at any
await; a third one repeats a role. Two terms are enough for "other terms than
those that were checked". `LossesUntil` bounds the phantom round rows that lost
answers leave behind, which otherwise grow for ever. In the audit runs two
settlements and two other writers contain every pair of isolation levels. Applications do not
share rows, so one is enough for `onboarding`; two requests contain every
overtaking, and four events are an approval, a provisioning, and a suspension
or mapping with one decision that overwrites it.
`CHECK_DEADLOCK FALSE` is set where the behaviour ends when the bound on
transactions is used up.

The instance of `surroundings`, component by component. Beliefs: two worker
processes, as in the cluster, two ticks of the schedule and one fault, so that
a job can be run twice and two cycles can overlap. Gates: two checks; two
attempts stand for three, since only the last one differs. `Crowded` and
`Takers` make the two joint checks wait for one worker, the case in which a
hanging request holds up another check; with a worker for each they never
meet, which is the instance of `joint_gate_answers`. `JointAnswersInFull` lets
the engine answer as its schema declares: what the code's own answer does is
the violation run. Payload: coalitions of up to four agents, with sites that
share buses, zero capacities and several agents of one site. Bargaining: seven
limits, among them contradictory, tiny and missing ones, five pairs of types,
one change of limits, all rounds. Turns: two socket objects of two connections
each, one stop of the runner and three rounds; the third round is what an
answer to an old turn needs. Integrity: two tables, two rows, two nights, three
changes. Documents: one content, two copies, three requests; contents do not
meet. Pages: three list requests, two changes, two inspections and two
applications, two updates, two loaded pages and two accounts: each is one more
than an overtaking needs or exactly that. Feed: two negotiations of three
events. Sections: one deal that names the owner and may be settled under two
keys; between any two answers it is started again, walked away from or settled
a second time. Pages hold two, so that the list of settlements is full with
both.

Fairness. `FairSpec` asks for weak fairness of every handler's own steps: the
event loop resumes a handler whose call has answered, database calls answer or
fail, and `JointGate` waits at most `TIMEOUT_MS`. Nothing makes an agent act,
an owner answer or a fault happen. `AcceptedDealResolves` starts at the ACCEPT,
from where on only handlers are involved. In `surroundings`, `BroadcastsEnd`
assumes that the workers keep running: a restarted process takes jobs again,
the fetch has a time limit, and a database call answers or fails. `ChecksEnd`
assumes nothing of the engine or the workers, only that a gate hears of its
job or of its own limit. The pages promise nothing that needs fairness.

The six runs that end in a violation are disagreements between the code and
what the repository says of it; `PROJECT.json` quotes both. Each holds in the
instance next to it: `OwnersAgreed` for agents that wait, `PassedDealsSettle`
with `EvidenceRecorded`, a linear chain among serializable transactions.
`SuspensionLasts` has no such instance: one handler at a time breaks it, the
owner's `PUT` with an empty body. The model of onboarding shows two more
disagreements that no run states yet: a provisioned application that waits for
its bus can be rejected, which `adminOnboarding.ts:299` excludes for
"provisioned" ones, and one that was suspended and approved again never gets
back to ACTIVE, because provisioning returns early for it.
`DailyExportRespected` is stated leniently: only the loosest policy counts.
`JointCheckIsAnswered` holds with `JointAnswersInFull`, in `surroundings`,
where no property lists it because failing engines exhaust the attempts too.

Further observations from the modelling, which no run states:

- For a content it already has, the engine stores nothing and answers with a
  new id (`rag_pipeline.py:63`, `routers/oracle.py:166`), under which the broker
  audits a document and confirms it ACTIVE. A resubmission after the 503
  "Retry when the engine is available" (`adminOracle.ts:275`) is such a case.
  `OracleSources` has it as `Ghost`.
- The broker creates negotiations without their two sides (`negotiate.ts:347`);
  only the seed sets them. An owner's list, explanations and count of active
  negotiations therefore miss every deal the broker made, while settlements
  show (`Own` in `OwnerPages`).
- Of two sellers, or two buyers, at one microgrid only the second one's capacity
  reaches the power flow, while both count in the total
  (`jointGatePayload.ts:81`): `PowerIsTraded` is said of sides whose members
  have a microgrid each.
- `me.ts:520` multiplies the sum of energy by the average price, which is not
  the sum of the products. `MyAgentPage` leaves STABILITY_FAILED and GRID_FAILED
  out of the rejected trades, and shows a failed request as an empty section.
- Explanations show the settlement's price, or a default, for every round, and
  judge it by the limits of today. Belief rows belong to the ORACLE negotiation,
  so the explanation of another never finds one.
- `Negotiation` events named `SETTLEMENT_COMMITTED` and the like, which the
  timeline of `NegotiationFeedPage` draws, are emitted by nobody; a gate that
  times out ends a negotiation without any event (`EndTalk`).
- Nothing in the code deactivates a user, removes a membership or writes
  `reasoning_deficits`.

## Theorems

The proofs assume nothing of the constants but the named assumption of each
module (`ConstantsAssumption`, `AuditAssumption`, `OnboardingAssumption`,
`GateAssumption`, `TurnAssumption`, `BargainAssumption`, `BeliefAssumption`,
`CheckAssumption`, `SourceAssumption`, `ViewAssumption`, `FeedAssumption`,
`PayloadAssumption`, `DealAssumption`, `ExplainAssumption`),
which TLC evaluates in each run of the module. They hold for any number of agents,
sessions, handlers, transactions, pages and workers, with and without faults. Most of
the assumptions give a constant its type; those that say more are facts of the
code: stored prices are not negative and a stored trade is not empty
(`preferenceService.ts`), at least three rounds are allowed (the code has ten),
the tables of the nightly check and the agents a query returns are lists
without repetition, a document's copies are numbered from 1. `Null` and the like
differ from what they stand beside.

A theorem about a component is stated of the component's own specification
(`GateSpec`, `TurnSpec`, ...). `SurroundingsProofs` carries it over to the
composition, `SideBySide`, in which the steps of all components are interleaved:
such a step is a step of one component and a stutter of the others
(`EachSteps`), so a behaviour of the composition is a behaviour of each
(`EachRuns`), and `ComponentsTyped`, `WorkersTogether` and `PagesTogether` say
of `SideBySide` all that the run `surroundings` checks but its two liveness
properties; of these, `JobsRunOutTogether` says what does not
depend on fairness. For `BeliefCycles` and `GateJobs`, whose specifications have
fairness, `EachRuns` needs `FairSideBySide`; their invariants need none and hold
of `SideBySide` itself. `OneIsFollowed` says that the specification TLC runs,
which moves one component only, is a special case of `SideBySide`.

`Negotiation`: `NegotiationTypeCorrect`, `OnlyGatedSettlements`,
`OnlyAcceptedSettlements` and `ImplementsLedger` follow from one inductive
invariant `Inv`. The properties speak of settlements and are not inductive: the
step that writes a settlement is right only because of what its handler has
been through. `HandlersOK` states that history, by `pc`: past its first check
the handler's terms were admitted, past the ACCEPT a round row says so, and at
the commit the gate has passed this quantity and the two sides of the trade are
known. A step of one handler must not take this from another: rows and history
only grow, and a session keeps its id and its *set* of participants (`Grows`,
`HandlerKept`), although their order may be swapped under a handler that waits
for the gate. `ImplementsLedger` then shows that only `CommitTransaction`
changes the table, and that it maps to `Record`.

`AuditChain`: `AuditTypeCorrect` and `AlwaysLinkedBackwards` need the
invariant that every row ever inserted, by aborted transactions too, has a
sequence of its own below `nextSequence`, and that a link leads to a committed
row or one of the same transaction. `SettlementChainLinear` and
`SettlementPrefixStable` add that a serializable transaction extends its
snapshot to a linear chain; because it can commit only while its snapshot holds
every serialized row, its view is the table as long as nobody else wrote.

`Onboarding`: `OneMicrogridPerApplication`, `OnlyVettedProvisioned`,
`ActiveApplicationsMapped`, `StatusAlwaysAudited` and `OnboardingTypeCorrect`
follow from one invariant `Inv`. What it adds is `RequestsOK`, the facts a
request read before its transaction that no other request can take away: the
application exists, its approval is in the audit trail, and a link that was
read is still the link; and `PastReview`, that the statuses provisioning
accepts only follow an approval. A link stays because a new microgrid needs a
free code and, by `ProvisionedOnce` itself, a linked application has none.

`Negotiation` with agents that wait: `SessionsSettleOnce`, `BothOwnersAgreed`,
`OffersAlternate` and `NoneOrphaned` have `TurnTaking` as their hypothesis,
which is a constant of the module and says how an action begins; the run
`negotiation_overtaking` shows that `OwnersAgreed` fails without it. Their
invariant `TurnInv` extends `Inv`. Its heart is `OneHandler`, that a session has one handler in flight
at a time: then what a handler read before an await still holds after it,
and its checks become facts about the session. `HandlerTurn` states them by
`pc`: up to the round row it is still the agent's turn, an ACCEPT past both
checks has both owners' consent, and until the commit its session has settled
nothing. `RowOK` relates a stored row to the session's round, so that a row
whose answer was lost, after which the agent acts again in the same round, does
not break the alternation. `Reachable` and `MapMatches` tie the handlers to the map:
an entry is removed only by the handler of its own session.

`GateJobs`: `PassesAreBacked` and `ExhaustedAreAlerted` follow from `GateInv`,
and `GatesTyped` with them. A retry forgets what the engine said but not the
verdict of the attempt before; `Faithful` is where the two agree again, from the
engine's answer to the end of the job, and what a gate concludes rests on it.
`JobAlert` needs the attempts made and the stalls in step with the job's status.

`TurnDelivery`: `StallsNeedALoss` and `AnswersFit` need `ToldOnce`: while a turn is
to be told nobody decides, and otherwise at most one decision or answer exists,
of the present round. It needs `SessionsApart`, that no two sockets share a
connection. `OwnerBargaining`: `DealsAreWithinLimits` needs to know
whose the standing offer is (`OfferIsOfOther`) and that limits that meet are
approached in three rounds (`OffersClose`, which gives each round's price). It
covers every combination of missing and contradictory limits.

`BeliefCycles`: `BeliefsFollowOn` and `UpdatesAreStored`. `RunsAlone` says, until
two cycles have overlapped, that the prior a cycle has read is still the last
belief of the agent it is about to write; `SignalsMoveOnce` says, overlapped
or not, that two cycles have different signals and that what a cycle has yet to write is not written. `BeliefsTyped`
needs arithmetic: the evidence a posterior is divided by is at least `Scale`,
because neither prior nor its complement is below the clamp, so the quotient is
defined and clamped again. It rests on `JobsApart`, that a running cycle has an
active job to itself and a job that may run again has stalled at most once, and
on `InStep`, which counts the agents a cycle has yet to come past.
`IntegrityCheck`: `CompletedChecksVouch` and `AlarmsAreExplained`
need that the tables an attempt has not reached keep the snapshot of the night
before, and a lemma about the comparison: a table's rows in the order of their
ids, cut to the length of the snapshot, equal it exactly when nothing was lost,
changed or inserted before an old row. `OracleSources`: `ListingsFollowTheTrail` needs that a
document off the trail has its change pending in exactly one request.

Two theorems show why the queues drain. `ChecksTakeFewSteps`: each step of a
gate, a worker or the queue lowers a number, `CheckLeft`, of one check and
leaves that of the others as it is. The number counts first the attempts and
stalls a job may still have, then where the job is within its attempt, so that
a retry, which goes back to the queue, still lowers it; that it is never negative
is what `GateInv` knows of a running job. `BroadcastsTakeFewSteps` uses a pair: a
step lowers `RunsLeft` of one job, which a worker's crash does by counting a
stall, or leaves every job alone and lowers `CycleLeft` of one cycle. Both
have bounds that depend on the number of agents alone (`LeftBounded`), so only finitely
many steps are possible. `BroadcastsAreAttended` adds that no job is lost: an active
one is run by some worker. What is left for `ChecksEnd` and
`BroadcastsEnd` is that a step is possible, and taken, while something is left.

The pages. `ShownUsersOwnTheToken` is inductive with the types.
`ReviewsAreOfThePressed` adds that the application under an open dialog stays, as
no inspection starts under it; `ListsMatchTheFilter` that the latest request in
flight is for the selected filter. `FeedsFollow` counts what is on its way: a
page's events and the packets that carry the others cover what it is owed, in
the rooms the broker has put it in. `PausesHold` compares every update under way
with the stored switch and the form that will hear its answer.
`OpponentsStayPrivate` is a noninterference: the answer is the same function of the
limits and assets of the owner's own microgrids alone, for every history.
`PagesAgree` keeps that a settled deal is past its creation, and that a
committed one has a settlement, whatever was started again since (`DealsInv`);
and, for each section that was answered, the sets its queries found (`ListInv`,
`SettledInv`, `CountInv`): they agree with the tables of now but for the deals
that changed since, and where nothing changed they agree with each other; a
page shows all of such a set when it shows fewer than a page holds, which
`NewestOfRows` proves of the cut.

Three theorems are about what a list or a sum holds, for data of any size. The
code's loops are written as functions of sets there, so that no induction over
sequences is needed. `OwnDealsTold`: a round's place in the sort is one more
than the number of rounds before it, different rounds have different places
(`PlacesTaken`), and so, by the pigeonhole principle, every place is taken.
`TradedPower`: the shares of a side, added bus by bus, are the whole traded
power, however many sites share a bus and whatever their capacities, as long as
the members of the side have a microgrid each, on one bus (`OwnBus`). Its
lemmas on sums (`SumUnfold` to `SharesAddUp`) are proved from a smallest set
that would refute them (`SmallestSet`).

Model-checked only, and why:

- `AcceptedDealResolves`, `BroadcastsEnd` and `ChecksEnd`: liveness under
  fairness, which rests on when an action is enabled. Of the last two, the theorems
  on what is left prove that the steps run out, and TLC checks the rest.
- The six runs that show a disagreement have nothing to prove.

## Not modelled

- Circuit breaker, cache and token bucket of the engine's feeds, dispatch
  certificates, and the LLM retry loop: Python services that neither the
  negotiation nor any other modelled path calls in production.
- Power flow, the coalition solver's linear programs, training and QRE:
  floating-point algorithms, out of the reach of TLC. The gates meet their
  answers as a free choice.
- `commitTrade.ts`, which nothing on the negotiation path calls, and the
  branches of `negotiate.ts` that only simulation mode takes.
- Authentication, encryption, request plumbing and read-only queries, which keep
  no state between requests; charts, maps and the deployment.
- The timeline, metrics and alerts in the console, which are wording and layout.

## Plan

Order of the work, most important behaviour first.

1. Done: `SettlementLedger`, `Negotiation`, `AuditChain`, `Onboarding` with
   their proofs.
2. Done: the surroundings, composed and model-checked.
3. Done: the invariant of `Negotiation` under `TurnTaking`, for
   `SettledOnce`, `OwnersAgreed`, `AlternatingOffers` and `NoOrphan`.
4. Done: proofs about the surroundings, every safety property and the types of
   each component, and of their composition; and that broadcasts and checks run out.
5. Left: the remaining hazards of `Onboarding` (reactivation, rejected agents,
   blank fields) as properties.
6. Left: an abstract specification of what a gate promises its caller, to be
   implemented by `GateJobs`, with the gate's verdict in `Negotiation` as its
   instance; the engine's circuit breaker and cache.
