----------------------------- MODULE Negotiation -----------------------------
(***************************************************************************)
(* The negotiation coordinator of one broker process in production mode    *)
(* (broker/src/ws/negotiate.ts, failClosed = TRUE), with the parts of      *)
(* preferenceService, jointGate and settlementService its handlers call.   *)
(*                                                                         *)
(* A handler is a JavaScript async function: it runs alone up to its next  *)
(* await, so one action below is "the awaited call answers, and the code   *)
(* after it runs up to the next await".  Handlers of one process           *)
(* interleave at the awaits and nothing locks a negotiation in between.    *)
(*                                                                         *)
(* Left to other modules: the audit rows the handlers append (AuditChain), *)
(* sockets and turn notifications.  EnergyTransfer and RlReward rows are   *)
(* written by the transaction that writes the Settlement, and are part of  *)
(* its row here.  All steps happen on one calendar day.                    *)
(***************************************************************************)
EXTENDS Integers, FiniteSets, FiniteSetsExt

CONSTANTS
  Agents,        \* agents known to the agents table
  Microgrids,    \* microgrids known to the microgrids table
  MicrogridOf,   \* the microgrid an agent trades for
  Type,          \* the agent's declared type
  Terms,         \* the (price, kWh) pairs an action can carry
  Kwh,           \* the energy of a pair
  Policies,      \* the trading preferences an owner can store
  Suspendable,   \* bound: the microgrids whose owners get suspended
  NegIds,        \* negotiation row ids
  Sessions,      \* bound: NegotiationState objects created in a behaviour
  Starts,        \* bound: start_negotiation handlers in flight at a time
  Calls,         \* bound: agent_action handlers in flight at a time
  MAX_ROUNDS,    \* the round limit
  TurnTaking,    \* TRUE iff an agent sends one action per turn and waits
  Faults,        \* TRUE iff the database can fail and the process can crash
  LossesUntil,   \* bound: the insertion of a round row can lose its answer
                 \* until there are this many rows
  EvidenceRecorded,  \* TRUE iff the gate's certId names rows of both
                     \* stabilitychecks and grid_feasibility_certificates
  None           \* null: no session, no terms, no agent

AgentTypes == {"SELLER", "BUYER", "PROSUMER"}
Roles == {"SELLER", "BUYER"}
Actions == {"ACCEPT", "COUNTER_OFFER", "WALK_AWAY"}

(***************************************************************************)
(* A stored TradingPreference.  allowed[r] abstracts the limits on price,  *)
(* size and battery reserve that apply in role r: the terms they admit.    *)
(***************************************************************************)
Preference == [tradingEnabled : BOOLEAN,
               allowed : [Roles -> SUBSET Terms],
               maximumDailyExportKwh : Nat]

ASSUME ConstantsAssumption ==
  /\ MicrogridOf \in [Agents -> Microgrids]
  /\ Type \in [Agents -> AgentTypes]
  /\ Kwh \in [Terms -> Nat \ {0}]
  /\ Policies \subseteq Preference
  /\ Suspendable \subseteq Microgrids
  /\ MAX_ROUNDS \in Nat \ {0}
  /\ LossesUntil \in Nat
  /\ TurnTaking \in BOOLEAN
  /\ Faults \in BOOLEAN
  /\ EvidenceRecorded \in BOOLEAN
  /\ None \notin Sessions \cup Terms \cup Agents

VARIABLES
  session,             \* the NegotiationState objects
  activeNegotiations,  \* the Map from negotiation id to NegotiationState
  start,               \* start_negotiation handlers in flight
  call,                \* agent_action handlers in flight
  negStatus,           \* negotiations.status
  rounds,              \* negotiation_rounds
  settlements,         \* settlements, with their transfer and reward
  prefs,               \* trading_preferences
  suspended,           \* microgrids whose onboarding row is SUSPENDED
  validated,           \* history: owner checks that were satisfied
  approved             \* history: negotiations and kWh the gate passed

brokerVars == <<session, activeNegotiations, start, call>>
dbVars == <<negStatus, rounds, settlements>>
ownerVars == <<prefs, suspended>>
historyVars == <<validated, approved>>
vars == <<brokerVars, dbVars, ownerVars, historyVars>>
-----------------------------------------------------------------------------
SessionStatus == {"NEGOTIATING", "COMMITTING", "WALKED_AWAY",
                  "MAX_ROUNDS_REACHED", "LOST"}
RowStatus == {"ABSENT", "NEGOTIATING", "SAFETY_VERIFIED", "STABILITY_FAILED",
              "GRID_FAILED", "COMMITTED", "FAILED", "WALKED_AWAY",
              "MAX_ROUNDS_REACHED"}

(***************************************************************************)
(* A NegotiationState object.  LOST marks one that died with its process;  *)
(* Unused stands for one that start_negotiation has not created yet.  The  *)
(* standing offer is left out: it is only a default for the terms of an    *)
(* action, and an action may carry any terms of its own.                   *)
(***************************************************************************)
Session == [negId : NegIds, activeAgent : Agents, opponentAgent : Agents,
            round : Nat, status : SessionStatus]
Unused == [status |-> "UNUSED"]

(***************************************************************************)
(* The local state of an agent_action handler: the call it awaits (pc),    *)
(* what it was sent, and the values of negState it has already read into   *)
(* the arguments of that call: peer, roundNumber and active.               *)
(***************************************************************************)
CallPc == {"validate", "validatePeer", "persist", "verify", "gate",
           "stabilityFailed", "gridFailed", "commit", "fail", "walk", "maxed"}
Call == [pc : CallPc, sess : Sessions, agent : Agents, action : Actions,
         terms : Terms \cup {None}, peer : Agents \cup {None},
         roundNumber : Nat, active : Agents \cup {None}]
Idle == [pc |-> "idle"]

StartPc == {"preferences", "suspension", "open"}
Start == [pc : StartPc, negId : NegIds, first : Agents, second : Agents,
          todo : SUBSET Agents]

(***************************************************************************)
(* Database rows.  The fields sess, by and acceptedBy are not columns: they *)
(* record which session a row came from and which agent sent the action.   *)
(***************************************************************************)
Settlement == [key : NegIds \X Nat, negotiationId : NegIds,
               seller : Microgrids, buyer : Microgrids, terms : Terms,
               reward : Agents, sess : Sessions, acceptedBy : Agents]
Round == [negotiationId : NegIds, roundNumber : Nat, active : Agents,
          action : Actions, sess : Sessions, by : Agents]
Check == [sess : Sessions, agent : Agents, terms : Terms]
Verdict == [negotiationId : NegIds, kwh : Nat]

TypeOK ==
  /\ session \in [Sessions -> Session \cup {Unused}]
  /\ activeNegotiations \in [NegIds -> Sessions \cup {None}]
  /\ start \in [Starts -> Start \cup {Idle}]
  /\ call \in [Calls -> Call \cup {Idle}]
  /\ negStatus \in [NegIds -> RowStatus]
  /\ rounds \subseteq Round
  /\ settlements \subseteq Settlement
  /\ prefs \in [Microgrids -> Policies]
  /\ suspended \subseteq Microgrids
  /\ validated \subseteq Check
  /\ approved \subseteq Verdict

Init ==
  /\ session = [s \in Sessions |-> Unused]
  /\ activeNegotiations = [n \in NegIds |-> None]
  /\ start = [h \in Starts |-> Idle]
  /\ call = [c \in Calls |-> Idle]
  /\ negStatus = [n \in NegIds |-> "ABSENT"]
  /\ rounds = {}
  /\ settlements = {}
  /\ prefs \in [Microgrids -> Policies]
  /\ suspended = {}
  /\ validated = {}
  /\ approved = {}
-----------------------------------------------------------------------------
(***************************************************************************)
(* start_negotiation.  The caller names itself and one other agent, and    *)
(* either a negotiation row that exists or none, for a new row.  The last  *)
(* guard is the bound on Sessions.                                         *)
(***************************************************************************)
BeginStart(h, n, a, b) ==
  /\ start[h] = Idle
  /\ a # b
  /\ Cardinality({k \in Starts : start[k] # Idle})
       < Cardinality({s \in Sessions : session[s] = Unused})
  /\ start' = [start EXCEPT ![h] =
       [pc |-> "preferences", negId |-> n, first |-> a, second |-> b,
        todo |-> {a, b}]]
  /\ UNCHANGED <<session, activeNegotiations, call, dbVars, ownerVars,
                 historyVars>>

(***************************************************************************)
(* Leave participant p behind; the last one moves the handler to pc next.  *)
(***************************************************************************)
PassedCheck(h, p, next) ==
  LET rest == start[h].todo \ {p} IN
    IF rest # {}
    THEN [start[h] EXCEPT !.todo = rest]
    ELSE [start[h] EXCEPT !.todo = {start[h].first, start[h].second},
                          !.pc = next]

CheckTradingEnabled(h, p) ==
  /\ start[h].pc = "preferences"
  /\ p \in start[h].todo
  /\ start' = [start EXCEPT ![h] =
       IF prefs[MicrogridOf[p]].tradingEnabled
       THEN PassedCheck(h, p, "suspension")
       ELSE Idle]
  /\ UNCHANGED <<session, activeNegotiations, call, dbVars, ownerVars,
                 historyVars>>

CheckSuspension(h, p) ==
  /\ start[h].pc = "suspension"
  /\ p \in start[h].todo
  /\ start' = [start EXCEPT ![h] =
       IF MicrogridOf[p] \in suspended
       THEN Idle
       ELSE PassedCheck(h, p, "open")]
  /\ UNCHANGED <<session, activeNegotiations, call, dbVars, ownerVars,
                 historyVars>>

(***************************************************************************)
(* Mutant: the id is not looked up in the map before it is entered.        *)
(***************************************************************************)
OpenWithoutLookup(h) ==
  LET n == start[h].negId IN
  /\ start[h].pc = "open"
  /\ negStatus' = [negStatus EXCEPT ![n] = "NEGOTIATING"]
  /\ \E s \in Sessions :
       /\ session[s] = Unused
       /\ session' = [session EXCEPT ![s] =
            [negId |-> n, activeAgent |-> start[h].first,
             opponentAgent |-> start[h].second, round |-> 1,
             status |-> "NEGOTIATING"]]
       /\ activeNegotiations' = [activeNegotiations EXCEPT ![n] = s]
  /\ start' = [start EXCEPT ![h] = Idle]
  /\ UNCHANGED <<call, rounds, settlements, ownerVars, historyVars>>

(***************************************************************************)
(* Find or create the row, then, with no await in between, refuse an id    *)
(* that is active or enter a new NegotiationState into the map.  Of the    *)
(* existing row only its existence is read, not its status.                *)
(***************************************************************************)
OpenNegotiation(h) ==
  LET n == start[h].negId IN
  /\ start[h].pc = "open"
  /\ negStatus' = [negStatus EXCEPT ![n] =
                     IF @ = "ABSENT" THEN "NEGOTIATING" ELSE @]
  /\ \/ /\ activeNegotiations[n] # None
        /\ UNCHANGED <<session, activeNegotiations>>
     \/ /\ activeNegotiations[n] = None
        /\ \E s \in Sessions :
             /\ session[s] = Unused
             /\ session' = [session EXCEPT ![s] =
                  [negId |-> n, activeAgent |-> start[h].first,
                   opponentAgent |-> start[h].second, round |-> 1,
                   status |-> "NEGOTIATING"]]
             /\ activeNegotiations' = [activeNegotiations EXCEPT ![n] = s]
  /\ start' = [start EXCEPT ![h] = Idle]
  /\ UNCHANGED <<call, rounds, settlements, ownerVars, historyVars>>

(***************************************************************************)
(* Any lookup of start_negotiation fails: NEGOTIATION_START_FAILED.        *)
(***************************************************************************)
FailStart(h) ==
  /\ Faults
  /\ start[h] # Idle
  /\ start' = [start EXCEPT ![h] = Idle]
  /\ UNCHANGED <<session, activeNegotiations, call, dbVars, ownerVars,
                 historyVars>>
-----------------------------------------------------------------------------
InFlight(s) == {c \in Calls : call[c] # Idle /\ call[c].sess = s}

(***************************************************************************)
(* agent_action: the guards, which the handler evaluates once and before   *)
(* its first await.  Both COUNTER_OFFER and ACCEPT may carry terms of      *)
(* their own.  A WALK_AWAY is not validated: its first await is already    *)
(* the insertion of the round row.                                         *)
(***************************************************************************)
BeginAction(c, n, a, action, t) ==
  LET s == activeNegotiations[n]
      received == [pc |-> "validate", sess |-> s, agent |-> a,
                   action |-> action, terms |-> t, peer |-> None,
                   roundNumber |-> 0, active |-> None]
  IN
  /\ call[c] = Idle
  /\ s # None
  /\ session[s].status = "NEGOTIATING"
  /\ session[s].activeAgent = a
  /\ (t = None) <=> (action = "WALK_AWAY")
  /\ TurnTaking => InFlight(s) = {}
  /\ call' = [call EXCEPT ![c] =
       IF action = "WALK_AWAY"
       THEN [received EXCEPT !.pc = "persist",
                             !.roundNumber = session[s].round,
                             !.active = session[s].activeAgent]
       ELSE received]
  /\ UNCHANGED <<session, activeNegotiations, start, dbVars, ownerVars,
                 historyVars>>

Role(a) == IF Type[a] = "SELLER" THEN "SELLER" ELSE "BUYER"

todayExportKwh(m) ==
  MapThenSumSet(LAMBDA x : Kwh[x.terms], {x \in settlements : x.seller = m})

(***************************************************************************)
(* validateActionAgainstPreferences for agent a in its declared role.      *)
(***************************************************************************)
Satisfied(a, t) ==
  LET m == MicrogridOf[a] IN
  /\ prefs[m].tradingEnabled
  /\ t \in prefs[m].allowed[Role(a)]
  /\ Role(a) = "SELLER" =>
       todayExportKwh(m) + Kwh[t] <= prefs[m].maximumDailyExportKwh

(***************************************************************************)
(* The handler goes on to store the round row, whose number and active     *)
(* agent it now takes from negState.                                       *)
(***************************************************************************)
ToPersist(c) ==
  [call[c] EXCEPT !.pc = "persist",
                  !.roundNumber = session[call[c].sess].round,
                  !.active = session[call[c].sess].activeAgent]

(***************************************************************************)
(* Mutants: a violation is reported but the handler does not return; the   *)
(* opponent of an ACCEPT is not asked.                                     *)
(***************************************************************************)
ValidateWithoutReturn(c) ==
  LET k == call[c] IN
  /\ k.pc = "validate"
  /\ validated' = IF Satisfied(k.agent, k.terms)
                  THEN validated \cup
                    {[sess |-> k.sess, agent |-> k.agent, terms |-> k.terms]}
                  ELSE validated
  /\ call' = [call EXCEPT ![c] =
       IF k.action = "ACCEPT"
       THEN [k EXCEPT !.pc = "validatePeer",
                      !.peer = session[k.sess].opponentAgent]
       ELSE ToPersist(c)]
  /\ UNCHANGED <<session, activeNegotiations, start, dbVars, ownerVars,
                 approved>>

ValidateActiveOnly(c) ==
  LET k == call[c] IN
  /\ k.pc = "validate"
  /\ IF Satisfied(k.agent, k.terms)
     THEN /\ validated' = validated \cup
               {[sess |-> k.sess, agent |-> k.agent, terms |-> k.terms]}
          /\ call' = [call EXCEPT ![c] = ToPersist(c)]
     ELSE /\ call' = [call EXCEPT ![c] = Idle]
          /\ UNCHANGED validated
  /\ UNCHANGED <<session, activeNegotiations, start, dbVars, ownerVars,
                 approved>>

(***************************************************************************)
(* The preferences of the acting agent's owner answer.  A violation ends   *)
(* the handler; for an ACCEPT the opponent is read from negState, as it is *)
(* by now, and its owner is asked next.                                    *)
(***************************************************************************)
ValidateActive(c) ==
  LET k == call[c] IN
  /\ k.pc = "validate"
  /\ IF Satisfied(k.agent, k.terms)
     THEN /\ validated' = validated \cup
               {[sess |-> k.sess, agent |-> k.agent, terms |-> k.terms]}
          /\ call' = [call EXCEPT ![c] =
               IF k.action = "ACCEPT"
               THEN [k EXCEPT !.pc = "validatePeer",
                              !.peer = session[k.sess].opponentAgent]
               ELSE ToPersist(c)]
     ELSE /\ call' = [call EXCEPT ![c] = Idle]
          /\ UNCHANGED validated
  /\ UNCHANGED <<session, activeNegotiations, start, dbVars, ownerVars,
                 approved>>

ValidateOpponent(c) ==
  LET k == call[c] IN
  /\ k.pc = "validatePeer"
  /\ IF Satisfied(k.peer, k.terms)
     THEN /\ validated' = validated \cup
               {[sess |-> k.sess, agent |-> k.peer, terms |-> k.terms]}
          /\ call' = [call EXCEPT ![c] = ToPersist(c)]
     ELSE /\ call' = [call EXCEPT ![c] = Idle]
          /\ UNCHANGED validated
  /\ UNCHANGED <<session, activeNegotiations, start, dbVars, ownerVars,
                 approved>>

StoreRound(c) ==
  LET k == call[c] IN
  /\ k.pc = "persist"
  /\ rounds' = rounds \cup
       {[negotiationId |-> session[k.sess].negId,
         roundNumber |-> k.roundNumber, active |-> k.active,
         action |-> k.action, sess |-> k.sess, by |-> k.agent]}

(***************************************************************************)
(* Mutant: the round is advanced for every action, an ACCEPT too.          *)
(***************************************************************************)
AcceptAdvancingRound(c) ==
  LET s == call[c].sess IN
  /\ StoreRound(c)
  /\ call[c].action = "ACCEPT"
  /\ session' = [session EXCEPT ![s].status = "COMMITTING", ![s].round = @ + 1]
  /\ call' = [call EXCEPT ![c].pc = "verify"]
  /\ UNCHANGED <<activeNegotiations, start, negStatus, settlements,
                 ownerVars, historyVars>>

(***************************************************************************)
(* The round row is stored, and the action takes effect on negState        *)
(* whatever has become of it since the guards were evaluated.              *)
(***************************************************************************)
ApplyAccept(c) ==
  LET s == call[c].sess IN
  /\ StoreRound(c)
  /\ call[c].action = "ACCEPT"
  /\ session' = [session EXCEPT ![s].status = "COMMITTING"]
  /\ call' = [call EXCEPT ![c].pc = "verify"]
  /\ UNCHANGED <<activeNegotiations, start, negStatus, settlements,
                 ownerVars, historyVars>>

ApplyWalkAway(c) ==
  LET s == call[c].sess IN
  /\ StoreRound(c)
  /\ call[c].action = "WALK_AWAY"
  /\ session' = [session EXCEPT ![s].status = "WALKED_AWAY"]
  /\ call' = [call EXCEPT ![c].pc = "walk"]
  /\ UNCHANGED <<activeNegotiations, start, negStatus, settlements,
                 ownerVars, historyVars>>

(***************************************************************************)
(* Mutant: the two agents are swapped without a temporary.                 *)
(***************************************************************************)
CounterWithoutSwap(c) ==
  LET s == call[c].sess
      exhausted == session[s].round + 1 > MAX_ROUNDS
  IN
  /\ StoreRound(c)
  /\ call[c].action = "COUNTER_OFFER"
  /\ session' = [session EXCEPT
       ![s].activeAgent = session[s].opponentAgent,
       ![s].round = session[s].round + 1,
       ![s].status = IF exhausted THEN "MAX_ROUNDS_REACHED" ELSE @]
  /\ call' = [call EXCEPT ![c] =
       IF exhausted THEN [@ EXCEPT !.pc = "maxed"] ELSE Idle]
  /\ UNCHANGED <<activeNegotiations, start, negStatus, settlements,
                 ownerVars, historyVars>>

(***************************************************************************)
(* A counter-offer passes the turn and enters the next round; entering the *)
(* round after the last one ends the negotiation.                          *)
(***************************************************************************)
ApplyCounterOffer(c) ==
  LET s == call[c].sess
      exhausted == session[s].round + 1 > MAX_ROUNDS
  IN
  /\ StoreRound(c)
  /\ call[c].action = "COUNTER_OFFER"
  /\ session' = [session EXCEPT
       ![s].activeAgent = session[s].opponentAgent,
       ![s].opponentAgent = session[s].activeAgent,
       ![s].round = session[s].round + 1,
       ![s].status = IF exhausted THEN "MAX_ROUNDS_REACHED" ELSE @]
  /\ call' = [call EXCEPT ![c] =
       IF exhausted THEN [@ EXCEPT !.pc = "maxed"] ELSE Idle]
  /\ UNCHANGED <<activeNegotiations, start, negStatus, settlements,
                 ownerVars, historyVars>>

(***************************************************************************)
(* The handler returns: the negotiation leaves the map under its id.       *)
(***************************************************************************)
Close(c) ==
  /\ activeNegotiations' =
       [activeNegotiations EXCEPT ![session[call[c].sess].negId] = None]
  /\ call' = [call EXCEPT ![c] = Idle]

SetRowStatus(c, status) ==
  negStatus' = [negStatus EXCEPT ![session[call[c].sess].negId] = status]
-----------------------------------------------------------------------------
(***************************************************************************)
(* handleCommit and JointGate.check.                                       *)
(***************************************************************************)
MarkSafetyVerified(c) ==
  /\ call[c].pc = "verify"
  /\ SetRowStatus(c, "SAFETY_VERIFIED")
  /\ call' = [call EXCEPT ![c].pc = "gate"]
  /\ UNCHANGED <<session, activeNegotiations, start, rounds, settlements,
                 ownerVars, historyVars>>

(***************************************************************************)
(* The participants of a session that declare the two sides of a trade.    *)
(***************************************************************************)
Declaring(s, type) ==
  {a \in {session[s].activeAgent, session[s].opponentAgent} : Type[a] = type}

Direction(s) ==
  \E x \in Declaring(s, "SELLER"), y \in Declaring(s, "BUYER") :
    MicrogridOf[x] # MicrogridOf[y]

(***************************************************************************)
(* Stable and feasible.  The handler resolves the direction of the trade   *)
(* and takes the idempotency key and the rewarded agent from negState.     *)
(***************************************************************************)
GatePasses(c) ==
  LET s == call[c].sess IN
  /\ call[c].pc = "gate"
  /\ approved' = approved \cup
       {[negotiationId |-> session[s].negId, kwh |-> Kwh[call[c].terms]]}
  /\ call' = [call EXCEPT ![c] =
       IF Direction(s)
       THEN [@ EXCEPT !.pc = "commit",
                      !.roundNumber = session[s].round,
                      !.active = session[s].activeAgent]
       ELSE [@ EXCEPT !.pc = "fail"]]
  /\ UNCHANGED <<session, activeNegotiations, start, dbVars, ownerVars,
                 validated>>

(***************************************************************************)
(* Mutant: handleCommit does not return when the gate has not passed.      *)
(***************************************************************************)
IgnoreVerdict(c) ==
  /\ call[c].pc = "gate"
  /\ call' = [call EXCEPT ![c].pc = "commit"]
  /\ UNCHANGED <<session, activeNegotiations, start, dbVars, ownerVars,
                 historyVars>>

(***************************************************************************)
(* A negative verdict, or none: the job failed all its attempts, or did    *)
(* not finish within TIMEOUT_MS, and its late answer is dropped.           *)
(***************************************************************************)
GateRejects(c) ==
  /\ call[c].pc = "gate"
  /\ \E pc \in {"stabilityFailed", "gridFailed", "fail"} :
       call' = [call EXCEPT ![c].pc = pc]
  /\ UNCHANGED <<session, activeNegotiations, start, dbVars, ownerVars,
                 historyVars>>

(***************************************************************************)
(* Mutant: the row names the agents instead of their microgrids.           *)
(***************************************************************************)
RowOfAgents(c) ==
  LET k == call[c]
      n == session[k.sess].negId
  IN [key |-> <<n, k.roundNumber>>, negotiationId |-> n,
      seller |-> CHOOSE a \in Declaring(k.sess, "SELLER") : TRUE,
      buyer |-> CHOOSE a \in Declaring(k.sess, "BUYER") : TRUE,
      terms |-> k.terms, reward |-> k.active, sess |-> k.sess,
      acceptedBy |-> k.agent]

SettlementRow(c) ==
  LET k == call[c]
      n == session[k.sess].negId
  IN [key |-> <<n, k.roundNumber>>, negotiationId |-> n,
      seller |-> MicrogridOf[CHOOSE a \in Declaring(k.sess, "SELLER") : TRUE],
      buyer |-> MicrogridOf[CHOOSE a \in Declaring(k.sess, "BUYER") : TRUE],
      terms |-> k.terms, reward |-> k.active, sess |-> k.sess,
      acceptedBy |-> k.agent]

(***************************************************************************)
(* Mutant: the key is not looked up before the row is written.             *)
(***************************************************************************)
CommitWithoutKeyLookup(c) ==
  /\ call[c].pc = "commit"
  /\ EvidenceRecorded
  /\ SetRowStatus(c, "COMMITTED")
  /\ settlements' = settlements \cup {SettlementRow(c)}

(***************************************************************************)
(* The serializable transaction of commitSettlement.  A key that is taken  *)
(* is answered with the row it names, whatever its terms, and leaves the   *)
(* negotiation's status as it is.                                          *)
(***************************************************************************)
CommitTransaction(c) ==
  LET row == SettlementRow(c) IN
  /\ call[c].pc = "commit"
  /\ IF \E x \in settlements : x.key = row.key
     THEN UNCHANGED <<negStatus, settlements>>
     ELSE /\ EvidenceRecorded
          /\ SetRowStatus(c, "COMMITTED")
          /\ settlements' = settlements \cup {row}

CommitSettlement(c) ==
  /\ CommitTransaction(c)
  /\ Close(c)
  /\ UNCHANGED <<session, start, rounds, ownerVars, historyVars>>

(***************************************************************************)
(* The transaction is rolled back: a foreign key names no row, or another  *)
(* serializable transaction wins.                                          *)
(***************************************************************************)
AbortSettlement(c) ==
  /\ call[c].pc = "commit"
  /\ Faults \/ ~ EvidenceRecorded
  /\ call' = [call EXCEPT ![c].pc = "fail"]
  /\ UNCHANGED <<session, activeNegotiations, start, dbVars, ownerVars,
                 historyVars>>

(***************************************************************************)
(* The transaction commits, but the connection drops before the answer.    *)
(***************************************************************************)
LoseCommitAnswer(c) ==
  /\ Faults
  /\ CommitTransaction(c)
  /\ call' = [call EXCEPT ![c].pc = "fail"]
  /\ UNCHANGED <<session, activeNegotiations, start, rounds, ownerVars,
                 historyVars>>

(***************************************************************************)
(* The closing update of every other outcome, and the return.              *)
(***************************************************************************)
Outcome == [stabilityFailed |-> "STABILITY_FAILED",
            gridFailed |-> "GRID_FAILED",
            fail |-> "FAILED",
            walk |-> "WALKED_AWAY",
            maxed |-> "MAX_ROUNDS_REACHED"]

(***************************************************************************)
(* Mutant: the handler returns without deleting the map entry.             *)
(***************************************************************************)
RecordWithoutDelete(c) ==
  /\ call[c].pc \in DOMAIN Outcome
  /\ SetRowStatus(c, Outcome[call[c].pc])
  /\ call' = [call EXCEPT ![c] = Idle]
  /\ UNCHANGED <<session, activeNegotiations, start, rounds, settlements,
                 ownerVars, historyVars>>

RecordOutcome(c) ==
  /\ call[c].pc \in DOMAIN Outcome
  /\ SetRowStatus(c, Outcome[call[c].pc])
  /\ Close(c)
  /\ UNCHANGED <<session, start, rounds, settlements, ownerVars, historyVars>>
-----------------------------------------------------------------------------
(***************************************************************************)
(* The database fails.  Before an action is applied the handler fails      *)
(* closed; the insertion that failed may still have been made.             *)
(***************************************************************************)
FailClosed(c) ==
  /\ Faults
  /\ \/ /\ call[c].pc \in {"validate", "validatePeer", "persist"}
        /\ UNCHANGED rounds
     \/ Cardinality(rounds) < LossesUntil /\ StoreRound(c)
  /\ call' = [call EXCEPT ![c] = Idle]
  /\ UNCHANGED <<session, activeNegotiations, start, negStatus, settlements,
                 ownerVars, historyVars>>

(***************************************************************************)
(* Inside handleCommit an error leads to the FAILED update, and an error   *)
(* of an update that closes a rejected or failed deal is ignored.          *)
(***************************************************************************)
FailCommit(c) ==
  /\ Faults
  /\ call[c].pc = "verify"
  /\ call' = [call EXCEPT ![c].pc = "fail"]
  /\ UNCHANGED <<session, activeNegotiations, start, dbVars, ownerVars,
                 historyVars>>

IgnoreFailedUpdate(c) ==
  /\ Faults
  /\ call[c].pc \in {"stabilityFailed", "gridFailed", "fail"}
  /\ Close(c)
  /\ UNCHANGED <<session, start, dbVars, ownerVars, historyVars>>

(***************************************************************************)
(* The process dies, for one because the update of a WALK_AWAY or of the   *)
(* round limit failed: that rejection is thrown and nobody handles it.     *)
(* The map and the handlers are lost, the database stays.                  *)
(***************************************************************************)
Crash ==
  /\ Faults
  /\ session' = [s \in Sessions |->
       IF session[s] = Unused THEN Unused
                              ELSE [session[s] EXCEPT !.status = "LOST"]]
  /\ activeNegotiations' = [n \in NegIds |-> None]
  /\ start' = [h \in Starts |-> Idle]
  /\ call' = [c \in Calls |-> Idle]
  /\ UNCHANGED <<dbVars, ownerVars, historyVars>>
-----------------------------------------------------------------------------
(***************************************************************************)
(* The owners and the administrators, who act through other endpoints.  A  *)
(* suspended owner leaves SUSPENDED by editing the application.            *)
(***************************************************************************)
SetPreferences(m) ==
  /\ \E p \in Policies : prefs' = [prefs EXCEPT ![m] = p]
  /\ UNCHANGED <<brokerVars, dbVars, suspended, historyVars>>

Suspend(m) ==
  /\ suspended' = suspended \cup {m}
  /\ UNCHANGED <<brokerVars, dbVars, prefs, historyVars>>

LeaveSuspension(m) ==
  /\ suspended' = suspended \ {m}
  /\ UNCHANGED <<brokerVars, dbVars, prefs, historyVars>>
-----------------------------------------------------------------------------
StartStep(h) ==
  \/ \E p \in Agents : CheckTradingEnabled(h, p) \/ CheckSuspension(h, p)
  \/ OpenNegotiation(h)

ActionStep(c) ==
  \/ ValidateActive(c) \/ ValidateOpponent(c)
  \/ ApplyAccept(c) \/ ApplyWalkAway(c) \/ ApplyCounterOffer(c)
  \/ MarkSafetyVerified(c) \/ GatePasses(c) \/ GateRejects(c)
  \/ CommitSettlement(c) \/ AbortSettlement(c) \/ RecordOutcome(c)

FaultStep(c) ==
  FailClosed(c) \/ FailCommit(c) \/ LoseCommitAnswer(c) \/ IgnoreFailedUpdate(c)

Next ==
  \/ \E h \in Starts, n \in NegIds, a, b \in Agents : BeginStart(h, n, a, b)
  \/ \E h \in Starts : StartStep(h) \/ FailStart(h)
  \/ \E c \in Calls, n \in NegIds, a \in Agents, action \in Actions,
        t \in Terms \cup {None} : BeginAction(c, n, a, action, t)
  \/ \E c \in Calls : ActionStep(c) \/ FaultStep(c)
  \/ Crash
  \/ \E m \in Microgrids : SetPreferences(m)
  \/ \E m \in Suspendable : Suspend(m) \/ LeaveSuspension(m)

Spec == Init /\ [][Next]_vars

(***************************************************************************)
(* The event loop resumes every handler whose call has answered; database  *)
(* calls answer or fail, and JointGate waits TIMEOUT_MS at most.  Nothing  *)
(* makes an agent act.                                                     *)
(***************************************************************************)
Fairness ==
  /\ \A h \in Starts : WF_vars(StartStep(h))
  /\ \A c \in Calls : WF_vars(ActionStep(c))

FairSpec == Spec /\ Fairness
-----------------------------------------------------------------------------
(***************************************************************************)
(* Safety, however many actions an agent has in flight.                    *)
(*                                                                         *)
(* Every settlement is of a quantity the joint gate passed for that        *)
(* negotiation: a verdict is never used for other terms, nor skipped       *)
(* (README.md, "every agreed trade must pass ... before any ... settlement *)
(* is committed").                                                         *)
(***************************************************************************)
SettlementsGated ==
  \A x \in settlements :
    [negotiationId |-> x.negotiationId, kwh |-> Kwh[x.terms]] \in approved

(***************************************************************************)
(* Behind every settlement stands an agent whose owner's limits admitted   *)
(* exactly these terms, and a stored round row in which that agent accepts *)
(* (agent_action validates and stores before it commits).                  *)
(***************************************************************************)
SettlementsAccepted ==
  \A x \in settlements :
    /\ [sess |-> x.sess, agent |-> x.acceptedBy, terms |-> x.terms] \in validated
    /\ \E r \in rounds :
         r.sess = x.sess /\ r.by = x.acceptedBy /\ r.action = "ACCEPT"

(***************************************************************************)
(* The settlements table is the append-only ledger with unique keys that   *)
(* settlementService.ts promises: restarts, retries, lost answers and      *)
(* concurrent handlers neither duplicate a key nor change a row.           *)
(***************************************************************************)
Ledger == INSTANCE SettlementLedger
            WITH ledger <- settlements, Entry <- Settlement

LedgerSpec == Ledger!LedgerSpec
-----------------------------------------------------------------------------
(***************************************************************************)
(* Safety when every agent sends one action per turn (TurnTaking).         *)
(*                                                                         *)
(* Terms are settled only after the limits of both owners admitted them,   *)
(* and a session settles once, under the key of the round whose ACCEPT row *)
(* it stored.                                                              *)
(***************************************************************************)
Participants(s) == {session[s].activeAgent, session[s].opponentAgent}

OwnersAgreed ==
  \A x \in settlements : \A a \in Participants(x.sess) :
    [sess |-> x.sess, agent |-> a, terms |-> x.terms] \in validated

SettledOnce ==
  \A x \in settlements :
    /\ \A y \in settlements : x.sess = y.sess => x = y
    /\ \E r \in rounds : /\ r.sess = x.sess
                         /\ r.by = x.acceptedBy
                         /\ r.action = "ACCEPT"
                         /\ x.key = <<r.negotiationId, r.roundNumber>>

(***************************************************************************)
(* Where the evidence of the gate is stored and the database does not      *)
(* fail, a deal that both gates passed does not end as FAILED (one session *)
(* per negotiation; README.md, golden path steps 19 to 23).                *)
(***************************************************************************)
PassedDealsSettle ==
  \A v \in approved : negStatus[v.negotiationId] # "FAILED"

(***************************************************************************)
(* The stored rounds of a session are alternating offers within the round  *)
(* limit, and each names the agent that really acted.                      *)
(***************************************************************************)
AlternatingOffers ==
  \A r \in rounds :
    /\ r.active = r.by
    /\ r.roundNumber \in 1 .. MAX_ROUNDS
    /\ \A q \in rounds :
         q.sess = r.sess /\ q.roundNumber = r.roundNumber + 1 => q.by # r.by

(***************************************************************************)
(* A negotiation that still accepts actions, or has a handler in flight,   *)
(* can be reached through the map: its id is neither given to a second     *)
(* session nor removed by the handler of an older one.                     *)
(***************************************************************************)
InMap(s) == \E n \in NegIds : activeNegotiations[n] = s

NoOrphan ==
  \A s \in Sessions :
    session[s].status = "NEGOTIATING" \/ InFlight(s) # {} => InMap(s)

(***************************************************************************)
(* What a microgrid has sold today stays within the loosest limit its      *)
(* owner could have set.                                                   *)
(***************************************************************************)
DailyExportRespected ==
  \A m \in Microgrids :
    \E p \in Policies : todayExportKwh(m) <= p.maximumDailyExportKwh
-----------------------------------------------------------------------------
(***************************************************************************)
(* An accepted deal is resolved: it leaves the map, whether the gate or    *)
(* the database answers, refuses or fails (FairSpec).                      *)
(***************************************************************************)
AcceptedDealResolves ==
  \A s \in Sessions : session[s].status = "COMMITTING" ~> ~ InMap(s)
=============================================================================
