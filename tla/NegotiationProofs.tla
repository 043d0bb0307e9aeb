--------------------------- MODULE NegotiationProofs ---------------------------
(***************************************************************************)
(* Theorems about Negotiation, for any agents, terms, preferences and      *)
(* round limit, any number of sessions and of handlers in flight, with and *)
(* without faults: first whether or not agents wait for their turn, then   *)
(* when every agent sends one action per turn and waits (TurnTaking).      *)
(***************************************************************************)
EXTENDS Negotiation, TLAPS

(***************************************************************************)
(* What the map and the handlers in flight may rely on.                    *)
(*                                                                         *)
(* The history of a handler is in the database and in the history          *)
(* variables: past the first check its own terms were admitted, past the   *)
(* application of an ACCEPT a round row says so, and at the commit the     *)
(* gate has passed its quantity and the two sides of the trade are known.  *)
(***************************************************************************)
Checked(k) ==
  [sess |-> k.sess, agent |-> k.agent, terms |-> k.terms] \in validated

AcceptStored(k) ==
  \E r \in rounds : r.sess = k.sess /\ r.by = k.agent /\ r.action = "ACCEPT"

GatePassed(k) ==
  [negotiationId |-> session[k.sess].negId, kwh |-> Kwh[k.terms]] \in approved

HandlerOK(k) ==
  k # Idle =>
    /\ session[k.sess] # Unused
    /\ (k.terms = None) <=> (k.action = "WALK_AWAY")
    /\ k.pc \in {"validate", "validatePeer"} => k.action # "WALK_AWAY"
    /\ k.pc = "validatePeer" => k.action = "ACCEPT" /\ k.peer \in Agents
    /\ k.pc = "persist" => k.active \in Agents
    /\ k.pc # "validate" /\ k.action # "WALK_AWAY" => Checked(k)
    /\ k.pc \in {"verify", "gate", "commit"} =>
         k.action = "ACCEPT" /\ AcceptStored(k)
    /\ k.pc = "commit" =>
         k.active \in Agents /\ Direction(k.sess) /\ GatePassed(k)

HandlersOK == \A c \in Calls : HandlerOK(call[c])

MapOK ==
  \A n \in NegIds :
    activeNegotiations[n] # None => session[activeNegotiations[n]] # Unused

SettlementsOK == SettlementsGated /\ SettlementsAccepted

Inv == TypeOK /\ MapOK /\ HandlersOK /\ SettlementsOK

LEMMA InvInit == Init => Inv
<1> SUFFICES ASSUME Init PROVE Inv
  OBVIOUS
<1>1. TypeOK
  BY DEF Init, TypeOK, RowStatus
<1>2. MapOK /\ HandlersOK /\ SettlementsOK
  BY DEF Init, MapOK, HandlersOK, HandlerOK, SettlementsOK, SettlementsGated,
         SettlementsAccepted
<1> QED
  BY <1>1, <1>2 DEF Inv

-----------------------------------------------------------------------------
(***************************************************************************)
(* What no step takes back: rows and history only grow, and a session      *)
(* keeps its id and its two agents, in whatever order.                     *)
(***************************************************************************)
SessionKept(s) ==
  session[s] # Unused =>
    /\ session'[s] # Unused
    /\ session'[s].negId = session[s].negId
    /\ Participants(s)' = Participants(s)

Grows ==
  /\ validated \subseteq validated'
  /\ rounds \subseteq rounds'
  /\ approved \subseteq approved'
  /\ \A s \in Sessions : SessionKept(s)

LEMMA SessionsStand ==
  ASSUME UNCHANGED session
  PROVE  \A s \in Sessions : SessionKept(s)
BY DEF SessionKept, Participants

(***************************************************************************)
(* A handler that does not move keeps what it relies on.                   *)
(***************************************************************************)
LEMMA HandlerKept ==
  ASSUME Grows, NEW k \in Call \cup {Idle}, HandlerOK(k)
  PROVE  HandlerOK(k)'
<1> SUFFICES ASSUME k # Idle PROVE HandlerOK(k)'
  BY DEF HandlerOK
<1>1. k \in Call /\ k.sess \in Sessions
  BY DEF Call
<1>2. SessionKept(k.sess) /\ session[k.sess] # Unused
  BY <1>1 DEF Grows, HandlerOK
<1>3. Checked(k) => Checked(k)'
  BY DEF Grows, Checked
<1>4. AcceptStored(k) => AcceptStored(k)'
  BY DEF Grows, AcceptStored
<1>5. GatePassed(k) => GatePassed(k)'
  BY <1>2 DEF Grows, GatePassed, SessionKept
<1>6. Direction(k.sess) => Direction(k.sess)'
  BY <1>2 DEF SessionKept, Participants, Direction, Declaring
<1> QED
  BY <1>2, <1>3, <1>4, <1>5, <1>6 DEF HandlerOK, SessionKept

LEMMA SettlementsKept ==
  ASSUME Grows, SettlementsOK, UNCHANGED settlements
  PROVE  SettlementsOK'
BY DEF Grows, SettlementsOK, SettlementsGated, SettlementsAccepted

(***************************************************************************)
(* The shape of almost every step: at most one handler c moves.            *)
(***************************************************************************)
LEMMA OneHandlerMoves ==
  ASSUME Inv, TypeOK', Grows, SettlementsOK',
         NEW c \in Calls, HandlerOK(call[c])',
         \A d \in Calls : d # c => call'[d] = call[d],
         \A n \in NegIds :
           activeNegotiations'[n] \in {activeNegotiations[n], None}
  PROVE  Inv'
<1>1. MapOK'
  BY DEF Inv, TypeOK, MapOK, Grows, SessionKept
<1>2. \A k \in Call \cup {Idle} : HandlerOK(k) => HandlerOK(k)'
  BY HandlerKept
<1>3. ASSUME NEW d \in Calls, d # c
      PROVE  HandlerOK(call[d])'
  <2>1. HandlerOK(call[d]) /\ call[d] \in Call \cup {Idle}
    BY DEF Inv, HandlersOK, TypeOK
  <2>2. call'[d] = call[d]
    BY <1>3
  <2> QED
    BY <1>2, <2>1, <2>2 DEF HandlerOK, Checked, AcceptStored, GatePassed,
                            Direction, Declaring
<1> QED
  BY <1>1, <1>3 DEF Inv, HandlersOK

LEMMA NoHandlerMoves ==
  ASSUME Inv, TypeOK',
         UNCHANGED <<session, activeNegotiations, call, rounds, settlements,
                     historyVars>>
  PROVE  Inv'
<1>1. MapOK'
  BY DEF Inv, MapOK
<1>2. HandlersOK'
  BY DEF Inv, HandlersOK, HandlerOK, Checked, AcceptStored, GatePassed,
         Direction, Declaring, historyVars
<1>3. SettlementsOK'
  BY DEF Inv, SettlementsOK, SettlementsGated, SettlementsAccepted,
         historyVars
<1> QED
  BY <1>1, <1>2, <1>3 DEF Inv
-----------------------------------------------------------------------------
(***************************************************************************)
(* start_negotiation                                                       *)
(***************************************************************************)
LEMMA StartTyped ==
  ASSUME Inv, NEW h \in Starts, NEW new \in Start \cup {Idle},
         start' = [start EXCEPT ![h] = new],
         UNCHANGED <<session, activeNegotiations, call, dbVars, ownerVars,
                     historyVars>>
  PROVE  Inv'
<1>1. TypeOK'
  BY DEF Inv, TypeOK, dbVars, ownerVars, historyVars
<1> QED
  BY <1>1, NoHandlerMoves DEF dbVars

LEMMA BeginStartKeeps ==
  ASSUME Inv, NEW h \in Starts, NEW n \in NegIds, NEW a \in Agents,
         NEW b \in Agents, BeginStart(h, n, a, b)
  PROVE  Inv'
<1> DEFINE new == [pc |-> "preferences", negId |-> n, first |-> a,
                   second |-> b, todo |-> {a, b}]
<1>1. new \in Start
  BY DEF Start, StartPc
<1>2. start' = [start EXCEPT ![h] = new]
  BY DEF BeginStart
<1> QED
  BY <1>1, <1>2, StartTyped DEF BeginStart

LEMMA PassedCheckTyped ==
  ASSUME Inv, NEW h \in Starts, NEW p, NEW next \in StartPc,
         start[h].pc \in StartPc
  PROVE  PassedCheck(h, p, next) \in Start
<1>1. start[h] \in Start
  BY DEF Inv, TypeOK, Idle, StartPc
<1> QED
  BY <1>1 DEF PassedCheck, Start

LEMMA CheckKeeps ==
  ASSUME Inv, NEW h \in Starts, NEW p \in Agents,
         CheckTradingEnabled(h, p) \/ CheckSuspension(h, p)
  PROVE  Inv'
<1>1. CASE CheckTradingEnabled(h, p)
  <2>1. PICK new : /\ new \in {PassedCheck(h, p, "suspension"), Idle}
                   /\ start' = [start EXCEPT ![h] = new]
    BY <1>1 DEF CheckTradingEnabled
  <2>2. PassedCheck(h, p, "suspension") \in Start
    BY <1>1, PassedCheckTyped DEF CheckTradingEnabled, StartPc
  <2> QED
    BY <1>1, <2>1, <2>2, StartTyped DEF CheckTradingEnabled
<1>2. CASE CheckSuspension(h, p)
  <2>1. PICK new : /\ new \in {PassedCheck(h, p, "open"), Idle}
                   /\ start' = [start EXCEPT ![h] = new]
    BY <1>2 DEF CheckSuspension
  <2>2. PassedCheck(h, p, "open") \in Start
    BY <1>2, PassedCheckTyped DEF CheckSuspension, StartPc
  <2> QED
    BY <1>2, <2>1, <2>2, StartTyped DEF CheckSuspension
<1> QED
  BY <1>1, <1>2

LEMMA FailStartKeeps ==
  ASSUME Inv, NEW h \in Starts, FailStart(h)
  PROVE  Inv'
BY StartTyped DEF FailStart

LEMMA OpenNegotiationKeeps ==
  ASSUME Inv, NEW h \in Starts, OpenNegotiation(h)
  PROVE  Inv'
<1> DEFINE n == start[h].negId
<1>1. start[h] \in Start /\ n \in NegIds
  BY DEF OpenNegotiation, Inv, TypeOK, Idle, Start
<1>2. negStatus' \in [NegIds -> RowStatus] /\ start' \in [Starts -> Start \cup {Idle}]
  BY <1>1 DEF OpenNegotiation, Inv, TypeOK, RowStatus
<1>3. CASE UNCHANGED <<session, activeNegotiations>>
  <2>1. TypeOK'
    BY <1>2, <1>3 DEF OpenNegotiation, Inv, TypeOK, ownerVars, historyVars
  <2> QED
    BY <1>3, <2>1, NoHandlerMoves DEF OpenNegotiation
<1>4. ASSUME NEW s \in Sessions, session[s] = Unused,
             session' = [session EXCEPT ![s] =
               [negId |-> n, activeAgent |-> start[h].first,
                opponentAgent |-> start[h].second, round |-> 1,
                status |-> "NEGOTIATING"]],
             activeNegotiations' = [activeNegotiations EXCEPT ![n] = s]
      PROVE  Inv'
  <2> DEFINE new == [negId |-> n, activeAgent |-> start[h].first,
                     opponentAgent |-> start[h].second, round |-> 1,
                     status |-> "NEGOTIATING"]
  <2>1. new \in Session /\ new # Unused
    BY <1>1 DEF Start, Session, SessionStatus, Unused
  <2>2. session' = [session EXCEPT ![s] = new]
    BY <1>4
  <2>3. /\ session' \in [Sessions -> Session \cup {Unused}]
        /\ \A x \in Sessions : session'[x] = IF x = s THEN new ELSE session[x]
    BY <2>1, <2>2 DEF Inv, TypeOK
  <2> HIDE DEF new
  <2>4. activeNegotiations' \in [NegIds -> Sessions \cup {None}]
    BY <1>4 DEF Inv, TypeOK
  <2>5. TypeOK'
    BY <1>2, <2>3, <2>4 DEF OpenNegotiation, Inv, TypeOK, ownerVars,
       historyVars
  <2>6. MapOK'
    BY <1>4, <2>1, <2>3 DEF Inv, TypeOK, MapOK
  <2>7. Grows
    BY <1>4, <2>3 DEF Grows, SessionKept, Participants, OpenNegotiation,
                      historyVars
  <2>8. \A k \in Call \cup {Idle} : HandlerOK(k) => HandlerOK(k)'
    BY <2>7, HandlerKept
  <2>9. HandlersOK'
    <3> SUFFICES ASSUME NEW d \in Calls PROVE HandlerOK(call[d])'
      BY DEF HandlersOK
    <3>1. HandlerOK(call[d]) /\ call[d] \in Call \cup {Idle}
      BY DEF Inv, HandlersOK, TypeOK
    <3>2. call'[d] = call[d]
      BY DEF OpenNegotiation
    <3> QED
      BY <2>8, <3>1, <3>2 DEF HandlerOK, Checked, AcceptStored, GatePassed,
                              Direction, Declaring
  <2>10. SettlementsOK'
    BY <2>7, SettlementsKept DEF OpenNegotiation, Inv
  <2> QED
    BY <2>5, <2>6, <2>9, <2>10 DEF Inv
<1> QED
  BY <1>3, <1>4 DEF OpenNegotiation
-----------------------------------------------------------------------------
(***************************************************************************)
(* agent_action, up to the round row                                       *)
(***************************************************************************)
LEMMA CallTyped ==
  ASSUME Inv, NEW c \in Calls, call[c].pc # "idle"
  PROVE  /\ call[c] \in Call /\ call[c].pc \in CallPc
         /\ call[c].sess \in Sessions /\ call[c].agent \in Agents
         /\ call[c].action \in Actions /\ call[c].roundNumber \in Nat
         /\ session[call[c].sess] \in Session
         /\ session[call[c].sess].negId \in NegIds
         /\ session[call[c].sess].activeAgent \in Agents
         /\ session[call[c].sess].opponentAgent \in Agents
         /\ session[call[c].sess].round \in Nat
         /\ HandlerOK(call[c]) /\ call[c] # Idle
<1>1. call[c] # Idle
  BY DEF Idle
<1>2. call[c] \in Call
  BY <1>1 DEF Inv, TypeOK
<1>3. HandlerOK(call[c])
  BY DEF Inv, HandlersOK
<1>4. session[call[c].sess] \in Session
  BY <1>1, <1>2, <1>3 DEF HandlerOK, Inv, TypeOK, Call
<1> QED
  BY <1>1, <1>2, <1>3, <1>4 DEF Call, Session

LEMMA ToPersistTyped ==
  ASSUME Inv, NEW c \in Calls, call[c].pc # "idle"
  PROVE  /\ ToPersist(c) \in Call
         /\ ToPersist(c).pc = "persist"
         /\ ToPersist(c).active \in Agents
         /\ ToPersist(c).sess = call[c].sess
         /\ ToPersist(c).agent = call[c].agent
         /\ ToPersist(c).action = call[c].action
         /\ ToPersist(c).terms = call[c].terms
BY CallTyped DEF ToPersist, Call, CallPc

(***************************************************************************)
(* A step that only moves handler c and may add to the history.            *)
(***************************************************************************)
LEMMA HandlerSteps ==
  ASSUME Inv, NEW c \in Calls, call' \in [Calls -> Call \cup {Idle}],
         \A d \in Calls : d # c => call'[d] = call[d],
         HandlerOK(call[c])',
         UNCHANGED <<session, start, settlements, ownerVars>>,
         activeNegotiations' \in [NegIds -> Sessions \cup {None}],
         \A n \in NegIds :
           activeNegotiations'[n] \in {activeNegotiations[n], None},
         negStatus' \in [NegIds -> RowStatus],
         rounds' \subseteq Round, rounds \subseteq rounds',
         validated' \subseteq Check, validated \subseteq validated',
         approved' \subseteq Verdict, approved \subseteq approved'
  PROVE  Inv'
<1>1. TypeOK'
  BY DEF Inv, TypeOK, ownerVars
<1>2. Grows
  BY SessionsStand DEF Grows
<1> QED
  BY <1>1, <1>2, SettlementsKept, OneHandlerMoves DEF Inv

LEMMA BeginActionKeeps ==
  ASSUME Inv, NEW c \in Calls, NEW n \in NegIds, NEW a \in Agents,
         NEW action \in Actions, NEW t \in Terms \cup {None},
         BeginAction(c, n, a, action, t)
  PROVE  Inv'
<1> DEFINE s == activeNegotiations[n]
           received == [pc |-> "validate", sess |-> s, agent |-> a,
                        action |-> action, terms |-> t, peer |-> None,
                        roundNumber |-> 0, active |-> None]
           new == IF action = "WALK_AWAY"
                  THEN [received EXCEPT !.pc = "persist",
                                        !.roundNumber = session[s].round,
                                        !.active = session[s].activeAgent]
                  ELSE received
<1>1. s \in Sessions /\ session[s] # Unused
  BY DEF BeginAction, Inv, TypeOK, MapOK
<1>2. session[s] \in Session
  BY <1>1 DEF Inv, TypeOK
<1>3. /\ new \in Call /\ new.sess = s /\ new.action = action /\ new.terms = t
      /\ new.pc = IF action = "WALK_AWAY" THEN "persist" ELSE "validate"
      /\ action = "WALK_AWAY" => new.active \in Agents
  BY <1>1, <1>2 DEF Session, Call, CallPc
<1>4. call' = [call EXCEPT ![c] = new] /\ ((t = None) <=> (action = "WALK_AWAY"))
  BY DEF BeginAction
<1> HIDE DEF new, s
<1>5. /\ call' \in [Calls -> Call \cup {Idle}]
      /\ call'[c] = new
      /\ \A d \in Calls : d # c => call'[d] = call[d]
  BY <1>3, <1>4 DEF Inv, TypeOK
<1>6. HandlerOK(call[c])'
  BY <1>1, <1>3, <1>4, <1>5 DEF HandlerOK, BeginAction
<1> QED
  BY <1>5, <1>6, HandlerSteps
     DEF BeginAction, dbVars, historyVars, Inv, TypeOK

LEMMA ValidateActiveKeeps ==
  ASSUME Inv, NEW c \in Calls, ValidateActive(c)
  PROVE  Inv'
<1> DEFINE k == call[c]
           check == [sess |-> k.sess, agent |-> k.agent, terms |-> k.terms]
<1>1. k.pc = "validate" /\ k.pc # "idle"
  BY DEF ValidateActive
<1>2. k.action # "WALK_AWAY" /\ k.terms \in Terms
  BY <1>1, CallTyped DEF HandlerOK, Call
<1>3. check \in Check
  BY <1>1, <1>2, CallTyped DEF Check
<1>4. CASE ~ Satisfied(k.agent, k.terms)
  <2>1. call' = [call EXCEPT ![c] = Idle]
    BY <1>4 DEF ValidateActive
  <2>2. HandlerOK(call[c])'
    BY <2>1 DEF Inv, TypeOK, HandlerOK
  <2> QED
    BY <1>4, <2>1, <2>2, HandlerSteps
       DEF ValidateActive, dbVars, Inv, TypeOK
<1>5. CASE Satisfied(k.agent, k.terms)
  <2> DEFINE new == IF k.action = "ACCEPT"
                    THEN [k EXCEPT !.pc = "validatePeer",
                                   !.peer = session[k.sess].opponentAgent]
                    ELSE ToPersist(c)
  <2>1. call' = [call EXCEPT ![c] = new] /\ validated' = validated \cup {check}
    BY <1>5 DEF ValidateActive
  <2>2. /\ new \in Call /\ new.sess = k.sess /\ new.agent = k.agent
        /\ new.action = k.action /\ new.terms = k.terms
        /\ new.pc = IF k.action = "ACCEPT" THEN "validatePeer" ELSE "persist"
        /\ k.action = "ACCEPT" => new.peer \in Agents
        /\ k.action # "ACCEPT" => new.active \in Agents
    BY <1>1, CallTyped, ToPersistTyped, ZenonT(40) DEF Call, CallPc
  <2> HIDE DEF new
  <2>3. /\ call' \in [Calls -> Call \cup {Idle}]
        /\ call'[c] = new
        /\ \A d \in Calls : d # c => call'[d] = call[d]
    BY <2>1, <2>2 DEF Inv, TypeOK
  <2>4. session[k.sess] # Unused /\ ((k.terms = None) <=> (k.action = "WALK_AWAY"))
    BY <1>1, CallTyped DEF HandlerOK
  <2>5. HandlerOK(call[c])'
    BY <1>2, <2>1, <2>2, <2>3, <2>4 DEF HandlerOK, Checked, ValidateActive
  <2> QED
    BY <1>3, <2>1, <2>3, <2>5, HandlerSteps
       DEF ValidateActive, dbVars, Inv, TypeOK
<1> QED
  BY <1>4, <1>5

LEMMA ValidateOpponentKeeps ==
  ASSUME Inv, NEW c \in Calls, ValidateOpponent(c)
  PROVE  Inv'
<1> DEFINE k == call[c]
           check == [sess |-> k.sess, agent |-> k.peer, terms |-> k.terms]
<1>1. k.pc = "validatePeer" /\ k.pc # "idle"
  BY DEF ValidateOpponent
<1>2. /\ k.action = "ACCEPT" /\ k.terms \in Terms /\ k.peer \in Agents
      /\ session[k.sess] # Unused /\ Checked(k)
  BY <1>1, CallTyped DEF HandlerOK, Call
<1>3. check \in Check
  BY <1>1, <1>2, CallTyped DEF Check
<1>4. CASE ~ Satisfied(k.peer, k.terms)
  <2>1. call' = [call EXCEPT ![c] = Idle]
    BY <1>4 DEF ValidateOpponent
  <2>2. HandlerOK(call[c])'
    BY <2>1 DEF Inv, TypeOK, HandlerOK
  <2> QED
    BY <1>4, <2>1, <2>2, HandlerSteps
       DEF ValidateOpponent, dbVars, Inv, TypeOK
<1>5. CASE Satisfied(k.peer, k.terms)
  <2> DEFINE new == ToPersist(c)
  <2>1. call' = [call EXCEPT ![c] = new] /\ validated' = validated \cup {check}
    BY <1>5 DEF ValidateOpponent
  <2>2. /\ new \in Call /\ new.sess = k.sess /\ new.agent = k.agent
        /\ new.action = k.action /\ new.terms = k.terms
        /\ new.pc = "persist" /\ new.active \in Agents
    BY <1>1, ToPersistTyped
  <2> HIDE DEF new
  <2>3. /\ call' \in [Calls -> Call \cup {Idle}]
        /\ call'[c] = new
        /\ \A d \in Calls : d # c => call'[d] = call[d]
    BY <2>1, <2>2 DEF Inv, TypeOK
  <2>4. k.terms # None
    BY <1>2, ConstantsAssumption
  <2>5. HandlerOK(call[c])'
    BY <1>2, <2>1, <2>2, <2>3, <2>4 DEF HandlerOK, Checked, ValidateOpponent
  <2> QED
    BY <1>3, <2>1, <2>3, <2>5, HandlerSteps
       DEF ValidateOpponent, dbVars, Inv, TypeOK
<1> QED
  BY <1>4, <1>5
-----------------------------------------------------------------------------
(***************************************************************************)
(* agent_action, the action takes effect                                   *)
(***************************************************************************)
LEMMA RoundTyped ==
  ASSUME Inv, NEW c \in Calls, StoreRound(c)
  PROVE  /\ rounds' \subseteq Round /\ rounds \subseteq rounds'
         /\ \E r \in rounds' : /\ r.sess = call[c].sess
                               /\ r.by = call[c].agent
                               /\ r.action = call[c].action
<1> DEFINE k == call[c]
           row == [negotiationId |-> session[k.sess].negId,
                   roundNumber |-> k.roundNumber, active |-> k.active,
                   action |-> k.action, sess |-> k.sess, by |-> k.agent]
<1>1. k.pc = "persist" /\ k.pc # "idle" /\ rounds' = rounds \cup {row}
  BY DEF StoreRound
<1>2. row \in Round
  BY <1>1, CallTyped DEF HandlerOK, Round
<1>3. rounds \subseteq Round
  BY DEF Inv, TypeOK
<1> QED
  BY <1>1, <1>2, <1>3

(***************************************************************************)
(* The three Apply actions: the session of handler c is updated in place   *)
(* and the handler is done or moves on with what it was sent.              *)
(***************************************************************************)
LEMMA ApplySteps ==
  ASSUME Inv, NEW c \in Calls, StoreRound(c),
         session' \in [Sessions -> Session \cup {Unused}],
         \A x \in Sessions : SessionKept(x),
         call' \in [Calls -> Call \cup {Idle}],
         \A d \in Calls : d # c => call'[d] = call[d],
         \/ call'[c] = Idle
         \/ /\ \/ call'[c].pc \in {"walk", "maxed"}
               \/ call'[c].pc = "verify" /\ call[c].action = "ACCEPT"
            /\ call'[c].sess = call[c].sess
            /\ call'[c].agent = call[c].agent
            /\ call'[c].action = call[c].action
            /\ call'[c].terms = call[c].terms,
         UNCHANGED <<activeNegotiations, start, negStatus, settlements,
                     ownerVars, historyVars>>
  PROVE  Inv'
<1> DEFINE k == call[c]
<1>1. /\ k.sess \in Sessions /\ session[k.sess] # Unused
      /\ (k.terms = None) <=> (k.action = "WALK_AWAY")
      /\ k.action # "WALK_AWAY" => Checked(k)
  BY CallTyped DEF StoreRound, HandlerOK
<1>2. /\ rounds' \subseteq Round /\ rounds \subseteq rounds'
      /\ \E x \in rounds' : /\ x.sess = k.sess
                            /\ x.by = k.agent
                            /\ x.action = k.action
  BY RoundTyped
<1>3. TypeOK'
  BY <1>2 DEF Inv, TypeOK, ownerVars, historyVars
<1>4. Grows
  BY <1>2 DEF Grows, historyVars
<1>5. session'[k.sess] # Unused
  BY <1>1 DEF SessionKept
<1>6. HandlerOK(call[c])'
  BY <1>1, <1>2, <1>5 DEF HandlerOK, Checked, AcceptStored, historyVars
<1> QED
  BY <1>3, <1>4, <1>6, SettlementsKept, OneHandlerMoves DEF Inv

LEMMA MovedTo ==
  ASSUME Inv, NEW c \in Calls, call[c].pc # "idle", NEW pc \in CallPc,
         call' = [call EXCEPT ![c].pc = pc]
  PROVE  /\ call' \in [Calls -> Call \cup {Idle}]
         /\ \A d \in Calls : d # c => call'[d] = call[d]
         /\ call'[c] = [call[c] EXCEPT !.pc = pc]
         /\ call'[c].pc = pc
         /\ call'[c].sess = call[c].sess
         /\ call'[c].agent = call[c].agent
         /\ call'[c].action = call[c].action
         /\ call'[c].terms = call[c].terms
         /\ call'[c].active = call[c].active
<1> DEFINE new == [call[c] EXCEPT !.pc = pc]
<1>1. /\ new \in Call /\ new.pc = pc /\ new.sess = call[c].sess
      /\ new.agent = call[c].agent /\ new.action = call[c].action
      /\ new.terms = call[c].terms /\ new.active = call[c].active
  BY CallTyped DEF Call
<1>2. call' = [call EXCEPT ![c] = new]
  OBVIOUS
<1> HIDE DEF new
<1>3. /\ call' \in [Calls -> Call \cup {Idle}]
      /\ call'[c] = new
      /\ \A d \in Calls : d # c => call'[d] = call[d]
  BY <1>1, <1>2 DEF Inv, TypeOK
<1> QED
  BY <1>1, <1>3 DEF new

LEMMA MovedToIdle ==
  ASSUME Inv, NEW c \in Calls, call' = [call EXCEPT ![c] = Idle]
  PROVE  /\ call' \in [Calls -> Call \cup {Idle}]
         /\ call'[c] = Idle
         /\ \A d \in Calls : d # c => call'[d] = call[d]
         /\ HandlerOK(call[c])'
BY DEF Inv, TypeOK, HandlerOK

(***************************************************************************)
(* A session whose status is set, and nothing else.                        *)
(***************************************************************************)
LEMMA StatusSet ==
  ASSUME Inv, NEW s \in Sessions, session[s] # Unused,
         NEW status \in SessionStatus,
         session' = [session EXCEPT ![s].status = status]
  PROVE  /\ session' \in [Sessions -> Session \cup {Unused}]
         /\ \A x \in Sessions : SessionKept(x)
<1> DEFINE new == [session[s] EXCEPT !.status = status]
<1>1. session[s] \in Session
  BY DEF Inv, TypeOK
<1>2. /\ new \in Session
      /\ new.negId = session[s].negId
      /\ new.activeAgent = session[s].activeAgent
      /\ new.opponentAgent = session[s].opponentAgent
  BY <1>1 DEF Session
<1>3. new # Unused
  BY <1>2 DEF Session, SessionStatus, Unused
<1>4. session' = [session EXCEPT ![s] = new]
  OBVIOUS
<1> HIDE DEF new
<1>5. \A x \in Sessions : session'[x] = IF x = s THEN new ELSE session[x]
  BY <1>4 DEF Inv, TypeOK
<1>6. session' \in [Sessions -> Session \cup {Unused}]
  BY <1>2, <1>4 DEF Inv, TypeOK
<1>7. \A x \in Sessions : SessionKept(x)
  BY <1>2, <1>3, <1>5 DEF SessionKept, Participants
<1> QED
  BY <1>6, <1>7

LEMMA ApplyAcceptKeeps ==
  ASSUME Inv, NEW c \in Calls, ApplyAccept(c)
  PROVE  Inv'
<1>1. /\ StoreRound(c) /\ call[c].action = "ACCEPT" /\ call[c].pc # "idle"
      /\ session' = [session EXCEPT ![call[c].sess].status = "COMMITTING"]
      /\ call' = [call EXCEPT ![c].pc = "verify"]
  BY DEF ApplyAccept, StoreRound
<1>2. /\ session' \in [Sessions -> Session \cup {Unused}]
      /\ \A x \in Sessions : SessionKept(x)
  BY <1>1, CallTyped, StatusSet DEF SessionStatus, HandlerOK
<1>3. "verify" \in CallPc
  BY DEF CallPc
<1> QED
  BY <1>1, <1>2, <1>3, MovedTo, ApplySteps, ZenonT(40) DEF ApplyAccept

LEMMA ApplyWalkAwayKeeps ==
  ASSUME Inv, NEW c \in Calls, ApplyWalkAway(c)
  PROVE  Inv'
<1>1. /\ StoreRound(c) /\ call[c].pc # "idle"
      /\ session' = [session EXCEPT ![call[c].sess].status = "WALKED_AWAY"]
      /\ call' = [call EXCEPT ![c].pc = "walk"]
  BY DEF ApplyWalkAway, StoreRound
<1>2. /\ session' \in [Sessions -> Session \cup {Unused}]
      /\ \A x \in Sessions : SessionKept(x)
  BY <1>1, CallTyped, StatusSet DEF SessionStatus, HandlerOK
<1>3. "walk" \in CallPc
  BY DEF CallPc
<1> QED
  BY <1>1, <1>2, <1>3, MovedTo, ApplySteps, ZenonT(40) DEF ApplyWalkAway

LEMMA ApplyCounterOfferKeeps ==
  ASSUME Inv, NEW c \in Calls, ApplyCounterOffer(c)
  PROVE  Inv'
<1> DEFINE s == call[c].sess
           exhausted == session[s].round + 1 > MAX_ROUNDS
           status == IF exhausted THEN "MAX_ROUNDS_REACHED"
                                  ELSE session[s].status
           new == [session[s] EXCEPT !.activeAgent = session[s].opponentAgent,
                                     !.opponentAgent = session[s].activeAgent,
                                     !.round = session[s].round + 1,
                                     !.status = status]
<1>1. StoreRound(c) /\ call[c].pc # "idle"
  BY DEF ApplyCounterOffer, StoreRound
<1>2. s \in Sessions /\ session[s] \in Session /\ session[s] # Unused
  BY <1>1, CallTyped DEF HandlerOK
<1>3. /\ new \in Session
      /\ new.negId = session[s].negId
      /\ new.activeAgent = session[s].opponentAgent
      /\ new.opponentAgent = session[s].activeAgent
  <2>1. status \in SessionStatus
    BY <1>2 DEF Session, SessionStatus
  <2>2. /\ session[s].activeAgent \in Agents
        /\ session[s].opponentAgent \in Agents
        /\ session[s].round + 1 \in Nat
    BY <1>2 DEF Session
  <2> HIDE DEF status
  <2> QED
    BY <1>2, <2>1, <2>2 DEF Session
<1>4. new # Unused
  BY <1>3 DEF Session, SessionStatus, Unused
<1>5. session' = [session EXCEPT ![s] = new]
  BY <1>2 DEF ApplyCounterOffer
<1> HIDE DEF new
<1>6. \A x \in Sessions : session'[x] = IF x = s THEN new ELSE session[x]
  BY <1>5 DEF Inv, TypeOK
<1>7. session' \in [Sessions -> Session \cup {Unused}]
  BY <1>3, <1>5 DEF Inv, TypeOK
<1>8. \A x \in Sessions : SessionKept(x)
  BY <1>3, <1>4, <1>6 DEF SessionKept, Participants
<1>9. CASE exhausted
  <2>1. call' = [call EXCEPT ![c].pc = "maxed"] /\ "maxed" \in CallPc
    BY <1>9 DEF ApplyCounterOffer, CallPc
  <2> QED
    BY <1>1, <1>7, <1>8, <2>1, MovedTo, ApplySteps, ZenonT(40) DEF ApplyCounterOffer
<1>10. CASE ~ exhausted
  <2>1. call' = [call EXCEPT ![c] = Idle]
    BY <1>10 DEF ApplyCounterOffer
  <2> QED
    BY <1>1, <1>7, <1>8, <2>1, MovedToIdle, ApplySteps DEF ApplyCounterOffer
<1> QED
  BY <1>9, <1>10
-----------------------------------------------------------------------------
(***************************************************************************)
(* handleCommit                                                            *)
(***************************************************************************)
LEMMA RowStatusTyped ==
  ASSUME Inv, NEW c \in Calls, NEW status \in RowStatus,
         SetRowStatus(c, status)
  PROVE  negStatus' \in [NegIds -> RowStatus]
BY DEF SetRowStatus, Inv, TypeOK

LEMMA MarkSafetyVerifiedKeeps ==
  ASSUME Inv, NEW c \in Calls, MarkSafetyVerified(c)
  PROVE  Inv'
<1> DEFINE k == call[c]
<1>1. /\ k.pc = "verify" /\ k.pc # "idle"
      /\ call' = [call EXCEPT ![c].pc = "gate"] /\ "gate" \in CallPc
      /\ SetRowStatus(c, "SAFETY_VERIFIED") /\ "SAFETY_VERIFIED" \in RowStatus
  BY DEF MarkSafetyVerified, CallPc, RowStatus
<1>2. /\ session[k.sess] # Unused
      /\ (k.terms = None) <=> (k.action = "WALK_AWAY")
      /\ k.action = "ACCEPT" /\ Checked(k) /\ AcceptStored(k)
  BY <1>1, CallTyped DEF HandlerOK
<1>3. negStatus' \in [NegIds -> RowStatus]
  BY <1>1, RowStatusTyped
<1>4. HandlerOK(call[c])'
  BY <1>1, <1>2, MovedTo
     DEF HandlerOK, Checked, AcceptStored, MarkSafetyVerified, historyVars
<1> QED
  BY <1>1, <1>3, <1>4, MovedTo, HandlerSteps
     DEF MarkSafetyVerified, historyVars, ownerVars, Inv, TypeOK

LEMMA GatePassesKeeps ==
  ASSUME Inv, NEW c \in Calls, GatePasses(c)
  PROVE  Inv'
<1> DEFINE k == call[c]
           s == k.sess
           verdict == [negotiationId |-> session[s].negId,
                       kwh |-> Kwh[k.terms]]
           new == IF Direction(s)
                  THEN [k EXCEPT !.pc = "commit",
                                 !.roundNumber = session[s].round,
                                 !.active = session[s].activeAgent]
                  ELSE [k EXCEPT !.pc = "fail"]
<1>1. k.pc = "gate" /\ k.pc # "idle" /\ approved' = approved \cup {verdict}
  BY DEF GatePasses
<1>2. /\ session[s] # Unused /\ session[s].negId \in NegIds
      /\ (k.terms = None) <=> (k.action = "WALK_AWAY")
      /\ k.action = "ACCEPT" /\ Checked(k) /\ AcceptStored(k)
      /\ k.terms \in Terms
  BY <1>1, CallTyped DEF HandlerOK, Call
<1>3. verdict \in Verdict
  BY <1>2, ConstantsAssumption DEF Verdict
<1>4. call' = [call EXCEPT ![c] = new]
  BY DEF GatePasses
<1>5. /\ new \in Call /\ new.sess = s /\ new.agent = k.agent
      /\ new.action = k.action /\ new.terms = k.terms
      /\ \/ new.pc = "fail"
         \/ new.pc = "commit" /\ new.active \in Agents /\ Direction(s)
  BY <1>1, CallTyped DEF Call, CallPc
<1> HIDE DEF new
<1>6. /\ call' \in [Calls -> Call \cup {Idle}]
      /\ call'[c] = new
      /\ \A d \in Calls : d # c => call'[d] = call[d]
  BY <1>4, <1>5 DEF Inv, TypeOK
<1>7. UNCHANGED <<session, validated, rounds>>
  BY DEF GatePasses, dbVars
<1>8. new.pc = "commit" => Direction(call[c].sess)'
  BY <1>5, <1>6, <1>7 DEF Direction, Declaring
<1>9. HandlerOK(call[c])'
  BY <1>1, <1>2, <1>5, <1>6, <1>7, <1>8
     DEF HandlerOK, Checked, AcceptStored, GatePassed
<1> QED
  BY <1>1, <1>3, <1>6, <1>9, HandlerSteps
     DEF GatePasses, dbVars, ownerVars, Inv, TypeOK

(***************************************************************************)
(* A handler of an accepted deal turns to the update that closes it.       *)
(***************************************************************************)
LEMMA TurnsToClose ==
  ASSUME Inv, NEW c \in Calls, call[c].pc \in {"verify", "gate", "commit"},
         NEW pc \in {"stabilityFailed", "gridFailed", "fail"},
         call' = [call EXCEPT ![c].pc = pc],
         UNCHANGED <<session, activeNegotiations, start, dbVars, ownerVars,
                     historyVars>>
  PROVE  Inv'
<1> DEFINE k == call[c]
<1>1. k.pc # "idle" /\ pc \in CallPc
  BY DEF CallPc
<1>2. /\ session[k.sess] # Unused
      /\ (k.terms = None) <=> (k.action = "WALK_AWAY")
      /\ k.action = "ACCEPT" /\ Checked(k)
  BY <1>1, CallTyped DEF HandlerOK
<1>3. /\ call' \in [Calls -> Call \cup {Idle}]
      /\ \A d \in Calls : d # c => call'[d] = call[d]
      /\ call'[c].pc = pc /\ call'[c].sess = k.sess
      /\ call'[c].agent = k.agent /\ call'[c].action = k.action
      /\ call'[c].terms = k.terms
  BY <1>1, MovedTo
<1>4. UNCHANGED <<session, validated>>
  BY DEF historyVars
<1>5. HandlerOK(call[c])'
  BY <1>2, <1>3, <1>4 DEF HandlerOK, Checked
<1> QED
  BY <1>3, <1>5, HandlerSteps DEF dbVars, historyVars, Inv, TypeOK

LEMMA ToCloseKeeps ==
  ASSUME Inv, NEW c \in Calls,
         GateRejects(c) \/ AbortSettlement(c) \/ FailCommit(c)
  PROVE  Inv'
BY TurnsToClose DEF GateRejects, AbortSettlement, FailCommit

LEMMA CloseTyped ==
  ASSUME Inv, NEW c \in Calls, Close(c)
  PROVE  /\ call' \in [Calls -> Call \cup {Idle}]
         /\ \A d \in Calls : d # c => call'[d] = call[d]
         /\ HandlerOK(call[c])'
         /\ activeNegotiations' \in [NegIds -> Sessions \cup {None}]
         /\ \A n \in NegIds :
              activeNegotiations'[n] \in {activeNegotiations[n], None}
<1>1. call' = [call EXCEPT ![c] = Idle]
  BY DEF Close
<1> QED
  BY <1>1, MovedToIdle DEF Close, Inv, TypeOK

LEMMA RecordOutcomeKeeps ==
  ASSUME Inv, NEW c \in Calls, RecordOutcome(c)
  PROVE  Inv'
<1>1. Outcome[call[c].pc] \in RowStatus
  BY DEF RecordOutcome, Outcome, RowStatus
<1>2. negStatus' \in [NegIds -> RowStatus]
  BY <1>1, RowStatusTyped DEF RecordOutcome
<1> QED
  BY <1>2, CloseTyped, HandlerSteps
     DEF RecordOutcome, ownerVars, historyVars, Inv, TypeOK

LEMMA IgnoreFailedUpdateKeeps ==
  ASSUME Inv, NEW c \in Calls, IgnoreFailedUpdate(c)
  PROVE  Inv'
BY CloseTyped, HandlerSteps
   DEF IgnoreFailedUpdate, dbVars, ownerVars, historyVars, Inv, TypeOK

LEMMA FailClosedKeeps ==
  ASSUME Inv, NEW c \in Calls, FailClosed(c)
  PROVE  Inv'
<1>1. rounds' \subseteq Round /\ rounds \subseteq rounds'
  BY RoundTyped DEF FailClosed, Inv, TypeOK
<1>2. call' = [call EXCEPT ![c] = Idle]
  BY DEF FailClosed
<1> QED
  BY <1>1, <1>2, MovedToIdle, HandlerSteps
     DEF FailClosed, historyVars, ownerVars, Inv, TypeOK

(***************************************************************************)
(* The row commitSettlement writes is one the handler's history backs.     *)
(***************************************************************************)
LEMMA SettlementRowBacked ==
  ASSUME Inv, NEW c \in Calls, call[c].pc = "commit"
  PROVE  /\ SettlementRow(c) \in Settlement
         /\ SettlementRow(c).sess = call[c].sess
         /\ SettlementRow(c).acceptedBy = call[c].agent
         /\ SettlementRow(c).terms = call[c].terms
         /\ [negotiationId |-> SettlementRow(c).negotiationId,
             kwh |-> Kwh[SettlementRow(c).terms]] \in approved
         /\ Checked(call[c]) /\ AcceptStored(call[c])
<1> DEFINE k == call[c]
           n == session[k.sess].negId
           seller == CHOOSE a \in Declaring(k.sess, "SELLER") : TRUE
           buyer == CHOOSE a \in Declaring(k.sess, "BUYER") : TRUE
<1>1. /\ k.terms \in Terms /\ n \in NegIds /\ k.roundNumber \in Nat
      /\ k.sess \in Sessions /\ k.agent \in Agents /\ k.active \in Agents
      /\ Direction(k.sess) /\ GatePassed(k) /\ Checked(k) /\ AcceptStored(k)
  BY CallTyped DEF HandlerOK, Call
<1>2. Declaring(k.sess, "SELLER") # {} /\ Declaring(k.sess, "BUYER") # {}
  BY <1>1 DEF Direction
<1>3. seller \in Declaring(k.sess, "SELLER") /\ buyer \in Declaring(k.sess, "BUYER")
  BY <1>2
<1>4. seller \in Agents /\ buyer \in Agents
  BY <1>3, CallTyped DEF Declaring
<1>5. MicrogridOf[seller] \in Microgrids /\ MicrogridOf[buyer] \in Microgrids
  BY <1>4, ConstantsAssumption
<1> HIDE DEF seller, buyer
<1>6. SettlementRow(c) =
        [key |-> <<n, k.roundNumber>>, negotiationId |-> n,
         seller |-> MicrogridOf[seller], buyer |-> MicrogridOf[buyer],
         terms |-> k.terms, reward |-> k.active, sess |-> k.sess,
         acceptedBy |-> k.agent]
  BY DEF SettlementRow, seller, buyer
<1>7. SettlementRow(c) \in Settlement
  BY <1>1, <1>5, <1>6 DEF Settlement
<1> QED
  BY <1>1, <1>6, <1>7 DEF GatePassed

LEMMA CommitTransactionKeeps ==
  ASSUME Inv, NEW c \in Calls, CommitTransaction(c)
  PROVE  /\ negStatus' \in [NegIds -> RowStatus]
         /\ settlements' \subseteq Settlement
         /\ \A x \in settlements' : x \in settlements \/ x = SettlementRow(c)
<1>1. call[c].pc = "commit" /\ "COMMITTED" \in RowStatus
  BY DEF CommitTransaction, RowStatus
<1>2. SettlementRow(c) \in Settlement
  BY <1>1, SettlementRowBacked
<1> QED
  BY <1>1, <1>2, RowStatusTyped DEF CommitTransaction, Inv, TypeOK

(***************************************************************************)
(* The two steps that commit, with their answer and without.               *)
(***************************************************************************)
LEMMA CommitKeeps ==
  ASSUME Inv, NEW c \in Calls, CommitSettlement(c) \/ LoseCommitAnswer(c)
  PROVE  Inv'
<1>1. CommitTransaction(c) /\ call[c].pc = "commit" /\ call[c].pc # "idle"
  BY DEF CommitSettlement, LoseCommitAnswer, CommitTransaction
<1>2. /\ call' \in [Calls -> Call \cup {Idle}]
      /\ \A d \in Calls : d # c => call'[d] = call[d]
      /\ HandlerOK(call[c])'
      /\ activeNegotiations' \in [NegIds -> Sessions \cup {None}]
      /\ \A n \in NegIds :
           activeNegotiations'[n] \in {activeNegotiations[n], None}
  <2>1. CASE CommitSettlement(c)
    BY <2>1, CloseTyped DEF CommitSettlement
  <2>2. CASE LoseCommitAnswer(c)
    <3>1. call' = [call EXCEPT ![c].pc = "fail"] /\ "fail" \in CallPc
      BY <2>2 DEF LoseCommitAnswer, CallPc
    <3>2. /\ session[call[c].sess] # Unused
          /\ (call[c].terms = None) <=> (call[c].action = "WALK_AWAY")
          /\ Checked(call[c])
      BY <1>1, CallTyped DEF HandlerOK
    <3>3. /\ call' \in [Calls -> Call \cup {Idle}]
          /\ \A d \in Calls : d # c => call'[d] = call[d]
          /\ call'[c].pc = "fail" /\ call'[c].sess = call[c].sess
          /\ call'[c].agent = call[c].agent
          /\ call'[c].action = call[c].action
          /\ call'[c].terms = call[c].terms
      BY <1>1, <3>1, MovedTo
    <3>4. UNCHANGED <<session, validated, activeNegotiations>>
      BY <2>2 DEF LoseCommitAnswer, historyVars
    <3>5. HandlerOK(call[c])'
      BY <3>2, <3>3, <3>4 DEF HandlerOK, Checked
    <3> QED
      BY <3>3, <3>4, <3>5 DEF Inv, TypeOK
  <2> QED
    BY <2>1, <2>2
<1>3. UNCHANGED <<session, start, rounds, ownerVars, historyVars>>
  BY DEF CommitSettlement, LoseCommitAnswer
<1>4. TypeOK'
  BY <1>1, <1>2, <1>3, CommitTransactionKeeps
     DEF Inv, TypeOK, ownerVars, historyVars
<1>5. Grows
  BY <1>3, SessionsStand DEF Grows, historyVars
<1>6. SettlementsOK'
  <2>1. /\ SettlementsGated' /\ SettlementsAccepted'
    BY <1>1, <1>3, SettlementRowBacked, CommitTransactionKeeps
       DEF Inv, SettlementsOK, SettlementsGated, SettlementsAccepted, Checked,
           AcceptStored, historyVars
  <2> QED
    BY <2>1 DEF SettlementsOK
<1> QED
  BY <1>2, <1>4, <1>5, <1>6, OneHandlerMoves
-----------------------------------------------------------------------------
LEMMA CrashKeeps ==
  ASSUME Inv, Crash
  PROVE  Inv'
<1>1. ASSUME NEW s \in Sessions
      PROVE  /\ session'[s] \in Session \cup {Unused}
             /\ SessionKept(s)
  <2>1. CASE session[s] = Unused
    BY <2>1 DEF Crash, SessionKept
  <2>2. CASE session[s] # Unused
    <3>1. session[s] \in Session
      BY <2>2 DEF Inv, TypeOK
    <3> DEFINE new == [session[s] EXCEPT !.status = "LOST"]
    <3>2. session'[s] = new
      BY <2>2 DEF Crash
    <3>3. /\ new \in Session /\ new.negId = session[s].negId
          /\ new.activeAgent = session[s].activeAgent
          /\ new.opponentAgent = session[s].opponentAgent
      BY <3>1 DEF Session, SessionStatus
    <3>4. new # Unused
      BY <3>3 DEF Session, SessionStatus, Unused
    <3> HIDE DEF new
    <3> QED
      BY <3>2, <3>3, <3>4 DEF SessionKept, Participants
  <2> QED
    BY <2>1, <2>2
<1>2. session' \in [Sessions -> Session \cup {Unused}]
  BY <1>1 DEF Crash
<1>3. TypeOK'
  BY <1>2 DEF Crash, Inv, TypeOK, dbVars, ownerVars, historyVars
<1>4. Grows
  BY <1>1 DEF Grows, Crash, dbVars, historyVars
<1>5. MapOK' /\ HandlersOK'
  BY DEF Crash, MapOK, HandlersOK, HandlerOK
<1>6. SettlementsOK'
  BY <1>4, SettlementsKept DEF Crash, dbVars, Inv
<1> QED
  BY <1>3, <1>5, <1>6 DEF Inv

LEMMA OwnersKeep ==
  ASSUME Inv, NEW m \in Microgrids,
         SetPreferences(m) \/ Suspend(m) \/ LeaveSuspension(m)
  PROVE  Inv'
<1>1. TypeOK'
  BY DEF SetPreferences, Suspend, LeaveSuspension, Inv, TypeOK, brokerVars,
         dbVars, historyVars
<1> QED
  BY <1>1, NoHandlerMoves
     DEF SetPreferences, Suspend, LeaveSuspension, brokerVars, dbVars

LEMMA InvStep == Inv /\ [Next]_vars => Inv'
<1> SUFFICES ASSUME Inv, [Next]_vars PROVE Inv'
  OBVIOUS
<1>1. ASSUME NEW h \in Starts, NEW n \in NegIds, NEW a \in Agents,
             NEW b \in Agents, BeginStart(h, n, a, b)
      PROVE  Inv'
  BY <1>1, BeginStartKeeps
<1>2. ASSUME NEW h \in Starts, StartStep(h) \/ FailStart(h)
      PROVE  Inv'
  BY <1>2, CheckKeeps, OpenNegotiationKeeps, FailStartKeeps DEF StartStep
<1>3. ASSUME NEW c \in Calls, NEW n \in NegIds, NEW a \in Agents,
             NEW action \in Actions, NEW t \in Terms \cup {None},
             BeginAction(c, n, a, action, t)
      PROVE  Inv'
  BY <1>3, BeginActionKeeps
<1>4. ASSUME NEW c \in Calls, ActionStep(c) PROVE Inv'
  BY <1>4, ValidateActiveKeeps, ValidateOpponentKeeps, ApplyAcceptKeeps,
     ApplyWalkAwayKeeps, ApplyCounterOfferKeeps, MarkSafetyVerifiedKeeps,
     GatePassesKeeps, ToCloseKeeps, CommitKeeps, RecordOutcomeKeeps
     DEF ActionStep
<1>5. ASSUME NEW c \in Calls, FaultStep(c) PROVE Inv'
  BY <1>5, FailClosedKeeps, ToCloseKeeps, CommitKeeps, IgnoreFailedUpdateKeeps
     DEF FaultStep
<1>6. ASSUME NEW m \in Microgrids,
             SetPreferences(m) \/ Suspend(m) \/ LeaveSuspension(m)
      PROVE  Inv'
  BY <1>6, OwnersKeep
<1>7. CASE UNCHANGED vars
  <2>1. TypeOK'
    BY <1>7 DEF vars, brokerVars, dbVars, ownerVars, historyVars, Inv, TypeOK
  <2> QED
    BY <1>7, <2>1, NoHandlerMoves DEF vars, brokerVars, dbVars
<1>8. Suspendable \subseteq Microgrids
  BY ConstantsAssumption
<1> QED
  BY <1>1, <1>2, <1>3, <1>4, <1>5, <1>6, <1>7, <1>8, CrashKeeps DEF Next

LEMMA InvAlways == Spec => []Inv
BY InvInit, InvStep, PTL DEF Spec
-----------------------------------------------------------------------------
(***************************************************************************)
(* The state of the broker process and of its tables keeps its types.      *)
(***************************************************************************)
THEOREM NegotiationTypeCorrect == Spec => []TypeOK
<1>1. Inv => TypeOK
  BY DEF Inv
<1> QED
  BY <1>1, InvAlways, PTL

(***************************************************************************)
(* Whatever interleaves or fails, nothing is settled that the joint gate   *)
(* has not passed for this negotiation (handleCommit).                     *)
(***************************************************************************)
THEOREM OnlyGatedSettlements == Spec => []SettlementsGated
<1>1. Inv => SettlementsGated
  BY DEF Inv, SettlementsOK
<1> QED
  BY <1>1, InvAlways, PTL

(***************************************************************************)
(* Whatever interleaves or fails, behind every settlement stands an agent  *)
(* whose owner's limits admitted its terms, and its stored ACCEPT.         *)
(***************************************************************************)
THEOREM OnlyAcceptedSettlements == Spec => []SettlementsAccepted
<1>1. Inv => SettlementsAccepted
  BY DEF Inv, SettlementsOK
<1> QED
  BY <1>1, InvAlways, PTL

(***************************************************************************)
(* The settlements change only in a transaction of commitSettlement.       *)
(***************************************************************************)
LEMMA StartsSettleNothing ==
  ASSUME NEW h \in Starts, StartStep(h) \/ FailStart(h)
  PROVE  UNCHANGED settlements
BY DEF StartStep, CheckTradingEnabled, CheckSuspension, OpenNegotiation,
       FailStart, dbVars

LEMMA ValidationSettlesNothing ==
  ASSUME NEW c \in Calls,
         \/ ValidateActive(c) \/ ValidateOpponent(c)
         \/ ApplyAccept(c) \/ ApplyWalkAway(c) \/ ApplyCounterOffer(c)
  PROVE  UNCHANGED settlements
<1>1. CASE ValidateActive(c) \/ ValidateOpponent(c)
  BY <1>1 DEF ValidateActive, ValidateOpponent, dbVars
<1>2. CASE ApplyAccept(c) \/ ApplyWalkAway(c)
  BY <1>2 DEF ApplyAccept, ApplyWalkAway
<1>3. CASE ApplyCounterOffer(c)
  BY <1>3 DEF ApplyCounterOffer
<1> QED
  BY <1>1, <1>2, <1>3

LEMMA OnlyCommitActionSettles ==
  ASSUME NEW c \in Calls, ActionStep(c) \/ FaultStep(c),
         settlements' # settlements
  PROVE  CommitTransaction(c)
<1>1. CASE \/ MarkSafetyVerified(c) \/ GatePasses(c) \/ GateRejects(c)
           \/ AbortSettlement(c) \/ RecordOutcome(c)
  BY <1>1 DEF MarkSafetyVerified, GatePasses, GateRejects, AbortSettlement,
              RecordOutcome, dbVars
<1>2. CASE FailClosed(c) \/ FailCommit(c) \/ IgnoreFailedUpdate(c)
  BY <1>2 DEF FailClosed, FailCommit, IgnoreFailedUpdate, dbVars
<1>3. CASE CommitSettlement(c) \/ LoseCommitAnswer(c)
  BY <1>3 DEF CommitSettlement, LoseCommitAnswer
<1> QED
  BY <1>1, <1>2, <1>3, ValidationSettlesNothing DEF ActionStep, FaultStep

LEMMA OnlyCommitSettles ==
  ASSUME [Next]_vars, settlements' # settlements
  PROVE  \E c \in Calls : CommitTransaction(c)
<1>1. ASSUME NEW h \in Starts, NEW n \in NegIds, NEW a \in Agents,
             NEW b \in Agents, BeginStart(h, n, a, b)
      PROVE  FALSE
  BY <1>1 DEF BeginStart, dbVars
<1>2. ASSUME NEW h \in Starts, StartStep(h) \/ FailStart(h)
      PROVE  FALSE
  BY <1>2, StartsSettleNothing
<1>3. ASSUME NEW c \in Calls, NEW n \in NegIds, NEW a \in Agents,
             NEW action \in Actions, NEW t \in Terms \cup {None},
             BeginAction(c, n, a, action, t)
      PROVE  FALSE
  BY <1>3 DEF BeginAction, dbVars
<1>4. ASSUME NEW c \in Calls, ActionStep(c) \/ FaultStep(c)
      PROVE  CommitTransaction(c)
  BY <1>4, OnlyCommitActionSettles
<1>5. ~ Crash
  BY DEF Crash, dbVars
<1>6. ASSUME NEW m \in Microgrids,
             SetPreferences(m) \/ Suspend(m) \/ LeaveSuspension(m)
      PROVE  FALSE
  BY <1>6 DEF SetPreferences, Suspend, LeaveSuspension, dbVars
<1>7. vars' # vars
  BY DEF vars, dbVars
<1>8. Suspendable \subseteq Microgrids
  BY ConstantsAssumption
<1> QED
  BY <1>1, <1>2, <1>3, <1>4, <1>5, <1>6, <1>7, <1>8 DEF Next

(***************************************************************************)
(* The settlements table implements the append-only ledger with unique     *)
(* keys (commitSettlement).  Every step that does not write a settlement   *)
(* maps to a stutter; the transaction that writes one maps to Record.      *)
(***************************************************************************)
THEOREM ImplementsLedger == Spec => LedgerSpec
<1>1. Init => Ledger!LedgerInit
  BY DEF Init, Ledger!LedgerInit
<1>2. Inv /\ [Next]_vars => [Ledger!LedgerNext]_settlements
  <2> SUFFICES ASSUME Inv, [Next]_vars, settlements' # settlements
               PROVE  Ledger!LedgerNext
    OBVIOUS
  <2>1. \E c \in Calls : CommitTransaction(c)
    BY OnlyCommitSettles
  <2>2. PICK c \in Calls : CommitTransaction(c)
    BY <2>1
  <2> DEFINE row == SettlementRow(c)
  <2>3. /\ \A x \in settlements : x.key # row.key
        /\ settlements' = settlements \cup {row}
        /\ call[c].pc = "commit"
    BY <2>2 DEF CommitTransaction
  <2>4. row \in Settlement
    BY <2>3, SettlementRowBacked
  <2> HIDE DEF row
  <2>5. row \in settlements' \ settlements
    BY <2>3
  <2>6. Ledger!Record(row)
    BY <2>3, <2>4 DEF Ledger!Record
  <2> QED
    BY <2>5, <2>6 DEF Ledger!LedgerNext
<1> QED
  BY <1>1, <1>2, InvAlways, PTL DEF Spec, LedgerSpec, Ledger!LedgerSpec

-----------------------------------------------------------------------------
(***************************************************************************)
(* Agents that wait for their turn.  The inductive invariant, on top of    *)
(* Inv.                                                                    *)
(*                                                                         *)
(* A session has one handler at a time, so what a handler has read of its  *)
(* session before an await still holds after it; that is what turns the    *)
(* checks of a handler into facts about the session's state.               *)
(***************************************************************************)
Deciding == {"validate", "validatePeer", "persist"}
Committing == {"verify", "gate", "stabilityFailed", "gridFailed", "commit",
               "fail"}

OneHandler ==
  \A c, d \in Calls :
    call[c] # Idle /\ call[d] # Idle /\ call[c].sess = call[d].sess => c = d

(***************************************************************************)
(* The map leads from an id to a session of that id, and a handler is one  *)
(* of a session in the map.                                                *)
(***************************************************************************)
MapMatches ==
  \A n \in NegIds :
    activeNegotiations[n] # None => session[activeNegotiations[n]].negId = n

Reachable(s) == activeNegotiations[session[s].negId] = s

BothChecked(s, t) ==
  \A a \in Participants(s) : [sess |-> s, agent |-> a, terms |-> t] \in validated

AcceptedNow(k) ==
  \E r \in rounds :
    /\ r.sess = k.sess /\ r.by = k.agent /\ r.action = "ACCEPT"
    /\ r.negotiationId = session[k.sess].negId
    /\ r.roundNumber = session[k.sess].round

(***************************************************************************)
(* What a handler knows, by pc.  Up to the round row it is its agent's     *)
(* turn; an ACCEPT that is past both checks has both owners' consent; past *)
(* the row the session's status is the handler's doing, and until the      *)
(* commit nothing is settled.                                              *)
(***************************************************************************)
HandlerTurn(k) ==
  k # Idle =>
    /\ Reachable(k.sess)
    /\ k.pc \in Deciding =>
         session[k.sess].status = "NEGOTIATING" /\ session[k.sess].activeAgent = k.agent
    /\ k.pc = "validatePeer" => k.peer = session[k.sess].opponentAgent
    /\ k.pc = "persist" =>
         /\ k.roundNumber = session[k.sess].round
         /\ k.active = k.agent
         /\ k.action = "ACCEPT" => BothChecked(k.sess, k.terms)
    /\ k.pc \in Committing =>
         /\ session[k.sess].status = "COMMITTING"
         /\ BothChecked(k.sess, k.terms)
         /\ AcceptedNow(k)
    /\ k.pc # "fail" => \A x \in settlements : x.sess # k.sess
    /\ k.pc = "commit" => k.roundNumber = session[k.sess].round
    /\ k.pc = "walk" => session[k.sess].status = "WALKED_AWAY"
    /\ k.pc = "maxed" => session[k.sess].status = "MAX_ROUNDS_REACHED"

(***************************************************************************)
(* What holds of a session whether or not a handler is in flight.  Its     *)
(* rows were written in turns: the last ones by the active agent, those    *)
(* before by its opponent.                                                 *)
(***************************************************************************)
SeatsOK(s) ==
  session[s] # Unused =>
    /\ session[s].activeAgent # session[s].opponentAgent
    /\ session[s].round >= 1
    /\ session[s].status = "NEGOTIATING" =>
         Reachable(s) /\ session[s].round <= MAX_ROUNDS

RowOK(r) ==
  /\ session[r.sess] # Unused
  /\ r.active = r.by
  /\ r.roundNumber \in 1 .. MAX_ROUNDS
  /\ r.roundNumber <= session[r.sess].round
  /\ r.roundNumber = session[r.sess].round => r.by = session[r.sess].activeAgent
  /\ r.roundNumber + 1 = session[r.sess].round => r.by = session[r.sess].opponentAgent
  /\ \A q \in rounds :
       q.sess = r.sess /\ q.roundNumber = r.roundNumber + 1 => q.by # r.by

SettlementOK(x) ==
  /\ session[x.sess].status \in {"COMMITTING", "LOST"}
  /\ \A y \in settlements : x.sess = y.sess => x = y
  /\ \E r \in rounds : /\ r.sess = x.sess
                       /\ r.by = x.acceptedBy
                       /\ r.action = "ACCEPT"
                       /\ x.key = <<r.negotiationId, r.roundNumber>>
  /\ BothChecked(x.sess, x.terms)

StartsOK == \A h \in Starts : start[h] # Idle => start[h].first # start[h].second

SessionsOK ==
  /\ \A s \in Sessions : SeatsOK(s)
  /\ \A r \in rounds : RowOK(r)
  /\ \A x \in settlements : SettlementOK(x)

HandlersTurn == \A c \in Calls : HandlerTurn(call[c])

TurnInv ==
  Inv /\ OneHandler /\ MapMatches /\ StartsOK /\ HandlersTurn /\ SessionsOK

LEMMA TurnInvInit == Init => TurnInv
<1> SUFFICES ASSUME Init PROVE TurnInv
  OBVIOUS
<1>1. Inv
  BY InvInit
<1>2. OneHandler /\ MapMatches /\ StartsOK /\ HandlersTurn
  BY DEF Init, OneHandler, MapMatches, StartsOK, HandlersTurn, HandlerTurn
<1>3. SessionsOK
  BY DEF Init, SessionsOK, SeatsOK
<1> QED
  BY <1>1, <1>2, <1>3 DEF TurnInv
-----------------------------------------------------------------------------
(***************************************************************************)
(* What a step of another session leaves alone.                            *)
(***************************************************************************)
LEMMA ConsentKept ==
  ASSUME Grows, NEW s \in Sessions, session[s] # Unused, NEW t,
         BothChecked(s, t)
  PROVE  BothChecked(s, t)'
<1>1. Participants(s)' = Participants(s)
  BY DEF Grows, SessionKept
<1> QED
  BY <1>1 DEF Grows, BothChecked

LEMMA HandlerTurnKept ==
  ASSUME Grows, NEW k \in Call \cup {Idle}, HandlerOK(k), HandlerTurn(k),
         k # Idle =>
           /\ session'[k.sess] = session[k.sess]
           /\ Reachable(k.sess)'
           /\ \A x \in settlements' : x \in settlements \/ x.sess # k.sess
  PROVE  HandlerTurn(k)'
<1> SUFFICES ASSUME k # Idle PROVE HandlerTurn(k)'
  BY DEF HandlerTurn
<1>1. k.sess \in Sessions /\ session[k.sess] # Unused
  BY DEF Call, HandlerOK
<1>2. BothChecked(k.sess, k.terms) => BothChecked(k.sess, k.terms)'
  BY <1>1, ConsentKept
<1>3. AcceptedNow(k) => AcceptedNow(k)'
  BY DEF Grows, AcceptedNow
<1> QED
  BY <1>2, <1>3 DEF HandlerTurn

LEMMA SeatsKept ==
  ASSUME NEW s \in Sessions, SeatsOK(s), session'[s] = session[s],
         session[s] # Unused /\ Reachable(s) => Reachable(s)'
  PROVE  SeatsOK(s)'
BY DEF SeatsOK

LEMMA RowKept ==
  ASSUME NEW r \in rounds, RowOK(r), session'[r.sess] = session[r.sess],
         \A q \in rounds' : q \in rounds \/ q.sess # r.sess
  PROVE  RowOK(r)'
BY DEF RowOK

LEMMA SettlementKept ==
  ASSUME Grows, NEW x \in settlements, x.sess \in Sessions, SettlementOK(x),
         session'[x.sess] = session[x.sess],
         \A y \in settlements' : y \in settlements \/ y.sess # x.sess
  PROVE  SettlementOK(x)'
<1>1. session[x.sess] # Unused
  BY DEF SettlementOK, Unused
<1>2. BothChecked(x.sess, x.terms)'
  BY <1>1, ConsentKept DEF SettlementOK
<1>3. \E r \in rounds' : /\ r.sess = x.sess
                        /\ r.by = x.acceptedBy
                        /\ r.action = "ACCEPT"
                        /\ x.key = <<r.negotiationId, r.roundNumber>>
  BY DEF Grows, SettlementOK
<1>4. \A y \in settlements' : x.sess = y.sess => x = y
  BY DEF SettlementOK
<1> QED
  BY <1>2, <1>3, <1>4 DEF SettlementOK

(***************************************************************************)
(* The shape of every step that touches sessions, rows or map: those of    *)
(* session s only, and a handler that is not one of s does not move.       *)
(***************************************************************************)
LEMMA OthersStand ==
  ASSUME TurnInv, Inv', Grows, OneHandler', MapMatches', StartsOK',
         NEW s \in Sessions,
         \A d \in Calls :
           \/ HandlerTurn(call[d])'
           \/ call'[d] = call[d] /\ (call[d] # Idle => call[d].sess # s),
         \A x \in Sessions : x # s => session'[x] = session[x],
         \A n \in NegIds :
           activeNegotiations'[n] # activeNegotiations[n]
             => activeNegotiations[n] \in {None, s},
         \A r \in rounds' : r \in rounds \/ r.sess = s,
         \A x \in settlements' : x \in settlements \/ x.sess = s,
         SeatsOK(s)',
         \A r \in rounds' : r.sess = s => RowOK(r)',
         \A x \in settlements' : x.sess = s => SettlementOK(x)'
  PROVE  TurnInv'
<1>1. \A x \in Sessions : x # s /\ session[x] # Unused /\ Reachable(x) => Reachable(x)'
  <2> SUFFICES ASSUME NEW x \in Sessions, x # s, session[x] # Unused, Reachable(x)
               PROVE  Reachable(x)'
    OBVIOUS
  <2>1. session[x].negId \in NegIds /\ session'[x] = session[x]
    BY DEF TurnInv, Inv, TypeOK, Session
  <2>2. activeNegotiations[session[x].negId] \notin {None, s}
    BY ConstantsAssumption DEF Reachable
  <2> QED
    BY <2>1, <2>2 DEF Reachable
<1>2. HandlersTurn'
  <2> SUFFICES ASSUME NEW d \in Calls PROVE HandlerTurn(call[d])'
    BY DEF HandlersTurn
  <2>1. CASE HandlerTurn(call[d])'
    BY <2>1
  <2>2. CASE call'[d] = call[d] /\ (call[d] # Idle => call[d].sess # s)
    <3>1. \A k \in Call \cup {Idle} :
            HandlerOK(k) /\ HandlerTurn(k) /\ (k # Idle => k.sess # s) => HandlerTurn(k)'
      <4> SUFFICES ASSUME NEW k \in Call \cup {Idle}, HandlerOK(k), HandlerTurn(k),
                          k # Idle => k.sess # s
                   PROVE  HandlerTurn(k)'
        OBVIOUS
      <4>1. k # Idle => /\ k.sess \in Sessions /\ session[k.sess] # Unused
                        /\ Reachable(k.sess)
        BY DEF Call, HandlerOK, HandlerTurn
      <4> QED
        BY <1>1, <4>1, HandlerTurnKept
    <3>2. call[d] \in Call \cup {Idle} /\ HandlerOK(call[d]) /\ HandlerTurn(call[d])
      BY DEF TurnInv, Inv, TypeOK, HandlersOK, HandlersTurn
    <3>3. call'[d] = call[d] /\ (call[d] # Idle => call[d].sess # s)
      BY <2>2
    <3>4. \A k \in Call \cup {Idle} : k = call'[d] /\ HandlerTurn(k)' => HandlerTurn(call[d])'
      BY SMTT(90) DEF HandlerTurn, Reachable, BothChecked, Participants, AcceptedNow
    <3> QED
      BY <3>1, <3>2, <3>3, <3>4
  <2> QED
    BY <2>1, <2>2
<1>3. \A x \in Sessions : SeatsOK(x)'
  BY <1>1, SeatsKept DEF TurnInv, SessionsOK
<1>4. \A r \in rounds' : RowOK(r)'
  <2> SUFFICES ASSUME NEW r \in rounds', r.sess # s PROVE RowOK(r)'
    OBVIOUS
  <2>1. r \in rounds /\ r.sess \in Sessions /\ RowOK(r)
    BY DEF TurnInv, Inv, TypeOK, Round, SessionsOK
  <2> QED
    BY <2>1, RowKept
<1>5. \A x \in settlements' : SettlementOK(x)'
  <2> SUFFICES ASSUME NEW x \in settlements', x.sess # s PROVE SettlementOK(x)'
    OBVIOUS
  <2>1. x \in settlements /\ x.sess \in Sessions /\ SettlementOK(x)
    BY DEF TurnInv, Inv, TypeOK, Settlement, SessionsOK
  <2> QED
    BY <2>1, SettlementKept
<1> QED
  BY <1>2, <1>3, <1>4, <1>5 DEF TurnInv, SessionsOK

(***************************************************************************)
(* Every step of agent_action: handler c and its session s move, and no    *)
(* other handler is one of s.                                              *)
(***************************************************************************)
LEMMA OneSessionMoves ==
  ASSUME TurnInv, Inv', Grows, MapMatches', StartsOK',
         NEW c \in Calls, NEW s \in Sessions,
         \A d \in Calls : d # c => call'[d] = call[d],
         \A d \in Calls : d # c /\ call[d] # Idle => call[d].sess # s,
         call'[c] # Idle => call'[c].sess = s,
         \A x \in Sessions : x # s => session'[x] = session[x],
         \A n \in NegIds :
           activeNegotiations'[n] # activeNegotiations[n]
             => activeNegotiations[n] \in {None, s},
         \A r \in rounds' : r \in rounds \/ r.sess = s,
         \A x \in settlements' : x \in settlements \/ x.sess = s,
         HandlerTurn(call[c])', SeatsOK(s)',
         \A r \in rounds' : r.sess = s => RowOK(r)',
         \A x \in settlements' : x.sess = s => SettlementOK(x)'
  PROVE  TurnInv'
<1>1. OneHandler'
  BY DEF TurnInv, OneHandler
<1>2. \A d \in Calls :
        \/ HandlerTurn(call[d])'
        \/ call'[d] = call[d] /\ (call[d] # Idle => call[d].sess # s)
  OBVIOUS
<1> QED
  BY <1>1, <1>2, OthersStand
-----------------------------------------------------------------------------
(***************************************************************************)
(* Steps that leave sessions, rows and map as they are.                    *)
(***************************************************************************)
LEMMA NothingTurns ==
  ASSUME TurnInv, Inv', StartsOK',
         UNCHANGED <<session, activeNegotiations, call, rounds, settlements,
                     historyVars>>
  PROVE  TurnInv'
<1>1. OneHandler' /\ MapMatches'
  BY DEF TurnInv, OneHandler, MapMatches
<1>2. HandlersTurn'
  BY DEF TurnInv, HandlersTurn, HandlerTurn, Reachable, BothChecked, Participants,
         AcceptedNow, historyVars
<1>3. SessionsOK'
  BY DEF TurnInv, SessionsOK, SeatsOK, Reachable, RowOK, SettlementOK, BothChecked,
         Participants, historyVars
<1> QED
  BY <1>1, <1>2, <1>3 DEF TurnInv

LEMMA StartTurn ==
  ASSUME TurnInv, Inv', NEW h \in Starts,
         \/ \E n \in NegIds, a, b \in Agents : BeginStart(h, n, a, b)
         \/ \E p \in Agents : CheckTradingEnabled(h, p) \/ CheckSuspension(h, p)
         \/ FailStart(h)
  PROVE  TurnInv'
<1>1. UNCHANGED <<session, activeNegotiations, call, rounds, settlements, historyVars>>
  BY DEF BeginStart, CheckTradingEnabled, CheckSuspension, FailStart, dbVars
<1>2. PICK new :
        /\ start' = [start EXCEPT ![h] = new]
        /\ new # Idle => new.first # new.second
  <2>1. ASSUME NEW n \in NegIds, NEW a \in Agents, NEW b \in Agents,
               BeginStart(h, n, a, b)
        PROVE  \E new : /\ start' = [start EXCEPT ![h] = new]
                        /\ new # Idle => new.first # new.second
    <3> DEFINE begun == [pc |-> "preferences", negId |-> n, first |-> a,
                         second |-> b, todo |-> {a, b}]
    <3>1. start' = [start EXCEPT ![h] = begun] /\ begun.first # begun.second
      BY <2>1 DEF BeginStart
    <3> QED
      BY <3>1
  <2>2. ASSUME NEW p \in Agents, CheckTradingEnabled(h, p) \/ CheckSuspension(h, p)
        PROVE  \E new : /\ start' = [start EXCEPT ![h] = new]
                        /\ new # Idle => new.first # new.second
    <3>1. start[h] # Idle /\ start[h] \in Start
      BY <2>2 DEF CheckTradingEnabled, CheckSuspension, Idle, TurnInv, Inv, TypeOK
    <3>2. start[h].first # start[h].second
      BY <3>1 DEF TurnInv, StartsOK
    <3>3. \A next \in StartPc : /\ PassedCheck(h, p, next).first = start[h].first
                                /\ PassedCheck(h, p, next).second = start[h].second
      BY <3>1 DEF PassedCheck, Start
    <3> QED
      BY <2>2, <3>2, <3>3 DEF CheckTradingEnabled, CheckSuspension, StartPc
  <2> QED
    BY <2>1, <2>2 DEF FailStart
<1>3. StartsOK'
  BY <1>2 DEF TurnInv, Inv, TypeOK, StartsOK
<1> QED
  BY <1>1, <1>3, NothingTurns

(***************************************************************************)
(* A handler moves on, or ends, before the map or a table is touched.      *)
(***************************************************************************)
LEMMA HandlerMoves ==
  ASSUME TurnInv, Inv', NEW c \in Calls, NEW s \in Sessions,
         \A d \in Calls : d # c => call'[d] = call[d],
         \A d \in Calls : d # c /\ call[d] # Idle => call[d].sess # s,
         call'[c] # Idle => call'[c].sess = s,
         HandlerTurn(call[c])', Grows,
         UNCHANGED <<session, activeNegotiations, start, rounds, settlements>>
  PROVE  TurnInv'
<1>1. MapMatches' /\ StartsOK'
  BY DEF TurnInv, MapMatches, StartsOK
<1>2. SeatsOK(s)'
  BY DEF TurnInv, SessionsOK, SeatsOK, Reachable
<1>3. \A r \in rounds' : RowOK(r)'
  BY DEF TurnInv, SessionsOK, RowOK
<1>4. \A x \in settlements' : SettlementOK(x)'
  <2> SUFFICES ASSUME NEW x \in settlements PROVE SettlementOK(x)'
    OBVIOUS
  <2>1. x.sess \in Sessions /\ SettlementOK(x)
    BY DEF TurnInv, Inv, TypeOK, Settlement, SessionsOK
  <2> QED
    BY <2>1, SettlementKept
<1> QED
  BY <1>1, <1>2, <1>3, <1>4, OneSessionMoves

(***************************************************************************)
(* What is known of a handler in flight, and of its session.               *)
(***************************************************************************)
LEMMA HandlerKnown ==
  ASSUME TurnInv, NEW c \in Calls, call[c].pc # "idle"
  PROVE  /\ call[c] # Idle /\ call[c].sess \in Sessions
         /\ session[call[c].sess] \in Session /\ session[call[c].sess] # Unused
         /\ session[call[c].sess].negId \in NegIds
         /\ session[call[c].sess].round \in Nat
         /\ HandlerTurn(call[c]) /\ HandlerOK(call[c])
         /\ SeatsOK(call[c].sess)
         /\ Reachable(call[c].sess)
<1>1. Inv
  BY DEF TurnInv
<1> QED
  BY <1>1, CallTyped DEF HandlerOK, TurnInv, HandlersTurn, HandlerTurn, SessionsOK

LEMMA OnlyHandler ==
  ASSUME TurnInv, NEW c \in Calls, call[c].pc # "idle"
  PROVE  \A d \in Calls : d # c /\ call[d] # Idle => call[d].sess # call[c].sess
BY DEF TurnInv, OneHandler, Idle

(***************************************************************************)
(* The same, for a handler that was in flight.                             *)
(***************************************************************************)
LEMMA HandlerGoesOn ==
  ASSUME TurnInv, Inv', NEW c \in Calls, call[c].pc # "idle",
         NEW new \in Call \cup {Idle}, call' = [call EXCEPT ![c] = new],
         new # Idle => new.sess = call[c].sess,
         HandlerTurn(new)', Grows,
         UNCHANGED <<session, activeNegotiations, start, rounds, settlements>>
  PROVE  TurnInv'
<1>1. PICK s \in Sessions : s = call[c].sess
  BY HandlerKnown
<1>2. call'[c] = new /\ \A d \in Calls : d # c => call'[d] = call[d]
  BY DEF TurnInv, Inv, TypeOK
<1>3. HandlerTurn(call[c])'
  BY <1>2 DEF HandlerTurn, Reachable, BothChecked, Participants, AcceptedNow
<1> QED
  BY <1>1, <1>2, <1>3, OnlyHandler, HandlerMoves

LEMMA HandlerEnds ==
  ASSUME TurnInv, Inv', NEW c \in Calls, call[c].pc # "idle",
         call' = [call EXCEPT ![c] = Idle], Grows,
         UNCHANGED <<session, activeNegotiations, start, rounds, settlements>>
  PROVE  TurnInv'
<1>1. HandlerTurn(Idle)'
  BY DEF HandlerTurn
<1> QED
  BY <1>1, HandlerGoesOn
-----------------------------------------------------------------------------
(***************************************************************************)
(* agent_action, up to the round row                                       *)
(***************************************************************************)
LEMMA BeginActionTurn ==
  ASSUME TurnTaking, TurnInv, Inv', NEW c \in Calls, NEW n \in NegIds,
         NEW a \in Agents, NEW action \in Actions, NEW t \in Terms \cup {None},
         BeginAction(c, n, a, action, t)
  PROVE  TurnInv'
<1>1. PICK s \in Sessions :
        /\ s = activeNegotiations[n] /\ session[s].status = "NEGOTIATING"
        /\ session[s].activeAgent = a /\ InFlight(s) = {}
  BY DEF BeginAction, TurnInv, Inv, TypeOK
<1>2. session[s].negId = n /\ Reachable(s)
  BY <1>1, ConstantsAssumption DEF TurnInv, MapMatches, Reachable
<1> DEFINE received == [pc |-> "validate", sess |-> s, agent |-> a,
                        action |-> action, terms |-> t, peer |-> None,
                        roundNumber |-> 0, active |-> None]
           new == IF action = "WALK_AWAY"
                  THEN [received EXCEPT !.pc = "persist",
                                        !.roundNumber = session[s].round,
                                        !.active = session[s].activeAgent]
                  ELSE received
<1>3. call' = [call EXCEPT ![c] = new]
  BY <1>1 DEF BeginAction
<1>4. /\ new.sess = s /\ new.agent = a /\ new.action = action
      /\ new.pc = IF action = "WALK_AWAY" THEN "persist" ELSE "validate"
      /\ action = "WALK_AWAY" => new.roundNumber = session[s].round /\ new.active = a
  BY <1>1
<1> HIDE DEF new
<1>5. call'[c] = new /\ \A d \in Calls : d # c => call'[d] = call[d]
  BY <1>3 DEF TurnInv, Inv, TypeOK
<1>6. \A d \in Calls : d # c /\ call[d] # Idle => call[d].sess # s
  BY <1>1 DEF InFlight
<1>7. \A x \in settlements : x.sess # s
  BY <1>1 DEF TurnInv, SessionsOK, SettlementOK
<1>8. UNCHANGED <<session, activeNegotiations, start, rounds, settlements, validated, approved>>
  BY DEF BeginAction, dbVars, historyVars
<1>9. HandlerTurn(call[c])'
  BY <1>1, <1>2, <1>4, <1>5, <1>7, <1>8
     DEF HandlerTurn, Reachable, Deciding, Committing
<1>10. Grows
  BY <1>8, SessionsStand DEF Grows
<1> QED
  BY <1>4, <1>5, <1>6, <1>8, <1>9, <1>10, HandlerMoves

LEMMA ValidateActiveTurn ==
  ASSUME TurnInv, Inv', NEW c \in Calls, ValidateActive(c)
  PROVE  TurnInv'
<1> DEFINE k == call[c]
<1>1. k.pc = "validate" /\ k.pc # "idle"
  BY DEF ValidateActive
<1>2. UNCHANGED <<session, activeNegotiations, start, rounds, settlements, approved>>
  BY DEF ValidateActive, dbVars
<1>3. Grows
  BY <1>2, SessionsStand DEF Grows, ValidateActive
<1>4. /\ HandlerTurn(k) /\ k.sess \in Sessions /\ Inv
      /\ \A x \in settlements : x.sess # k.sess
      /\ session[k.sess].status = "NEGOTIATING" /\ session[k.sess].activeAgent = k.agent
      /\ Reachable(k.sess)
  BY <1>1, HandlerKnown DEF HandlerTurn, Deciding, TurnInv
<1>5. CASE ~ Satisfied(k.agent, k.terms)
  <2>1. call' = [call EXCEPT ![c] = Idle]
    BY <1>5 DEF ValidateActive
  <2> QED
    BY <1>1, <1>2, <1>3, <2>1, HandlerEnds
<1>6. CASE Satisfied(k.agent, k.terms)
  <2>1. PICK new :
          /\ call' = [call EXCEPT ![c] = new]
          /\ new = IF k.action = "ACCEPT"
                   THEN [k EXCEPT !.pc = "validatePeer",
                                  !.peer = session[k.sess].opponentAgent]
                   ELSE ToPersist(c)
    BY <1>6 DEF ValidateActive
  <2>2. /\ new \in Call /\ new.sess = k.sess /\ new.agent = k.agent
        /\ new.action = k.action /\ new.terms = k.terms
        /\ new.pc = IF k.action = "ACCEPT" THEN "validatePeer" ELSE "persist"
        /\ k.action = "ACCEPT" => new.peer = session[k.sess].opponentAgent
        /\ k.action # "ACCEPT" => /\ new.roundNumber = session[k.sess].round
                                  /\ new.active = session[k.sess].activeAgent
    <3>1. /\ k \in Call /\ session[k.sess].opponentAgent \in Agents
          /\ ToPersist(c) \in Call
      BY <1>1, <1>4, CallTyped, ToPersistTyped
    <3>2. CASE k.action = "ACCEPT"
      BY <2>1, <3>1, <3>2 DEF Call, CallPc
    <3>3. CASE k.action # "ACCEPT"
      BY <1>4, <2>1, <3>1, <3>3 DEF Call, ToPersist
    <3> QED
      BY <3>2, <3>3
  <2>3. HandlerTurn(new)'
    BY <1>2, <1>4, <2>2 DEF HandlerTurn, Reachable, Deciding, Committing
  <2> QED
    BY <1>1, <1>2, <1>3, <2>1, <2>2, <2>3, HandlerGoesOn
<1> QED
  BY <1>5, <1>6

LEMMA ValidateOpponentTurn ==
  ASSUME TurnInv, Inv', NEW c \in Calls, ValidateOpponent(c)
  PROVE  TurnInv'
<1> DEFINE k == call[c]
<1>1. k.pc = "validatePeer" /\ k.pc # "idle"
  BY DEF ValidateOpponent
<1>2. UNCHANGED <<session, activeNegotiations, start, rounds, settlements, approved>>
  BY DEF ValidateOpponent, dbVars
<1>3. Grows
  BY <1>2, SessionsStand DEF Grows, ValidateOpponent
<1>4. /\ k.sess \in Sessions /\ Inv /\ k.peer = session[k.sess].opponentAgent
      /\ \A x \in settlements : x.sess # k.sess
      /\ session[k.sess].status = "NEGOTIATING" /\ session[k.sess].activeAgent = k.agent
      /\ Reachable(k.sess)
  BY <1>1, HandlerKnown DEF HandlerTurn, Deciding, TurnInv
<1>5. CASE ~ Satisfied(k.peer, k.terms)
  <2>1. call' = [call EXCEPT ![c] = Idle]
    BY <1>5 DEF ValidateOpponent
  <2> QED
    BY <1>1, <1>2, <1>3, <2>1, HandlerEnds
<1>6. CASE Satisfied(k.peer, k.terms)
  <2>1. PICK new : call' = [call EXCEPT ![c] = new] /\ new = ToPersist(c)
    BY <1>6 DEF ValidateOpponent
  <2>2. /\ new \in Call /\ new.sess = k.sess /\ new.agent = k.agent
        /\ new.action = k.action /\ new.terms = k.terms /\ new.pc = "persist"
        /\ new.roundNumber = session[k.sess].round
        /\ new.active = k.agent
    <3>1. k \in Call /\ ToPersist(c) \in Call
      BY <1>1, <1>4, CallTyped, ToPersistTyped
    <3> QED
      BY <1>4, <2>1, <3>1 DEF Call, ToPersist
  <2>3. Checked(k)
    BY <1>1, HandlerKnown DEF HandlerOK
  <2>4. BothChecked(new.sess, new.terms)'
    BY <1>2, <1>4, <1>6, <2>2, <2>3
       DEF BothChecked, Participants, Checked, ValidateOpponent
  <2>5. HandlerTurn(new)'
    BY <1>2, <1>4, <2>2, <2>4 DEF HandlerTurn, Reachable, Deciding, Committing
  <2> QED
    BY <1>1, <1>2, <1>3, <2>1, <2>2, <2>5, HandlerGoesOn
<1> QED
  BY <1>5, <1>6
-----------------------------------------------------------------------------
(***************************************************************************)
(* handleCommit up to the transaction: the handler keeps what it knows.    *)
(***************************************************************************)
LEMMA CommittingGoesOn ==
  ASSUME TurnInv, Inv', NEW c \in Calls, call[c].pc \in {"verify", "gate", "commit"},
         NEW new \in Call, call' = [call EXCEPT ![c] = new],
         new.pc \in Committing, new.sess = call[c].sess, new.agent = call[c].agent,
         new.terms = call[c].terms,
         new.pc = "commit" => new.roundNumber = session[call[c].sess].round,
         Grows,
         UNCHANGED <<session, activeNegotiations, start, rounds, settlements>>
  PROVE  TurnInv'
<1> DEFINE k == call[c]
<1>1. k.pc # "idle" /\ k.pc # "fail" /\ k.pc \in Committing
  BY DEF Committing
<1>2. /\ Reachable(k.sess) /\ session[k.sess].status = "COMMITTING"
      /\ BothChecked(k.sess, k.terms) /\ AcceptedNow(k)
      /\ \A x \in settlements : x.sess # k.sess
  BY <1>1, HandlerKnown DEF HandlerTurn
<1>3. session[new.sess] # Unused /\ new.sess \in Sessions
  BY <1>1, HandlerKnown
<1>4. BothChecked(new.sess, new.terms)'
  BY <1>2, <1>3, ConsentKept
<1>5. AcceptedNow(new)'
  BY <1>2 DEF AcceptedNow
<1>6. HandlerTurn(new)'
  BY <1>2, <1>4, <1>5 DEF HandlerTurn, Reachable, Deciding, Committing
<1> QED
  BY <1>1, <1>6, HandlerGoesOn

LEMMA PcSet ==
  ASSUME TurnInv, NEW c \in Calls, call[c].pc # "idle", NEW pc \in CallPc
  PROVE  /\ [call[c] EXCEPT !.pc = pc] \in Call
         /\ [call[c] EXCEPT !.pc = pc].pc = pc
         /\ [call[c] EXCEPT !.pc = pc].sess = call[c].sess
         /\ [call[c] EXCEPT !.pc = pc].agent = call[c].agent
         /\ [call[c] EXCEPT !.pc = pc].terms = call[c].terms
<1>1. call[c] \in Call
  BY CallTyped DEF TurnInv
<1> QED
  BY <1>1 DEF Call

LEMMA PcMoves ==
  ASSUME TurnInv, Inv', NEW c \in Calls, call[c].pc \in {"verify", "gate", "commit"},
         NEW pc \in Committing \ {"commit"}, call' = [call EXCEPT ![c].pc = pc],
         UNCHANGED <<session, activeNegotiations, start, rounds, settlements, historyVars>>
  PROVE  TurnInv'
<1> DEFINE new == [call[c] EXCEPT !.pc = pc]
<1>1. call[c].pc # "idle" /\ pc \in CallPc
  BY DEF Committing, CallPc
<1>2. /\ new \in Call /\ new.pc = pc /\ new.sess = call[c].sess
      /\ new.agent = call[c].agent /\ new.terms = call[c].terms
  BY <1>1, PcSet
<1>3. call' = [call EXCEPT ![c] = new]
  OBVIOUS
<1>4. Grows
  BY SessionsStand DEF Grows, historyVars
<1> HIDE DEF new
<1> QED
  BY <1>2, <1>3, <1>4, CommittingGoesOn

LEMMA CommittingMoves ==
  ASSUME TurnInv, Inv', NEW c \in Calls,
         \/ MarkSafetyVerified(c) \/ GateRejects(c)
         \/ AbortSettlement(c) \/ FailCommit(c)
  PROVE  TurnInv'
<1>1. CASE MarkSafetyVerified(c)
  BY <1>1, PcMoves DEF MarkSafetyVerified, Committing
<1>2. CASE GateRejects(c) \/ AbortSettlement(c) \/ FailCommit(c)
  BY <1>2, PcMoves DEF GateRejects, AbortSettlement, FailCommit, Committing, dbVars
<1> QED
  BY <1>1, <1>2

LEMMA GatePassesTurn ==
  ASSUME TurnInv, Inv', NEW c \in Calls, GatePasses(c)
  PROVE  TurnInv'
<1> DEFINE k == call[c]
<1>1. /\ k.pc = "gate" /\ k.pc # "idle"
      /\ UNCHANGED <<session, activeNegotiations, start, rounds, settlements, validated>>
  BY DEF GatePasses, dbVars
<1>2. Grows
  BY <1>1, SessionsStand DEF Grows, GatePasses
<1>3. /\ k \in Call /\ session[k.sess].round \in Nat
      /\ session[k.sess].activeAgent \in Agents
  BY <1>1, CallTyped DEF TurnInv
<1>4. PICK new :
        /\ call' = [call EXCEPT ![c] = new]
        /\ new = IF Direction(k.sess)
                 THEN [k EXCEPT !.pc = "commit",
                                !.roundNumber = session[k.sess].round,
                                !.active = session[k.sess].activeAgent]
                 ELSE [k EXCEPT !.pc = "fail"]
  BY DEF GatePasses
<1>5. /\ new \in Call /\ new.sess = k.sess /\ new.agent = k.agent /\ new.terms = k.terms
      /\ new.pc \in {"commit", "fail"}
      /\ new.pc = "commit" => new.roundNumber = session[k.sess].round
  BY <1>3, <1>4 DEF Call, CallPc
<1> QED
  BY <1>1, <1>2, <1>4, <1>5, CommittingGoesOn DEF Committing
-----------------------------------------------------------------------------
(***************************************************************************)
(* agent_action, the round row and what it does to the session             *)
(*                                                                         *)
(* The row is written in the round and by the agent whose turn it is,      *)
(* whether the turn then passes or not.                                    *)
(***************************************************************************)
LEMMA TurnKnown ==
  ASSUME TurnInv, NEW c \in Calls, StoreRound(c), NEW s, s = call[c].sess
  PROVE  /\ call[c].pc = "persist" /\ call[c].pc # "idle" /\ s \in Sessions
         /\ session[s] \in Session /\ session[s] # Unused /\ Reachable(s)
         /\ session[s].status = "NEGOTIATING"
         /\ session[s].activeAgent # session[s].opponentAgent
         /\ session[s].round \in 1 .. MAX_ROUNDS
         /\ \A x \in settlements : x.sess # s
         /\ call[c].action = "ACCEPT" => BothChecked(s, call[c].terms)
         /\ rounds' = rounds \cup
              {[negotiationId |-> session[s].negId, roundNumber |-> session[s].round,
                active |-> session[s].activeAgent, action |-> call[c].action,
                sess |-> s, by |-> session[s].activeAgent]}
         /\ call[c].agent = session[s].activeAgent
<1>1. call[c].pc = "persist" /\ call[c].pc # "idle"
  BY DEF StoreRound
<1>2. /\ s \in Sessions /\ session[s] \in Session /\ session[s] # Unused
      /\ session[s].round \in Nat /\ SeatsOK(s) /\ HandlerTurn(call[c])
      /\ Reachable(s) /\ call[c] # Idle
  BY <1>1, HandlerKnown
<1>3. /\ session[s].status = "NEGOTIATING" /\ session[s].activeAgent = call[c].agent
      /\ call[c].roundNumber = session[s].round /\ call[c].active = call[c].agent
      /\ call[c].action = "ACCEPT" => BothChecked(s, call[c].terms)
      /\ \A x \in settlements : x.sess # s
  BY <1>1, <1>2 DEF HandlerTurn, Deciding
<1>4. session[s].activeAgent # session[s].opponentAgent /\ session[s].round \in 1 .. MAX_ROUNDS
  BY <1>2, <1>3, ConstantsAssumption DEF SeatsOK
<1> QED
  BY <1>1, <1>2, <1>3, <1>4 DEF StoreRound

LEMMA RowsInTurn ==
  ASSUME TurnInv, NEW c \in Calls, StoreRound(c), NEW s, s = call[c].sess,
         session'[s] # Unused,
         \/ /\ session'[s].round = session[s].round
            /\ session'[s].activeAgent = session[s].activeAgent
            /\ session'[s].opponentAgent = session[s].opponentAgent
         \/ /\ session'[s].round = session[s].round + 1
            /\ session'[s].activeAgent = session[s].opponentAgent
            /\ session'[s].opponentAgent = session[s].activeAgent
  PROVE  \A r \in rounds' : r.sess = s => RowOK(r)'
<1>1. /\ session[s].activeAgent # session[s].opponentAgent
      /\ session[s].round \in 1 .. MAX_ROUNDS /\ MAX_ROUNDS \in Nat
  BY TurnKnown, ConstantsAssumption
<1>2. PICK row :
        /\ rounds' = rounds \cup {row}
        /\ row.roundNumber = session[s].round /\ row.sess = s
        /\ row.active = session[s].activeAgent /\ row.by = session[s].activeAgent
  <2> DEFINE w == [negotiationId |-> session[s].negId, roundNumber |-> session[s].round,
                   active |-> session[s].activeAgent, action |-> call[c].action,
                   sess |-> s, by |-> session[s].activeAgent]
  <2>1. rounds' = rounds \cup {w}
    BY TurnKnown
  <2>2. /\ w.roundNumber = session[s].round /\ w.sess = s
        /\ w.active = session[s].activeAgent /\ w.by = session[s].activeAgent
    OBVIOUS
  <2> HIDE DEF w
  <2> QED
    BY <2>1, <2>2
<1>3. \A r \in rounds : r.roundNumber \in Nat /\ RowOK(r)
  BY DEF TurnInv, Inv, TypeOK, Round, SessionsOK
<1> SUFFICES ASSUME NEW r \in rounds', r.sess = s PROVE RowOK(r)'
  OBVIOUS
<1>4. /\ r.active = r.by /\ r.roundNumber \in 1 .. MAX_ROUNDS
      /\ r.roundNumber <= session[s].round
      /\ r.roundNumber = session[s].round => r.by = session[s].activeAgent
      /\ r.roundNumber + 1 = session[s].round => r.by = session[s].opponentAgent
  BY <1>1, <1>2, <1>3, SMTT(90) DEF RowOK
<1>5. ASSUME NEW q \in rounds', q.sess = s, q.roundNumber = r.roundNumber + 1
      PROVE  q.by # r.by
  <2>1. CASE q = row
    BY <1>1, <1>2, <1>4, <1>5, <2>1
  <2>2. CASE q # row
    <3>1. q \in rounds /\ q.roundNumber <= session[s].round
      BY <1>2, <1>3, <1>5, <2>2 DEF RowOK
    <3>2. r # row
      BY <1>1, <1>2, <1>5, <3>1
    <3> QED
      BY <1>2, <1>3, <1>5, <3>1, <3>2 DEF RowOK
  <2> QED
    BY <2>1, <2>2
<1>6. /\ r.roundNumber <= session'[s].round
      /\ r.roundNumber = session'[s].round => r.by = session'[s].activeAgent
      /\ r.roundNumber + 1 = session'[s].round => r.by = session'[s].opponentAgent
  BY <1>1, <1>4
<1> QED
  BY <1>4, <1>5, <1>6 DEF RowOK

LEMMA FailClosedTurn ==
  ASSUME TurnInv, Inv', NEW c \in Calls, FailClosed(c)
  PROVE  TurnInv'
<1>1. /\ call' = [call EXCEPT ![c] = Idle]
      /\ UNCHANGED <<session, activeNegotiations, start, settlements, historyVars>>
  BY DEF FailClosed
<1>2. CASE UNCHANGED rounds /\ call[c].pc \in {"validate", "validatePeer", "persist"}
  <2>1. Grows
    BY <1>1, <1>2, SessionsStand DEF Grows, historyVars
  <2> QED
    BY <1>1, <1>2, <2>1, HandlerEnds
<1>3. CASE StoreRound(c)
  <2>1. PICK s : s = call[c].sess
    OBVIOUS
  <2>2. /\ s \in Sessions /\ session[s] # Unused /\ call[c].pc # "idle"
        /\ \A x \in settlements : x.sess # s
    BY <1>3, <2>1, TurnKnown
  <2>3. rounds \subseteq rounds' /\ \A r \in rounds' : r \in rounds \/ r.sess = s
    BY <1>3, <2>1 DEF StoreRound
  <2>4. Grows
    BY <1>1, <2>3, SessionsStand DEF Grows, historyVars
  <2>5. \A r \in rounds' : r.sess = s => RowOK(r)'
    BY <1>1, <1>3, <2>1, <2>2, RowsInTurn
  <2>6. call'[c] = Idle /\ \A d \in Calls : d # c => call'[d] = call[d]
    BY <1>1 DEF TurnInv, Inv, TypeOK
  <2>7. HandlerTurn(call[c])'
    BY <2>6 DEF HandlerTurn
  <2>8. SeatsOK(s)'
    BY <1>1, <2>2 DEF TurnInv, SessionsOK, SeatsOK, Reachable
  <2>9. MapMatches' /\ StartsOK'
    BY <1>1 DEF TurnInv, MapMatches, StartsOK
  <2>10. \A d \in Calls : d # c /\ call[d] # Idle => call[d].sess # s
    BY <2>1, <2>2, OnlyHandler
  <2> QED
    BY <1>1, <2>2, <2>3, <2>4, <2>5, <2>6, <2>7, <2>8, <2>9, <2>10, OneSessionMoves
<1> QED
  BY <1>2, <1>3 DEF FailClosed

(***************************************************************************)
(* The three Apply actions: the session of the handler is replaced by      *)
(* moved, and the handler goes on as new.                                  *)
(***************************************************************************)
LEMMA ApplyTurn ==
  ASSUME TurnInv, Inv', NEW c \in Calls, StoreRound(c), NEW s, s = call[c].sess,
         NEW moved \in Session, session' = [session EXCEPT ![s] = moved],
         moved.negId = session[s].negId,
         \/ /\ moved.round = session[s].round
            /\ moved.activeAgent = session[s].activeAgent
            /\ moved.opponentAgent = session[s].opponentAgent
         \/ /\ moved.round = session[s].round + 1
            /\ moved.activeAgent = session[s].opponentAgent
            /\ moved.opponentAgent = session[s].activeAgent,
         moved.status = "NEGOTIATING" => moved.round <= MAX_ROUNDS,
         NEW new \in Call \cup {Idle}, call' = [call EXCEPT ![c] = new],
         new # Idle => new.sess = s,
         (session'[s] = moved /\ Reachable(s)' /\ Grows) => HandlerTurn(new)',
         UNCHANGED <<activeNegotiations, start, settlements, historyVars>>
  PROVE  TurnInv'
<1>1. /\ s \in Sessions /\ session[s] # Unused /\ call[c].pc # "idle"
      /\ session[s].round \in 1 .. MAX_ROUNDS /\ MAX_ROUNDS \in Nat
      /\ session[s].activeAgent # session[s].opponentAgent
      /\ \A x \in settlements : x.sess # s
      /\ Reachable(s)
  BY TurnKnown, ConstantsAssumption
<1>2. moved # Unused
  BY DEF Session, SessionStatus, Unused
<1>3. \A x \in Sessions : session'[x] = IF x = s THEN moved ELSE session[x]
  BY <1>1 DEF TurnInv, Inv, TypeOK
<1>4. rounds \subseteq rounds' /\ \A r \in rounds' : r \in rounds \/ r.sess = s
  BY DEF StoreRound
<1>5. Grows
  BY <1>2, <1>3, <1>4 DEF Grows, SessionKept, Participants, historyVars
<1>6. Reachable(s)'
  BY <1>1, <1>3 DEF Reachable
<1>7. call'[c] = new /\ \A d \in Calls : d # c => call'[d] = call[d]
  BY DEF TurnInv, Inv, TypeOK
<1>8. HandlerTurn(call[c])'
  <2>1. HandlerTurn(new)'
    BY <1>1, <1>3, <1>5, <1>6
  <2> QED
    BY ONLY <1>7, <2>1 DEF HandlerTurn, Reachable, BothChecked, Participants, AcceptedNow
<1>9. \A r \in rounds' : r.sess = s => RowOK(r)'
  BY <1>1, <1>2, <1>3, RowsInTurn, SMTT(90)
<1>10. SeatsOK(s)'
  BY <1>1, <1>3, <1>6 DEF SeatsOK
<1>11. MapMatches'
  BY <1>1, <1>3 DEF TurnInv, MapMatches, Inv, TypeOK
<1>12. StartsOK'
  BY DEF TurnInv, StartsOK
<1>13. \A d \in Calls : d # c /\ call[d] # Idle => call[d].sess # s
  BY <1>1, OnlyHandler
<1> QED
  BY <1>1, <1>3, <1>4, <1>5, <1>7, <1>8, <1>9, <1>10, <1>11, <1>12, <1>13,
     OneSessionMoves

(***************************************************************************)
(* The session of a handler with its status set.                           *)
(***************************************************************************)
LEMMA StatusMoved ==
  ASSUME TurnInv, NEW s \in Sessions, session[s] # Unused,
         NEW status \in SessionStatus,
         session' = [session EXCEPT ![s].status = status]
  PROVE  \E moved \in Session :
           /\ session' = [session EXCEPT ![s] = moved]
           /\ moved.status = status /\ moved.negId = session[s].negId
           /\ moved.round = session[s].round
           /\ moved.activeAgent = session[s].activeAgent
           /\ moved.opponentAgent = session[s].opponentAgent
<1> DEFINE moved == [session[s] EXCEPT !.status = status]
<1>1. session[s] \in Session
  BY DEF TurnInv, Inv, TypeOK
<1>2. /\ moved \in Session
      /\ moved.status = status /\ moved.negId = session[s].negId
      /\ moved.round = session[s].round
      /\ moved.activeAgent = session[s].activeAgent
      /\ moved.opponentAgent = session[s].opponentAgent
  BY <1>1 DEF Session
<1>3. session' = [session EXCEPT ![s] = moved]
  OBVIOUS
<1> HIDE DEF moved
<1> QED
  BY <1>2, <1>3

LEMMA ApplyAcceptTurn ==
  ASSUME TurnInv, Inv', NEW c \in Calls, ApplyAccept(c)
  PROVE  TurnInv'
<1>1. PICK s : s = call[c].sess
  OBVIOUS
<1>2. PICK k : k = call[c]
  OBVIOUS
<1>3. /\ StoreRound(c) /\ k.action = "ACCEPT"
      /\ session' = [session EXCEPT ![s].status = "COMMITTING"]
      /\ call' = [call EXCEPT ![c].pc = "verify"]
      /\ UNCHANGED <<activeNegotiations, start, settlements, historyVars>>
  BY <1>1, <1>2 DEF ApplyAccept
<1>4. /\ s \in Sessions /\ session[s] # Unused /\ k.pc # "idle"
      /\ BothChecked(s, k.terms) /\ k.agent = session[s].activeAgent
      /\ \A x \in settlements : x.sess # s
  BY <1>1, <1>2, <1>3, TurnKnown
<1>5. PICK moved \in Session :
        /\ session' = [session EXCEPT ![s] = moved]
        /\ moved.status = "COMMITTING" /\ moved.negId = session[s].negId
        /\ moved.round = session[s].round
        /\ moved.activeAgent = session[s].activeAgent
        /\ moved.opponentAgent = session[s].opponentAgent
  BY <1>3, <1>4, StatusMoved DEF SessionStatus
<1>6. PICK new \in Call :
        /\ call' = [call EXCEPT ![c] = new]
        /\ new.pc = "verify" /\ new.sess = s
        /\ new.agent = k.agent /\ new.terms = k.terms
  <2> DEFINE new == [call[c] EXCEPT !.pc = "verify"]
  <2>1. /\ new \in Call /\ new.pc = "verify" /\ new.sess = s
        /\ new.agent = k.agent /\ new.terms = k.terms
    <3>1. call[c].pc # "idle" /\ "verify" \in CallPc
      BY <1>2, <1>4 DEF CallPc
    <3>2. /\ new \in Call /\ new.pc = "verify" /\ new.sess = call[c].sess
          /\ new.agent = call[c].agent /\ new.terms = call[c].terms
      BY <3>1, PcSet
    <3> QED
      BY <1>1, <1>2, <3>2
  <2>2. call' = [call EXCEPT ![c] = new]
    BY <1>3
  <2> HIDE DEF new
  <2> QED
    BY <2>1, <2>2
<1>7. ASSUME session'[s] = moved, Reachable(s)', Grows
      PROVE  HandlerTurn(new)'
  <2>1. BothChecked(s, k.terms)'
    BY <1>4, <1>7, ConsentKept
  <2>2. BothChecked(new.sess, new.terms)'
    BY <1>6, <2>1 DEF BothChecked, Participants
  <2>3. AcceptedNow(new)'
    <3> DEFINE w == [negotiationId |-> session[s].negId, roundNumber |-> session[s].round,
                     active |-> session[s].activeAgent, action |-> k.action,
                     sess |-> s, by |-> session[s].activeAgent]
    <3>1. w \in rounds'
      BY <1>1, <1>2, <1>3, TurnKnown
    <3>2. /\ w.sess = s /\ w.by = k.agent /\ w.action = "ACCEPT"
          /\ w.negotiationId = moved.negId /\ w.roundNumber = moved.round
      BY <1>3, <1>4, <1>5
    <3> HIDE DEF w
    <3> QED
      BY <1>6, <1>7, <3>1, <3>2 DEF AcceptedNow
  <2>4. Reachable(new.sess)' /\ session'[new.sess].status = "COMMITTING"
    BY <1>5, <1>6, <1>7 DEF Reachable
  <2>5. \A x \in settlements' : x.sess # new.sess
    BY <1>3, <1>4, <1>6
  <2> QED
    BY <1>6, <2>2, <2>3, <2>4, <2>5 DEF HandlerTurn, Deciding, Committing
<1>8. new \in Call \cup {Idle} /\ (moved.status = "NEGOTIATING" => moved.round <= MAX_ROUNDS)
  BY <1>5
<1>9. StoreRound(c) /\ UNCHANGED <<activeNegotiations, start, settlements, historyVars>>
  BY <1>3
<1>10. session'[s] = moved /\ Reachable(s)' /\ Grows => HandlerTurn(new)'
  BY <1>7
<1>11. call' = [call EXCEPT ![c] = new] /\ new.sess = s
  BY <1>6
<1> QED
  BY <1>1, <1>5, <1>8, <1>9, <1>10, <1>11, ApplyTurn

LEMMA ApplyWalkAwayTurn ==
  ASSUME TurnInv, Inv', NEW c \in Calls, ApplyWalkAway(c)
  PROVE  TurnInv'
<1>1. PICK s : s = call[c].sess
  OBVIOUS
<1>2. /\ StoreRound(c)
      /\ session' = [session EXCEPT ![s].status = "WALKED_AWAY"]
      /\ call' = [call EXCEPT ![c].pc = "walk"]
      /\ UNCHANGED <<activeNegotiations, start, settlements, historyVars>>
  BY <1>1 DEF ApplyWalkAway
<1>3. /\ s \in Sessions /\ session[s] # Unused /\ call[c].pc # "idle"
      /\ \A x \in settlements : x.sess # s
  BY <1>1, <1>2, TurnKnown
<1>4. PICK moved \in Session :
        /\ session' = [session EXCEPT ![s] = moved]
        /\ moved.status = "WALKED_AWAY" /\ moved.negId = session[s].negId
        /\ moved.round = session[s].round
        /\ moved.activeAgent = session[s].activeAgent
        /\ moved.opponentAgent = session[s].opponentAgent
  BY <1>2, <1>3, StatusMoved DEF SessionStatus
<1>5. PICK new \in Call :
        call' = [call EXCEPT ![c] = new] /\ new.pc = "walk" /\ new.sess = s
  <2> DEFINE new == [call[c] EXCEPT !.pc = "walk"]
  <2>1. new \in Call /\ new.pc = "walk" /\ new.sess = s
    BY <1>1, <1>3, PcSet DEF CallPc
  <2>2. call' = [call EXCEPT ![c] = new]
    BY <1>2
  <2> HIDE DEF new
  <2> QED
    BY <2>1, <2>2
<1>6. ASSUME session'[s] = moved, Reachable(s)'
      PROVE  HandlerTurn(new)'
  BY <1>2, <1>3, <1>4, <1>5, <1>6 DEF HandlerTurn, Reachable, Deciding, Committing
<1>7. new \in Call \cup {Idle} /\ (moved.status = "NEGOTIATING" => moved.round <= MAX_ROUNDS)
  BY <1>4
<1>8. StoreRound(c) /\ UNCHANGED <<activeNegotiations, start, settlements, historyVars>>
  BY <1>2
<1> QED
  BY <1>1, <1>4, <1>5, <1>6, <1>7, <1>8, ApplyTurn, ZenonT(40)

LEMMA ApplyCounterOfferTurn ==
  ASSUME TurnInv, Inv', NEW c \in Calls, ApplyCounterOffer(c)
  PROVE  TurnInv'
<1>1. PICK s : s = call[c].sess
  OBVIOUS
<1> DEFINE exhausted == session[s].round + 1 > MAX_ROUNDS
<1>2. StoreRound(c) /\ UNCHANGED <<activeNegotiations, start, settlements, historyVars>>
  BY DEF ApplyCounterOffer
<1>3. /\ s \in Sessions /\ session[s] \in Session /\ session[s] # Unused
      /\ call[c].pc # "idle" /\ session[s].status = "NEGOTIATING"
      /\ \A x \in settlements : x.sess # s
  BY <1>1, <1>2, TurnKnown
<1>4. PICK moved \in Session :
        /\ session' = [session EXCEPT ![s] = moved]
        /\ moved.status = IF exhausted THEN "MAX_ROUNDS_REACHED" ELSE "NEGOTIATING"
        /\ moved.negId = session[s].negId
        /\ moved.round = session[s].round + 1
        /\ moved.activeAgent = session[s].opponentAgent
        /\ moved.opponentAgent = session[s].activeAgent
  <2> DEFINE status == IF exhausted THEN "MAX_ROUNDS_REACHED" ELSE "NEGOTIATING"
             moved == [session[s] EXCEPT !.activeAgent = session[s].opponentAgent,
                                         !.opponentAgent = session[s].activeAgent,
                                         !.round = session[s].round + 1,
                                         !.status = status]
  <2>1. status \in SessionStatus
    BY DEF SessionStatus
  <2>2. /\ session[s].activeAgent \in Agents /\ session[s].opponentAgent \in Agents
        /\ session[s].round + 1 \in Nat
    BY <1>3 DEF Session
  <2>3. session' = [session EXCEPT ![s] = moved]
    BY <1>1, <1>3 DEF ApplyCounterOffer, TurnInv, Inv, TypeOK
  <2> HIDE DEF status
  <2>4. /\ moved \in Session /\ moved.status = status
        /\ moved.negId = session[s].negId
        /\ moved.round = session[s].round + 1
        /\ moved.activeAgent = session[s].opponentAgent
        /\ moved.opponentAgent = session[s].activeAgent
    BY <1>3, <2>1, <2>2 DEF Session
  <2> HIDE DEF moved
  <2> QED
    BY <2>3, <2>4 DEF status
<1>5. moved.status = "NEGOTIATING" => moved.round <= MAX_ROUNDS
  BY <1>3, <1>4, ConstantsAssumption DEF Session
<1>6. CASE exhausted
  <2>1. PICK new \in Call :
          call' = [call EXCEPT ![c] = new] /\ new.pc = "maxed" /\ new.sess = s
    <3> DEFINE new == [call[c] EXCEPT !.pc = "maxed"]
    <3>1. new \in Call /\ new.pc = "maxed" /\ new.sess = s
      BY <1>1, <1>3, PcSet DEF CallPc
    <3>2. call' = [call EXCEPT ![c] = new]
      BY <1>1, <1>6 DEF ApplyCounterOffer
    <3> HIDE DEF new
    <3> QED
      BY <3>1, <3>2
  <2>2. ASSUME session'[s] = moved, Reachable(s)'
        PROVE  HandlerTurn(new)'
    BY <1>2, <1>3, <1>4, <1>6, <2>1, <2>2 DEF HandlerTurn, Reachable, Deciding, Committing
  <2>3. new \in Call \cup {Idle}
    OBVIOUS
  <2> QED
    BY <1>1, <1>2, <1>4, <1>5, <2>1, <2>2, <2>3, ApplyTurn, ZenonT(40)
<1>7. CASE ~ exhausted
  <2>1. call' = [call EXCEPT ![c] = Idle]
    BY <1>1, <1>7 DEF ApplyCounterOffer
  <2>2. HandlerTurn(Idle)'
    BY DEF HandlerTurn
  <2>3. PICK new \in Call \cup {Idle} : new = Idle
    OBVIOUS
  <2> QED
    BY <1>1, <1>2, <1>4, <1>5, <2>1, <2>2, <2>3, ApplyTurn
<1> QED
  BY <1>6, <1>7
-----------------------------------------------------------------------------
(***************************************************************************)
(* The end of a handler: its negotiation leaves the map.                   *)
(***************************************************************************)
LEMMA CloseTurn ==
  ASSUME TurnInv, Inv', NEW c \in Calls, call[c].pc # "idle", Close(c),
         NEW s, s = call[c].sess, session[s].status # "NEGOTIATING",
         \A x \in settlements' : x \in settlements \/ x.sess = s,
         \A x \in settlements' : x.sess = s => SettlementOK(x)',
         UNCHANGED <<session, start, rounds, historyVars>>
  PROVE  TurnInv'
<1>1. /\ s \in Sessions /\ session[s] # Unused /\ session[s].negId \in NegIds
      /\ Reachable(s) /\ SeatsOK(s) /\ None \notin Sessions
  BY HandlerKnown, ConstantsAssumption
<1>2. /\ call' = [call EXCEPT ![c] = Idle]
      /\ activeNegotiations' = [activeNegotiations EXCEPT ![session[s].negId] = None]
  BY DEF Close
<1>3. \A n \in NegIds :
        activeNegotiations'[n] = IF n = session[s].negId THEN None ELSE activeNegotiations[n]
  BY <1>2 DEF TurnInv, Inv, TypeOK
<1>4. call'[c] = Idle /\ \A d \in Calls : d # c => call'[d] = call[d]
  BY <1>2 DEF TurnInv, Inv, TypeOK
<1>5. HandlerTurn(call[c])'
  BY <1>4 DEF HandlerTurn
<1>6. MapMatches' /\ StartsOK'
  BY <1>3 DEF TurnInv, MapMatches, StartsOK
<1>7. Grows
  BY SessionsStand DEF Grows, historyVars
<1>8. SeatsOK(s)'
  BY <1>1 DEF SeatsOK
<1>9. \A n \in NegIds :
        activeNegotiations'[n] # activeNegotiations[n]
          => activeNegotiations[n] \in {None, s}
  BY <1>1, <1>3 DEF Reachable
<1>10. \A r \in rounds' : r.sess = s => RowOK(r)'
  BY DEF TurnInv, SessionsOK, RowOK
<1>11. \A d \in Calls : d # c /\ call[d] # Idle => call[d].sess # s
  BY OnlyHandler
<1> QED
  BY <1>1, <1>4, <1>5, <1>6, <1>7, <1>8, <1>9, <1>10, <1>11, OneSessionMoves

LEMMA StandingSettlements ==
  ASSUME TurnInv, UNCHANGED <<session, rounds, settlements, historyVars>>
  PROVE  \A x \in settlements' : SettlementOK(x)'
BY DEF TurnInv, SessionsOK, SettlementOK, BothChecked, Participants, historyVars

LEMMA OutcomeTurn ==
  ASSUME TurnInv, Inv', NEW c \in Calls, RecordOutcome(c) \/ IgnoreFailedUpdate(c)
  PROVE  TurnInv'
<1>1. /\ call[c].pc \in {"stabilityFailed", "gridFailed", "fail", "walk", "maxed"}
      /\ Close(c) /\ UNCHANGED <<session, start, rounds, settlements, historyVars>>
  BY DEF RecordOutcome, IgnoreFailedUpdate, Outcome, dbVars
<1>2. PICK s : s = call[c].sess
  OBVIOUS
<1>3. call[c].pc # "idle" /\ session[s].status # "NEGOTIATING"
  BY <1>1, <1>2, HandlerKnown DEF HandlerTurn, Committing
<1> QED
  BY <1>1, <1>2, <1>3, StandingSettlements, CloseTurn

(***************************************************************************)
(* The transaction of commitSettlement adds at most one row, the first of  *)
(* its session, under the round whose ACCEPT is stored.                    *)
(***************************************************************************)
LEMMA CommitsOnce ==
  ASSUME TurnInv, NEW c \in Calls, CommitTransaction(c),
         NEW s, s = call[c].sess, UNCHANGED <<session, rounds, historyVars>>
  PROVE  /\ \A x \in settlements' : x \in settlements \/ x.sess = s
         /\ \A x \in settlements' : x.sess = s => SettlementOK(x)'
<1>1. call[c].pc = "commit" /\ call[c].pc # "idle" /\ Inv
  BY DEF CommitTransaction, TurnInv
<1>2. /\ session[s].status = "COMMITTING" /\ BothChecked(s, call[c].terms)
      /\ AcceptedNow(call[c]) /\ call[c].roundNumber = session[s].round
      /\ \A x \in settlements : x.sess # s
  BY <1>1, HandlerKnown DEF HandlerTurn, Committing
<1>3. PICK row :
        /\ row = SettlementRow(c)
        /\ row.sess = s /\ row.acceptedBy = call[c].agent /\ row.terms = call[c].terms
        /\ row.key = <<session[s].negId, session[s].round>>
  <2>1. SettlementRow(c).key = <<session[s].negId, session[s].round>>
    BY <1>2 DEF SettlementRow
  <2>2. /\ SettlementRow(c).sess = s /\ SettlementRow(c).acceptedBy = call[c].agent
        /\ SettlementRow(c).terms = call[c].terms
    BY <1>1, SettlementRowBacked
  <2> QED
    BY <2>1, <2>2
<1>4. \A x \in settlements' : x \in settlements \/ x = row
  BY <1>1, <1>3, CommitTransactionKeeps
<1>5. SettlementOK(row)'
  <2>1. PICK r \in rounds :
          /\ r.sess = s /\ r.by = call[c].agent /\ r.action = "ACCEPT"
          /\ r.negotiationId = session[s].negId /\ r.roundNumber = session[s].round
    BY <1>2 DEF AcceptedNow
  <2>2. \A y \in settlements' : row.sess = y.sess => row = y
    BY <1>2, <1>3, <1>4
  <2>3. BothChecked(row.sess, row.terms)'
    BY <1>2, <1>3 DEF BothChecked, Participants, historyVars
  <2> QED
    BY <1>2, <1>3, <2>1, <2>2, <2>3 DEF SettlementOK
<1>6. \A x \in settlements' : x.sess = s => x = row
  BY <1>2, <1>4
<1> QED
  BY <1>3, <1>4, <1>5, <1>6

LEMMA CommitTurn ==
  ASSUME TurnInv, Inv', NEW c \in Calls, CommitSettlement(c) \/ LoseCommitAnswer(c)
  PROVE  TurnInv'
<1>1. PICK s : s = call[c].sess
  OBVIOUS
<1>2. /\ CommitTransaction(c) /\ call[c].pc = "commit" /\ call[c].pc # "idle"
      /\ UNCHANGED <<session, start, rounds, historyVars>>
  BY DEF CommitSettlement, LoseCommitAnswer, CommitTransaction
<1>3. /\ \A x \in settlements' : x \in settlements \/ x.sess = s
      /\ \A x \in settlements' : x.sess = s => SettlementOK(x)'
  BY <1>1, <1>2, CommitsOnce
<1>4. /\ s \in Sessions /\ session[s] # Unused /\ Reachable(s) /\ SeatsOK(s)
      /\ session[s].status = "COMMITTING" /\ BothChecked(s, call[c].terms)
      /\ AcceptedNow(call[c])
  BY <1>1, <1>2, HandlerKnown DEF HandlerTurn, Committing
<1>5. CASE CommitSettlement(c)
  BY <1>1, <1>2, <1>3, <1>4, <1>5, CloseTurn DEF CommitSettlement
<1>6. CASE LoseCommitAnswer(c)
  <2>1. UNCHANGED activeNegotiations /\ call' = [call EXCEPT ![c].pc = "fail"]
    BY <1>6 DEF LoseCommitAnswer
  <2>2. /\ call'[c].pc = "fail" /\ call'[c].sess = s
        /\ call'[c].agent = call[c].agent /\ call'[c].terms = call[c].terms
        /\ \A d \in Calls : d # c => call'[d] = call[d]
    BY <1>1, <1>2, <2>1, MovedTo DEF TurnInv, CallPc
  <2>3. Grows
    BY <1>2, SessionsStand DEF Grows, historyVars
  <2>4. HandlerTurn(call[c])'
    BY <1>2, <1>4, <2>1, <2>2
       DEF HandlerTurn, Reachable, Deciding, Committing, BothChecked, Participants,
           AcceptedNow, historyVars
  <2>5. MapMatches' /\ StartsOK' /\ SeatsOK(s)'
    BY <1>2, <1>4, <2>1 DEF TurnInv, MapMatches, StartsOK, SeatsOK
  <2>6. \A r \in rounds' : r.sess = s => RowOK(r)'
    BY <1>2 DEF TurnInv, SessionsOK, RowOK
  <2>7. \A d \in Calls : d # c /\ call[d] # Idle => call[d].sess # s
    BY <1>1, <1>2, OnlyHandler
  <2> QED
    BY <1>2, <1>3, <1>4, <2>1, <2>2, <2>3, <2>4, <2>5, <2>6, <2>7, OneSessionMoves
<1> QED
  BY <1>5, <1>6
-----------------------------------------------------------------------------
(***************************************************************************)
(* start_negotiation opens a session that has no handler and no rows yet.  *)
(***************************************************************************)
LEMMA OpenTurn ==
  ASSUME TurnInv, Inv', NEW h \in Starts, OpenNegotiation(h)
  PROVE  TurnInv'
<1>1. /\ start[h] \in Start /\ start[h] # Idle /\ start[h].negId \in NegIds
      /\ start[h].first # start[h].second
      /\ start' = [start EXCEPT ![h] = Idle]
      /\ UNCHANGED <<call, rounds, settlements, historyVars>>
  BY DEF OpenNegotiation, TurnInv, Inv, TypeOK, Idle, Start, StartsOK
<1>2. StartsOK'
  BY <1>1 DEF TurnInv, Inv, TypeOK, StartsOK
<1>3. CASE UNCHANGED <<session, activeNegotiations>>
  BY <1>1, <1>2, <1>3, NothingTurns
<1>4. ASSUME NEW s \in Sessions, session[s] = Unused,
             activeNegotiations[start[h].negId] = None,
             session' = [session EXCEPT ![s] =
               [negId |-> start[h].negId, activeAgent |-> start[h].first,
                opponentAgent |-> start[h].second, round |-> 1,
                status |-> "NEGOTIATING"]],
             activeNegotiations' = [activeNegotiations EXCEPT ![start[h].negId] = s]
      PROVE  TurnInv'
  <2>1. \A x \in Sessions : x # s => session'[x] = session[x]
    BY <1>4 DEF TurnInv, Inv, TypeOK
  <2>2. /\ session'[s] # Unused /\ session'[s].negId = start[h].negId
        /\ session'[s].activeAgent # session'[s].opponentAgent
        /\ session'[s].round = 1
    BY <1>1, <1>4 DEF TurnInv, Inv, TypeOK, Unused
  <2>3. \A n \in NegIds :
          activeNegotiations'[n] = IF n = start[h].negId THEN s ELSE activeNegotiations[n]
    BY <1>4 DEF TurnInv, Inv, TypeOK
  <2>4. Grows
    BY <1>1, <1>4, <2>1 DEF Grows, SessionKept, Participants, historyVars
  <2>5. MapMatches'
    <3> SUFFICES ASSUME NEW n \in NegIds, activeNegotiations'[n] # None
                 PROVE  session'[activeNegotiations'[n]].negId = n
      BY DEF MapMatches
    <3>1. CASE n = start[h].negId
      BY <2>2, <2>3, <3>1
    <3>2. CASE n # start[h].negId
      <4>1. /\ activeNegotiations'[n] = activeNegotiations[n]
            /\ activeNegotiations[n] \in Sessions \ {s}
            /\ session[activeNegotiations[n]].negId = n
        BY <1>4, <2>3, <3>2 DEF TurnInv, Inv, TypeOK, MapOK, MapMatches
      <4> QED
        BY <2>1, <4>1
    <3> QED
      BY <3>1, <3>2
  <2>6. OneHandler'
    BY <1>1 DEF TurnInv, OneHandler
  <2>7. \A d \in Calls : call'[d] = call[d] /\ (call[d] # Idle => call[d].sess # s)
    BY <1>1, <1>4 DEF TurnInv, Inv, HandlersOK, HandlerOK
  <2>8. \A n \in NegIds :
          activeNegotiations'[n] # activeNegotiations[n]
            => activeNegotiations[n] \in {None, s}
    BY <1>4, <2>3
  <2>9. SeatsOK(s)'
    BY <1>1, <2>2, <2>3, ConstantsAssumption DEF SeatsOK, Reachable
  <2>10. \A r \in rounds' : r.sess # s
    BY <1>1, <1>4 DEF TurnInv, SessionsOK, RowOK
  <2>11. \A x \in settlements' : x.sess # s
    BY <1>1, <1>4 DEF TurnInv, SessionsOK, SettlementOK, Unused
  <2> QED
    BY <1>1, <1>2, <2>1, <2>4, <2>5, <2>6, <2>7, <2>8, <2>9, <2>10, <2>11, OthersStand
<1> QED
  BY <1>3, <1>4 DEF OpenNegotiation

(***************************************************************************)
(* After a crash no session can be acted on, and what was settled stays    *)
(* settled.                                                                *)
(***************************************************************************)
LEMMA CrashTurn ==
  ASSUME TurnInv, Inv', Crash
  PROVE  TurnInv'
<1>1. /\ activeNegotiations' = [n \in NegIds |-> None]
      /\ start' = [h \in Starts |-> Idle] /\ call' = [c \in Calls |-> Idle]
      /\ UNCHANGED <<rounds, settlements, historyVars>>
  BY DEF Crash, dbVars
<1>2. OneHandler' /\ MapMatches' /\ StartsOK' /\ HandlersTurn'
  BY <1>1 DEF OneHandler, MapMatches, StartsOK, HandlersTurn, HandlerTurn
<1>3. ASSUME NEW s \in Sessions, session[s] # Unused
      PROVE  /\ session'[s].status = "LOST"
             /\ session'[s] # Unused
             /\ session'[s].round = session[s].round
             /\ session'[s].activeAgent = session[s].activeAgent
             /\ session'[s].opponentAgent = session[s].opponentAgent
  <2>1. session[s] \in Session
    BY <1>3 DEF TurnInv, Inv, TypeOK
  <2>2. session'[s] = [session[s] EXCEPT !.status = "LOST"]
    BY <1>3 DEF Crash
  <2> QED
    BY <2>1, <2>2 DEF Session, Unused
<1>4. ASSUME NEW s \in Sessions PROVE SeatsOK(s)'
  <2>1. CASE session[s] = Unused
    BY <2>1 DEF Crash, SeatsOK
  <2>2. CASE session[s] # Unused
    BY <1>3, <2>2 DEF TurnInv, SessionsOK, SeatsOK
  <2> QED
    BY <2>1, <2>2
<1>5. ASSUME NEW r \in rounds' PROVE RowOK(r)'
  <2>1. r \in rounds /\ r.sess \in Sessions /\ RowOK(r)
    BY <1>1 DEF TurnInv, Inv, TypeOK, Round, SessionsOK
  <2>2. session[r.sess] # Unused
    BY <2>1 DEF RowOK
  <2> QED
    BY <1>1, <1>3, <2>1, <2>2 DEF RowOK
<1>6. ASSUME NEW x \in settlements' PROVE SettlementOK(x)'
  <2>1. x \in settlements /\ x.sess \in Sessions /\ SettlementOK(x)
    BY <1>1 DEF TurnInv, Inv, TypeOK, Settlement, SessionsOK
  <2>2. session[x.sess] # Unused
    BY <2>1 DEF SettlementOK, Unused
  <2>3. BothChecked(x.sess, x.terms)'
    BY <1>1, <1>3, <2>1, <2>2 DEF SettlementOK, BothChecked, Participants, historyVars
  <2> QED
    BY <1>1, <1>3, <2>1, <2>2, <2>3 DEF SettlementOK
<1> QED
  BY <1>2, <1>4, <1>5, <1>6 DEF TurnInv, SessionsOK

LEMMA OwnersTurn ==
  ASSUME TurnInv, Inv', NEW m \in Microgrids,
         SetPreferences(m) \/ Suspend(m) \/ LeaveSuspension(m)
  PROVE  TurnInv'
<1>1. UNCHANGED <<brokerVars, dbVars, historyVars>>
  BY DEF SetPreferences, Suspend, LeaveSuspension
<1>2. StartsOK'
  BY <1>1 DEF TurnInv, StartsOK, brokerVars
<1> QED
  BY <1>1, <1>2, NothingTurns DEF brokerVars, dbVars

LEMMA TurnStep ==
  ASSUME TurnTaking
  PROVE  TurnInv /\ [Next]_vars => TurnInv'
<1> SUFFICES ASSUME TurnInv, [Next]_vars PROVE TurnInv'
  OBVIOUS
<1>0. Inv'
  BY InvStep DEF TurnInv
<1>1. ASSUME NEW h \in Starts, NEW n \in NegIds, NEW a \in Agents,
             NEW b \in Agents, BeginStart(h, n, a, b)
      PROVE  TurnInv'
  BY <1>0, <1>1, StartTurn
<1>2. ASSUME NEW h \in Starts, StartStep(h) \/ FailStart(h)
      PROVE  TurnInv'
  BY <1>0, <1>2, StartTurn, OpenTurn DEF StartStep
<1>3. ASSUME NEW c \in Calls, NEW n \in NegIds, NEW a \in Agents,
             NEW action \in Actions, NEW t \in Terms \cup {None},
             BeginAction(c, n, a, action, t)
      PROVE  TurnInv'
  BY <1>0, <1>3, BeginActionTurn
<1>4. ASSUME NEW c \in Calls, ActionStep(c) PROVE TurnInv'
  BY <1>0, <1>4, ValidateActiveTurn, ValidateOpponentTurn, ApplyAcceptTurn,
     ApplyWalkAwayTurn, ApplyCounterOfferTurn, CommittingMoves, GatePassesTurn,
     CommitTurn, OutcomeTurn DEF ActionStep
<1>5. ASSUME NEW c \in Calls, FaultStep(c) PROVE TurnInv'
  BY <1>0, <1>5, FailClosedTurn, CommittingMoves, CommitTurn, OutcomeTurn DEF FaultStep
<1>6. ASSUME NEW m \in Microgrids,
             SetPreferences(m) \/ Suspend(m) \/ LeaveSuspension(m)
      PROVE  TurnInv'
  BY <1>0, <1>6, OwnersTurn
<1>7. CASE UNCHANGED vars
  <2>1. StartsOK'
    BY <1>7 DEF TurnInv, StartsOK, vars, brokerVars
  <2> QED
    BY <1>0, <1>7, <2>1, NothingTurns DEF vars, brokerVars, dbVars
<1>8. Suspendable \subseteq Microgrids
  BY ConstantsAssumption
<1> QED
  BY <1>0, <1>1, <1>2, <1>3, <1>4, <1>5, <1>6, <1>7, <1>8, CrashTurn DEF Next

LEMMA TurnAlways ==
  ASSUME TurnTaking
  PROVE  Spec => []TurnInv
BY TurnInvInit, TurnStep, PTL DEF Spec
-----------------------------------------------------------------------------
(***************************************************************************)
(* When agents take turns, a session settles at most once, under the id    *)
(* and the round of the ACCEPT row it stored, whatever crashes or answers  *)
(* late (commitSettlement).                                                *)
(***************************************************************************)
THEOREM SessionsSettleOnce ==
  ASSUME TurnTaking
  PROVE  Spec => []SettledOnce
<1>1. TurnInv => SettledOnce
  BY DEF TurnInv, SessionsOK, SettlementOK, SettledOnce
<1> QED
  BY <1>1, TurnAlways, PTL

(***************************************************************************)
(* When agents take turns, the limits of both owners of a session have     *)
(* admitted the terms it settles (agent_action asks the opponent of an     *)
(* ACCEPT too), although either may change them in between.                *)
(***************************************************************************)
THEOREM BothOwnersAgreed ==
  ASSUME TurnTaking
  PROVE  Spec => []OwnersAgreed
<1>1. TurnInv => OwnersAgreed
  BY DEF TurnInv, SessionsOK, SettlementOK, BothChecked, OwnersAgreed
<1> QED
  BY <1>1, TurnAlways, PTL

(***************************************************************************)
(* When agents take turns, the stored rounds of a session alternate        *)
(* between its agents, within MAX_ROUNDS, also when the answer to the      *)
(* insertion of a row is lost and its agent acts again.                    *)
(***************************************************************************)
THEOREM OffersAlternate ==
  ASSUME TurnTaking
  PROVE  Spec => []AlternatingOffers
<1>1. TurnInv => AlternatingOffers
  BY DEF TurnInv, SessionsOK, RowOK, AlternatingOffers
<1> QED
  BY <1>1, TurnAlways, PTL

(***************************************************************************)
(* When agents take turns, every negotiation that accepts actions or has a *)
(* handler in flight is found in the map: no handler removes the entry of  *)
(* another session and no start overwrites one.                            *)
(***************************************************************************)
THEOREM NoneOrphaned ==
  ASSUME TurnTaking
  PROVE  Spec => []NoOrphan
<1>1. TurnInv => NoOrphan
  <2> SUFFICES ASSUME TurnInv, NEW s \in Sessions,
                      session[s].status = "NEGOTIATING" \/ InFlight(s) # {}
               PROVE  InMap(s)
    BY DEF NoOrphan
  <2>1. session[s] # Unused /\ Reachable(s)
    <3>1. CASE session[s].status = "NEGOTIATING"
      BY <3>1 DEF TurnInv, SessionsOK, SeatsOK, Unused
    <3>2. CASE InFlight(s) # {}
      BY <3>2 DEF InFlight, TurnInv, Inv, HandlersOK, HandlerOK, HandlersTurn, HandlerTurn
    <3> QED
      BY <3>1, <3>2
  <2>2. session[s].negId \in NegIds
    BY <2>1 DEF TurnInv, Inv, TypeOK, Session
  <2> QED
    BY <2>1, <2>2 DEF InMap, Reachable
<1> QED
  BY <1>1, TurnAlways, PTL
=============================================================================
