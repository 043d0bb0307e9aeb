---------------------------- MODULE TurnDelivery ------------------------------
(***************************************************************************)
(* How one agent is told its turns and answers them: the sockets and the   *)
(* turn notifications of negotiate.ts, the runner of a provisioned owner's *)
(* agent (agentRuntimeService.ts), and a second client with the same agent *)
(* id, such as demoTradeCoordinator.ts opens.  The opponent answers at     *)
(* once; what an agent decides is OwnerBargaining's subject.               *)
(*                                                                         *)
(* A client keeps one socket object through its reconnections.  Each       *)
(* connection is a session of its own, with an id of its own, at the       *)
(* broker; the broker may notice later than the client that one is lost.   *)
(***************************************************************************)
EXTENDS Integers, FiniteSets, FiniteSetsExt

CONSTANTS
  Objects,     \* bound: socket objects created in a behaviour, numbered
  MaxSessions, \* bound: connections made in a behaviour
  MaxTurns,    \* bound: rounds of the negotiation
  MaxStops     \* bound: calls of stop()

ASSUME TurnAssumption ==
  Objects \subseteq Nat \ {0} /\ MaxSessions \in Nat /\ MaxTurns \in Nat \ {0}

VARIABLES
  sockets,     \* the client's socket objects
  sessions,    \* connections the broker holds open: <<object, session>>
  opened,      \* connections so far
  registered,  \* connectedAgents.get(agentId): a session, 0 for none
  turn,        \* the NegotiationState, as far as turns go; due: its notifyTurn
               \* has not run yet
  runner,      \* the ProvisionedOwnerAgentRunner
  deciding,    \* handleTurn calls in flight: <<object, round>>
  answers,     \* agent_action messages of an object, sent or buffered
  mistaken,    \* history: an action was taken for another round than its own
  lost         \* history: a turn or an answer was lost or refused

brokerVars == <<sessions, opened, registered, turn, mistaken>>
clientVars == <<sockets, runner, deciding, answers>>
turnVars == <<brokerVars, clientVars, lost>>

NoSocket == [by |-> "none", net |-> "closed", session |-> 0, greets |-> FALSE]
Live == {"connecting", "up", "reconnecting"}

TurnInit ==
  /\ sockets = [o \in Objects |-> NoSocket]
  /\ sessions = {} /\ opened = 0 /\ registered = 0
  /\ turn = [round |-> 0, mine |-> FALSE, due |-> FALSE, over |-> FALSE]
  /\ runner = [running |-> FALSE, reading |-> 0, socket |-> 0, stops |-> 0]
  /\ deciding = {} /\ answers = {}
  /\ mistaken = FALSE /\ lost = FALSE

-------------------------------------------------------------------------------
(* The runner.                                                             *)
Unused == {o \in Objects : sockets[o].by = "none"}
NewSocket(by) ==
  /\ Unused # {}
  /\ sockets' = [sockets EXCEPT ![Min(Unused)] = [NoSocket EXCEPT !.by = by, !.net = "connecting"]]

(* start() does nothing while isRunning; then it reads the context.        *)
StartRunner ==
  /\ ~runner.running
  /\ runner' = [runner EXCEPT !.running = TRUE, !.reading = @ + 1]
  /\ UNCHANGED <<brokerVars, sockets, deciding, answers, lost>>

(* The context is there: a suspended owner, disabled trading or an error   *)
(* is thrown, with isRunning left as it is; otherwise the agent connects,  *)
(* unless it has been stopped meanwhile.                                   *)
ContextRead ==
  /\ runner.reading > 0
  /\ \/ /\ runner.running /\ NewSocket("runner")
        /\ runner' = [runner EXCEPT !.reading = @ - 1, !.socket = Min(Unused)]
     \/ /\ runner' = [runner EXCEPT !.reading = @ - 1] /\ UNCHANGED sockets
  /\ UNCHANGED <<brokerVars, deciding, answers, lost>>

(* stop(): what the closed socket had not sent is dropped.                 *)
StopRunner ==
  /\ runner.running /\ runner.stops < MaxStops
  /\ runner' = [runner EXCEPT !.running = FALSE, !.socket = 0, !.stops = @ + 1]
  /\ sockets' = IF runner.socket = 0 THEN sockets
                ELSE [sockets EXCEPT ![runner.socket].net = "closed"]
  /\ answers' = {m \in answers : m[1] # runner.socket}
  /\ lost' = (lost \/ answers' # answers)
  /\ UNCHANGED <<brokerVars, deciding>>

(* The demo coordinator connects as the agent, and disconnects when its    *)
(* trade ends or its two minutes are over.                                 *)
DemoConnects ==
  /\ \A o \in Objects : sockets[o].by # "demo"
  /\ NewSocket("demo")
  /\ UNCHANGED <<brokerVars, runner, deciding, answers, lost>>

DemoLeaves(o) ==
  /\ sockets[o].by = "demo" /\ sockets[o].net # "closed"
  /\ sockets' = [sockets EXCEPT ![o].net = "closed"]
  /\ answers' = {m \in answers : m[1] # o}
  /\ lost' = (lost \/ answers' # answers)
  /\ UNCHANGED <<brokerVars, runner, deciding>>

-------------------------------------------------------------------------------
(* Connections.  The handshake carries the token the object was made with. *)
Connect(o) ==
  /\ sockets[o].net \in {"connecting", "reconnecting"} /\ opened < MaxSessions
  /\ opened' = opened + 1
  /\ sockets' = [sockets EXCEPT ![o].net = "up", ![o].session = opened', ![o].greets = TRUE]
  /\ sessions' = sessions \cup {<<o, opened'>>}
  /\ registered' = opened'
  /\ UNCHANGED <<turn, runner, deciding, answers, mistaken, lost>>

(* A token older than 15 minutes is refused by the namespace middleware,   *)
(* or five attempts have failed: the client does not try again.            *)
ReconnectRefused(o) ==
  /\ sockets[o].net \in {"connecting", "reconnecting"}
  /\ sockets' = [sockets EXCEPT ![o].net = "refused"]
  /\ UNCHANGED <<brokerVars, runner, deciding, answers, lost>>

(* The client's side of a lost connection; it reconnects by itself.        *)
DropConnection(o) ==
  /\ sockets[o].net = "up"
  /\ sockets' = [sockets EXCEPT ![o].net = "reconnecting", ![o].session = 0,
                                ![o].greets = FALSE]
  /\ UNCHANGED <<brokerVars, runner, deciding, answers, lost>>

(* Mutant: whoever registers is told of a turn that waits for it.          *)
RegisterAndRemind(o) ==
  /\ sockets[o].net = "up" /\ sockets[o].greets
  /\ sockets' = [sockets EXCEPT ![o].greets = FALSE]
  /\ registered' = sockets[o].session
  /\ deciding' = IF turn.mine THEN deciding \cup {<<o, turn.round>>} ELSE deciding
  /\ UNCHANGED <<sessions, opened, turn, runner, answers, mistaken, lost>>

(* "register_agent", sent once on "connect", arrives: the last to arrive   *)
(* is registered, which need not be the newest connection.                 *)
RegisterAgent(o) ==
  /\ sockets[o].net = "up" /\ sockets[o].greets
  /\ sockets' = [sockets EXCEPT ![o].greets = FALSE]
  /\ registered' = sockets[o].session
  /\ UNCHANGED <<sessions, opened, turn, runner, deciding, answers, mistaken, lost>>

(* The broker's side: "disconnect" removes the entry of that session only. *)
SessionEnds ==
  /\ \E s \in sessions :
       /\ sockets[s[1]].net # "up" \/ sockets[s[1]].session # s[2]
       /\ sessions' = sessions \ {s}
       /\ registered' = IF registered = s[2] THEN 0 ELSE registered
  /\ UNCHANGED <<clientVars, opened, turn, mistaken, lost>>

-------------------------------------------------------------------------------
(* Turns.                                                                  *)
StartNegotiation ==
  /\ turn.round = 0
  /\ \E mine \in BOOLEAN :
       turn' = [round |-> 1, mine |-> mine, due |-> mine, over |-> FALSE]
  /\ UNCHANGED <<clientVars, sessions, opened, registered, mistaken, lost>>

(* notifyTurn sends your_turn once, to the socket registered now.  The     *)
(* client that is on that session starts to decide; nobody registered, or  *)
(* a session its client has left, and the turn is lost.                    *)
NotifyTurn ==
  /\ turn.due
  /\ turn' = [turn EXCEPT !.due = FALSE]
  /\ LET at == {o \in Objects : sockets[o].net = "up" /\ sockets[o].session = registered} IN
       /\ deciding' = deciding \cup {<<o, turn.round>> : o \in at}
       /\ lost' = (lost \/ at = {})
  /\ UNCHANGED <<sessions, opened, registered, mistaken, sockets, runner, answers>>

(* The decision is made.  The runner emits it on the socket it has now,    *)
(* which is none when it was stopped; a client that is reconnecting        *)
(* buffers it.  The demo's client emits on its own.                        *)
EmitAnswer ==
  /\ \E d \in deciding :
       LET on == IF sockets[d[1]].by = "runner" THEN runner.socket ELSE d[1]
           sent == on # 0 /\ sockets[on].net \in Live IN
       /\ deciding' = deciding \ {d}
       /\ answers' = IF sent THEN answers \cup {<<on, d[2]>>} ELSE answers
       /\ lost' = (lost \/ ~sent)
  /\ UNCHANGED <<brokerVars, sockets, runner>>

(* agent_action arrives.  It names the negotiation and no round: the       *)
(* broker takes it when it is this agent's turn.  A refused action leaves  *)
(* the turn where it is, and the agent is not told again.                  *)
ReceiveAnswer ==
  /\ \E m \in answers :
       /\ sockets[m[1]].net = "up"
       /\ answers' = answers \ {m}
       /\ IF ~turn.mine \/ turn.over
          THEN UNCHANGED <<turn, mistaken, lost>>
          ELSE \/ /\ lost' = TRUE /\ UNCHANGED <<turn, mistaken>>
               \/ /\ turn' \in {[turn EXCEPT !.mine = FALSE, !.round = @ + 1],
                                [turn EXCEPT !.over = TRUE]}
                  /\ mistaken' = (mistaken \/ m[2] # turn.round)
                  /\ UNCHANGED lost
  /\ UNCHANGED <<sockets, sessions, opened, registered, runner, deciding>>

(* A message of a socket that has been refused is never sent.              *)
LoseAnswer ==
  /\ \E m \in answers : sockets[m[1]].net = "refused" /\ answers' = answers \ {m}
  /\ lost' = TRUE
  /\ UNCHANGED <<brokerVars, sockets, runner, deciding>>

(* Mutant: a counter-offer schedules no notification.                      *)
OpponentActsSilently ==
  /\ turn.round > 0 /\ ~turn.mine /\ ~turn.over
  /\ \/ /\ turn.round < MaxTurns
        /\ turn' = [turn EXCEPT !.mine = TRUE, !.round = @ + 1]
     \/ turn' = [turn EXCEPT !.over = TRUE]
  /\ UNCHANGED <<clientVars, sessions, opened, registered, mistaken, lost>>

(* The opponent counters, which schedules this agent's notification 600 ms *)
(* later, or ends the negotiation.                                         *)
OpponentActs ==
  /\ turn.round > 0 /\ ~turn.mine /\ ~turn.over
  /\ \/ /\ turn.round < MaxTurns
        /\ turn' = [turn EXCEPT !.mine = TRUE, !.due = TRUE, !.round = @ + 1]
     \/ turn' = [turn EXCEPT !.over = TRUE]
  /\ UNCHANGED <<clientVars, sessions, opened, registered, mistaken, lost>>

TurnNext ==
  \/ StartRunner \/ ContextRead \/ StopRunner \/ DemoConnects
  \/ \E o \in Objects : \/ DemoLeaves(o) \/ Connect(o) \/ ReconnectRefused(o)
                        \/ DropConnection(o) \/ RegisterAgent(o)
  \/ SessionEnds \/ StartNegotiation \/ NotifyTurn \/ EmitAnswer
  \/ ReceiveAnswer \/ LoseAnswer \/ OpponentActs

TurnSpec == TurnInit /\ [][TurnNext]_turnVars

-------------------------------------------------------------------------------
TurnTypeOK ==
  /\ sockets \in [Objects -> [by : {"none", "runner", "demo"},
                              net : Live \cup {"refused", "closed"},
                              session : 0 .. MaxSessions, greets : BOOLEAN]]
  /\ sessions \subseteq Objects \X (1 .. MaxSessions)
  /\ registered \in 0 .. MaxSessions
  /\ turn.round \in 0 .. MaxTurns + 1
  /\ runner.reading \in Nat /\ runner.socket \in Objects \cup {0}

(* negotiate.ts:667-690.  A negotiation waits for this agent, with nothing *)
(* under way, only after a turn or an answer was lost or refused: turns    *)
(* are told once and never again, and nothing else makes one stall.        *)
StallNeedsLoss ==
  turn.mine /\ ~turn.over /\ ~turn.due /\ deciding = {} /\ answers = {} => lost

(* agent_action carries no round.  That an action is taken for the round   *)
(* it was decided for rests on every turn being told once: across          *)
(* reconnections, buffered messages and two clients of one agent.          *)
AnswersFitTheirRound == ~mistaken
===============================================================================
