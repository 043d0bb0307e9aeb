----------------------------- MODULE AgentProofs ------------------------------
(***************************************************************************)
(* The owners' agents, proved for every value of the constants: what two   *)
(* strategies agree on (OwnerBargaining), and how turns are told and       *)
(* answered (TurnDelivery).                                                *)
(*                                                                         *)
(* TurnDelivery: each turn is told once, to at most one client, so that at *)
(* most one decision or answer is under way, and it is of the current      *)
(* round (ToldOnce).  That rests on no two clients being on one session    *)
(* (SessionsApart).                                                        *)
(*                                                                         *)
(* OwnerBargaining: while no limit changes, what is sent is what the       *)
(* strategy decides on the state it finds (PendingIsDecided), what is on   *)
(* the table is within the limits of the one who put it there              *)
(* (OfferIsOfOther), and when the limits meet there are three possible     *)
(* tables, one a round (OffersClose).                                      *)
(***************************************************************************)
EXTENDS OwnerBargaining, TurnDelivery, WellFoundedInduction, TLAPS

-------------------------------------------------------------------------------
SocketRecord ==
  [by : {"none", "runner", "demo"}, net : Live \cup {"refused", "closed"},
   session : 0 .. MaxSessions, greets : BOOLEAN]
TurnRecord ==
  [round : 0 .. MaxTurns + 1, mine : BOOLEAN, due : BOOLEAN, over : BOOLEAN]
RunnerRecord ==
  [running : BOOLEAN, reading : Nat, socket : Objects \cup {0}, stops : Nat]

BrokerTyped ==
  /\ sessions \subseteq Objects \X (1 .. MaxSessions)
  /\ opened \in 0 .. MaxSessions /\ registered \in 0 .. MaxSessions
MessagesTyped == deciding \subseteq Objects \X Nat /\ answers \subseteq Objects \X Nat
TurnTyped ==
  /\ sockets \in [Objects -> SocketRecord]
  /\ BrokerTyped /\ MessagesTyped
  /\ turn \in TurnRecord /\ (turn.mine => turn.round \in 1 .. MaxTurns)
  /\ runner \in RunnerRecord
  /\ lost \in BOOLEAN /\ mistaken \in BOOLEAN

SessionsApart ==
  /\ \A o \in Objects : sockets[o].session <= opened
                        /\ (sockets[o].net = "up" => sockets[o].session > 0)
  /\ \A o, p \in Objects : sockets[o].net = "up" /\ sockets[p].net = "up"
                           /\ sockets[o].session = sockets[p].session => o = p

ToldOnce ==
  /\ turn.due => turn.mine /\ ~turn.over
  /\ ~turn.mine \/ turn.due \/ turn.over => deciding = {} /\ answers = {}
  /\ \A d \in deciding \cup answers : d[2] = turn.round
  /\ deciding = {} \/ answers = {}
  /\ \A d, e \in deciding \cup answers : d = e

TurnInv == TurnTyped /\ SessionsApart /\ ToldOnce /\ StallNeedsLoss /\ AnswersFitTheirRound

-------------------------------------------------------------------------------
Actions == [action : {"WALK_AWAY", "ACCEPT", "COUNTER_OFFER"},
            price : Int \cup {Null}, kwh : Int \cup {Null}]
TableStatuses == {"none", "open", "accepted", "walked", "max_rounds", "stalled"}
TableRecord == [active : Seats, round : 1 .. BargainRounds + 1, price : Int \cup {Null},
                kwh : Int \cup {Null}, status : TableStatuses]

BargainTyped ==
  /\ types \in TypePairs \cup {Null} /\ edits \in 0 .. MaxEdits
  /\ limits \in [Seats -> Limits] \cup {Null}
  /\ bargain \in TableRecord
  /\ bargain.status # "none" => limits \in [Seats -> Limits]
  /\ bargain.status = "none" => bargain.round = 1 /\ bargain.active = 1 /\ bargain.price = Null
  /\ bargain.status = "open" => bargain.round <= BargainRounds
  /\ bargain.price = Null <=> bargain.kwh = Null
  /\ bargain.status = "accepted" => bargain.price # Null
  /\ pending # Null => /\ bargain.status = "open" /\ pending \in Actions
                       /\ pending.price = Null <=> pending.kwh = Null
                       /\ pending.price = Null <=> pending.action = "WALK_AWAY"

PendingIsDecided ==
  pending # Null /\ edits = 0 => pending \in {Decision(bargain.active), WalkAway}

(* Offer o of seat i is one its strategy makes and its limits allow.       *)
OfferedBy(i, o) ==
  /\ o.price >= 0 /\ o.kwh > 0
  /\ SatisfiedFor(i, o)
  /\ IF SellsAtRuntime(i) THEN o.price >= Default(limits[i].minSale, 5)
                          ELSE o.price <= Default(limits[i].maxBuy, 35)
  /\ o.kwh <= Default(limits[i].maxKwh, 100)

OfferIsOfOther ==
  bargain.status = "open" /\ edits = 0 /\ bargain.price # Null =>
    OfferedBy(Other(bargain.active), bargain)

OffersClose ==
  bargain.status \in {"open", "max_rounds"} /\ edits = 0 /\ Matched
    /\ limits[1].enabled /\ limits[2].enabled /\ Floor <= Ceiling =>
    /\ bargain.status = "open"
    /\ \/ bargain.round = 1 /\ bargain.active = 1 /\ bargain.price = Null
       \/ /\ bargain.round = 2 /\ bargain.active = 2
          /\ bargain.price = IF SellsAtRuntime(1) THEN Floor + 2 ELSE Ceiling - 2
       \/ /\ bargain.round = 3 /\ bargain.active = 1
          /\ bargain.price = IF SellsAtRuntime(1) THEN Floor ELSE Ceiling

BargainInv ==
  BargainTyped /\ PendingIsDecided /\ OfferIsOfOther /\ OffersClose /\ DealWithinLimits

-------------------------------------------------------------------------------
(* The number of the next socket object is that of an unused one.          *)
LEMMA LeastNatural ==
  ASSUME NEW S \in SUBSET Nat, S # {}
  PROVE  Min(S) \in S
<1>1. PICK x \in S : \A y \in S : <<y, x>> \notin OpToRel(<, Nat)
  BY NatLessThanWellFounded, WFMin, Zenon
<1>2. \A y, z \in Nat : y < z => <<y, z>> \in OpToRel(<, Nat)
  BY Zenon DEF OpToRel
<1>3. \A y \in S : ~ (y < x)
  BY <1>1, <1>2, Zenon
<1>4. \E z \in S : \A y \in S : z <= y
  BY <1>3
<1>5. QED  BY <1>4 DEF Min

LEMMA NextSocket == Unused # {} => Min(Unused) \in Unused /\ Min(Unused) \in Objects
<1>1. Unused \in SUBSET Nat  BY TurnAssumption DEF Unused
<1>2. QED  BY <1>1, LeastNatural DEF Unused

LEMMA TurnStarts == TurnInit => TurnInv
<1> SUFFICES ASSUME TurnInit PROVE TurnInv  OBVIOUS
<1> USE TurnAssumption DEF TurnInit, NoSocket
<1>1. TurnTyped
  <2>1. turn \in TurnRecord /\ ~turn.mine  BY DEF TurnRecord
  <2>2. runner \in RunnerRecord  BY DEF RunnerRecord
  <2>3. sockets \in [Objects -> SocketRecord]  BY DEF SocketRecord, Live
  <2>4. BrokerTyped /\ MessagesTyped  BY DEF BrokerTyped, MessagesTyped
  <2>5. lost \in BOOLEAN /\ mistaken \in BOOLEAN  OBVIOUS
  <2> HIDE DEF TurnInit
  <2>6. QED  BY <2>1, <2>2, <2>3, <2>4, <2>5, Zenon DEF TurnTyped
<1>2. SessionsApart  BY DEF SessionsApart
<1>3. ToldOnce /\ StallNeedsLoss /\ AnswersFitTheirRound
  BY DEF ToldOnce, StallNeedsLoss, AnswersFitTheirRound
<1>4. QED  BY <1>1, <1>2, <1>3 DEF TurnInv

-------------------------------------------------------------------------------
(* What happens to the sockets keeps their type.                           *)
LEMMA NewSocketTyped ==
  ASSUME sockets \in [Objects -> SocketRecord], NEW by \in {"runner", "demo"}, NewSocket(by)
  PROVE  sockets' \in [Objects -> SocketRecord]
<1>1. NoSocket \in SocketRecord  BY TurnAssumption DEF NoSocket, SocketRecord
<1>2. \A r \in SocketRecord : [r EXCEPT !.by = by, !.net = "connecting"] \in SocketRecord
  BY DEF SocketRecord, Live
<1>3. Min(Unused) \in Objects  BY NextSocket DEF NewSocket
<1>4. QED  BY <1>1, <1>2, <1>3 DEF NewSocket

LEMMA SocketsTyped ==
  ASSUME TurnTyped, TurnNext PROVE sockets' \in [Objects -> SocketRecord]
<1> USE TurnAssumption
<1>1. sockets \in [Objects -> SocketRecord]  BY DEF TurnTyped
<1>2. opened \in 0 .. MaxSessions  BY DEF TurnTyped, BrokerTyped
<1>3. CASE ContextRead  BY <1>1, <1>3, NewSocketTyped DEF ContextRead
<1>4. CASE DemoConnects  BY <1>1, <1>4, NewSocketTyped DEF DemoConnects
<1>5. CASE StopRunner
  <2>1. runner.socket \in Objects \cup {0}  BY DEF TurnTyped, RunnerRecord
  <2>2. QED  BY <1>1, <1>5, <2>1 DEF StopRunner, SocketRecord
<1>6. ASSUME NEW o \in Objects, DemoLeaves(o) PROVE sockets' \in [Objects -> SocketRecord]
  BY <1>1, <1>6 DEF DemoLeaves, SocketRecord
<1>7. ASSUME NEW o \in Objects, Connect(o) PROVE sockets' \in [Objects -> SocketRecord]
  <2>1. opened' \in 0 .. MaxSessions  BY <1>2, <1>7 DEF Connect
  <2>2. sockets[o] \in SocketRecord  BY <1>1
  <2>3. [sockets[o] EXCEPT !.net = "up", !.session = opened', !.greets = TRUE] \in SocketRecord
    BY <2>1, <2>2 DEF SocketRecord, Live
  <2>4. sockets' = [sockets EXCEPT ![o] = [sockets[o] EXCEPT !.net = "up", !.session = opened',
                                                             !.greets = TRUE]]
    BY <1>1, <1>7 DEF Connect
  <2>5. QED  BY <1>1, <2>3, <2>4
<1>8. ASSUME NEW o \in Objects, ReconnectRefused(o) PROVE sockets' \in [Objects -> SocketRecord]
  BY <1>1, <1>8 DEF ReconnectRefused, SocketRecord
<1>9. ASSUME NEW o \in Objects, DropConnection(o) PROVE sockets' \in [Objects -> SocketRecord]
  <2>1. sockets[o] \in SocketRecord  BY <1>1
  <2>2. [sockets[o] EXCEPT !.net = "reconnecting", !.session = 0, !.greets = FALSE]
          \in SocketRecord
    <3>1. 0 \in 0 .. MaxSessions /\ "reconnecting" \in Live  BY TurnAssumption DEF Live
    <3>2. QED  BY <2>1, <3>1 DEF SocketRecord
  <2>3. sockets' = [sockets EXCEPT ![o] = [sockets[o] EXCEPT !.net = "reconnecting",
                                                             !.session = 0, !.greets = FALSE]]
    BY <1>1, <1>9 DEF DropConnection
  <2>4. QED  BY <1>1, <2>2, <2>3
<1>10. ASSUME NEW o \in Objects, RegisterAgent(o) PROVE sockets' \in [Objects -> SocketRecord]
  BY <1>1, <1>10, ZenonT(40) DEF RegisterAgent, SocketRecord
<1>11. CASE UNCHANGED sockets  BY <1>1, <1>11
<1>12. QED
  BY <1>3, <1>4, <1>5, <1>6, <1>7, <1>8, <1>9, <1>10, <1>11, Zenon
  DEF TurnNext, StartRunner, SessionEnds, StartNegotiation, NotifyTurn, EmitAnswer,
      ReceiveAnswer, LoseAnswer, OpponentActs, clientVars

-------------------------------------------------------------------------------
(* The rest of the state keeps its type.                                   *)
LEMMA BrokerTypedStep ==
  ASSUME TurnTyped, TurnNext PROVE BrokerTyped'
<1> USE TurnAssumption
<1>1. BrokerTyped  BY DEF TurnTyped
<1>2. ASSUME NEW o \in Objects, Connect(o) PROVE BrokerTyped'
  BY <1>1, <1>2 DEF Connect, BrokerTyped
<1>3. ASSUME NEW o \in Objects, RegisterAgent(o) PROVE BrokerTyped'
  <2>1. sockets[o].session \in 0 .. MaxSessions  BY DEF TurnTyped, SocketRecord
  <2>2. QED  BY <1>1, <1>3, <2>1 DEF RegisterAgent, BrokerTyped
<1>4. CASE SessionEnds  BY <1>1, <1>4 DEF SessionEnds, BrokerTyped
<1>5. CASE UNCHANGED <<sessions, opened, registered>>  BY <1>1, <1>5 DEF BrokerTyped
<1>6. QED
  BY <1>2, <1>3, <1>4, <1>5
  DEF TurnNext, StartRunner, ContextRead, StopRunner, DemoConnects, DemoLeaves, ReconnectRefused,
      DropConnection, StartNegotiation, NotifyTurn, EmitAnswer, ReceiveAnswer, LoseAnswer,
      OpponentActs, brokerVars, clientVars

LEMMA RunnerTypedStep ==
  ASSUME TurnTyped, TurnNext PROVE runner' \in RunnerRecord
<1>1. runner \in RunnerRecord  BY DEF TurnTyped
<1>a. runner.reading \in Nat  BY <1>1 DEF RunnerRecord
<1>2. CASE StartRunner
  <2>1. runner.reading + 1 \in Nat  BY <1>a
  <2>2. runner' = [runner EXCEPT !.running = TRUE, !.reading = runner.reading + 1]
    BY <1>2 DEF StartRunner
  <2>3. QED  BY <1>1, <2>1, <2>2 DEF RunnerRecord
<1>3. CASE ContextRead
  <2>. runner.reading - 1 \in Nat  BY <1>a, <1>3 DEF ContextRead
  <2>1. CASE NewSocket("runner") /\ runner' = [runner EXCEPT !.reading = @ - 1, !.socket = Min(Unused)]
    <3>1. Min(Unused) \in Objects  BY <2>1, NextSocket DEF NewSocket
    <3>2. QED  BY <1>1, <2>1, <3>1 DEF RunnerRecord
  <2>2. CASE runner' = [runner EXCEPT !.reading = @ - 1]
    BY <1>1, <2>2 DEF RunnerRecord
  <2>3. QED  BY <1>3, <2>1, <2>2, Zenon DEF ContextRead
<1>4. CASE StopRunner
  <2>1. runner.stops + 1 \in Nat  BY <1>1 DEF RunnerRecord
  <2>2. runner' = [runner EXCEPT !.running = FALSE, !.socket = 0, !.stops = runner.stops + 1]
    BY <1>4 DEF StopRunner
  <2>3. QED  BY <1>1, <2>1, <2>2 DEF RunnerRecord
<1>5. CASE UNCHANGED runner  BY <1>1, <1>5
<1>6. QED
  BY <1>2, <1>3, <1>4, <1>5, Zenon
  DEF TurnNext, DemoConnects, DemoLeaves, Connect, ReconnectRefused, DropConnection, RegisterAgent,
      SessionEnds, StartNegotiation, NotifyTurn, EmitAnswer, ReceiveAnswer, LoseAnswer,
      OpponentActs, clientVars

LEMMA MessagesTypedStep ==
  ASSUME TurnTyped, TurnNext PROVE MessagesTyped' /\ lost' \in BOOLEAN /\ mistaken' \in BOOLEAN
<1>1. MessagesTyped /\ turn.round \in Nat /\ runner.socket \in Objects \cup {0}
  BY TurnAssumption DEF TurnTyped, TurnRecord, RunnerRecord
<1>2. MessagesTyped'
  <2>1. CASE NotifyTurn  BY <1>1, <2>1 DEF NotifyTurn, MessagesTyped
  <2>2. CASE EmitAnswer  BY <1>1, <2>2 DEF EmitAnswer, MessagesTyped
  <2>3. CASE answers' \subseteq answers /\ deciding' = deciding  BY <1>1, <2>3 DEF MessagesTyped
  <2>4. QED
    BY <2>1, <2>2, <2>3
    DEF TurnNext, StartRunner, ContextRead, StopRunner, DemoConnects, DemoLeaves, Connect,
        ReconnectRefused, DropConnection, RegisterAgent, SessionEnds, StartNegotiation,
        ReceiveAnswer, LoseAnswer, OpponentActs, clientVars
<1>3. lost' \in BOOLEAN /\ mistaken' \in BOOLEAN
  <2>1. lost \in BOOLEAN /\ mistaken \in BOOLEAN  BY DEF TurnTyped
  <2>2. QED
    BY <2>1, Zenon
    DEF TurnNext, StartRunner, ContextRead, StopRunner, DemoConnects, DemoLeaves, Connect,
        ReconnectRefused, DropConnection, RegisterAgent, SessionEnds, StartNegotiation, NotifyTurn,
        EmitAnswer, ReceiveAnswer, LoseAnswer, OpponentActs, brokerVars, clientVars
<1>4. QED  BY <1>2, <1>3

LEMMA RoundTypedStep ==
  ASSUME TurnTyped, TurnNext
  PROVE  turn' \in TurnRecord /\ (turn'.mine => turn'.round \in 1 .. MaxTurns)
<1> USE TurnAssumption
<1>1. turn \in TurnRecord /\ (turn.mine => turn.round \in 1 .. MaxTurns)  BY DEF TurnTyped
<1>2. CASE StartNegotiation  BY <1>2 DEF StartNegotiation, TurnRecord
<1>3. CASE NotifyTurn  BY <1>1, <1>3 DEF NotifyTurn, TurnRecord
<1>4. CASE ReceiveAnswer
  <2>1. CASE UNCHANGED turn  BY <1>1, <2>1
  <2>2. CASE turn.mine /\ turn' = [turn EXCEPT !.mine = FALSE, !.round = @ + 1]
    <3>1. turn.round + 1 \in 0 .. MaxTurns + 1  BY <1>1, <2>2
    <3>2. turn' \in TurnRecord  BY <1>1, <2>2, <3>1 DEF TurnRecord
    <3>3. ~turn'.mine  BY <1>1, <2>2 DEF TurnRecord
    <3>4. QED  BY <3>2, <3>3
  <2>3. CASE turn' = [turn EXCEPT !.over = TRUE]  BY <1>1, <2>3 DEF TurnRecord
  <2>4. QED  BY <1>4, <2>1, <2>2, <2>3 DEF ReceiveAnswer
<1>5. CASE OpponentActs
  <2>1. CASE /\ turn.round > 0 /\ turn.round < MaxTurns
             /\ turn' = [turn EXCEPT !.mine = TRUE, !.due = TRUE, !.round = @ + 1]
    <3>1. turn.round + 1 \in 0 .. MaxTurns + 1 /\ turn.round + 1 \in 1 .. MaxTurns
      BY <1>1, <2>1 DEF TurnRecord
    <3>2. turn' \in TurnRecord  BY <1>1, <2>1, <3>1 DEF TurnRecord
    <3>3. turn'.round = turn.round + 1  BY <1>1, <2>1 DEF TurnRecord
    <3>4. QED  BY <3>1, <3>2, <3>3
  <2>2. CASE turn' = [turn EXCEPT !.over = TRUE]  BY <1>1, <2>2 DEF TurnRecord
  <2>3. QED  BY <1>5, <2>1, <2>2 DEF OpponentActs
<1>6. CASE UNCHANGED turn  BY <1>1, <1>6
<1>7. QED
  BY <1>2, <1>3, <1>4, <1>5, <1>6, Zenon
  DEF TurnNext, StartRunner, ContextRead, StopRunner, DemoConnects, DemoLeaves, Connect,
      ReconnectRefused, DropConnection, RegisterAgent, SessionEnds, EmitAnswer, LoseAnswer,
      brokerVars

LEMMA TurnTypedStep == TurnTyped /\ TurnNext => TurnTyped'
<1> SUFFICES ASSUME TurnTyped, TurnNext PROVE TurnTyped'  OBVIOUS
<1>1. sockets' \in [Objects -> SocketRecord]  BY SocketsTyped
<1>2. BrokerTyped'  BY BrokerTypedStep
<1>3. runner' \in RunnerRecord  BY RunnerTypedStep
<1>4. MessagesTyped' /\ lost' \in BOOLEAN /\ mistaken' \in BOOLEAN  BY MessagesTypedStep
<1>5. turn' \in TurnRecord /\ (turn'.mine => turn'.round \in 1 .. MaxTurns)  BY RoundTypedStep
<1>6. QED  BY <1>1, <1>2, <1>3, <1>4, <1>5, Zenon DEF TurnTyped

-------------------------------------------------------------------------------
(* A connection has a session no other connection has had; every other     *)
(* change of a socket only ends its part in one.                           *)
SocketsRest ==
  /\ opened' = opened
  /\ \A o \in Objects :
       /\ sockets'[o].net = "up" => sockets[o].net = "up" /\ sockets'[o].session = sockets[o].session
       /\ sockets'[o].session \in {0, sockets[o].session}

LEMMA SocketsRestStep ==
  ASSUME TurnTyped, TurnNext, \A o \in Objects : ~Connect(o) PROVE SocketsRest
<1>1. sockets \in [Objects -> SocketRecord]  BY DEF TurnTyped
<1>2. \A by : NewSocket(by) => \A o \in Objects :
         sockets'[o] = IF o = Min(Unused) THEN [NoSocket EXCEPT !.by = by, !.net = "connecting"]
                                          ELSE sockets[o]
  BY <1>1 DEF NewSocket
<1>3. ASSUME NEW by, NewSocket(by), opened' = opened PROVE SocketsRest
  <2>1. \A o \in Objects : \/ sockets'[o].net = "connecting" /\ sockets'[o].session = 0
                           \/ sockets'[o] = sockets[o]
    BY <1>2, <1>3 DEF NoSocket
  <2>2. QED  BY <1>3, <2>1, Zenon DEF SocketsRest
<1>4. CASE ContextRead  BY <1>3, <1>4 DEF ContextRead, SocketsRest, brokerVars
<1>5. CASE DemoConnects  BY <1>3, <1>5 DEF DemoConnects, brokerVars
<1>6. CASE StopRunner
  <2>1. opened' = opened  BY <1>6 DEF StopRunner, brokerVars
  <2>2. CASE sockets' = sockets  BY <2>1, <2>2 DEF SocketsRest
  <2>3. CASE sockets' = [sockets EXCEPT ![runner.socket].net = "closed"]
    <3>1. \A o \in Objects : sockets'[o].session = sockets[o].session
                             /\ (sockets'[o].net = "up" => sockets[o].net = "up")
      BY <1>1, <2>3 DEF SocketRecord
    <3>2. QED  BY <2>1, <3>1 DEF SocketsRest
  <2>4. QED  BY <1>6, <2>2, <2>3 DEF StopRunner
<1>7. ASSUME NEW o \in Objects,
             DemoLeaves(o) \/ ReconnectRefused(o) \/ DropConnection(o) \/ RegisterAgent(o)
      PROVE  SocketsRest
  <2>1. opened' = opened
    BY <1>7 DEF DemoLeaves, ReconnectRefused, DropConnection, RegisterAgent, brokerVars
  <2>2. \A p \in Objects \ {o} : sockets'[p] = sockets[p]
    BY <1>1, <1>7 DEF DemoLeaves, ReconnectRefused, DropConnection, RegisterAgent
  <2>3. sockets'[o].net = "up" => sockets[o].net = "up" /\ sockets'[o].session = sockets[o].session
    BY <1>1, <1>7
    DEF DemoLeaves, ReconnectRefused, DropConnection, RegisterAgent, SocketRecord
  <2>4. sockets'[o].session \in {0, sockets[o].session}
    BY <1>1, <1>7
    DEF DemoLeaves, ReconnectRefused, DropConnection, RegisterAgent, SocketRecord
  <2>5. QED  BY <2>1, <2>2, <2>3, <2>4 DEF SocketsRest
<1>8. CASE UNCHANGED <<sockets, opened>>  BY <1>8 DEF SocketsRest
<1>9. QED
  BY <1>4, <1>5, <1>6, <1>7, <1>8, Zenon
  DEF TurnNext, StartRunner, SessionEnds, StartNegotiation, NotifyTurn, EmitAnswer, ReceiveAnswer,
      LoseAnswer, OpponentActs, brokerVars, clientVars

LEMMA SessionsApartStep == TurnTyped /\ SessionsApart /\ TurnNext => SessionsApart'
<1> SUFFICES ASSUME TurnTyped, SessionsApart, TurnNext PROVE SessionsApart'  OBVIOUS
<1> USE DEF SessionsApart
<1>1. opened \in Nat /\ \A o \in Objects : sockets[o].session \in Nat
  BY TurnAssumption DEF TurnTyped, BrokerTyped, SocketRecord
<1>2. CASE \E o \in Objects : Connect(o)
  <2>1. PICK o \in Objects : Connect(o)  BY <1>2
  <2>2. opened' = opened + 1  BY <2>1 DEF Connect
  <2>3. \A p \in Objects \ {o} : sockets'[p] = sockets[p]  BY <2>1 DEF Connect, TurnTyped
  <2>4. sockets'[o].session = opened + 1
    BY <2>1, <2>2 DEF Connect, TurnTyped, SocketRecord
  <2>5. \A p \in Objects \ {o} : sockets'[p].session <= opened  BY <2>3
  <2>6. QED  BY <1>1, <2>2, <2>3, <2>4, <2>5
<1>3. CASE \A o \in Objects : ~Connect(o)
  <2>1. SocketsRest  BY <1>3, SocketsRestStep
  <2>2. QED  BY <1>1, <2>1 DEF SocketsRest
<1>4. QED  BY <1>2, <1>3

-------------------------------------------------------------------------------
(* Turns are told once.                                                    *)
Told == ToldOnce /\ StallNeedsLoss /\ AnswersFitTheirRound

LEMMA ToldByNotify ==
  ASSUME TurnTyped, SessionsApart, Told, NotifyTurn PROVE Told'
<1> DEFINE at == {o \in Objects : sockets[o].net = "up" /\ sockets[o].session = registered}
<1>1. turn.mine /\ ~turn.over /\ deciding = {} /\ answers = {} /\ turn \in TurnRecord
  BY DEF Told, ToldOnce, NotifyTurn, TurnTyped
<1>2. turn'.mine /\ ~turn'.due /\ ~turn'.over /\ turn'.round = turn.round
  BY <1>1 DEF NotifyTurn, TurnRecord
<1>3. answers' = {} /\ mistaken' = mistaken  BY <1>1 DEF NotifyTurn
<1>4. deciding' = {<<o, turn.round>> : o \in at}  BY <1>1 DEF NotifyTurn
<1>5. \A d \in deciding' : \E o \in at : d = <<o, turn.round>>  BY <1>4
<1>6. \A o, p \in at : o = p  BY DEF SessionsApart
<1>7. deciding' # {} \/ lost'
  <2>1. lost' = (lost \/ at = {})  BY DEF NotifyTurn
  <2>2. CASE at = {}  BY <2>1, <2>2
  <2>3. CASE at # {}  BY <1>4, <2>3
  <2>4. QED  BY <2>2, <2>3
<1> HIDE DEF at
<1>8. \A d, e \in deciding' : d = e  BY <1>5, <1>6
<1>9. \A d \in deciding' : d[2] = turn'.round  BY <1>2, <1>5
<1>10. ToldOnce'  BY <1>2, <1>3, <1>8, <1>9 DEF ToldOnce
<1>11. StallNeedsLoss'  BY <1>7 DEF StallNeedsLoss
<1>12. AnswersFitTheirRound'  BY <1>3 DEF Told, AnswersFitTheirRound
<1>13. QED  BY <1>10, <1>11, <1>12 DEF Told

LEMMA ToldByEmit ==
  ASSUME TurnTyped, Told, EmitAnswer PROVE Told'
<1>1. PICK d \in deciding :
        LET on == IF sockets[d[1]].by = "runner" THEN runner.socket ELSE d[1]
            sent == on # 0 /\ sockets[on].net \in Live
        IN  /\ deciding' = deciding \ {d}
            /\ answers' = IF sent THEN answers \cup {<<on, d[2]>>} ELSE answers
            /\ lost' = (lost \/ ~sent)
  BY DEF EmitAnswer
<1> DEFINE on == IF sockets[d[1]].by = "runner" THEN runner.socket ELSE d[1]
           sent == on # 0 /\ sockets[on].net \in Live
<1>2. answers = {} /\ turn.mine /\ ~turn.due /\ ~turn.over /\ d[2] = turn.round
  BY DEF Told, ToldOnce
<1>3. deciding' = {}  BY <1>1 DEF Told, ToldOnce
<1>4. \/ answers' = {<<on, turn.round>>}
      \/ answers' = {} /\ lost'
  <2>1. CASE sent  BY <1>1, <1>2, <2>1
  <2>2. CASE ~sent  BY <1>1, <1>2, <2>2
  <2>3. QED  BY <2>1, <2>2
<1>5. turn' = turn /\ mistaken' = mistaken  BY DEF EmitAnswer, brokerVars
<1> HIDE DEF on, sent
<1>6. ToldOnce'  BY <1>2, <1>3, <1>4, <1>5 DEF ToldOnce
<1>7. StallNeedsLoss'  BY <1>4 DEF StallNeedsLoss
<1>8. QED  BY <1>5, <1>6, <1>7 DEF Told, AnswersFitTheirRound

LEMMA ToldByReceive ==
  ASSUME TurnTyped, Told, ReceiveAnswer PROVE Told'
<1>1. PICK m \in answers :
        /\ answers' = answers \ {m}
        /\ IF ~turn.mine \/ turn.over
           THEN UNCHANGED <<turn, mistaken, lost>>
           ELSE \/ lost' = TRUE /\ UNCHANGED <<turn, mistaken>>
                \/ /\ turn' \in {[turn EXCEPT !.mine = FALSE, !.round = @ + 1],
                                 [turn EXCEPT !.over = TRUE]}
                   /\ mistaken' = (mistaken \/ m[2] # turn.round)
                   /\ UNCHANGED lost
  BY DEF ReceiveAnswer
<1>2. /\ turn.mine /\ ~turn.due /\ ~turn.over /\ m[2] = turn.round
      /\ deciding = {} /\ answers' = {} /\ ~mistaken
  BY <1>1 DEF Told, ToldOnce, AnswersFitTheirRound
<1>3. deciding' = {}  BY <1>2 DEF ReceiveAnswer
<1>4. ~mistaken'  BY <1>1, <1>2
<1>5. turn \in TurnRecord  BY DEF TurnTyped
<1>6. ~turn'.due /\ (lost' \/ ~turn'.mine \/ turn'.over)
  <2>1. CASE lost' = TRUE /\ turn' = turn  BY <1>2, <2>1
  <2>2. CASE turn' = [turn EXCEPT !.mine = FALSE, !.round = @ + 1]
    BY <1>2, <1>5, <2>2 DEF TurnRecord
  <2>3. CASE turn' = [turn EXCEPT !.over = TRUE]  BY <1>2, <1>5, <2>3 DEF TurnRecord
  <2>4. QED  BY <1>1, <1>2, <2>1, <2>2, <2>3
<1>7. QED
  BY <1>2, <1>3, <1>4, <1>6 DEF Told, ToldOnce, StallNeedsLoss, AnswersFitTheirRound

LEMMA ToldByOpponent ==
  ASSUME TurnTyped, Told, StartNegotiation \/ OpponentActs PROVE Told'
<1>1. turn \in TurnRecord /\ (turn.mine => turn.round > 0)
  BY TurnAssumption DEF TurnTyped
<1>2. ~turn.mine  BY <1>1 DEF StartNegotiation, OpponentActs
<1>3. deciding = {} /\ answers = {} /\ ~turn.due  BY <1>2 DEF Told, ToldOnce
<1>4. deciding' = {} /\ answers' = {} /\ mistaken' = mistaken
  BY <1>3 DEF StartNegotiation, OpponentActs, clientVars
<1>5. turn'.mine = turn'.due /\ (turn'.due => ~turn'.over)
  <2>1. CASE StartNegotiation  BY <2>1 DEF StartNegotiation
  <2>2. CASE OpponentActs  BY <1>1, <1>2, <1>3, <2>2 DEF OpponentActs, TurnRecord
  <2>3. QED  BY <2>1, <2>2
<1>6. ToldOnce' /\ StallNeedsLoss'  BY <1>4, <1>5 DEF ToldOnce, StallNeedsLoss
<1>7. QED  BY <1>4, <1>6 DEF Told, AnswersFitTheirRound

(* What is dropped is lost, and nothing else changes here.                 *)
LEMMA ToldByLoss ==
  ASSUME Told, UNCHANGED <<turn, deciding, mistaken>>, answers' \subseteq answers,
         lost \/ answers' # answers => lost'
  PROVE  Told'
<1>1. ToldOnce'  BY DEF Told, ToldOnce
<1>2. StallNeedsLoss'  BY DEF Told, StallNeedsLoss
<1>3. QED  BY <1>1, <1>2 DEF Told, AnswersFitTheirRound

LEMMA ToldStep == TurnTyped /\ SessionsApart /\ Told /\ TurnNext => Told'
<1> SUFFICES ASSUME TurnTyped, SessionsApart, Told, TurnNext PROVE Told'  OBVIOUS
<1>1. CASE NotifyTurn  BY <1>1, ToldByNotify
<1>2. CASE EmitAnswer  BY <1>2, ToldByEmit
<1>3. CASE ReceiveAnswer  BY <1>3, ToldByReceive
<1>4. CASE StartNegotiation \/ OpponentActs  BY <1>4, ToldByOpponent
<1>5. CASE LoseAnswer
  BY <1>5, ToldByLoss DEF LoseAnswer, brokerVars
<1>6. CASE StopRunner  BY <1>6, ToldByLoss DEF StopRunner, brokerVars
<1>7. ASSUME NEW o \in Objects, DemoLeaves(o) PROVE Told'
  BY <1>7, ToldByLoss DEF DemoLeaves, brokerVars
<1>8. CASE UNCHANGED <<turn, deciding, answers, mistaken, lost>>  BY <1>8, ToldByLoss
<1>9. QED
  BY <1>1, <1>2, <1>3, <1>4, <1>5, <1>6, <1>7, <1>8, Zenon
  DEF TurnNext, StartRunner, ContextRead, DemoConnects, Connect, ReconnectRefused, DropConnection,
      RegisterAgent, SessionEnds, brokerVars, clientVars

LEMMA TurnSteps == TurnInv /\ [TurnNext]_turnVars => TurnInv'
<1> SUFFICES ASSUME TurnInv, [TurnNext]_turnVars PROVE TurnInv'  OBVIOUS
<1>1. TurnTyped /\ SessionsApart /\ Told  BY DEF TurnInv, Told
<1>2. CASE TurnNext
  <2>1. TurnTyped' /\ SessionsApart' /\ Told'
    BY <1>1, <1>2, TurnTypedStep, SessionsApartStep, ToldStep
  <2>2. QED  BY <2>1 DEF TurnInv, Told
<1>3. CASE UNCHANGED turnVars
  BY <1>3
  DEF turnVars, brokerVars, clientVars, TurnInv, TurnTyped, BrokerTyped, MessagesTyped,
      SessionsApart, ToldOnce, StallNeedsLoss, AnswersFitTheirRound
<1>4. QED  BY <1>2, <1>3

(* A negotiation waits for the agent, with nothing under way, only after a *)
(* turn or an answer was lost or refused (negotiate.ts:667-690): whatever  *)
(* the sockets do, in whatever order what they send arrives.               *)
THEOREM StallsNeedALoss == TurnSpec => []StallNeedsLoss
<1>1. TurnInv => StallNeedsLoss  BY DEF TurnInv
<1>2. QED  BY <1>1, TurnStarts, TurnSteps, PTL DEF TurnSpec

(* An action that carries no round is taken for the round it was decided   *)
(* for (negotiate.ts:435-470), with any number of clients, reconnections   *)
(* and buffered messages.                                                  *)
THEOREM AnswersFit == TurnSpec => []AnswersFitTheirRound
<1>1. TurnInv => AnswersFitTheirRound  BY DEF TurnInv
<1>2. QED  BY <1>1, TurnStarts, TurnSteps, PTL DEF TurnSpec

(* The broker and the clients keep their types, with as many sessions and  *)
(* rounds as the bounds allow.                                             *)
THEOREM TurnsTyped == TurnSpec => []TurnTypeOK
<1>1. TurnInv => TurnTypeOK
  BY DEF TurnInv, TurnTyped, BrokerTyped, TurnTypeOK, SocketRecord, TurnRecord, RunnerRecord
<1>2. QED  BY <1>1, TurnStarts, TurnSteps, PTL DEF TurnSpec

-------------------------------------------------------------------------------
(* The strategy's decisions.                                               *)
MinPrice(i) == Default(limits[i].minSale, 5)
MaxPrice(i) == Default(limits[i].maxBuy, 35)
MaxKwh(i) == Default(limits[i].maxKwh, 100)

LEMMA LimitsTyped ==
  ASSUME limits \in [Seats -> Limits], NEW i \in Seats
  PROVE  /\ MinPrice(i) \in Nat /\ MaxPrice(i) \in Nat /\ MaxKwh(i) \in Nat \ {0}
         /\ limits[i].enabled \in BOOLEAN
         /\ limits[i].minSale # Null => limits[i].minSale = MinPrice(i)
         /\ limits[i].maxBuy # Null => limits[i].maxBuy = MaxPrice(i)
         /\ limits[i].maxKwh # Null => limits[i].maxKwh = MaxKwh(i)
<1>1. limits[i] \in Limits  OBVIOUS
<1>2. QED  BY <1>1, BargainAssumption DEF MinPrice, MaxPrice, MaxKwh, Default

Accept(i) == [action |-> "ACCEPT", price |-> bargain.price, kwh |-> AskedKwh(i)]
Counter(i, p) == [action |-> "COUNTER_OFFER", price |-> p, kwh |-> AskedKwh(i)]
Agreeable(i) == bargain.price # Null
                /\ IF SellsAtRuntime(i) THEN bargain.price >= MinPrice(i)
                                        ELSE bargain.price <= MaxPrice(i)
NextPrice(i) ==
  IF SellsAtRuntime(i)
  THEN Greater(MinPrice(i), Default(bargain.price, MinPrice(i)) + Increment)
  ELSE Lesser(MaxPrice(i), Default(bargain.price, MaxPrice(i)) - Increment)

LEMMA DecisionIs ==
  ASSUME NEW i \in Seats
  PROVE  Decision(i) = IF ~limits[i].enabled THEN WalkAway
                       ELSE IF Agreeable(i) THEN Accept(i) ELSE Counter(i, NextPrice(i))
BY Zenon DEF Decision, Agreeable, Accept, Counter, NextPrice, MinPrice, MaxPrice

(* Prices and sizes of a well-formed table.                                *)
LEMMA TableTyped ==
  ASSUME BargainTyped
  PROVE  /\ bargain.price \in Int \cup {Null} /\ bargain.kwh \in Int \cup {Null}
         /\ bargain.active \in Seats /\ Other(bargain.active) \in Seats
         /\ Other(bargain.active) # bargain.active
         /\ bargain.round \in 1 .. BargainRounds + 1 /\ bargain.status \in TableStatuses
BY DEF BargainTyped, TableRecord, Seats, Other

LEMMA AskedTyped ==
  ASSUME BargainTyped, limits \in [Seats -> Limits], NEW i \in Seats
  PROVE  /\ AskedKwh(i) \in Int /\ AskedKwh(i) <= MaxKwh(i)
         /\ bargain.kwh # Null => AskedKwh(i) <= bargain.kwh
         /\ bargain.kwh = Null \/ bargain.kwh > 0 => AskedKwh(i) > 0
<1>1. MaxKwh(i) \in Nat \ {0}  BY LimitsTyped
<1>2. bargain.kwh \in Int \cup {Null}  BY TableTyped
<1>3. Default(bargain.kwh, HalfSurplus) \in Int  BY <1>2, BargainAssumption DEF Default
<1>4. AskedKwh(i) = Lesser(Default(bargain.kwh, HalfSurplus), MaxKwh(i))
  BY DEF AskedKwh, MaxKwh
<1>5. QED  BY <1>1, <1>2, <1>3, <1>4, BargainAssumption DEF Lesser, Default

LEMMA NextPriceTyped ==
  ASSUME BargainTyped, limits \in [Seats -> Limits], NEW i \in Seats
  PROVE  /\ NextPrice(i) \in Int
         /\ SellsAtRuntime(i) => NextPrice(i) >= MinPrice(i)
         /\ ~SellsAtRuntime(i) => NextPrice(i) <= MaxPrice(i)
         /\ ~SellsAtRuntime(i) /\ MaxPrice(i) >= Increment /\ ~Agreeable(i) => NextPrice(i) >= 0
<1>1. MinPrice(i) \in Nat /\ MaxPrice(i) \in Nat  BY LimitsTyped
<1>2. bargain.price \in Int \cup {Null}  BY TableTyped
<1>3. CASE SellsAtRuntime(i)
  <2>1. Default(bargain.price, MinPrice(i)) \in Int  BY <1>1, <1>2 DEF Default
  <2>2. NextPrice(i) = Greater(MinPrice(i), Default(bargain.price, MinPrice(i)) + Increment)
    BY <1>3 DEF NextPrice
  <2>3. QED  BY <1>1, <1>3, <2>1, <2>2 DEF Greater, Increment
<1>4. CASE ~SellsAtRuntime(i)
  <2>1. Default(bargain.price, MaxPrice(i)) \in Int  BY <1>1, <1>2 DEF Default
  <2>2. NextPrice(i) = Lesser(MaxPrice(i), Default(bargain.price, MaxPrice(i)) - Increment)
    BY <1>4 DEF NextPrice
  <2>3. ~Agreeable(i) => Default(bargain.price, MaxPrice(i)) >= MaxPrice(i)
    BY <1>1, <1>2, <1>4 DEF Default, Agreeable
  <2>4. QED  BY <1>1, <1>4, <2>1, <2>2, <2>3 DEF Lesser, Increment
<1>5. QED  BY <1>3, <1>4

LEMMA DecisionTyped ==
  ASSUME BargainTyped, limits \in [Seats -> Limits], NEW i \in Seats
  PROVE  /\ Decision(i) \in Actions
         /\ Decision(i).price = Null <=> Decision(i).kwh = Null
         /\ Decision(i).price = Null <=> Decision(i).action = "WALK_AWAY"
<1> USE BargainAssumption
<1>1. AskedKwh(i) \in Int /\ NextPrice(i) \in Int /\ bargain.price \in Int \cup {Null}
  BY AskedTyped, NextPriceTyped, TableTyped
<1>2. CASE Decision(i) = WalkAway  BY <1>2 DEF WalkAway, Actions
<1>3. CASE Decision(i) = Accept(i) /\ Agreeable(i)
  BY <1>1, <1>3 DEF Accept, Actions, Agreeable
<1>4. CASE Decision(i) = Counter(i, NextPrice(i))  BY <1>1, <1>4 DEF Counter, Actions
<1>5. QED  BY <1>2, <1>3, <1>4, DecisionIs, Zenon

LEMMA PendingIs ==
  ASSUME BargainTyped, PendingIsDecided, pending # Null, edits = 0
  PROVE  \/ pending = WalkAway
         \/ pending = Accept(bargain.active) /\ Agreeable(bargain.active)
            /\ limits[bargain.active].enabled
         \/ pending = Counter(bargain.active, NextPrice(bargain.active))
            /\ ~Agreeable(bargain.active) /\ limits[bargain.active].enabled
<1>1. bargain.active \in Seats  BY TableTyped
<1>2. QED  BY <1>1, DecisionIs, Zenon DEF PendingIsDecided

(* An offer that passes the broker's check is within the limits of the one *)
(* who makes it; the strategy keeps it so where there is no limit.         *)
LEMMA CounterIsOffered ==
  ASSUME BargainTyped, PendingIsDecided, pending # Null, edits = 0,
         Admissible(bargain.active, pending), pending.action = "COUNTER_OFFER"
  PROVE  OfferedBy(bargain.active, pending)
<1> DEFINE i == bargain.active
<1>1. i \in Seats /\ limits \in [Seats -> Limits]  BY TableTyped DEF BargainTyped
<1>2. pending = Counter(i, NextPrice(i))
  BY PendingIs DEF Counter, Accept, WalkAway
<1>3. pending.price = NextPrice(i) /\ pending.kwh = AskedKwh(i)  BY <1>2 DEF Counter
<1>4. pending.price >= 0 /\ pending.kwh > 0 /\ SatisfiedFor(i, pending)  BY DEF Admissible
<1>5. /\ NextPrice(i) \in Int /\ AskedKwh(i) <= MaxKwh(i)
      /\ IF SellsAtRuntime(i) THEN NextPrice(i) >= MinPrice(i) ELSE NextPrice(i) <= MaxPrice(i)
  BY <1>1, NextPriceTyped, AskedTyped
<1> HIDE DEF i
<1>6. OfferedBy(i, pending)  BY <1>3, <1>4, <1>5 DEF OfferedBy, MinPrice, MaxPrice, MaxKwh
<1>7. QED  BY <1>6 DEF i

(* The broker refuses no decision, but a bid below zero or an offer of a   *)
(* producer, whom it takes for a seller.                                   *)
LEMMA DecisionIsAdmissible ==
  ASSUME BargainTyped, PendingIsDecided, OfferIsOfOther, pending # Null, edits = 0, Understood,
         SellsAtRuntime(bargain.active) \/ MaxPrice(bargain.active) >= Increment
  PROVE  Admissible(bargain.active, pending)
<1> DEFINE i == bargain.active
<1>1. /\ i \in Seats /\ Other(i) \in Seats /\ limits \in [Seats -> Limits]
      /\ bargain.status = "open" /\ bargain.price \in Int \cup {Null}
      /\ bargain.kwh \in Int \cup {Null} /\ (bargain.price = Null <=> bargain.kwh = Null)
  BY TableTyped DEF BargainTyped
<1>2. SellsAtBroker(i) <=> SellsAtRuntime(i)  BY <1>1 DEF Understood
<1>3. bargain.price # Null => OfferedBy(Other(i), bargain)  BY <1>1 DEF OfferIsOfOther
<1>4. AskedKwh(i) \in Int /\ AskedKwh(i) > 0 /\ AskedKwh(i) <= MaxKwh(i)
  BY <1>1, <1>3, AskedTyped DEF OfferedBy
<1>5. limits[i].maxKwh # Null => AskedKwh(i) <= limits[i].maxKwh
  BY <1>1, <1>4, LimitsTyped
<1>6. CASE pending = WalkAway  BY <1>6 DEF WalkAway, Admissible
<1>7. CASE pending = Counter(i, NextPrice(i)) /\ ~Agreeable(i) /\ limits[i].enabled
  <2>1. /\ NextPrice(i) \in Int /\ NextPrice(i) >= 0
        /\ SellsAtRuntime(i) => NextPrice(i) >= MinPrice(i)
        /\ ~SellsAtRuntime(i) => NextPrice(i) <= MaxPrice(i)
    BY <1>1, <1>7, NextPriceTyped, LimitsTyped
  <2>2. pending.action = "COUNTER_OFFER" /\ pending.price = NextPrice(i)
        /\ pending.kwh = AskedKwh(i)
    BY <1>7 DEF Counter
  <2>3. /\ limits[i].minSale # Null => limits[i].minSale = MinPrice(i)
        /\ limits[i].maxBuy # Null => limits[i].maxBuy = MaxPrice(i)
    BY <1>1, LimitsTyped
  <2> HIDE DEF i
  <2>4. SatisfiedFor(i, pending)
    BY <1>2, <1>5, <1>7, <2>1, <2>2, <2>3 DEF SatisfiedFor
  <2>5. Admissible(i, pending)  BY <1>4, <2>1, <2>2, <2>4 DEF Admissible
  <2>6. QED  BY <2>5 DEF i
<1>8. CASE pending = Accept(i) /\ Agreeable(i) /\ limits[i].enabled
  <2>1. pending.action = "ACCEPT" /\ pending.price = bargain.price /\ pending.kwh = AskedKwh(i)
    BY <1>8 DEF Accept
  <2>2. bargain.price # Null /\ bargain.kwh # Null /\ bargain.price \in Int
        /\ AskedKwh(i) <= bargain.kwh
    BY <1>1, <1>8, AskedTyped DEF Agreeable
  <2>3. /\ limits[i].minSale # Null => limits[i].minSale = MinPrice(i)
        /\ limits[i].maxBuy # Null => limits[i].maxBuy = MaxPrice(i)
    BY <1>1, LimitsTyped
  <2>4. OfferedBy(Other(i), bargain)  BY <1>3, <2>2
  <2>5. limits[Other(i)].maxKwh \in Int \cup {Null}
    BY <1>1, LimitsTyped
  <2> HIDE DEF i
  <2>6. SatisfiedFor(i, pending)
    BY <1>2, <1>5, <1>8, <2>1, <2>2, <2>3 DEF SatisfiedFor, Agreeable
  <2>7. SatisfiedFor(Other(i), pending)
    <3>1. limits[Other(i)].maxKwh # Null => pending.kwh <= limits[Other(i)].maxKwh
      BY <1>1, <1>4, <2>1, <2>2, <2>4, <2>5 DEF OfferedBy, SatisfiedFor
    <3>2. QED  BY <2>1, <2>4, <3>1 DEF OfferedBy, SatisfiedFor
  <2>8. Admissible(i, pending)
    BY <1>4, <2>1, <2>4, <2>6, <2>7 DEF Admissible, OfferedBy
  <2>9. QED  BY <2>8 DEF i
<1>9. QED  BY <1>6, <1>7, <1>8, PendingIs

-------------------------------------------------------------------------------
(* The steps that leave the table alone.                                   *)
LEMMA BargainStarts == BargainInit => BargainInv
<1> SUFFICES ASSUME BargainInit PROVE BargainInv  OBVIOUS
<1> USE BargainAssumption DEF BargainInit
<1>1. BargainTyped
  <2>1. bargain \in TableRecord
    BY DEF TableRecord, Seats, TableStatuses
  <2>2. QED  BY <2>1 DEF BargainTyped
<1>2. bargain.status = "none" /\ pending = Null  OBVIOUS
<1>3. QED
  BY <1>1, <1>2 DEF BargainInv, PendingIsDecided, OfferIsOfOther, OffersClose, DealWithinLimits

LEMMA BargainOpens == BargainInv /\ OpenBargain => BargainInv'
<1> SUFFICES ASSUME BargainInv, OpenBargain PROVE BargainInv'  OBVIOUS
<1>1. /\ bargain \in TableRecord
      /\ bargain.status = "none" /\ pending = Null
      /\ bargain.round = 1 /\ bargain.active = 1 /\ bargain.price = Null /\ bargain.kwh = Null
  BY DEF BargainInv, BargainTyped, OpenBargain
<1>2. /\ bargain' \in TableRecord
      /\ bargain'.status = "open" /\ pending' = Null
      /\ bargain'.round = 1 /\ bargain'.active = 1 /\ bargain'.price = Null /\ bargain'.kwh = Null
  BY <1>1 DEF OpenBargain, TableRecord, TableStatuses
<1>3. BargainTyped'
  BY <1>2, BargainAssumption DEF BargainInv, BargainTyped, OpenBargain
<1>4. PendingIsDecided' /\ OfferIsOfOther' /\ OffersClose' /\ DealWithinLimits'
  BY <1>2 DEF PendingIsDecided, OfferIsOfOther, OffersClose, DealWithinLimits
<1>5. QED  BY <1>3, <1>4 DEF BargainInv

LEMMA BargainDecides == BargainInv /\ DecideTurn => BargainInv'
<1> SUFFICES ASSUME BargainInv, DecideTurn PROVE BargainInv'  OBVIOUS
<1>1. BargainTyped /\ bargain.status = "open" /\ UNCHANGED <<types, limits, bargain, edits>>
  BY DEF BargainInv, DecideTurn
<1>2. bargain.active \in Seats /\ limits \in [Seats -> Limits]
  BY <1>1, TableTyped DEF BargainTyped
<1>3. /\ pending' \in Actions
      /\ pending'.price = Null <=> pending'.kwh = Null
      /\ pending'.price = Null <=> pending'.action = "WALK_AWAY"
  <2>1. CASE pending' = WalkAway  BY <2>1 DEF WalkAway, Actions
  <2>2. CASE pending' = Decision(bargain.active)  BY <1>1, <1>2, <2>2, DecisionTyped
  <2>3. QED  BY <2>1, <2>2 DEF DecideTurn
<1>4. BargainTyped'  BY <1>1, <1>3 DEF BargainTyped
<1>5. PendingIsDecided'
  BY <1>1 DEF DecideTurn, PendingIsDecided, Decision, AskedKwh, SellsAtRuntime
<1>6. OfferIsOfOther'
  BY <1>1 DEF BargainInv, OfferIsOfOther, OfferedBy, SatisfiedFor, SellsAtBroker, SellsAtRuntime
<1>7. OffersClose' /\ DealWithinLimits'
  BY <1>1
  DEF BargainInv, OffersClose, DealWithinLimits, Understood, Matched, Floor, Ceiling, Seller,
      SellsAtBroker, SellsAtRuntime
<1>8. QED  BY <1>4, <1>5, <1>6, <1>7 DEF BargainInv

LEMMA LimitsChange == BargainInv /\ EditLimits => BargainInv'
<1> SUFFICES ASSUME BargainInv, EditLimits PROVE BargainInv'  OBVIOUS
<1>1. BargainTyped /\ bargain.status = "open" /\ edits \in Nat /\ limits \in [Seats -> Limits]
  BY BargainAssumption DEF BargainInv, BargainTyped, EditLimits
<1>2. edits' > 0 /\ edits' \in 0 .. MaxEdits /\ limits' \in [Seats -> Limits]
  BY <1>1, BargainAssumption DEF EditLimits
<1>3. BargainTyped'  BY <1>1, <1>2 DEF BargainTyped, EditLimits
<1>4. QED
  BY <1>1, <1>2, <1>3
  DEF EditLimits, BargainInv, PendingIsDecided, OfferIsOfOther, OffersClose, DealWithinLimits

-------------------------------------------------------------------------------
(* The action arrives.  What becomes of the table, case by case.           *)
LEMMA ReceiveCases ==
  ASSUME BargainTyped, ReceiveAction
  PROVE  LET i == bargain.active IN
         \/ ~Admissible(i, pending) /\ bargain' = [bargain EXCEPT !.status = "stalled"]
         \/ pending.action = "WALK_AWAY" /\ bargain' = [bargain EXCEPT !.status = "walked"]
         \/ /\ Admissible(i, pending) /\ pending.action = "ACCEPT"
            /\ bargain' = [bargain EXCEPT !.status = "accepted", !.price = pending.price,
                                          !.kwh = pending.kwh]
         \/ /\ Admissible(i, pending) /\ pending.action = "COUNTER_OFFER"
            /\ bargain' = [active |-> Other(i), round |-> bargain.round + 1,
                           price |-> pending.price, kwh |-> pending.kwh,
                           status |-> IF bargain.round + 1 > BargainRounds
                                      THEN "max_rounds" ELSE "open"]
<1>1. pending \in Actions  BY DEF BargainTyped, ReceiveAction
<1>2. pending.action \in {"WALK_AWAY", "ACCEPT", "COUNTER_OFFER"}  BY <1>1 DEF Actions
<1>3. QED  BY <1>2, Zenon DEF ReceiveAction

LEMMA ReceiveTyped ==
  ASSUME BargainTyped, ReceiveAction
  PROVE  BargainTyped' /\ pending' = Null /\ UNCHANGED <<types, limits, edits>>
<1> DEFINE i == bargain.active
<1>1. /\ bargain \in TableRecord /\ bargain.status = "open" /\ limits \in [Seats -> Limits]
      /\ pending \in Actions /\ pending' = Null /\ UNCHANGED <<types, limits, edits>>
      /\ pending.price = Null <=> pending.kwh = Null
      /\ pending.price = Null <=> pending.action = "WALK_AWAY"
      /\ bargain.price = Null <=> bargain.kwh = Null
      /\ bargain.round <= BargainRounds
  BY DEF BargainTyped, ReceiveAction
<1>2. pending.price \in Int \cup {Null} /\ pending.kwh \in Int \cup {Null}
  BY <1>1 DEF Actions
<1>3. bargain.round \in 1 .. BargainRounds + 1 /\ Other(i) \in Seats  BY TableTyped
<1> DEFINE Result ==
      /\ bargain' \in TableRecord /\ bargain'.status # "none"
      /\ bargain'.status = "open" => bargain'.round <= BargainRounds
      /\ bargain'.price = Null <=> bargain'.kwh = Null
      /\ bargain'.status = "accepted" => bargain'.price # Null
<1>4. Result
  <2>1. ASSUME NEW s \in {"stalled", "walked"}, bargain' = [bargain EXCEPT !.status = s]
        PROVE  Result
    BY <1>1, <2>1 DEF TableRecord, TableStatuses
  <2>2. CASE /\ pending.action = "ACCEPT"
             /\ bargain' = [bargain EXCEPT !.status = "accepted", !.price = pending.price,
                                           !.kwh = pending.kwh]
    BY <1>1, <1>2, <2>2 DEF TableRecord, TableStatuses
  <2>3. CASE bargain' = [active |-> Other(i), round |-> bargain.round + 1,
                         price |-> pending.price, kwh |-> pending.kwh,
                         status |-> IF bargain.round + 1 > BargainRounds
                                    THEN "max_rounds" ELSE "open"]
    <3> DEFINE s == IF bargain.round + 1 > BargainRounds THEN "max_rounds" ELSE "open"
    <3>1. bargain.round + 1 \in 1 .. BargainRounds + 1  BY <1>1, <1>3, BargainAssumption
    <3>2. s \in {"max_rounds", "open"} /\ (s = "open" => bargain.round + 1 <= BargainRounds)
      BY <1>3, BargainAssumption
    <3>3. bargain' = [active |-> Other(i), round |-> bargain.round + 1,
                      price |-> pending.price, kwh |-> pending.kwh, status |-> s]
      BY <2>3
    <3> HIDE DEF s, i
    <3>4. bargain' \in TableRecord
      BY <1>2, <1>3, <3>1, <3>2, <3>3 DEF TableRecord, TableStatuses
    <3>5. QED  BY <1>1, <3>2, <3>3, <3>4
  <2>4. QED  BY <2>1, <2>2, <2>3, ReceiveCases
<1> HIDE DEF i
<1>5. BargainTyped'  BY <1>1, <1>4 DEF BargainTyped
<1>6. QED  BY <1>1, <1>5

LEMMA SidesStay ==
  ASSUME UNCHANGED <<types, limits>>
  PROVE  /\ Understood' <=> Understood
         /\ Matched' <=> Matched
         /\ Floor' = Floor /\ Ceiling' = Ceiling
BY DEF Understood, Matched, Floor, Ceiling, Seller, SellsAtBroker, SellsAtRuntime

LEMMA FloorAndCeiling ==
  ASSUME Matched, limits \in [Seats -> Limits]
  PROVE  /\ Floor \in Nat /\ Ceiling \in Nat
         /\ SellsAtRuntime(1) => /\ ~SellsAtRuntime(2)
                                 /\ Floor = MinPrice(1) /\ Ceiling = MaxPrice(2)
         /\ ~SellsAtRuntime(1) => /\ SellsAtRuntime(2)
                                  /\ Floor = MinPrice(2) /\ Ceiling = MaxPrice(1)
<1>1. 1 \in Seats /\ 2 \in Seats  BY DEF Seats
<1>2. /\ MinPrice(1) \in Nat /\ MinPrice(2) \in Nat
      /\ MaxPrice(1) \in Nat /\ MaxPrice(2) \in Nat
  BY <1>1, LimitsTyped
<1>3. CASE SellsAtRuntime(1)
  <2>1. Seller = 1 /\ Other(Seller) = 2 /\ ~SellsAtRuntime(2)
    BY <1>3 DEF Seller, Other, Matched
  <2>2. QED  BY <1>2, <1>3, <2>1 DEF Floor, Ceiling, MinPrice, MaxPrice
<1>4. CASE ~SellsAtRuntime(1)
  <2>1. Seller = 2 /\ Other(Seller) = 1 /\ SellsAtRuntime(2)
    BY <1>4 DEF Seller, Other, Matched
  <2>2. QED  BY <1>2, <1>4, <2>1 DEF Floor, Ceiling, MinPrice, MaxPrice
<1>5. QED  BY <1>3, <1>4

(* A table that is open after the action has the action on it.             *)
LEMMA CounterMade ==
  ASSUME BargainTyped, ReceiveAction, bargain'.status \in {"open", "max_rounds"}
  PROVE  /\ Admissible(bargain.active, pending) /\ pending.action = "COUNTER_OFFER"
         /\ bargain'.active = Other(bargain.active) /\ bargain'.round = bargain.round + 1
         /\ bargain'.price = pending.price /\ bargain'.kwh = pending.kwh
         /\ bargain'.status = IF bargain.round + 1 > BargainRounds THEN "max_rounds" ELSE "open"
<1>1. bargain \in TableRecord  BY DEF BargainTyped
<1>2. \A st \in {"stalled", "walked"} : bargain' # [bargain EXCEPT !.status = st]
  BY <1>1 DEF TableRecord
<1>3. bargain' # [bargain EXCEPT !.status = "accepted", !.price = pending.price,
                                 !.kwh = pending.kwh]
  BY <1>1 DEF TableRecord
<1>4. /\ Admissible(bargain.active, pending) /\ pending.action = "COUNTER_OFFER"
      /\ bargain' = [active |-> Other(bargain.active), round |-> bargain.round + 1,
                     price |-> pending.price, kwh |-> pending.kwh,
                     status |-> IF bargain.round + 1 > BargainRounds
                                THEN "max_rounds" ELSE "open"]
  BY <1>2, <1>3, ReceiveCases
<1>5. QED  BY <1>4

LEMMA ReceiveOffer == BargainInv /\ ReceiveAction => OfferIsOfOther'
<1> SUFFICES ASSUME BargainInv, ReceiveAction PROVE OfferIsOfOther'  OBVIOUS
<1> SUFFICES ASSUME bargain'.status = "open", edits' = 0 PROVE OfferedBy(Other(bargain.active), bargain)'
  BY DEF OfferIsOfOther
<1> DEFINE i == bargain.active
<1>1. BargainTyped /\ PendingIsDecided /\ pending # Null  BY DEF BargainInv, ReceiveAction
<1>2. UNCHANGED <<types, limits, edits>>  BY <1>1, ReceiveTyped
<1>4. /\ Admissible(i, pending) /\ pending.action = "COUNTER_OFFER"
      /\ bargain'.active = Other(i)
      /\ bargain'.price = pending.price /\ bargain'.kwh = pending.kwh
  BY <1>1, CounterMade
<1>5. OfferedBy(i, pending)  BY <1>1, <1>2, <1>4, CounterIsOffered
<1>6. Other(bargain'.active) = i
  BY <1>1, <1>4, TableTyped DEF Other, Seats
<1> HIDE DEF i
<1>7. /\ (bargain'.price >= 0) /\ bargain'.kwh > 0
      /\ limits'[i].enabled
      /\ limits'[i].maxKwh # Null => bargain'.kwh <= limits'[i].maxKwh
      /\ IF types'[i] \in {"SELLER", "PRODUCER", "GENERATOR"}
         THEN limits'[i].minSale # Null => bargain'.price >= limits'[i].minSale
         ELSE limits'[i].maxBuy # Null => bargain'.price <= limits'[i].maxBuy
      /\ IF types'[i] \in {"SELLER", "GENERATOR"}
         THEN bargain'.price >= Default(limits'[i].minSale, 5)
         ELSE bargain'.price <= Default(limits'[i].maxBuy, 35)
      /\ bargain'.kwh <= Default(limits'[i].maxKwh, 100)
  BY <1>2, <1>4, <1>5 DEF OfferedBy, SatisfiedFor, SellsAtBroker, SellsAtRuntime
<1>8. QED  BY <1>6, <1>7 DEF OfferedBy, SatisfiedFor, SellsAtBroker, SellsAtRuntime

LEMMA ReceiveClose == BargainInv /\ ReceiveAction => OffersClose'
<1> SUFFICES ASSUME BargainInv, ReceiveAction PROVE OffersClose'  OBVIOUS
<1>1. /\ BargainTyped /\ PendingIsDecided /\ OffersClose /\ pending # Null
      /\ bargain.status = "open" /\ limits \in [Seats -> Limits]
  BY DEF BargainInv, BargainTyped, ReceiveAction
<1>2. UNCHANGED <<types, limits, edits>>  BY <1>1, ReceiveTyped
<1>3. /\ (Matched' <=> Matched)
      /\ Floor' = Floor /\ Ceiling' = Ceiling
      /\ SellsAtRuntime(1)' <=> SellsAtRuntime(1)
  BY <1>2, SidesStay DEF SellsAtRuntime
<1> SUFFICES ASSUME bargain'.status \in {"open", "max_rounds"}, edits = 0, Matched,
                    limits[1].enabled, limits[2].enabled, Floor <= Ceiling
             PROVE  /\ bargain'.status = "open"
                    /\ \/ /\ bargain'.round = 2 /\ bargain'.active = 2
                          /\ bargain'.price = IF SellsAtRuntime(1) THEN Floor + 2 ELSE Ceiling - 2
                       \/ /\ bargain'.round = 3 /\ bargain'.active = 1
                          /\ bargain'.price = IF SellsAtRuntime(1) THEN Floor ELSE Ceiling
  BY <1>2, <1>3 DEF OffersClose
<1> DEFINE i == bargain.active
<1>4. /\ pending.action = "COUNTER_OFFER"
      /\ bargain'.active = Other(i) /\ bargain'.round = bargain.round + 1
      /\ bargain'.price = pending.price
      /\ bargain'.status = IF bargain.round + 1 > BargainRounds THEN "max_rounds" ELSE "open"
  BY <1>1, CounterMade
<1>5. pending = Counter(i, NextPrice(i)) /\ ~Agreeable(i)
  BY <1>1, <1>4, PendingIs DEF Accept, Counter, WalkAway
<1>6. bargain'.price = NextPrice(i)  BY <1>4, <1>5 DEF Counter
<1>7. /\ Floor \in Nat /\ Ceiling \in Nat
      /\ SellsAtRuntime(1) => /\ ~SellsAtRuntime(2)
                              /\ Floor = MinPrice(1) /\ Ceiling = MaxPrice(2)
      /\ ~SellsAtRuntime(1) => /\ SellsAtRuntime(2)
                               /\ Floor = MinPrice(2) /\ Ceiling = MaxPrice(1)
  BY <1>1, FloorAndCeiling
<1>8. CASE bargain.round = 1 /\ i = 1 /\ bargain.price = Null
  <2>1. bargain'.round = 2 /\ bargain'.active = 2 /\ bargain'.status = "open"
    BY <1>4, <1>8, BargainAssumption DEF Other
  <2>2. CASE SellsAtRuntime(1)
    <3>1. NextPrice(1) = Greater(Floor, Floor + 2)
      BY <1>7, <1>8, <2>2 DEF NextPrice, Default, Increment
    <3>2. QED  BY <1>6, <1>7, <1>8, <2>1, <2>2, <3>1 DEF Greater
  <2>3. CASE ~SellsAtRuntime(1)
    <3>1. NextPrice(1) = Lesser(Ceiling, Ceiling - 2)
      BY <1>7, <1>8, <2>3 DEF NextPrice, Default, Increment
    <3>2. QED  BY <1>6, <1>7, <1>8, <2>1, <2>3, <3>1 DEF Lesser
  <2>4. QED  BY <2>2, <2>3
<1>9. CASE /\ bargain.round = 2 /\ i = 2
           /\ bargain.price = IF SellsAtRuntime(1) THEN Floor + 2 ELSE Ceiling - 2
  <2>1. bargain'.round = 3 /\ bargain'.active = 1 /\ bargain'.status = "open"
    BY <1>4, <1>9, BargainAssumption DEF Other
  <2>2. bargain.price # Null  BY <1>7, <1>9, BargainAssumption
  <2>3. CASE SellsAtRuntime(1)
    <3>1. NextPrice(2) = Lesser(Ceiling, Floor + 2 - 2)
      BY <1>7, <1>9, <2>2, <2>3 DEF NextPrice, Default, Increment
    <3>2. QED  BY <1>6, <1>7, <1>9, <2>1, <2>3, <3>1 DEF Lesser
  <2>4. CASE ~SellsAtRuntime(1)
    <3>1. NextPrice(2) = Greater(Floor, Ceiling - 2 + 2)
      BY <1>7, <1>9, <2>2, <2>4 DEF NextPrice, Default, Increment
    <3>2. QED  BY <1>6, <1>7, <1>9, <2>1, <2>4, <3>1 DEF Greater
  <2>5. QED  BY <2>3, <2>4
<1>10. CASE /\ bargain.round = 3 /\ i = 1
            /\ bargain.price = IF SellsAtRuntime(1) THEN Floor ELSE Ceiling
  <2>1. Agreeable(1)  BY <1>7, <1>10, BargainAssumption DEF Agreeable
  <2>2. QED  BY <1>5, <1>10, <2>1
<1>11. QED  BY <1>1, <1>8, <1>9, <1>10 DEF OffersClose

LEMMA ReceiveStall ==
  ASSUME BargainInv, ReceiveAction, bargain'.status = "stalled", edits = 0, Understood,
         SellsAtRuntime(bargain.active) \/ MaxPrice(bargain.active) >= Increment
  PROVE  FALSE
<1>1. BargainTyped /\ PendingIsDecided /\ OfferIsOfOther /\ pending # Null
  BY DEF BargainInv, ReceiveAction
<1>2. Admissible(bargain.active, pending)  BY <1>1, DecisionIsAdmissible
<1>3. bargain \in TableRecord  BY <1>1 DEF BargainTyped
<1>4. bargain' # [bargain EXCEPT !.status = "walked"]  BY <1>3 DEF TableRecord
<1>5. bargain' # [bargain EXCEPT !.status = "accepted", !.price = pending.price,
                                 !.kwh = pending.kwh]
  BY <1>3 DEF TableRecord
<1>6. bargain' = [active |-> Other(bargain.active), round |-> bargain.round + 1,
                  price |-> pending.price, kwh |-> pending.kwh,
                  status |-> IF bargain.round + 1 > BargainRounds THEN "max_rounds" ELSE "open"]
  BY <1>1, <1>2, <1>4, <1>5, ReceiveCases
<1>7. QED  BY <1>6

LEMMA ReceiveDeal ==
  ASSUME BargainInv, ReceiveAction, bargain'.status = "accepted", edits = 0, Matched
  PROVE  /\ Floor <= bargain'.price /\ bargain'.price <= Ceiling
         /\ \A j \in Seats : bargain'.kwh <= MaxKwh(j)
<1> DEFINE i == bargain.active
<1>1. /\ BargainTyped /\ PendingIsDecided /\ pending # Null
      /\ bargain.status = "open" /\ limits \in [Seats -> Limits] /\ bargain \in TableRecord
      /\ bargain.price = Null <=> bargain.kwh = Null
  BY DEF BargainInv, BargainTyped, ReceiveAction
<1>2. /\ i \in Seats /\ Other(i) \in Seats
      /\ bargain.price \in Int \cup {Null} /\ bargain.kwh \in Int \cup {Null}
  BY <1>1, TableTyped
<1>3. pending.action = "ACCEPT" /\ bargain'.price = pending.price /\ bargain'.kwh = pending.kwh
  <2>1. \A st \in {"stalled", "walked"} : bargain' # [bargain EXCEPT !.status = st]
    BY <1>1 DEF TableRecord
  <2>2. bargain' # [active |-> Other(i), round |-> bargain.round + 1, price |-> pending.price,
                    kwh |-> pending.kwh,
                    status |-> IF bargain.round + 1 > BargainRounds THEN "max_rounds" ELSE "open"]
    OBVIOUS
  <2>3. /\ pending.action = "ACCEPT"
        /\ bargain' = [bargain EXCEPT !.status = "accepted", !.price = pending.price,
                                      !.kwh = pending.kwh]
    BY <1>1, <2>1, <2>2, ReceiveCases
  <2>4. QED  BY <1>1, <2>3 DEF TableRecord
<1>4. pending = Accept(i) /\ Agreeable(i)
  BY <1>1, <1>3, PendingIs DEF Accept, Counter, WalkAway
<1>5. bargain'.price = bargain.price /\ bargain'.kwh = AskedKwh(i) /\ bargain.price # Null
  BY <1>3, <1>4 DEF Accept, Agreeable
<1>6. OfferedBy(Other(i), bargain)  BY <1>1, <1>5 DEF BargainInv, OfferIsOfOther
<1>7. AskedKwh(i) \in Int /\ AskedKwh(i) <= MaxKwh(i) /\ AskedKwh(i) <= bargain.kwh
  BY <1>1, <1>2, <1>5, AskedTyped
<1>8. bargain.kwh <= MaxKwh(Other(i))  BY <1>6 DEF OfferedBy, MaxKwh
<1>9. \A j \in Seats : j = i \/ j = Other(i)  BY <1>2 DEF Seats, Other
<1>10. \A j \in Seats : bargain'.kwh <= MaxKwh(j)
  <2>1. MaxKwh(Other(i)) \in Int /\ bargain.kwh \in Int  BY <1>1, <1>2, <1>5, LimitsTyped
  <2>2. AskedKwh(i) <= MaxKwh(Other(i))  BY <1>7, <1>8, <2>1
  <2>3. QED  BY <1>5, <1>7, <1>9, <2>2
<1>11. Floor <= bargain.price /\ bargain.price <= Ceiling
  <2>1. /\ IF SellsAtRuntime(i) THEN bargain.price >= MinPrice(i) ELSE bargain.price <= MaxPrice(i)
        /\ IF SellsAtRuntime(Other(i)) THEN bargain.price >= MinPrice(Other(i))
                                       ELSE bargain.price <= MaxPrice(Other(i))
    BY <1>4, <1>6 DEF Agreeable, OfferedBy, MinPrice, MaxPrice
  <2>2. /\ SellsAtRuntime(1) => /\ ~SellsAtRuntime(2)
                                /\ Floor = MinPrice(1) /\ Ceiling = MaxPrice(2)
        /\ ~SellsAtRuntime(1) => /\ SellsAtRuntime(2)
                                 /\ Floor = MinPrice(2) /\ Ceiling = MaxPrice(1)
    BY <1>1, FloorAndCeiling
  <2>3. CASE i = 1
    <3>1. Other(i) = 2  BY <2>3 DEF Other
    <3>2. QED  BY <1>1, <1>2, <1>5, <2>1, <2>2, <2>3, <3>1, LimitsTyped
  <2>4. CASE i = 2
    <3>1. Other(i) = 1  BY <2>4 DEF Other
    <3>2. QED  BY <1>1, <1>2, <1>5, <2>1, <2>2, <2>4, <3>1, LimitsTyped
  <2>5. QED  BY <1>2, <2>3, <2>4 DEF Seats
<1>12. QED  BY <1>5, <1>10, <1>11

LEMMA ReceiveLimits == BargainInv /\ ReceiveAction => DealWithinLimits'
<1> SUFFICES ASSUME BargainInv, ReceiveAction PROVE DealWithinLimits'  OBVIOUS
<1>1. /\ BargainTyped /\ BargainTyped' /\ UNCHANGED <<types, limits, edits>>
      /\ bargain.status = "open" /\ limits \in [Seats -> Limits] /\ bargain \in TableRecord
  BY ReceiveTyped DEF BargainInv, BargainTyped, ReceiveAction
<1>2. /\ (Understood' <=> Understood) /\ (Matched' <=> Matched)
      /\ Floor' = Floor /\ Ceiling' = Ceiling
  BY <1>1, SidesStay
<1>3. bargain'.status = "stalled" =>
        \/ edits' > 0
        \/ ~Understood'
        \/ ~SellsAtRuntime(bargain.active)'
           /\ Default(limits'[bargain'.active].maxBuy, 35) < Increment
  <2> SUFFICES ASSUME bargain'.status = "stalled", ~(edits' > 0), Understood
               PROVE  ~SellsAtRuntime(bargain.active)'
                      /\ Default(limits'[bargain'.active].maxBuy, 35) < Increment
    BY <1>2
  <2>1. edits = 0  BY <1>1, BargainAssumption DEF BargainTyped
  <2>2. bargain.active \in Seats /\ MaxPrice(bargain.active) \in Nat
    BY <1>1, TableTyped, LimitsTyped
  <2>3. ~SellsAtRuntime(bargain.active) /\ MaxPrice(bargain.active) < Increment
    BY <2>1, <2>2, ReceiveStall DEF Increment
  <2>4. bargain'.active = bargain.active
    <3>1. bargain' # [active |-> Other(bargain.active), round |-> bargain.round + 1,
                      price |-> pending.price, kwh |-> pending.kwh,
                      status |-> IF bargain.round + 1 > BargainRounds
                                 THEN "max_rounds" ELSE "open"]
      OBVIOUS
    <3>2. QED  BY <1>1, <3>1, ReceiveCases DEF TableRecord
  <2>5. QED  BY <1>1, <2>3, <2>4 DEF SellsAtRuntime, MaxPrice
<1>4. ASSUME edits' = 0, Matched, limits[1].enabled, limits[2].enabled
      PROVE  /\ bargain'.status = "accepted" =>
                  /\ Floor <= bargain'.price /\ bargain'.price <= Ceiling
                  /\ \A i \in Seats : bargain'.kwh <= Default(limits'[i].maxKwh, 100)
             /\ Floor <= Ceiling => bargain'.status # "max_rounds" /\ bargain'.round <= 3
  <2>1. edits = 0  BY <1>1, <1>4
  <2>2. bargain'.status = "accepted" =>
          /\ Floor <= bargain'.price /\ bargain'.price <= Ceiling
          /\ \A i \in Seats : bargain'.kwh <= Default(limits'[i].maxKwh, 100)
    BY <1>1, <1>4, <2>1, ReceiveDeal DEF MaxKwh
  <2>3. ASSUME Floor <= Ceiling PROVE bargain'.status # "max_rounds" /\ bargain'.round <= 3
    <3>1. CASE bargain'.status \in {"open", "max_rounds"}
      <4>1. OffersClose'  BY ReceiveClose
      <4>2. bargain'.status = "open" /\ bargain'.round \in {1, 2, 3}
        BY <1>1, <1>2, <1>4, <2>3, <3>1, <4>1 DEF OffersClose
      <4>3. QED  BY <4>2
    <3>2. CASE bargain'.status \notin {"open", "max_rounds"}
      <4>1. OffersClose  BY DEF BargainInv
      <4>2. bargain.round \in {1, 2, 3}
        BY <1>1, <1>4, <2>1, <2>3, <4>1 DEF OffersClose
      <4>3. bargain'.round = bargain.round
        <5>1. \A k \in Int : bargain' # [active |-> Other(bargain.active), round |-> k,
                price |-> pending.price, kwh |-> pending.kwh,
                status |-> IF k > BargainRounds THEN "max_rounds" ELSE "open"]
          BY <3>2
        <5>2. bargain.round + 1 \in Int  BY <1>1, TableTyped, BargainAssumption
        <5>3. \/ \E st \in {"stalled", "walked"} : bargain' = [bargain EXCEPT !.status = st]
              \/ bargain' = [bargain EXCEPT !.status = "accepted", !.price = pending.price,
                                            !.kwh = pending.kwh]
          BY <1>1, <5>1, <5>2, ReceiveCases
        <5>4. QED  BY <1>1, <5>3 DEF TableRecord
      <4>4. QED  BY <3>2, <4>2, <4>3
    <3>3. QED  BY <3>1, <3>2
  <2>4. QED  BY <2>2, <2>3
<1>5. QED  BY <1>1, <1>2, <1>3, <1>4 DEF DealWithinLimits, SellsAtRuntime

LEMMA BargainSteps == BargainInv /\ [BargainNext]_bargainVars => BargainInv'
<1> SUFFICES ASSUME BargainInv, [BargainNext]_bargainVars PROVE BargainInv'  OBVIOUS
<1>1. CASE OpenBargain  BY <1>1, BargainOpens
<1>2. CASE DecideTurn  BY <1>2, BargainDecides
<1>3. CASE ReceiveAction
  <2>1. BargainTyped' /\ pending' = Null  BY <1>3, ReceiveTyped DEF BargainInv
  <2>2. PendingIsDecided'  BY <2>1 DEF PendingIsDecided
  <2>3. QED  BY <1>3, <2>1, <2>2, ReceiveOffer, ReceiveClose, ReceiveLimits DEF BargainInv
<1>4. CASE EditLimits  BY <1>4, LimitsChange
<1>5. CASE UNCHANGED bargainVars
  BY <1>5
  DEF bargainVars, BargainInv, BargainTyped, PendingIsDecided, OfferIsOfOther, OffersClose,
      DealWithinLimits, Decision, AskedKwh, OfferedBy, SatisfiedFor, SellsAtRuntime,
      SellsAtBroker, Understood, Matched, Floor, Ceiling, Seller
<1>6. QED  BY <1>1, <1>2, <1>3, <1>4, <1>5 DEF BargainNext

(* What the two strategies come to (agentRuntimeService.ts:273-306,        *)
(* negotiate.ts:471-520), for any limits, types, starting size and number  *)
(* of rounds: an action that fits its turn is not refused, a deal is       *)
(* within the limits of both, and limits that meet give one by round 3.    *)
THEOREM DealsAreWithinLimits == BargainSpec => []DealWithinLimits
<1>1. BargainInv => DealWithinLimits  BY DEF BargainInv
<1>2. QED  BY <1>1, BargainStarts, BargainSteps, PTL DEF BargainSpec

(* A bargain is in one of its states, within its rounds.                   *)
THEOREM BargainsTyped == BargainSpec => []BargainTypeOK
<1>1. BargainInv => BargainTypeOK
  BY DEF BargainInv, BargainTyped, BargainTypeOK, TableRecord, TableStatuses
<1>2. QED  BY <1>1, BargainStarts, BargainSteps, PTL DEF BargainSpec
===============================================================================
