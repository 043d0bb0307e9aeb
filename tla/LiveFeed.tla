------------------------------- MODULE LiveFeed -------------------------------
(***************************************************************************)
(* A console page that follows the negotiations as they go: its socket     *)
(* client with reconnection (wsClient.ts), what the page keeps of the      *)
(* events (NegotiationFeedPage.tsx), and the broker's rooms, which an      *)
(* observer joins when it connects and when a negotiation starts           *)
(* (negotiate.ts).  Packets arrive in order or, when the connection is     *)
(* lost, not at all; none is sent again.  Delays, which double with every  *)
(* failure up to a limit, are left out.                                    *)
(***************************************************************************)
EXTENDS Naturals, Sequences

CONSTANTS
  Talks,       \* bound: negotiations
  MaxEvents,   \* bound: events of a negotiation
  MaxPackets   \* bound: packets in flight to the page

ASSUME FeedAssumption == MaxEvents \in Nat /\ MaxPackets \in Nat \ {0}

VARIABLES
  talks,     \* activeNegotiations: none, active or gone; its events so far
  link,      \* the broker's end of the socket, and the rooms it is in
  packets,   \* packets in flight to the page
  client,    \* the page's socket client: its state, and the reconnect timer
  feed,      \* the events the page keeps of each negotiation
  owed       \* history: the events since the link was opened, of negotiations
             \* that were not gone then

feedVars == <<talks, link, packets, client, feed, owed>>

NoLink == [open |-> FALSE, rooms |-> {}]
NewClient == [state |-> "connecting", timer |-> FALSE]
NoEvents == [t \in Talks |-> {}]
Welcome == <<[kind |-> "connect"]>>  \* the first packet of a connection
Farewell == <<[kind |-> "disconnect"]>>  \* what the client notices when it is lost

FeedInit ==
  /\ talks = [t \in Talks |-> [status |-> "none", events |-> 0]]
  /\ link = NoLink /\ packets = <<>>
  /\ client = NewClient
  /\ feed = NoEvents /\ owed = NoEvents

-------------------------------------------------------------------------------
(* The broker: an event goes to whoever is in the negotiation's room.      *)
Tell(t, rooms) ==
  /\ talks[t].events < MaxEvents
  /\ LET event == [kind |-> "event", talk |-> t, n |-> talks[t].events + 1] IN
       /\ packets' = IF t \in rooms THEN Append(packets, event) ELSE packets
       /\ owed' = IF link.open /\ (talks[t].status # "gone" \/ t \in rooms)
                  THEN [owed EXCEPT ![t] = @ \cup {event.n}] ELSE owed
  /\ Len(packets) < MaxPackets

(* start_negotiation, from the map entry on, without an await: observers   *)
(* join the room before its first event.                                   *)
StartTalk(t) ==
  /\ talks[t].status = "none"
  /\ LET rooms == IF link.open THEN link.rooms \cup {t} ELSE link.rooms IN
       /\ link' = [link EXCEPT !.rooms = rooms]
       /\ Tell(t, rooms)
  /\ talks' = [talks EXCEPT ![t] = [status |-> "active", events |-> 1]]
  /\ UNCHANGED <<client, feed>>

(* A round, a rejection, an end: also by a call that was under way when    *)
(* another one removed the negotiation.                                    *)
TalkEvent(t) ==
  /\ talks[t].status # "none"
  /\ Tell(t, link.rooms)
  /\ talks' = [talks EXCEPT ![t].events = @ + 1]
  /\ UNCHANGED <<link, client, feed>>

EndTalk(t) ==
  /\ talks[t].status = "active"
  /\ talks' = [talks EXCEPT ![t].status = "gone"]
  /\ UNCHANGED <<link, packets, client, feed, owed>>

(* Mutant: an observer that connects is not told of running negotiations.  *)
ObserveNewOnly ==
  /\ client.state = "connecting" /\ ~link.open /\ packets = <<>>
  /\ link' = [open |-> TRUE, rooms |-> {}]
  /\ packets' = Welcome
  /\ owed' = NoEvents
  /\ UNCHANGED <<talks, client, feed>>

(* The namespace takes the user's token, and the observer in.              *)
Observe ==
  /\ client.state = "connecting" /\ ~link.open /\ packets = <<>>
  /\ link' = [open |-> TRUE, rooms |-> {t \in Talks : talks[t].status = "active"}]
  /\ packets' = Welcome
  /\ owed' = NoEvents
  /\ UNCHANGED <<talks, client, feed>>

(* The connection is lost with what is on its way.                         *)
LoseLink ==
  /\ link.open
  /\ link' = NoLink /\ packets' = Farewell /\ owed' = NoEvents
  /\ UNCHANGED <<talks, client, feed>>

-------------------------------------------------------------------------------
(* scheduleReconnect.                                                      *)
ScheduleReconnect == client' = [state |-> "disconnected", timer |-> TRUE]

(* The next packet reaches the client.                                     *)
HearPacket ==
  /\ packets # <<>> /\ packets' = Tail(packets)
  /\ LET packet == Head(packets) IN
       \/ /\ packet.kind = "connect"
          /\ client' = [client EXCEPT !.state = "connected"] /\ UNCHANGED feed
       \/ packet.kind = "disconnect" /\ ScheduleReconnect /\ UNCHANGED feed
       \/ /\ packet.kind = "event"
          /\ feed' = [feed EXCEPT ![packet.talk] = @ \cup {packet.n}] /\ UNCHANGED client
  /\ UNCHANGED <<talks, link, owed>>

(* connect_error: the broker is not reached in five seconds, or refuses    *)
(* the token, which stays the one the client was made with.                *)
ConnectFails ==
  /\ client.state = "connecting" /\ ~link.open /\ packets = <<>>
  /\ ScheduleReconnect
  /\ UNCHANGED <<talks, link, packets, feed, owed>>

ReconnectTimer ==
  /\ client.timer
  /\ client' = NewClient
  /\ UNCHANGED <<talks, link, packets, feed, owed>>

(* destroy, when the page is left; the next page starts with no events.    *)
ClosePage ==
  /\ client.state # "destroyed"
  /\ client' = [state |-> "destroyed", timer |-> FALSE]
  /\ link' = NoLink /\ packets' = <<>>
  /\ feed' = NoEvents /\ owed' = NoEvents
  /\ UNCHANGED talks

OpenPage ==
  /\ client.state = "destroyed" /\ client' = NewClient
  /\ UNCHANGED <<talks, link, packets, feed, owed>>

FeedNext ==
  \/ \E t \in Talks : StartTalk(t) \/ TalkEvent(t) \/ EndTalk(t)
  \/ Observe \/ LoseLink \/ HearPacket \/ ConnectFails \/ ReconnectTimer
  \/ ClosePage \/ OpenPage

FeedSpec == FeedInit /\ [][FeedNext]_feedVars

-------------------------------------------------------------------------------
FeedTypeOK ==
  /\ talks \in [Talks -> [status : {"none", "active", "gone"}, events : 0 .. MaxEvents]]
  /\ link.open \in BOOLEAN /\ link.rooms \subseteq Talks /\ Len(packets) <= MaxPackets
  /\ client.state \in {"connecting", "connected", "disconnected", "destroyed"}
  /\ \A t \in Talks : feed[t] \subseteq 1 .. MaxEvents /\ owed[t] \subseteq 1 .. MaxEvents

(* negotiate.ts:191-199, 386-400, wsClient.ts:86-104.  A page whose socket *)
(* is connected has, once nothing is on its way, every event since then of *)
(* the negotiations that had not ended before, those that were running as  *)
(* well as those that began later; and a page that has lost its socket is  *)
(* trying to connect or is about to.                                       *)
FeedFollows ==
  /\ link.open /\ packets = <<>> =>
       client.state = "connected" /\ \A t \in Talks : owed[t] \subseteq feed[t]
  /\ client.state = "connected" => link.open \/ packets # <<>>
  /\ client.state = "disconnected" => client.timer
===============================================================================
