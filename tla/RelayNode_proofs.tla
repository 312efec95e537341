-------------------------- MODULE RelayNode_proofs --------------------------
(***************************************************************************)
(* Proofs about RelayNode, for any number of peers, topics, lives and      *)
(* events.                                                                 *)
(*                                                                         *)
(* That messages are on joined topics is not inductive: a start gives the  *)
(* node a swarm that has joined nothing, so no event of an earlier life may*)
(* be left (EventsNeedSwarm).                                              *)
(***************************************************************************)
EXTENDS RelayNode, Facts

(* Any of the loops takes an event.                                        *)
LEMMA TakeFacts ==
    ASSUME TypeOK, NEW loops, NEW kinds, Take(loops, kinds)
    PROVE  /\ Head(events) \in Event /\ Head(events).kind \in kinds
           /\ events' \in Seq(Event)
           /\ ToSet(events') \subseteq ToSet(events)
  BY HeadTailToSet DEF Take, TypeOK

LEMMA ArrivesFacts ==
    ASSUME TypeOK, NEW e \in Event, Arrives(e)
    PROVE  /\ events' \in Seq(Event)
           /\ ToSet(events') = ToSet(events) \cup {e}
  BY AppendToSet, AppendProperties DEF Arrives, TypeOK

LEMMA EventKinds ==
    \A e \in Event : e.kind \in {"subscribed", "unsubscribed", "message"}
                        => e.topic \in Topic
  BY DEF Event, ConnEvent, TopicEvent, Message

LEMMA TypeCorrectInitially == Init => TypeOK
<1> SUFFICES ASSUME Init PROVE TypeOK
  OBVIOUS
<1>1. events \in Seq(Event)
  BY EmptySeq DEF Init
<1>2. conns \in [Peer -> 0..ConnsPerPeer]
  BY RelayAssumption DEF Init
<1> QED
  BY <1>1, <1>2 DEF Init, TypeOK, Loops

LEMMA TypeCorrectOwner == TypeOK /\ Owner => TypeOK'
<1> SUFFICES ASSUME TypeOK, Owner PROVE TypeOK'
  OBVIOUS
<1>1. ASSUME StartBegins \/ StartFails \/ LoopDropped PROVE TypeOK'
  BY <1>1 DEF StartBegins, StartFails, LoopDropped, metricVars, networkVars,
              TypeOK, Loops
<1>2. ASSUME StartSucceeds PROVE TypeOK'
  BY <1>2 DEF StartSucceeds, metricVars, networkVars, TypeOK, Loops
<1>3. ASSUME NEW s \in Topic, SubscribeStream(s) PROVE TypeOK'
  BY <1>3 DEF SubscribeStream, metricVars, networkVars, TypeOK, Loops
<1>4. ASSUME NEW loop \in Loops, EnterLoop(loop) PROVE TypeOK'
  BY <1>4 DEF EnterLoop, metricVars, networkVars, TypeOK, Loops
<1>5. ASSUME Shutdown PROVE TypeOK'
  <2>1. events' \in Seq(Event)
    BY <1>5, EmptySeq DEF Shutdown
  <2>2. finalMetrics' \in [peers : Nat, streams : SUBSET Topic, chunks : Nat]
    BY <1>5 DEF Shutdown, Metrics, TypeOK
  <2>3. conns' \in [Peer -> 0..ConnsPerPeer]
    BY <1>5, RelayAssumption DEF Shutdown
  <2> QED
    BY <1>5, <2>1, <2>2, <2>3 DEF Shutdown, TypeOK, Loops
<1> QED
  BY <1>1, <1>2, <1>3, <1>4, <1>5 DEF Owner

LEMMA TypeCorrectHandle == TypeOK /\ Handle => TypeOK'
<1> SUFFICES ASSUME TypeOK, Handle PROVE TypeOK'
  OBVIOUS
<1>1. /\ events' \in Seq(Event)
      /\ Head(events).kind = "subscribed" => Head(events).topic \in Topic
  BY TakeFacts, EventKinds
  DEF Handle, OnConnectionEstablished, OnConnectionClosed, OnMessage,
      OnSubscribed, OnUnsubscribed, OnAwaitedChunk, OnIgnored
<1>2. CASE OnConnectionEstablished \/ OnConnectionClosed \/ OnMessage
  BY <1>1, <1>2
  DEF OnConnectionEstablished, OnConnectionClosed, OnMessage, nodeVars,
      networkVars, TypeOK
<1>3. CASE OnSubscribed
  BY <1>1, <1>3 DEF OnSubscribed, Take, metricVars, networkVars, TypeOK
<1>4. CASE OnUnsubscribed \/ OnIgnored
  BY <1>1, <1>4
  DEF OnUnsubscribed, OnIgnored, nodeVars, metricVars, networkVars, TypeOK
<1>5. CASE OnAwaitedChunk
  BY <1>1, <1>5 DEF OnAwaitedChunk, networkVars, TypeOK, Loops
<1> QED
  BY <1>2, <1>3, <1>4, <1>5 DEF Handle

LEMMA TypeCorrectNetwork == TypeOK /\ Network => TypeOK'
<1> SUFFICES ASSUME TypeOK, Network PROVE TypeOK'
  OBVIOUS
<1>1. ASSUME NEW p \in Peer, Connect(p) PROVE TypeOK'
  <2>1. [kind |-> "established", peer |-> p] \in Event
    BY DEF Event, ConnEvent
  <2>2. events' \in Seq(Event)
    BY <1>1, <2>1, ArrivesFacts DEF Connect
  <2> QED
    BY <1>1, <2>2, RelayAssumption DEF Connect, nodeVars, metricVars, TypeOK
<1>2. ASSUME NEW p \in Peer, Disconnect(p) PROVE TypeOK'
  <2>1. [kind |-> "closed", peer |-> p] \in Event
    BY DEF Event, ConnEvent
  <2>2. events' \in Seq(Event)
    BY <1>2, <2>1, ArrivesFacts DEF Disconnect
  <2>3. conns' \in [Peer -> 0..ConnsPerPeer]
    BY <1>2, RelayAssumption DEF Disconnect, TypeOK
  <2>4. peerTopics' \in [Peer -> SUBSET Topic]
    BY <1>2 DEF Disconnect, TypeOK
  <2>5. UNCHANGED <<nodeVars, metricVars>>
    BY <1>2 DEF Disconnect
  <2> QED
    BY <2>2, <2>3, <2>4, <2>5 DEF nodeVars, metricVars, TypeOK
<1>3. ASSUME NEW p \in Peer, NEW s \in Topic,
             PeerSubscribes(p, s) \/ PeerUnsubscribes(p, s)
      PROVE  TypeOK'
  <2>1. \A k \in {"subscribed", "unsubscribed"} :
           [kind |-> k, peer |-> p, topic |-> s] \in Event
    BY DEF Event, TopicEvent
  <2>2. events' \in Seq(Event)
    BY <1>3, <2>1, ArrivesFacts DEF PeerSubscribes, PeerUnsubscribes
  <2>3. peerTopics' \in [Peer -> SUBSET Topic]
    BY <1>3 DEF PeerSubscribes, PeerUnsubscribes, TypeOK
  <2>4. UNCHANGED <<nodeVars, metricVars, conns>>
    BY <1>3 DEF PeerSubscribes, PeerUnsubscribes
  <2> QED
    BY <2>2, <2>3, <2>4 DEF nodeVars, metricVars, TypeOK
<1>4. ASSUME NEW p \in Peer, NEW s \in Topic, NEW b \in Body,
             PeerPublishes(p, s, b)
      PROVE  TypeOK'
  <2>1. [kind |-> "message", topic |-> s, body |-> b] \in Event
    BY DEF Event, Message
  <2>2. events' \in Seq(Event)
    BY <1>4, <2>1, ArrivesFacts DEF PeerPublishes
  <2> QED
    BY <1>4, <2>2 DEF PeerPublishes, nodeVars, metricVars, TypeOK
<1> QED
  BY <1>1, <1>2, <1>3, <1>4 DEF Network

LEMMA TypeCorrectNext == TypeOK /\ [Next]_vars => TypeOK'
<1>1. TypeOK /\ UNCHANGED vars => TypeOK'
  BY DEF vars, TypeOK
<1> QED
  BY <1>1, TypeCorrectOwner, TypeCorrectHandle, TypeCorrectNetwork DEF Next

(* The node runs exactly while it has a swarm, an event loop only then, and*)
(* its counters and queues hold what they should (RelayNode).              *)
THEOREM RelayTypeCorrect == Spec => []TypeOK
  BY TypeCorrectInitially, TypeCorrectNext, PTL DEF Spec
-----------------------------------------------------------------------------
(* A node without a swarm has no events of one.                            *)
EventsNeedSwarm == swarmUp \/ events = <<>>

LEMMA SwarmNext ==
    TypeOK /\ EventsNeedSwarm /\ [Next]_vars => EventsNeedSwarm'
<1> SUFFICES ASSUME TypeOK, EventsNeedSwarm, [Next]_vars
             PROVE  EventsNeedSwarm'
  OBVIOUS
<1>1. CASE Owner
  BY <1>1 DEF Owner, StartBegins, StartSucceeds, StartFails, LoopDropped,
              SubscribeStream, EnterLoop, Shutdown, EventsNeedSwarm
<1>2. CASE Handle
  <2>1. events # <<>>
    BY <1>2
    DEF Handle, OnConnectionEstablished, OnConnectionClosed, OnMessage,
        OnSubscribed, OnUnsubscribed, OnAwaitedChunk, OnIgnored, Take
  <2>2. swarmUp' = swarmUp
    BY <1>2
    DEF Handle, OnConnectionEstablished, OnConnectionClosed, OnMessage,
        OnSubscribed, OnUnsubscribed, OnAwaitedChunk, OnIgnored, nodeVars
  <2> QED
    BY <2>1, <2>2 DEF EventsNeedSwarm
<1>3. CASE Network
  <2>1. swarmUp
    BY <1>3 DEF Network, Connect, Disconnect, PeerSubscribes,
                PeerUnsubscribes, PeerPublishes, Arrives
  <2>2. swarmUp' = swarmUp
    BY <1>3 DEF Network, Connect, Disconnect, PeerSubscribes,
                PeerUnsubscribes, PeerPublishes, nodeVars
  <2> QED
    BY <2>1, <2>2 DEF EventsNeedSwarm
<1>4. CASE UNCHANGED vars
  BY <1>4 DEF vars, EventsNeedSwarm
<1> QED
  BY <1>1, <1>2, <1>3, <1>4 DEF Next

(* A step keeps the messages on joined topics if it leaves no topic and    *)
(* brings no message but on a topic that is joined.                        *)
LEMMA NoTopicLeft ==
    ASSUME MessagesAreOnJoinedTopics, topics \subseteq topics',
           \A e \in ToSet(events') \ ToSet(events) :
              e.kind = "message" => e.topic \in topics
    PROVE  MessagesAreOnJoinedTopics'
  BY DEF MessagesAreOnJoinedTopics

LEMMA MessagesNext ==
    TypeOK /\ EventsNeedSwarm /\ MessagesAreOnJoinedTopics /\ [Next]_vars
        => MessagesAreOnJoinedTopics'
<1> SUFFICES ASSUME TypeOK, EventsNeedSwarm, MessagesAreOnJoinedTopics,
                    [Next]_vars
             PROVE  MessagesAreOnJoinedTopics'
  OBVIOUS
<1>1. CASE Handle
  <2>1. ToSet(events') \subseteq ToSet(events)
    BY <1>1, TakeFacts
    DEF Handle, OnConnectionEstablished, OnConnectionClosed, OnMessage,
        OnSubscribed, OnUnsubscribed, OnAwaitedChunk, OnIgnored
  <2>2. topics \subseteq topics'
    BY <1>1
    DEF Handle, OnConnectionEstablished, OnConnectionClosed, OnMessage,
        OnSubscribed, OnUnsubscribed, OnAwaitedChunk, OnIgnored, nodeVars
  <2> QED
    BY <2>1, <2>2, NoTopicLeft
<1>2. ASSUME NEW p \in Peer,
             \/ Connect(p) \/ Disconnect(p)
             \/ \E s \in Topic : PeerSubscribes(p, s) \/ PeerUnsubscribes(p, s)
      PROVE  MessagesAreOnJoinedTopics'
  <2>1. \E e \in ConnEvent \cup TopicEvent : Arrives(e)
    <3>1. \A k \in {"established", "closed"} :
             [kind |-> k, peer |-> p] \in ConnEvent
      BY DEF ConnEvent
    <3>2. \A k \in {"subscribed", "unsubscribed"}, s \in Topic :
             [kind |-> k, peer |-> p, topic |-> s] \in TopicEvent
      BY DEF TopicEvent
    <3> QED
      BY <1>2, <3>1, <3>2
      DEF Connect, Disconnect, PeerSubscribes, PeerUnsubscribes
  <2>2. topics' = topics
    BY <1>2 DEF Connect, Disconnect, PeerSubscribes, PeerUnsubscribes, nodeVars
  <2>3. \A e \in ConnEvent \cup TopicEvent : e \in Event /\ e.kind # "message"
    BY DEF Event, ConnEvent, TopicEvent
  <2> QED
    BY <2>1, <2>2, <2>3, ArrivesFacts, NoTopicLeft
<1>3. ASSUME NEW p \in Peer, NEW s \in Topic, NEW b \in Body,
             PeerPublishes(p, s, b)
      PROVE  MessagesAreOnJoinedTopics'
  <2>1. PICK e \in Event : Arrives(e) /\ e.topic \in topics
    BY <1>3 DEF PeerPublishes, Event, Message
  <2>2. topics' = topics
    BY <1>3 DEF PeerPublishes, nodeVars
  <2> QED
    BY <2>1, <2>2, ArrivesFacts, NoTopicLeft
<1>4. ASSUME UNCHANGED events, topics \subseteq topics'
      PROVE  MessagesAreOnJoinedTopics'
  BY <1>4, NoTopicLeft
<1>5. CASE Owner
  <2>1. CASE Shutdown
    BY <2>1, EmptyToSet DEF Shutdown, MessagesAreOnJoinedTopics
  <2>2. CASE StartSucceeds
    BY <2>2, EmptyToSet
    DEF StartSucceeds, TypeOK, EventsNeedSwarm, MessagesAreOnJoinedTopics
  <2>3. CASE ~Shutdown /\ ~StartSucceeds
    BY <1>4, <1>5, <2>3
    DEF Owner, StartBegins, StartFails, LoopDropped, SubscribeStream, EnterLoop
  <2> QED
    BY <2>1, <2>2, <2>3
<1>6. CASE UNCHANGED vars
  BY <1>4, <1>6 DEF vars
<1> QED
  BY <1>1, <1>2, <1>3, <1>5, <1>6 DEF Next, Network

(* Whatever the methods called, the events dropped and the lives of the    *)
(* node: a message it finds is on a topic its swarm has joined, so that the*)
(* re-publish is never refused for that (RelayNode::run, MdrnSwarm).       *)
THEOREM MessagesOnJoinedTopics == Spec => []MessagesAreOnJoinedTopics
<1> DEFINE Inv == TypeOK /\ EventsNeedSwarm /\ MessagesAreOnJoinedTopics
<1>1. Init => Inv
  BY TypeCorrectInitially, EmptyToSet
  DEF Init, EventsNeedSwarm, MessagesAreOnJoinedTopics
<1>2. Inv /\ [Next]_vars => Inv'
  BY TypeCorrectNext, SwarmNext, MessagesNext
<1> QED
  BY <1>1, <1>2, PTL DEF Spec
-----------------------------------------------------------------------------
(* Counting connections.  When the node has read the next j events its     *)
(* count is Balance(j): it never has to close what it has not counted, so  *)
(* that the saturating decrement of run() and wait_for_chunk() is exact.   *)
Delta(kind) == (IF kind = "established" THEN 1 ELSE 0)
                 - (IF kind = "closed" THEN 1 ELSE 0)

Balance(j) == peerCount + KindCount(events, "established", j)
                        - KindCount(events, "closed", j)

CountInv ==
    /\ IsFiniteSet(OpenConnections)
    /\ ~swarmUp => peerCount = Former /\ OpenConnections = {}
    /\ \A j \in 0..Len(events) : Balance(j) >= 0
    /\ swarmUp => Balance(Len(events)) = Cardinality(OpenConnections) + Former

LEMMA FormerType == TypeOK => Former \in Nat
  BY DEF TypeOK, Former

LEMMA BalanceFacts ==
    ASSUME TypeOK
    PROVE  /\ Len(events) \in Nat
           /\ \A j \in Nat : Balance(j) \in Int
           /\ Balance(0) = peerCount
           /\ Balance(Len(events)) = peerCount + Unread("established") - Unread("closed")
<1>1. Len(events) \in Nat /\ DOMAIN events = 1..Len(events) /\ peerCount \in Nat
  BY DEF TypeOK
<1>2. ASSUME NEW j \in Nat
      PROVE  Balance(j) \in Int
  <2>1. /\ KindCount(events, "established", j) \in Nat
        /\ KindCount(events, "closed", j) \in Nat
    BY KindCountType
  <2> QED
    BY <1>1, <2>1 DEF Balance
<1>3. Balance(0) = peerCount
  <2>1. /\ KindCount(events, "established", 0) = 0
        /\ KindCount(events, "closed", 0) = 0
    BY KindCountType
  <2> QED
    BY <1>1, <2>1 DEF Balance
<1>4. \A k : Unread(k) = KindCount(events, k, Len(events))
  BY <1>1 DEF Unread, KindCount
<1> QED
  BY <1>1, <1>2, <1>3, <1>4 DEF Balance

(* The node reads an event and counts what it says.                        *)
LEMMA EventRead ==
    ASSUME TypeOK, EventsNeedSwarm, CountInv,
           events # <<>>, events' = Tail(events),
           peerCount' = IF Head(events).kind = "established"
                        THEN peerCount + 1
                        ELSE IF Head(events).kind = "closed" /\ peerCount > 0
                        THEN peerCount - 1 ELSE peerCount,
           UNCHANGED <<conns, swarmUp, finalMetrics>>
    PROVE  CountInv'
<1> DEFINE k == Head(events).kind
<1>1. /\ Len(events) \in Nat /\ Len(events) > 0
      /\ Len(Tail(events)) = Len(events) - 1
      /\ peerCount \in Nat
  BY HeadTailProperties, EmptySeq DEF TypeOK
<1>2. ASSUME NEW j \in 0..Len(Tail(events))
      PROVE  Balance(j + 1) = peerCount
                + KindCount(Tail(events), "established", j)
                - KindCount(Tail(events), "closed", j)
                + Delta(k)
  <2> DEFINE estNow  == KindCount(events, "established", j + 1)
             clsNow  == KindCount(events, "closed", j + 1)
             estThen == KindCount(Tail(events), "established", j)
             clsThen == KindCount(Tail(events), "closed", j)
  <2>1. estNow = estThen + (IF k = "established" THEN 1 ELSE 0)
    BY KindCountTail DEF TypeOK
  <2>2. clsNow = clsThen + (IF k = "closed" THEN 1 ELSE 0)
    BY KindCountTail DEF TypeOK
  <2>3. estThen \in Nat /\ clsThen \in Nat
    BY <1>1, KindCountType
  <2>4. Balance(j + 1) = peerCount + estNow - clsNow
    BY DEF Balance
  <2> HIDE DEF estNow, clsNow, estThen, clsThen, k
  <2>5. Balance(j + 1) = peerCount + estThen - clsThen + Delta(k)
    BY <1>1, <2>1, <2>2, <2>3, <2>4 DEF Delta
  <2> QED
    BY <2>5 DEF estThen, clsThen
<1>3. k = "closed" => peerCount > 0
  <2>1. 0 \in 0..Len(Tail(events)) /\ 0 + 1 \in 0..Len(events)
    BY <1>1
  <2>2. /\ KindCount(Tail(events), "established", 0) = 0
        /\ KindCount(Tail(events), "closed", 0) = 0
    BY KindCountType
  <2>3. Balance(0 + 1) = peerCount + Delta(k)
    <3>1. Balance(0 + 1) = peerCount + 0 - 0 + Delta(k)
      BY <1>2, <2>1, <2>2
    <3> QED
      BY <1>1, <3>1
  <2>4. Balance(0 + 1) >= 0
    BY <2>1 DEF CountInv
  <2> QED
    BY <1>1, <2>3, <2>4 DEF Delta
<1>4. peerCount' = peerCount + Delta(k)
  BY <1>1, <1>3 DEF Delta
<1>5. ASSUME NEW j \in 0..Len(events')
      PROVE  Balance(j)' = Balance(j + 1)
  <2> DEFINE estThen == KindCount(Tail(events), "established", j)
             clsThen == KindCount(Tail(events), "closed", j)
  <2>1. Balance(j)' = peerCount' + estThen - clsThen
    BY DEF Balance
  <2>2. Balance(j + 1) = peerCount + estThen - clsThen + Delta(k)
    BY <1>2
  <2>3. estThen \in Nat /\ clsThen \in Nat /\ Delta(k) \in Int
    BY <1>1, KindCountType DEF Delta
  <2> HIDE DEF estThen, clsThen, k
  <2> QED
    BY <1>1, <1>4, <2>1, <2>2, <2>3
<1>6. \A j \in 0..Len(events') : j + 1 \in 0..Len(events)
  BY <1>1
<1>7. Len(events') \in 0..Len(events') /\ Len(events') + 1 = Len(events)
  BY <1>1
<1>8. \A j \in 0..Len(events') : Balance(j)' >= 0
  BY <1>5, <1>6 DEF CountInv
<1>9. Balance(Len(events))' = Balance(Len(events))
  BY <1>5, <1>7 DEF Balance
<1>10. OpenConnections' = OpenConnections
  BY DEF OpenConnections
<1>11. swarmUp /\ Former' = Former
  BY DEF EventsNeedSwarm, Former
<1> HIDE DEF k
<1> QED
  BY <1>8, <1>9, <1>10, <1>11 DEF CountInv

(* The network opens or closes a connection and reports it, or reports     *)
(* something else.                                                         *)
LEMMA EventArrives ==
    ASSUME TypeOK, CountInv, swarmUp, NEW e \in Event,
           events' = Append(events, e),
           UNCHANGED <<peerCount, swarmUp, finalMetrics>>,
           IsFiniteSet(OpenConnections'),
           Cardinality(OpenConnections') = Cardinality(OpenConnections) + Delta(e.kind)
    PROVE  CountInv'
<1> DEFINE n == Len(events)
<1>1. /\ n \in Nat /\ peerCount \in Nat
      /\ Len(events') = n + 1
  BY AppendProperties DEF TypeOK
<1>2. ASSUME NEW j \in 0..n
      PROVE  Balance(j)' = Balance(j)
  <2>1. /\ KindCount(Append(events, e), "established", j) =
             KindCount(events, "established", j)
        /\ KindCount(Append(events, e), "closed", j) =
             KindCount(events, "closed", j)
    BY KindCountBefore DEF TypeOK
  <2> QED
    BY <2>1 DEF Balance
<1>3. ASSUME NEW j, j = n + 1
      PROVE  Balance(j)' = Balance(n) + Delta(e.kind)
  <2> DEFINE est     == KindCount(events, "established", n)
             cls     == KindCount(events, "closed", n)
             estThen == KindCount(Append(events, e), "established", n + 1)
             clsThen == KindCount(Append(events, e), "closed", n + 1)
  <2>1. estThen = est + (IF e.kind = "established" THEN 1 ELSE 0)
    BY KindCountAppend DEF TypeOK
  <2>2. clsThen = cls + (IF e.kind = "closed" THEN 1 ELSE 0)
    BY KindCountAppend DEF TypeOK
  <2>3. est \in Nat /\ cls \in Nat
    BY <1>1, KindCountType
  <2>4. Balance(n) = peerCount + est - cls
    BY DEF Balance
  <2>5. Balance(j)' = peerCount + estThen - clsThen
    BY <1>3 DEF Balance
  <2> HIDE DEF est, cls, estThen, clsThen
  <2>6. peerCount + estThen - clsThen = Balance(n) + Delta(e.kind)
    BY <1>1, <2>1, <2>2, <2>3, <2>4 DEF Delta
  <2> QED
    BY <2>5, <2>6
<1>4. Balance(Len(events))' = Balance(n) + Delta(e.kind)
  BY <1>1, <1>3 DEF Balance
<1>5. /\ Balance(n) \in Int
      /\ Cardinality(OpenConnections) \in Nat
      /\ Cardinality(OpenConnections') \in Nat
  BY <1>1, BalanceFacts, FS_CardinalityType DEF CountInv
<1>6. /\ Balance(n) = Cardinality(OpenConnections) + Former
      /\ Former \in Nat /\ Former' = Former
  BY FormerType DEF CountInv, Former
<1>7. Delta(e.kind) \in Int
  BY DEF Delta
<1> HIDE DEF n
<1>8. Balance(n) + Delta(e.kind) = Cardinality(OpenConnections') + Former
  BY <1>5, <1>6, <1>7
<1>9. \A j \in 0..Len(events') : Balance(j)' >= 0
  <2> SUFFICES ASSUME NEW j \in 0..Len(events') PROVE Balance(j)' >= 0
    OBVIOUS
  <2>1. CASE j \in 0..n
    BY <1>2, <2>1 DEF CountInv, n
  <2>2. CASE j = n + 1
    BY <1>3, <1>5, <1>6, <1>8, <2>2
  <2> QED
    BY <1>1, <2>1, <2>2
<1> QED
  BY <1>4, <1>6, <1>8, <1>9 DEF CountInv

(* Opening and closing adds and removes one connection.                    *)
LEMMA OpenOneMore ==
    ASSUME TypeOK, IsFiniteSet(OpenConnections), NEW p \in Peer, Connect(p)
    PROVE  /\ IsFiniteSet(OpenConnections')
           /\ Cardinality(OpenConnections') = Cardinality(OpenConnections) + 1
<1> DEFINE c == <<p, conns[p] + 1>>
<1>1. /\ conns[p] \in Nat /\ conns[p] < ConnsPerPeer
      /\ conns' = [conns EXCEPT ![p] = @ + 1]
  BY RelayAssumption DEF Connect, TypeOK
<1>2. OpenConnections' = OpenConnections \cup {c}
  BY <1>1, RelayAssumption DEF OpenConnections, TypeOK
<1>3. c \notin OpenConnections
  BY <1>1 DEF OpenConnections
<1> HIDE DEF c
<1>4. /\ IsFiniteSet(OpenConnections \cup {c})
      /\ Cardinality(OpenConnections \cup {c}) = Cardinality(OpenConnections) + 1
  BY <1>3, FS_AddElement
<1> QED
  BY <1>2, <1>4

LEMMA OpenOneLess ==
    ASSUME TypeOK, IsFiniteSet(OpenConnections), NEW p \in Peer, Disconnect(p)
    PROVE  /\ IsFiniteSet(OpenConnections')
           /\ Cardinality(OpenConnections') = Cardinality(OpenConnections) - 1
<1> DEFINE c == <<p, conns[p]>>
<1>1. /\ conns[p] \in 0..ConnsPerPeer /\ conns[p] > 0
      /\ conns' = [conns EXCEPT ![p] = @ - 1]
  BY RelayAssumption DEF Disconnect, TypeOK
<1>2. OpenConnections' = OpenConnections \ {c}
  BY <1>1, RelayAssumption DEF OpenConnections, TypeOK
<1>3. c \in OpenConnections
  BY <1>1, RelayAssumption DEF OpenConnections
<1> HIDE DEF c
<1>4. /\ IsFiniteSet(OpenConnections \ {c})
      /\ Cardinality(OpenConnections \ {c}) = Cardinality(OpenConnections) - 1
  BY <1>3, FS_RemoveElement
<1> QED
  BY <1>2, <1>4

LEMMA CountNetwork ==
    TypeOK /\ CountInv /\ Network => CountInv'
<1> SUFFICES ASSUME TypeOK, CountInv, Network PROVE CountInv'
  OBVIOUS
<1>0. IsFiniteSet(OpenConnections) /\ Cardinality(OpenConnections) \in Nat
  BY FS_CardinalityType DEF CountInv
<1>1. ASSUME NEW p \in Peer, Connect(p) PROVE CountInv'
  <2> DEFINE e == [kind |-> "established", peer |-> p]
  <2>1. e \in Event /\ Delta(e.kind) = 1
    BY DEF Event, ConnEvent, Delta
  <2>2. /\ swarmUp /\ events' = Append(events, e)
        /\ UNCHANGED <<peerCount, swarmUp, finalMetrics>>
    BY <1>1 DEF Connect, Arrives, nodeVars, metricVars
  <2> HIDE DEF e
  <2> QED
    BY <1>0, <1>1, <2>1, <2>2, OpenOneMore, EventArrives
<1>2. ASSUME NEW p \in Peer, Disconnect(p) PROVE CountInv'
  <2> DEFINE e == [kind |-> "closed", peer |-> p]
  <2>1. e \in Event /\ Delta(e.kind) = -1
    BY DEF Event, ConnEvent, Delta
  <2>2. /\ swarmUp /\ events' = Append(events, e)
        /\ UNCHANGED <<peerCount, swarmUp, finalMetrics>>
    BY <1>2 DEF Disconnect, Arrives, nodeVars, metricVars
  <2>3. /\ IsFiniteSet(OpenConnections')
        /\ Cardinality(OpenConnections') = Cardinality(OpenConnections) - 1
    BY <1>0, <1>2, OpenOneLess
  <2> HIDE DEF e
  <2>4. Cardinality(OpenConnections') = Cardinality(OpenConnections) + Delta(e.kind)
    BY <1>0, <2>1, <2>3
  <2> QED
    BY <2>1, <2>2, <2>3, <2>4, EventArrives
<1>3. ASSUME NEW p \in Peer, NEW s \in Topic,
             \/ PeerSubscribes(p, s) \/ PeerUnsubscribes(p, s)
             \/ \E b \in Body : PeerPublishes(p, s, b)
      PROVE  CountInv'
  <2>1. PICK e \in TopicEvent \cup Message : events' = Append(events, e)
    <3>1. \A k \in {"subscribed", "unsubscribed"} :
             [kind |-> k, peer |-> p, topic |-> s] \in TopicEvent
      BY DEF TopicEvent
    <3>2. \A b \in Body : [kind |-> "message", topic |-> s, body |-> b] \in Message
      BY DEF Message
    <3> QED
      BY <1>3, <3>1, <3>2
      DEF PeerSubscribes, PeerUnsubscribes, PeerPublishes, Arrives
  <2>2. e \in Event /\ Delta(e.kind) = 0
    BY DEF Event, TopicEvent, Message, Delta
  <2>3. swarmUp /\ UNCHANGED <<peerCount, swarmUp, finalMetrics, conns>>
    BY <1>3 DEF PeerSubscribes, PeerUnsubscribes, PeerPublishes, Arrives,
                nodeVars, metricVars
  <2>4. OpenConnections' = OpenConnections
    BY <2>3 DEF OpenConnections
  <2>5. Cardinality(OpenConnections') = Cardinality(OpenConnections) + Delta(e.kind)
    BY <1>0, <2>2, <2>4
  <2> QED
    BY <1>0, <2>1, <2>2, <2>3, <2>4, <2>5, EventArrives
<1> QED
  BY <1>1, <1>2, <1>3 DEF Network

LEMMA CountHandle ==
    TypeOK /\ EventsNeedSwarm /\ CountInv /\ Handle => CountInv'
<1> SUFFICES ASSUME TypeOK, EventsNeedSwarm, CountInv, Handle PROVE CountInv'
  OBVIOUS
<1> USE DEF Take, nodeVars, networkVars, metricVars
<1>1. events # <<>> /\ events' = Tail(events) /\ UNCHANGED <<conns, swarmUp, finalMetrics>>
  BY DEF Handle, OnConnectionEstablished, OnConnectionClosed, OnMessage,
         OnSubscribed, OnUnsubscribed, OnAwaitedChunk, OnIgnored
<1>2. peerCount' = IF Head(events).kind = "established"
                   THEN peerCount + 1
                   ELSE IF Head(events).kind = "closed" /\ peerCount > 0
                   THEN peerCount - 1 ELSE peerCount
  BY DEF Handle, OnConnectionEstablished, OnConnectionClosed, OnMessage,
         OnSubscribed, OnUnsubscribed, OnAwaitedChunk, OnIgnored
<1> QED
  BY <1>1, <1>2, EventRead

LEMMA CountOwner ==
    TypeOK /\ EventsNeedSwarm /\ CountInv /\ Owner => CountInv'
<1> SUFFICES ASSUME TypeOK, EventsNeedSwarm, CountInv, Owner PROVE CountInv'
  OBVIOUS
<1>1. ASSUME UNCHANGED <<peerCount, events, conns, swarmUp, finalMetrics>>
      PROVE  CountInv'
  BY <1>1 DEF CountInv, Balance, OpenConnections, Former
<1>2. CASE StartSucceeds
  <2>1. ~swarmUp /\ OpenConnections = {} /\ Cardinality(OpenConnections) = 0
    BY <1>2, FS_EmptySet DEF StartSucceeds, TypeOK, CountInv
  <2>2. /\ Len(events) = 0
        /\ peerCount = Former /\ Former \in Nat
    BY <2>1, FormerType DEF EventsNeedSwarm, TypeOK, CountInv
  <2>3. Balance(0) = peerCount
    BY BalanceFacts
  <2>4. /\ UNCHANGED <<peerCount, events, conns, finalMetrics>>
        /\ swarmUp' = TRUE
    BY <1>2 DEF StartSucceeds, metricVars, networkVars
  <2>5. /\ OpenConnections' = OpenConnections
        /\ Former' = Former
        /\ \A j : Balance(j)' = Balance(j)
    BY <2>4 DEF OpenConnections, Former, Balance
  <2>6. \A j \in 0..Len(events') : Balance(j)' >= 0
    BY <2>4, <2>5 DEF CountInv
  <2>7. Balance(Len(events))' = peerCount
    BY <2>2, <2>3, <2>4 DEF Balance
  <2>8. Balance(Len(events))' = Cardinality(OpenConnections') + Former'
    BY <2>1, <2>2, <2>5, <2>7
  <2> QED
    BY <2>4, <2>5, <2>6, <2>8 DEF CountInv
<1>3. CASE Shutdown
  <2>1. OpenConnections' = {}
    BY <1>3 DEF Shutdown, OpenConnections
  <2>2. IsFiniteSet(OpenConnections')
    BY <2>1, FS_EmptySet
  <2>3. /\ events' = <<>> /\ ~swarmUp'
        /\ peerCount' = peerCount /\ peerCount \in Nat
        /\ finalMetrics' = Metrics
    BY <1>3 DEF Shutdown, TypeOK
  <2>4. peerCount' = Former'
    <3>1. Metrics \in [peers : Nat, streams : SUBSET Topic, chunks : Nat]
      BY DEF Metrics, TypeOK
    <3>2. finalMetrics' # NoMetrics
      BY <2>3, <3>1, RelayAssumption
    <3> QED
      BY <2>3, <3>2 DEF Former, Metrics
  <2>5. \A j \in 0..Len(events') : Balance(j)' >= 0
    <3>1. \A j \in 0..Len(events') : j = 0
      BY <2>3
    <3>2. /\ KindCount(events', "established", 0) = 0
          /\ KindCount(events', "closed", 0) = 0
      BY KindCountType
    <3>3. Balance(0)' = peerCount
      BY <2>3, <3>2 DEF Balance
    <3> QED
      BY <2>3, <3>1, <3>3
  <2> QED
    BY <2>1, <2>2, <2>3, <2>4, <2>5 DEF CountInv
<1>4. CASE ~StartSucceeds /\ ~Shutdown
  BY <1>1, <1>4
  DEF Owner, StartBegins, StartFails, LoopDropped, SubscribeStream, EnterLoop,
      metricVars, networkVars
<1> QED
  BY <1>2, <1>3, <1>4

(* In whatever order the node reads its events, and however often its      *)
(* loops are dropped and it is shut down and started again: what it counts *)
(* and what it has not read yet are exactly the open connections and those *)
(* that its former life left open (RelayNode::run, wait_for_chunk,         *)
(* shutdown), so that a node which never restarts counts right.            *)
THEOREM PeersAreCounted == Spec => []CountIsOfConnections
<1> DEFINE Inv == TypeOK /\ EventsNeedSwarm /\ CountInv
<1>1. Init => Inv
  <2> SUFFICES ASSUME Init PROVE Inv
    OBVIOUS
  <2>1. TypeOK /\ EventsNeedSwarm
    BY TypeCorrectInitially DEF Init, EventsNeedSwarm
  <2>2. OpenConnections = {} /\ IsFiniteSet(OpenConnections)
    BY FS_EmptySet DEF Init, OpenConnections
  <2>3. \A j \in 0..Len(events) : Balance(j) >= 0
    BY <2>1, BalanceFacts DEF Init
  <2>4. peerCount = Former
    BY DEF Init, Former
  <2> QED
    BY <2>1, <2>2, <2>3, <2>4 DEF CountInv, Init
<1>2. Inv /\ [Next]_vars => Inv'
  <2>1. CountInv /\ UNCHANGED vars => CountInv'
    BY DEF vars, CountInv, Balance, OpenConnections, Former
  <2> QED
    BY <2>1, TypeCorrectNext, SwarmNext, CountOwner, CountHandle, CountNetwork
    DEF Next
<1>3. Inv => CountIsOfConnections
  <2>1. TypeOK => Balance(Len(events)) =
                    peerCount + Unread("established") - Unread("closed")
    BY BalanceFacts
  <2> QED
    BY <2>1 DEF CountInv, CountIsOfConnections
<1> QED
  BY <1>1, <1>2, <1>3, PTL DEF Spec
=============================================================================
