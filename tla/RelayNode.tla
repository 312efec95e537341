----------------------------- MODULE RelayNode -----------------------------
(***************************************************************************)
(* The life of a RelayNode (mdrn-cli/src/relay.rs): start, subscribe_stream*)
(* run, wait_for_chunk and shutdown, the swarm it owns while it runs, the  *)
(* events that swarm delivers, and the metrics the node reports.           *)
(*                                                                         *)
(* Every method that changes the node takes &mut self, so one method runs  *)
(* at a time (variable method) and the network meanwhile fills the event   *)
(* queue of the swarm.  run and wait_for_chunk take one event at a time;   *)
(* their caller may drop their future between two events (Ctrl+C in        *)
(* run_relay, a timeout in the tests).  Shutdown drops the swarm with its  *)
(* connections and its unread events; the counters and the set of relayed  *)
(* streams stay with the node, which can be started again.                 *)
(***************************************************************************)
EXTENDS Integers, SequencesExt

CONSTANTS
    Peer,           \* broadcasters and listeners that dial the relay
    Topic,          \* stream topics, one per stream address
    NoMetrics,      \* final_metrics before the first shutdown
    Methods,        \* the methods the owner of the node calls
    ConnsPerPeer,   \* bound: simultaneous connections of one peer
    MaxStarts,      \* bound: successful starts
    MaxMessages,    \* bound: messages that reach the relay
    MaxEvents       \* bound: unread events

ASSUME RelayAssumption ==
    /\ ConnsPerPeer \in Nat
    /\ MaxStarts \in Nat
    /\ MaxMessages \in Nat
    /\ MaxEvents \in Nat
    /\ NoMetrics \notin [peers : Nat, streams : SUBSET Topic, chunks : Nat]

VARIABLES
    method,           \* the method that is executing, or "none"
    running,          \* the running flag
    swarmUp,          \* swarm.is_some()
    topics,           \* subscribed_topics of the swarm ({} without a swarm)
    relayedStreams,   \* relayed_streams
    peerCount,        \* peer_count
    chunksForwarded,  \* chunks_forwarded (bytes_forwarded moves along with it)
    finalMetrics,     \* final_metrics
    events,           \* events of the swarm nobody has read yet
    conns,            \* network: open connections per peer
    peerTopics,       \* gossipsub: what each connected peer subscribes to
    starts,           \* successful starts so far
    delivered         \* messages that reached the relay so far

nodeVars    == <<method, running, swarmUp, topics, relayedStreams>>
metricVars  == <<peerCount, chunksForwarded, finalMetrics>>
networkVars == <<conns, peerTopics, delivered>>
vars == <<method, running, swarmUp, topics, relayedStreams, peerCount,
          chunksForwarded, finalMetrics, conns, peerTopics, delivered,
          events, starts>>

Body == {"chunk", "commitment", "other"}

ConnEvent  == [kind : {"established", "closed"}, peer : Peer]
TopicEvent == [kind : {"subscribed", "unsubscribed"}, peer : Peer, topic : Topic]
Message    == [kind : {"message"}, topic : Topic, body : Body]
Event      == ConnEvent \cup TopicEvent \cup Message

(* RelayNode::metrics.                                                     *)
Metrics == [peers |-> peerCount, streams |-> relayedStreams, chunks |-> chunksForwarded]

Init ==
    /\ method = "none"
    /\ running = FALSE
    /\ swarmUp = FALSE
    /\ topics = {}
    /\ relayedStreams = {}
    /\ peerCount = 0
    /\ chunksForwarded = 0
    /\ finalMetrics = NoMetrics
    /\ events = <<>>
    /\ conns = [p \in Peer |-> 0]
    /\ peerTopics = [p \in Peer |-> {}]
    /\ starts = 0
    /\ delivered = 0
-----------------------------------------------------------------------------
(* The owner of the node.                                                  *)

(* start(): past the AlreadyRunning check the new swarm is still a local   *)
(* variable, until a listen address is known.                              *)
StartBegins ==
    /\ method = "none"
    /\ ~running
    /\ starts < MaxStarts
    /\ method' = "start"
    /\ UNCHANGED <<running, swarmUp, topics, relayedStreams, metricVars,
                   networkVars, events, starts>>

StartSucceeds ==
    /\ method = "start"
    /\ method' = "none"
    /\ swarmUp' = TRUE
    /\ topics' = {}
    /\ running' = TRUE
    /\ starts' = starts + 1
    /\ UNCHANGED <<relayedStreams, metricVars, networkVars, events>>

(* Listener error, port conflict or five seconds without an address.       *)
StartFails ==
    /\ method = "start"
    /\ method' = "none"
    /\ UNCHANGED <<running, swarmUp, topics, relayedStreams, metricVars,
                   networkVars, events, starts>>

SubscribeStream(s) ==
    /\ method = "none"
    /\ "subscribe_stream" \in Methods
    /\ swarmUp
    /\ topics' = topics \cup {s}
    /\ relayedStreams' = relayedStreams \cup {s}
    /\ UNCHANGED <<method, running, swarmUp, metricVars, networkVars, events, starts>>

EnterLoop(loop) ==
    /\ method = "none"
    /\ loop \in Methods
    /\ running
    /\ swarmUp
    /\ method' = loop
    /\ UNCHANGED <<running, swarmUp, topics, relayedStreams, metricVars,
                   networkVars, events, starts>>

(* The caller drops the future of run or wait_for_chunk.                   *)
LoopDropped ==
    /\ method \in {"run", "wait_for_chunk"}
    /\ method' = "none"
    /\ UNCHANGED <<running, swarmUp, topics, relayedStreams, metricVars,
                   networkVars, events, starts>>

(* Mutant: shutdown forgets to drop the swarm.                             *)
ShutdownKeepsSwarm ==
    /\ method = "none"
    /\ "shutdown" \in Methods
    /\ running
    /\ running' = FALSE
    /\ finalMetrics' = Metrics
    /\ UNCHANGED <<method, swarmUp, topics, relayedStreams, peerCount,
                   chunksForwarded, networkVars, events, starts>>

Shutdown ==
    /\ method = "none"
    /\ "shutdown" \in Methods
    /\ running
    /\ running' = FALSE
    /\ finalMetrics' = Metrics
    /\ swarmUp' = FALSE
    /\ topics' = {}
    /\ events' = <<>>
    /\ conns' = [p \in Peer |-> 0]
    /\ peerTopics' = [p \in Peer |-> {}]
    /\ UNCHANGED <<method, relayedStreams, peerCount, chunksForwarded,
                   starts, delivered>>
-----------------------------------------------------------------------------
(* The event loops.                                                        *)

(* The loop takes the next event, of one of the kinds.                     *)
Take(loops, kinds) ==
    /\ method \in loops
    /\ events # <<>>
    /\ Head(events).kind \in kinds
    /\ events' = Tail(events)

Loops == {"run", "wait_for_chunk"}

OnConnectionEstablished ==
    /\ Take(Loops, {"established"})
    /\ peerCount' = peerCount + 1
    /\ UNCHANGED <<nodeVars, chunksForwarded, finalMetrics, networkVars,
                   starts>>

(* Mutant: off by one in the guard of the decrement.                       *)
ClosedKeepsTheLastPeer ==
    /\ Take(Loops, {"closed"})
    /\ peerCount' = IF peerCount > 1 THEN peerCount - 1 ELSE peerCount
    /\ UNCHANGED <<nodeVars, chunksForwarded, finalMetrics, networkVars,
                   starts>>

OnConnectionClosed ==
    /\ Take(Loops, {"closed"})
    /\ peerCount' = IF peerCount > 0 THEN peerCount - 1 ELSE peerCount
    /\ UNCHANGED <<nodeVars, chunksForwarded, finalMetrics, networkVars,
                   starts>>

(* run(): commitments are only logged.  Chunks and unknown messages count  *)
(* as forwarded and are then re-published on their topic, which changes    *)
(* nothing here: a publish error is only logged, see StreamPath.           *)
OnMessage ==
    /\ Take({"run"}, {"message"})
    /\ chunksForwarded' = IF Head(events).body = "commitment"
                          THEN chunksForwarded
                          ELSE chunksForwarded + 1
    /\ UNCHANGED <<nodeVars, peerCount, finalMetrics, networkVars, starts>>

(* Mutant: the relay before it joined the topics of its peers.             *)
SubscribedIsLoggedOnly ==
    /\ Take({"run"}, {"subscribed"})
    /\ UNCHANGED <<nodeVars, metricVars, networkVars, starts>>

(* run(): the relay joins every topic one of its peers subscribes to.      *)
OnSubscribed ==
    /\ Take({"run"}, {"subscribed"})
    /\ topics' = topics \cup {Head(events).topic}
    /\ UNCHANGED <<method, running, swarmUp, relayedStreams, metricVars,
                   networkVars, starts>>

(* Mutant: the relay leaves a topic together with the first peer that does.*)
LeaveOnUnsubscribed ==
    /\ Take({"run"}, {"unsubscribed"})
    /\ topics' = topics \ {Head(events).topic}
    /\ UNCHANGED <<method, running, swarmUp, relayedStreams, metricVars,
                   networkVars, starts>>

OnUnsubscribed ==
    /\ Take({"run"}, {"unsubscribed"})
    /\ UNCHANGED <<nodeVars, metricVars, networkVars, starts>>

(* wait_for_chunk() returns the first chunk, counted but not re-published. *)
OnAwaitedChunk ==
    /\ Take({"wait_for_chunk"}, {"message"})
    /\ Head(events).body = "chunk"
    /\ chunksForwarded' = chunksForwarded + 1
    /\ method' = "none"
    /\ UNCHANGED <<running, swarmUp, topics, relayedStreams, peerCount,
                   finalMetrics, networkVars, starts>>

(* wait_for_chunk() drops every other event, subscriptions included.       *)
OnIgnored ==
    /\ Take({"wait_for_chunk"}, {"message", "subscribed", "unsubscribed"})
    /\ ~(Head(events).kind = "message" /\ Head(events).body = "chunk")
    /\ UNCHANGED <<nodeVars, metricVars, networkVars, starts>>

Handle == \/ OnConnectionEstablished \/ OnConnectionClosed
          \/ OnMessage \/ OnSubscribed \/ OnUnsubscribed
          \/ OnAwaitedChunk \/ OnIgnored
-----------------------------------------------------------------------------
(* The network, as the swarm reports it (external).                        *)

Arrives(e) ==
    /\ swarmUp
    /\ Len(events) < MaxEvents
    /\ events' = Append(events, e)

Connect(p) ==
    /\ conns[p] < ConnsPerPeer
    /\ Arrives([kind |-> "established", peer |-> p])
    /\ conns' = [conns EXCEPT ![p] = @ + 1]
    /\ UNCHANGED <<nodeVars, metricVars, peerTopics, delivered, starts>>

Disconnect(p) ==
    /\ conns[p] > 0
    /\ Arrives([kind |-> "closed", peer |-> p])
    /\ conns' = [conns EXCEPT ![p] = @ - 1]
    /\ peerTopics' = IF conns[p] = 1 THEN [peerTopics EXCEPT ![p] = {}] ELSE peerTopics
    /\ UNCHANGED <<nodeVars, metricVars, delivered, starts>>

PeerSubscribes(p, s) ==
    /\ conns[p] > 0
    /\ s \notin peerTopics[p]
    /\ Arrives([kind |-> "subscribed", peer |-> p, topic |-> s])
    /\ peerTopics' = [peerTopics EXCEPT ![p] = @ \cup {s}]
    /\ UNCHANGED <<nodeVars, metricVars, conns, delivered, starts>>

PeerUnsubscribes(p, s) ==
    /\ s \in peerTopics[p]
    /\ Arrives([kind |-> "unsubscribed", peer |-> p, topic |-> s])
    /\ peerTopics' = [peerTopics EXCEPT ![p] = @ \ {s}]
    /\ UNCHANGED <<nodeVars, metricVars, conns, delivered, starts>>

(* A peer publishes on a topic it subscribes to; gossipsub reports the     *)
(* message only when the relay has joined the topic.                       *)
PeerPublishes(p, s, b) ==
    /\ s \in peerTopics[p]
    /\ s \in topics
    /\ delivered < MaxMessages
    /\ Arrives([kind |-> "message", topic |-> s, body |-> b])
    /\ delivered' = delivered + 1
    /\ UNCHANGED <<nodeVars, metricVars, conns, peerTopics, starts>>
-----------------------------------------------------------------------------
Owner == \/ StartBegins \/ StartSucceeds \/ StartFails
         \/ \E s \in Topic : SubscribeStream(s)
         \/ \E loop \in Loops : EnterLoop(loop)
         \/ LoopDropped \/ Shutdown

Network == \E p \in Peer :
    \/ Connect(p) \/ Disconnect(p)
    \/ \E s \in Topic : \/ PeerSubscribes(p, s) \/ PeerUnsubscribes(p, s)
                        \/ \E b \in Body : PeerPublishes(p, s, b)

Next == Owner \/ Handle \/ Network

Spec == Init /\ [][Next]_vars

(* select_next_some is polled again as long as the loop's future lives.    *)
LiveSpec == Spec /\ WF_vars(Handle)
-----------------------------------------------------------------------------
(* The type invariant, with the two facts the guards of the node rely on:  *)
(* run asks the running flag, subscribe_stream asks for a swarm, and both  *)
(* must mean the same.                                                     *)
TypeOK ==
    /\ method \in {"none", "start", "run", "wait_for_chunk"}
    /\ running \in BOOLEAN
    /\ swarmUp = running
    /\ method = "start" => ~running
    /\ method \in Loops => running
    /\ topics \subseteq Topic
    /\ relayedStreams \subseteq Topic
    /\ peerCount \in Nat
    /\ chunksForwarded \in Nat
    /\ finalMetrics \in {NoMetrics} \cup
         [peers : Nat, streams : SUBSET Topic, chunks : Nat]
    /\ events \in Seq(Event)
    /\ conns \in [Peer -> 0..ConnsPerPeer]
    /\ peerTopics \in [Peer -> SUBSET Topic]

Unread(k) == Cardinality({i \in DOMAIN events : events[i].kind = k})

OpenConnections == {c \in Peer \X (1..ConnsPerPeer) : c[2] <= conns[c[1]]}

(* What peer_count was when the former life of the node ended.             *)
Former == IF finalMetrics = NoMetrics THEN 0 ELSE finalMetrics.peers

(* What peer_count says, exactly: the connections that are open now, those *)
(* whose event is still unread set aside, and on top of them those that the*)
(* former life of the node left open, whatever loop reads the events and   *)
(* however often it is dropped and entered again.  The decrement that stops*)
(* at zero never loses one.                                                *)
CountIsOfConnections ==
    swarmUp => peerCount + Unread("established") - Unread("closed")
                 = Cardinality(OpenConnections) + Former

(* The doc of RelayMetrics::peers_connected, "Number of currently connected*)
(* peers": once every event is read, the count is that of the peers with a *)
(* connection.  It is not: run() and wait_for_chunk() count connections,   *)
(* two of one peer twice, and shutdown() forgets the connections but not   *)
(* the count.                                                              *)
PeersAreCurrent ==
    swarmUp /\ events = <<>>
        => peerCount = Cardinality({p \in Peer : conns[p] > 0})

(* A message the relay is about to re-publish is always on a topic it has  *)
(* joined: MdrnSwarm::publish never answers NotSubscribed in run().        *)
MessagesAreOnJoinedTopics ==
    \A e \in ToSet(events) : e.kind = "message" => e.topic \in topics

(* A subscription that run() finds among its events makes the relay join   *)
(* the topic, whatever happened to the peer meanwhile, unless the loop is  *)
(* left; wait_for_chunk would have dropped it.                             *)
PeerTopicsAreJoined ==
    \A p \in Peer, s \in Topic :
        (/\ method = "run"
         /\ [kind |-> "subscribed", peer |-> p, topic |-> s] \in ToSet(events))
            ~> (s \in topics \/ method # "run")
=============================================================================
