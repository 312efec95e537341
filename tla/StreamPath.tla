----------------------------- MODULE StreamPath -----------------------------
(***************************************************************************)
(* One stream on its way from the broadcaster through the relay to the     *)
(* listeners: broadcast_to_network (mdrn-cli/src/broadcast.rs), the        *)
(* forwarding of RelayNode::run (relay.rs) and run_listen_network          *)
(* (listen.rs), three processes that meet at the relay only.               *)
(*                                                                         *)
(* A program hears from the network, and queued messages leave it, only    *)
(* while it polls its swarm.  The broadcaster does not poll between the    *)
(* first and the last chunk: what it knows of the relay is frozen, and the *)
(* chunks wait in its outbox for the drain period.  The relay passes a     *)
(* chunk on twice: gossipsub forwards it inside the mesh, and run()        *)
(* re-publishes it, which gossipsub takes for a new message.  Connections  *)
(* are reliable and ordered, and lose what is in flight when they close.   *)
(* The copies that go back to the broadcaster are left out: it drops them. *)
(***************************************************************************)
EXTENDS Integers, SequencesExt

CONSTANTS
    Broadcaster,
    Listener,
    LastChunk,      \* the recording has the chunks 1 .. LastChunk
    Stream, Other,  \* gossipsub topics: of this stream, of another one
    Faults          \* what may go wrong in a run, see FaultKinds

FaultKinds == {"dial_error",      \* dialling the relay fails, or takes over 15 s
               "slow_identify",   \* connected, but no Identify within 15 s
               "short_drain",     \* messages need more than 5 s to arrive
               "listen_window"}   \* the 60 s of the listener run out

ASSUME StreamAssumption ==
    /\ Broadcaster \notin Listener
    /\ Stream # Other
    /\ LastChunk \in Nat \ {0}
    /\ Faults \subseteq FaultKinds

Client == {Broadcaster} \cup Listener

VARIABLES
    phase,        \* where each client program is
    seen,         \* connected and protocols_ready of its connect loop
    known,        \* topics the broadcaster's gossipsub knows the relay to have
    news,         \* subscriptions of the relay on their way to the broadcaster
    waited,       \* history: how the broadcaster's mesh wait ended
    cutShort,     \* history: the broadcaster exited before all had arrived
    next,         \* the chunk the broadcaster publishes next
    published,    \* chunks_published
    outbox,       \* messages queued in a client, until it polls its swarm
    toRelay,      \* messages between each client and the relay
    relayTopics,  \* topics the relay has joined
    subscribers,  \* listeners the relay knows to subscribe to Stream
    events,       \* gossipsub events that run() has not handled yet
    inbox,        \* chunks between the relay and each listener
    heard         \* chunks each listener has decoded, in order

broadcastVars == <<known, news, waited, cutShort, next, published>>
relayVars     == <<relayTopics, subscribers, events>>
listenVars    == <<inbox, heard>>
vars == <<phase, seen, known, news, waited, cutShort, next, published, outbox,
          toRelay, relayTopics, subscribers, events, inbox, heard>>

Subscription == [kind |-> "subscribe"]
ChunkMessage(n) == [kind |-> "chunk", seq |-> n]
Messages == {Subscription} \cup {ChunkMessage(n) : n \in 1..LastChunk}

Copies == [seq : 1..LastChunk, via : {"forwarded", "republished"}]

Init ==
    /\ phase = [c \in Client |-> "connecting"]
    /\ seen = [c \in Client |-> {}]
    /\ known = {}
    /\ news = <<>>
    /\ waited = "no"
    /\ cutShort = FALSE
    /\ next = 1
    /\ published = 0
    /\ outbox = [c \in Client |-> <<>>]
    /\ toRelay = [c \in Client |-> <<>>]
    /\ relayTopics = {}
    /\ subscribers = {}
    /\ events = <<>>
    /\ inbox = [l \in Listener |-> <<>>]
    /\ heard = [l \in Listener |-> <<>>]
-----------------------------------------------------------------------------
(* The connect loop, the same in both programs.                            *)

(* Mutant: the publish loop polls the swarm as well.                       *)
PollingWhilePublishing ==
    {"connecting", "mesh_wait", "publishing", "draining", "listening"}

(* The phases in which a client polls its swarm.                           *)
PollingPhases == {"connecting", "mesh_wait", "draining", "listening"}

Enter(c, from, to) == phase[c] = from /\ phase' = [phase EXCEPT ![c] = to]

(* The relay greets a new peer with the topics it has joined.              *)
ConnectionEstablished(c) ==
    /\ phase[c] = "connecting"
    /\ "connected" \notin seen[c]
    /\ seen' = [seen EXCEPT ![c] = @ \cup {"connected"}]
    /\ IF c = Broadcaster
       THEN \E greeting \in SetToSeqs(relayTopics) : news' = greeting
       ELSE UNCHANGED news
    /\ UNCHANGED <<phase, known, waited, cutShort, next, published, outbox, toRelay,
                   relayVars, listenVars>>

IdentifyReceived(c) ==
    /\ phase[c] = "connecting"
    /\ "connected" \in seen[c]
    /\ seen' = [seen EXCEPT ![c] = @ \cup {"ready"}]
    /\ UNCHANGED <<phase, broadcastVars, outbox, toRelay, relayVars, listenVars>>

(* OutgoingConnectionError, or the 15 s pass without a connection.         *)
GiveUp(c) ==
    /\ "dial_error" \in Faults
    /\ Enter(c, "connecting", "failed")
    /\ UNCHANGED <<seen, broadcastVars, outbox, toRelay, relayVars, listenVars>>

(* The client goes on and subscribes to the topic of the stream.  Without  *)
(* Identify ("proceeding anyway") the subscription may be dropped silently.*)
Subscribe(c) ==
    /\ Enter(c, "connecting", IF c = Broadcaster THEN "mesh_wait" ELSE "listening")
    /\ "connected" \in seen[c]
    /\ "ready" \in seen[c] \/ "slow_identify" \in Faults
    /\ \/ outbox' = [outbox EXCEPT ![c] = Append(@, Subscription)]
       \/ "ready" \notin seen[c] /\ UNCHANGED outbox
    /\ UNCHANGED <<seen, broadcastVars, toRelay, relayVars, listenVars>>

(* While the client polls, its oldest queued message leaves the process.   *)
Flush(c) ==
    /\ phase[c] \in PollingPhases
    /\ outbox[c] # <<>>
    /\ toRelay' = [toRelay EXCEPT ![c] = Append(@, Head(outbox[c]))]
    /\ outbox' = [outbox EXCEPT ![c] = Tail(@)]
    /\ UNCHANGED <<phase, seen, broadcastVars, relayVars, listenVars>>
-----------------------------------------------------------------------------
(* The broadcaster.                                                        *)

(* A subscription of the relay arrives.  Its Subscribed event ends the     *)
(* mesh wait whatever topic it names; the other loops drop it.             *)
NewsArrives ==
    /\ phase[Broadcaster] \in PollingPhases
    /\ news # <<>>
    /\ news' = Tail(news)
    /\ known' = known \cup {Head(news)}
    /\ IF phase[Broadcaster] = "mesh_wait"
       THEN Enter(Broadcaster, "mesh_wait", "publishing") /\ waited' = "joined"
       ELSE UNCHANGED <<phase, waited>>
    /\ UNCHANGED <<seen, cutShort, next, published, outbox, toRelay, relayVars,
                   listenVars>>

(* Mutant: the mesh wait without its timeout.                              *)
MeshWaitForever == FALSE /\ UNCHANGED vars

(* 15 s pass without a Subscribed event.                                   *)
MeshWaitTimeout ==
    /\ Enter(Broadcaster, "mesh_wait", "publishing")
    /\ waited' = "timeout"
    /\ UNCHANGED <<seen, known, news, cutShort, next, published, outbox, toRelay,
                   relayVars, listenVars>>

(* gossipsub accepts a message when it knows a peer to send it to          *)
(* (external); otherwise publish fails with InsufficientPeers.             *)
PublishAccepted == Stream \in known

(* Mutant: the publish loop runs once too often.                           *)
PublishOneTooMany ==
    /\ phase[Broadcaster] = "publishing"
    /\ next <= LastChunk + 1
    /\ next' = next + 1
    /\ IF PublishAccepted
       THEN /\ published' = published + 1
            /\ outbox' = [outbox EXCEPT ![Broadcaster] = Append(@, ChunkMessage(next))]
       ELSE UNCHANGED <<published, outbox>>
    /\ UNCHANGED <<phase, seen, known, news, waited, cutShort, toRelay, relayVars,
                   listenVars>>

(* One turn of the publish loop; a failed publish is only logged.          *)
Publish ==
    /\ phase[Broadcaster] = "publishing"
    /\ next <= LastChunk
    /\ next' = next + 1
    /\ IF PublishAccepted
       THEN /\ published' = published + 1
            /\ outbox' = [outbox EXCEPT ![Broadcaster] = Append(@, ChunkMessage(next))]
       ELSE UNCHANGED <<published, outbox>>
    /\ UNCHANGED <<phase, seen, known, news, waited, cutShort, toRelay, relayVars,
                   listenVars>>

StartDrain ==
    /\ next > LastChunk
    /\ Enter(Broadcaster, "publishing", "draining")
    /\ UNCHANGED <<seen, broadcastVars, outbox, toRelay, relayVars, listenVars>>

(* After 5 s the process exits, with whatever it still has in its outbox.  *)
(* Its connection closes, and of what is on its way the relay gets only so *)
(* much as was kept, from the oldest message on.                           *)
DrainEnds ==
    /\ \/ "short_drain" \in Faults
       \/ outbox[Broadcaster] = <<>> /\ toRelay[Broadcaster] = <<>>
    /\ Enter(Broadcaster, "draining", "done")
    /\ outbox' = [outbox EXCEPT ![Broadcaster] = <<>>]
    /\ \E kept \in 0..Len(toRelay[Broadcaster]) :
         /\ toRelay' = [toRelay EXCEPT ![Broadcaster] = SubSeq(@, 1, kept)]
         /\ cutShort' = \/ outbox[Broadcaster] # <<>>
                        \/ kept < Len(toRelay[Broadcaster])
    /\ UNCHANGED <<seen, known, news, waited, next, published, relayVars, listenVars>>
-----------------------------------------------------------------------------
(* The relay.                                                              *)

(* The relay's gossipsub takes the next message of client c: it notes a    *)
(* subscription and forwards a chunk to the subscribers in its mesh; both  *)
(* become events for run().                                                *)
Receive(c) ==
    /\ toRelay[c] # <<>>
    /\ toRelay' = [toRelay EXCEPT ![c] = Tail(@)]
    /\ LET m == Head(toRelay[c]) IN
       \/ /\ m.kind = "subscribe"
          /\ subscribers' = subscribers \cup ({c} \cap Listener)
          /\ events' = Append(events, m)
          /\ UNCHANGED inbox
       \/ /\ m.kind = "chunk"
          /\ events' = IF Stream \in relayTopics THEN Append(events, m) ELSE events
          /\ \E mesh \in SUBSET subscribers :
               inbox' = [l \in Listener |->
                          IF Stream \in relayTopics /\ l \in mesh
                          THEN Append(inbox[l], [seq |-> m.seq, via |-> "forwarded"])
                          ELSE inbox[l]]
          /\ UNCHANGED subscribers
    /\ UNCHANGED <<phase, seen, broadcastVars, outbox, relayTopics, heard>>

(* Mutant: a relay carries one stream at a time.                           *)
JoinReplaces(topic) ==
    /\ relayTopics' = {topic}
    /\ news' = IF topic \notin relayTopics /\ "connected" \in seen[Broadcaster]
               THEN Append(news, topic) ELSE news

(* A topic is announced to the connected peers when it is new to the relay.*)
Join(topic) ==
    /\ relayTopics' = relayTopics \cup {topic}
    /\ news' = IF topic \notin relayTopics /\ "connected" \in seen[Broadcaster]
               THEN Append(news, topic) ELSE news

(* run() joins the topic of a Subscribed event, ...                        *)
HandleSubscribed ==
    /\ events # <<>>
    /\ Head(events).kind = "subscribe"
    /\ events' = Tail(events)
    /\ Join(Stream)
    /\ UNCHANGED <<phase, seen, known, waited, cutShort, next, published, outbox, toRelay,
                   subscribers, listenVars>>

(* Mutant: the newest event first.                                         *)
HandleNewestChunk ==
    /\ events # <<>>
    /\ Last(events).kind = "chunk"
    /\ events' = Front(events)
    /\ inbox' = [l \in Listener |->
                   IF l \in subscribers
                   THEN Append(inbox[l], [seq |-> Last(events).seq, via |-> "republished"])
                   ELSE inbox[l]]
    /\ UNCHANGED <<phase, seen, broadcastVars, outbox, toRelay, relayTopics,
                   subscribers, heard>>

(* Mutant: the relay leaves it to its mesh to pass chunks on.              *)
HandleChunkByMesh ==
    /\ events # <<>>
    /\ Head(events).kind = "chunk"
    /\ events' = Tail(events)
    /\ UNCHANGED <<phase, seen, broadcastVars, outbox, toRelay, relayTopics,
                   subscribers, listenVars>>

(* Mutant: a listener that has not caught up misses a chunk.               *)
HandleChunkForTheQuick ==
    /\ events # <<>>
    /\ Head(events).kind = "chunk"
    /\ events' = Tail(events)
    /\ inbox' = [l \in Listener |->
                   IF l \in subscribers /\ inbox[l] = <<>>
                   THEN Append(inbox[l], [seq |-> Head(events).seq, via |-> "republished"])
                   ELSE inbox[l]]
    /\ UNCHANGED <<phase, seen, broadcastVars, outbox, toRelay, relayTopics,
                   subscribers, heard>>

(* ... and re-publishes a chunk to everyone who subscribes to its topic.   *)
HandleChunk ==
    /\ events # <<>>
    /\ Head(events).kind = "chunk"
    /\ events' = Tail(events)
    /\ inbox' = [l \in Listener |->
                   IF l \in subscribers
                   THEN Append(inbox[l], [seq |-> Head(events).seq, via |-> "republished"])
                   ELSE inbox[l]]
    /\ UNCHANGED <<phase, seen, broadcastVars, outbox, toRelay, relayTopics,
                   subscribers, heard>>

(* Some other peer of the relay subscribes to another stream (external).   *)
OtherStreamJoined ==
    /\ Other \notin relayTopics
    /\ Join(Other)
    /\ UNCHANGED <<phase, seen, known, waited, cutShort, next, published, outbox, toRelay,
                   subscribers, events, listenVars>>
-----------------------------------------------------------------------------
(* The listeners.                                                          *)

Decode(l) ==
    /\ phase[l] = "listening"
    /\ inbox[l] # <<>>
    /\ heard' = [heard EXCEPT ![l] = Append(@, Head(inbox[l]))]
    /\ inbox' = [inbox EXCEPT ![l] = Tail(@)]
    /\ UNCHANGED <<phase, seen, broadcastVars, outbox, toRelay, relayVars>>

(* The listener writes its file and exits; its connection closes.          *)
ListenEnds(l) ==
    /\ "listen_window" \in Faults
    /\ Enter(l, "listening", "done")
    /\ outbox' = [outbox EXCEPT ![l] = <<>>]
    /\ toRelay' = [toRelay EXCEPT ![l] = <<>>]
    /\ inbox' = [inbox EXCEPT ![l] = <<>>]
    /\ subscribers' = subscribers \ {l}
    /\ UNCHANGED <<seen, broadcastVars, relayTopics, events, heard>>
-----------------------------------------------------------------------------
Connect(c) == \/ ConnectionEstablished(c) \/ IdentifyReceived(c)
              \/ GiveUp(c) \/ Subscribe(c)

Broadcast == \/ NewsArrives \/ MeshWaitTimeout \/ Publish
             \/ StartDrain \/ DrainEnds

Relay == \/ \E c \in Client : Receive(c)
         \/ HandleSubscribed \/ HandleChunk

Next == \/ \E c \in Client : Connect(c) \/ Flush(c)
        \/ Broadcast \/ Relay \/ OtherStreamJoined
        \/ \E l \in Listener : Decode(l) \/ ListenEnds(l)

Spec == Init /\ [][Next]_vars

(* Programs that poll are polled, timers ring and the network delivers.    *)
Fairness ==
    /\ \A c \in Client : /\ WF_vars(Connect(c))
                         /\ WF_vars(Flush(c))
                         /\ WF_vars(Receive(c))
    /\ WF_vars(NewsArrives \/ MeshWaitTimeout)
    /\ WF_vars(Publish) /\ WF_vars(StartDrain) /\ WF_vars(DrainEnds)
    /\ WF_vars(HandleSubscribed \/ HandleChunk)
    /\ \A l \in Listener : WF_vars(Decode(l))

LiveSpec == Spec /\ Fairness
-----------------------------------------------------------------------------
TypeOK ==
    /\ phase \in [Client -> {"connecting", "failed", "mesh_wait", "publishing",
                             "draining", "listening", "done"}]
    /\ seen \in [Client -> SUBSET {"connected", "ready"}]
    /\ known \subseteq {Stream, Other}
    /\ news \in Seq({Stream, Other})
    /\ waited \in {"no", "joined", "timeout"}
    /\ cutShort \in BOOLEAN
    /\ next \in 1..(LastChunk + 1)
    /\ published \in 0..LastChunk
    /\ outbox \in [Client -> Seq(Messages)]
    /\ toRelay \in [Client -> Seq(Messages)]
    /\ relayTopics \subseteq {Stream, Other}
    /\ subscribers \subseteq Listener
    /\ events \in Seq(Messages)
    /\ inbox \in [Listener -> Seq(Copies)]
    /\ heard \in [Listener -> Seq(Copies)]

(* Since nothing reaches the broadcaster while it publishes, either every  *)
(* chunk of the recording is accepted by gossipsub or none is.             *)
AllOrNothing == published \in {0, next - 1}

(* A chunk that gossipsub accepted finds the relay on its topic: nothing   *)
(* that was published is dropped at the relay for want of a subscription.  *)
ChunksFindTheRelay ==
    (\E n \in 1..LastChunk : ChunkMessage(n) \in
        ToSet(outbox[Broadcaster]) \cup ToSet(toRelay[Broadcaster]))
            => Stream \in relayTopics

(* Seen from its two ends, the stream is the StreamService: a listener     *)
(* hears only what has been published, and of each of the two ways a chunk *)
(* takes every chunk at most once, in order, and without gaps if it is run *)
(* that publishes it again; whatever is late, lost or cut short.  That is  *)
(* what the programs do.  What the test plan asks of a listener is more,   *)
(* see HearsEachOnce.                                                      *)
Service == INSTANCE StreamService

ImplementsService == Service!Spec

(* If a listener subscribed before the first chunk was published, and that *)
(* publish was accepted, the listener hears the whole recording, unless    *)
(* its window runs out or the broadcaster's drain period does not suffice. *)
HearsAll ==
    \A l \in Listener :
        (/\ phase[Broadcaster] = "publishing"
         /\ next = 1
         /\ PublishAccepted
         /\ l \in subscribers)
            ~> \/ \A n \in 1..LastChunk : \E m \in ToSet(heard[l]) : m.seq = n
               \/ phase[l] = "done"
               \/ cutShort

(* A listener may come late.  If it is still there when the whole recording*)
(* has left the broadcaster and nothing is on its way any more, it has     *)
(* heard everything from the first chunk that run() published to it on.    *)
HearsFromThenOn ==
    \A l \in Listener :
        (/\ phase[Broadcaster] = "done" /\ ~cutShort
         /\ l \in subscribers
         /\ toRelay[Broadcaster] = <<>> /\ events = <<>> /\ inbox[l] = <<>>)
            => \A n \in Service!HeardBy(l, "republished") :
                 n..published \subseteq Service!HeardBy(l, "republished")

(* broadcast_to_network returns, with or without a relay, subscriptions or *)
(* an audience.                                                            *)
BroadcastReturns == <>(phase[Broadcaster] \in {"done", "failed"})

(* "Ignores duplicate seq numbers", the test plan says of the listener: it *)
(* hears no chunk twice, whichever of the two ways the chunk takes.  In    *)
(* fact it does: the decode loop of run_listen_network never looks at seq. *)
HearsEachOnce ==
    \A l \in Listener : \A i, j \in DOMAIN heard[l] :
        i # j => heard[l][i].seq # heard[l][j].seq

(* "poll swarm events until we see a GossipsubEvent::Subscribed from       *)
(* another peer on our stream topic": when the wait ends with an event,    *)
(* the broadcaster knows that the relay carries the stream.                *)
WaitEndsOnOurTopic == waited = "joined" => Stream \in known
=============================================================================
