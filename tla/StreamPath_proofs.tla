------------------------- MODULE StreamPath_proofs --------------------------
(***************************************************************************)
(* Proofs about StreamPath, for any number of listeners, any length of the *)
(* recording and whatever may go wrong.                                    *)
(*                                                                         *)
(* That all or none of the chunks published so far were accepted is kept by*)
(* a step only because what the broadcaster knows of the relay does not    *)
(* change while it publishes: Progress relates the count to the topics it  *)
(* knows.  That an accepted chunk finds the relay on its topic rests on    *)
(* what the broadcaster knows, and on what is still on its way to it, being*)
(* so: TopicsAreKnown.                                                     *)
(***************************************************************************)
EXTENDS StreamPath, FiniteSetTheorems, Facts

(* A greeting of the relay is made of its topics (SetToSeqs).              *)
LEMMA GreetingsAreTopics ==
    ASSUME TypeOK
    PROVE  \A greeting \in SetToSeqs(relayTopics) :
              /\ greeting \in Seq(relayTopics)
              /\ ToSet(greeting) \subseteq relayTopics
<1>1. IsFiniteSet({Stream}) /\ {Stream, Other} = {Stream} \cup {Other}
  BY FS_Singleton
<1>2. IsFiniteSet({Stream, Other})
  BY <1>1, FS_AddElement
<1>3. Cardinality(relayTopics) \in Nat
  BY <1>2, FS_Subset, FS_CardinalityType DEF TypeOK
<1> QED
  BY <1>3 DEF SetToSeqs, ToSet

LEMMA MessageKinds ==
    /\ Subscription \in Messages
    /\ \A n \in 1..LastChunk : /\ ChunkMessage(n) \in Messages
                               /\ ChunkMessage(n) # Subscription
    /\ \A m \in Messages :
          m.kind = "chunk" => m.seq \in 1..LastChunk /\ m = ChunkMessage(m.seq)
<1>1. Subscription.kind = "subscribe"
  BY DEF Subscription
<1>2. \A n : ChunkMessage(n).kind = "chunk" /\ ChunkMessage(n).seq = n
  BY DEF ChunkMessage
<1> QED
  BY <1>1, <1>2 DEF Messages
-----------------------------------------------------------------------------
(* Every part of the state that is a sequence of messages, copies or topics*)
(* loses its head or gains one more at its end.                            *)
LEMMA CopyAdded ==
    ASSUME NEW m \in Messages, m.kind = "chunk",
           NEW via \in {"forwarded", "republished"},
           inbox \in [Listener -> Seq(Copies)],
           NEW S,
           inbox' = [l \in Listener |->
                       IF l \in S
                       THEN Append(inbox[l], [seq |-> m.seq, via |-> via])
                       ELSE inbox[l]]
    PROVE  inbox' \in [Listener -> Seq(Copies)]
<1>1. [seq |-> m.seq, via |-> via] \in Copies
  BY MessageKinds DEF Copies
<1> QED
  BY <1>1

LEMMA TypeCorrectInitially == Init => TypeOK
<1> SUFFICES ASSUME Init PROVE TypeOK
  OBVIOUS
<1>1. \A S : <<>> \in Seq(S)
  BY EmptySeq
<1>2. /\ outbox \in [Client -> Seq(Messages)]
      /\ toRelay \in [Client -> Seq(Messages)]
      /\ news \in Seq({Stream, Other})
      /\ events \in Seq(Messages)
      /\ inbox \in [Listener -> Seq(Copies)]
      /\ heard \in [Listener -> Seq(Copies)]
  BY <1>1 DEF Init
<1>3. next \in 1..(LastChunk + 1) /\ published \in 0..LastChunk
  BY StreamAssumption DEF Init
<1> QED
  BY <1>2, <1>3 DEF Init, TypeOK

LEMMA JoinKeepsTypes ==
    ASSUME TypeOK, NEW topic \in {Stream, Other}, Join(topic)
    PROVE  relayTopics' \subseteq {Stream, Other} /\ news' \in Seq({Stream, Other})
  BY DEF TypeOK, Join

LEMMA TypeCorrectConnect ==
    ASSUME TypeOK, NEW c \in Client, Connect(c) \/ Flush(c)
    PROVE  TypeOK'
<1>1. ASSUME ConnectionEstablished(c) PROVE TypeOK'
  <2>1. news' \in Seq({Stream, Other})
    BY <1>1, GreetingsAreTopics DEF ConnectionEstablished, TypeOK
  <2> QED
    BY <1>1, <2>1 DEF ConnectionEstablished, relayVars, listenVars, TypeOK
<1>2. ASSUME IdentifyReceived(c) PROVE TypeOK'
  BY <1>2 DEF IdentifyReceived, broadcastVars, relayVars, listenVars, TypeOK
<1>3. ASSUME GiveUp(c) PROVE TypeOK'
  BY <1>3 DEF GiveUp, Enter, broadcastVars, relayVars, listenVars, TypeOK
<1>4. ASSUME Subscribe(c) PROVE TypeOK'
  <2>1. outbox' \in [Client -> Seq(Messages)]
    <3>1. outbox[c] \in Seq(Messages) /\ Append(outbox[c], Subscription) \in Seq(Messages)
      BY MessageKinds, AppendProperties DEF TypeOK
    <3> QED
      BY <1>4, <3>1 DEF Subscribe, TypeOK
  <2> QED
    BY <1>4, <2>1
    DEF Subscribe, Enter, broadcastVars, relayVars, listenVars, TypeOK
<1>5. ASSUME Flush(c) PROVE TypeOK'
  <2>1. /\ Head(outbox[c]) \in Messages
        /\ Tail(outbox[c]) \in Seq(Messages)
    BY <1>5, HeadTailToSet DEF Flush, TypeOK
  <2> QED
    BY <1>5, <2>1 DEF Flush, broadcastVars, relayVars, listenVars, TypeOK
<1> QED
  BY <1>1, <1>2, <1>3, <1>4, <1>5 DEF Connect

LEMMA TypeCorrectBroadcast ==
    ASSUME TypeOK, AllOrNothing, Broadcast
    PROVE  TypeOK'
<1>0. Broadcaster \in Client
  BY DEF Client
<1>1. ASSUME NewsArrives PROVE TypeOK'
  <2>1. /\ Head(news) \in {Stream, Other}
        /\ Tail(news) \in Seq({Stream, Other})
    BY <1>0, <1>1, HeadTailToSet DEF NewsArrives, TypeOK
  <2> QED
    BY <1>0, <1>1, <2>1
    DEF NewsArrives, Enter, relayVars, listenVars, TypeOK
<1>2. ASSUME MeshWaitTimeout PROVE TypeOK'
  BY <1>0, <1>2 DEF MeshWaitTimeout, Enter, relayVars, listenVars, TypeOK
<1>3. ASSUME Publish PROVE TypeOK'
  <2>1. ChunkMessage(next) \in Messages
    BY <1>0, <1>3, MessageKinds, StreamAssumption DEF Publish, TypeOK
  <2>2. outbox' \in [Client -> Seq(Messages)]
    <3>1. Append(outbox[Broadcaster], ChunkMessage(next)) \in Seq(Messages)
      BY <1>0, <2>1, AppendProperties DEF TypeOK
    <3> QED
      BY <1>0, <1>3, <3>1 DEF Publish, TypeOK
  <2>3. next' \in 1..(LastChunk + 1) /\ published' \in 0..LastChunk
    BY <1>3, StreamAssumption DEF Publish, AllOrNothing, TypeOK
  <2> QED
    BY <1>3, <2>2, <2>3 DEF Publish, relayVars, listenVars, TypeOK
<1>4. ASSUME StartDrain PROVE TypeOK'
  BY <1>0, <1>4
  DEF StartDrain, Enter, broadcastVars, relayVars, listenVars, TypeOK
<1>5. ASSUME DrainEnds PROVE TypeOK'
  BY <1>0, <1>5 DEF DrainEnds, Enter, relayVars, listenVars, TypeOK
<1> QED
  BY <1>1, <1>2, <1>3, <1>4, <1>5 DEF Broadcast

LEMMA TypeCorrectRelay ==
    ASSUME TypeOK, Relay \/ OtherStreamJoined
    PROVE  TypeOK'
<1>1. ASSUME NEW c \in Client, Receive(c) PROVE TypeOK'
  <2> DEFINE m == Head(toRelay[c])
  <2>1. m \in Messages /\ Tail(toRelay[c]) \in Seq(Messages)
    BY <1>1, HeadTailToSet DEF Receive, TypeOK
  <2>2. toRelay' \in [Client -> Seq(Messages)]
    BY <1>1, <2>1 DEF Receive, TypeOK
  <2>3. events' \in Seq(Messages)
    <3>1. Append(events, m) \in Seq(Messages)
      BY <2>1, AppendProperties DEF TypeOK
    <3> QED
      BY <1>1, <3>1 DEF Receive, TypeOK
  <2>4. inbox' \in [Listener -> Seq(Copies)] /\ subscribers' \subseteq Listener
    <3>1. CASE m.kind = "subscribe" /\ UNCHANGED inbox
               /\ subscribers' = subscribers \cup ({c} \cap Listener)
      BY <3>1 DEF TypeOK
    <3>2. CASE /\ m.kind = "chunk"
               /\ \E mesh \in SUBSET subscribers :
                    inbox' = [l \in Listener |->
                       IF Stream \in relayTopics /\ l \in mesh
                       THEN Append(inbox[l], [seq |-> m.seq, via |-> "forwarded"])
                       ELSE inbox[l]]
               /\ UNCHANGED subscribers
      <4>1. PICK mesh \in SUBSET subscribers :
                 inbox' = [l \in Listener |->
                    IF Stream \in relayTopics /\ l \in mesh
                    THEN Append(inbox[l], [seq |-> m.seq, via |-> "forwarded"])
                    ELSE inbox[l]]
        BY <3>2
      <4> DEFINE S == IF Stream \in relayTopics THEN mesh ELSE {}
      <4>2. inbox' = [l \in Listener |->
                    IF l \in S
                    THEN Append(inbox[l], [seq |-> m.seq, via |-> "forwarded"])
                    ELSE inbox[l]]
        BY <4>1
      <4> HIDE DEF S, m
      <4>3. inbox' \in [Listener -> Seq(Copies)]
        BY <2>1, <3>2, <4>2, CopyAdded DEF TypeOK
      <4> QED
        BY <3>2, <4>3 DEF TypeOK
    <3> QED
      BY <1>1, <3>1, <3>2 DEF Receive
  <2> QED
    BY <1>1, <2>2, <2>3, <2>4 DEF Receive, broadcastVars, TypeOK
<1>2. ASSUME HandleSubscribed PROVE TypeOK'
  <2>1. Tail(events) \in Seq(Messages)
    BY <1>2, HeadTailToSet DEF HandleSubscribed, TypeOK
  <2>2. /\ relayTopics' \subseteq {Stream, Other}
        /\ news' \in Seq({Stream, Other})
    BY <1>2, JoinKeepsTypes DEF HandleSubscribed
  <2> QED
    BY <1>2, <2>1, <2>2 DEF HandleSubscribed, listenVars, TypeOK
<1>3. ASSUME HandleChunk PROVE TypeOK'
  <2>1. Head(events) \in Messages /\ Tail(events) \in Seq(Messages)
    BY <1>3, HeadTailToSet DEF HandleChunk, TypeOK
  <2>2. inbox' \in [Listener -> Seq(Copies)]
    BY <1>3, <2>1, CopyAdded DEF HandleChunk, TypeOK
  <2> QED
    BY <1>3, <2>1, <2>2 DEF HandleChunk, broadcastVars, TypeOK
<1>4. ASSUME OtherStreamJoined PROVE TypeOK'
  <2>1. /\ relayTopics' \subseteq {Stream, Other}
        /\ news' \in Seq({Stream, Other})
    BY <1>4, JoinKeepsTypes DEF OtherStreamJoined
  <2> QED
    BY <1>4, <2>1 DEF OtherStreamJoined, listenVars, TypeOK
<1> QED
  BY <1>1, <1>2, <1>3, <1>4 DEF Relay

LEMMA TypeCorrectListen ==
    ASSUME TypeOK, NEW l \in Listener, Decode(l) \/ ListenEnds(l)
    PROVE  TypeOK'
<1>1. ASSUME Decode(l) PROVE TypeOK'
  <2>1. Head(inbox[l]) \in Copies /\ Tail(inbox[l]) \in Seq(Copies)
    BY <1>1, HeadTailToSet DEF Decode, TypeOK
  <2>2. Append(heard[l], Head(inbox[l])) \in Seq(Copies)
    BY <2>1, AppendProperties DEF TypeOK
  <2> QED
    BY <1>1, <2>1, <2>2 DEF Decode, broadcastVars, relayVars, TypeOK
<1>2. ASSUME ListenEnds(l) PROVE TypeOK'
  <2>1. \A S : <<>> \in Seq(S)
    BY EmptySeq
  <2>2. /\ outbox' \in [Client -> Seq(Messages)]
        /\ toRelay' \in [Client -> Seq(Messages)]
        /\ inbox' \in [Listener -> Seq(Copies)]
    BY <1>2, <2>1 DEF ListenEnds, TypeOK
  <2> QED
    BY <1>2, <2>2 DEF ListenEnds, Enter, broadcastVars, TypeOK
<1> QED
  BY <1>1, <1>2

LEMMA TypeCorrectNext == TypeOK /\ AllOrNothing /\ [Next]_vars => TypeOK'
<1> SUFFICES ASSUME TypeOK, AllOrNothing, [Next]_vars PROVE TypeOK'
  OBVIOUS
<1>1. CASE UNCHANGED vars
  BY <1>1 DEF vars, TypeOK
<1> QED
  BY <1>1, TypeCorrectConnect, TypeCorrectBroadcast, TypeCorrectRelay,
     TypeCorrectListen DEF Next
-----------------------------------------------------------------------------
(* What has been published, phase by phase.                                *)
Progress ==
    LET at == phase[Broadcaster]
    IN  /\ at # "listening"
        /\ at \in {"connecting", "failed", "mesh_wait"} =>
              next = 1 /\ published = 0
        /\ at = "publishing" =>
              published = IF Stream \in known THEN next - 1 ELSE 0
        /\ AllOrNothing

LEMMA ProgressInitially == Init => Progress
  BY StreamAssumption DEF Init, Progress, AllOrNothing, Client

LEMMA ProgressNext == TypeOK /\ Progress /\ [Next]_vars => Progress'
<1> SUFFICES ASSUME TypeOK, Progress, [Next]_vars PROVE Progress'
  OBVIOUS
<1>0. /\ Broadcaster \in Client /\ Broadcaster \notin Listener
      /\ next \in Nat /\ published \in Nat
      /\ DOMAIN phase = Client
  BY StreamAssumption DEF Client, TypeOK
<1>1. ASSUME NEW c \in Client, Connect(c) PROVE Progress'
  BY <1>0, <1>1
  DEF Connect, ConnectionEstablished, IdentifyReceived, GiveUp, Subscribe,
      Enter, broadcastVars, Progress, AllOrNothing
<1>2. ASSUME NewsArrives PROVE Progress'
  BY <1>0, <1>2
  DEF NewsArrives, Enter, PollingPhases, Progress, AllOrNothing
<1>3. ASSUME MeshWaitTimeout PROVE Progress'
  BY <1>0, <1>3 DEF MeshWaitTimeout, Enter, Progress, AllOrNothing
<1>4. ASSUME Publish PROVE Progress'
  BY <1>0, <1>4 DEF Publish, PublishAccepted, Progress, AllOrNothing
<1>5. ASSUME StartDrain \/ DrainEnds PROVE Progress'
  BY <1>0, <1>5
  DEF StartDrain, DrainEnds, Enter, broadcastVars, Progress, AllOrNothing
<1>6. ASSUME NEW l \in Listener, ListenEnds(l) PROVE Progress'
  BY <1>0, <1>6
  DEF ListenEnds, Enter, broadcastVars, Progress, AllOrNothing
<1>7. ASSUME UNCHANGED <<phase, known, next, published>> PROVE Progress'
  BY <1>7 DEF Progress, AllOrNothing
<1>8. ASSUME NEW c \in Client, Flush(c) \/ Receive(c) PROVE Progress'
  BY <1>7, <1>8 DEF Flush, Receive, broadcastVars
<1>9. ASSUME HandleSubscribed \/ HandleChunk \/ OtherStreamJoined
      PROVE  Progress'
  BY <1>7, <1>9
  DEF HandleSubscribed, HandleChunk, OtherStreamJoined, broadcastVars
<1>10. ASSUME NEW l \in Listener, Decode(l) PROVE Progress'
  BY <1>7, <1>10 DEF Decode, broadcastVars
<1>11. CASE UNCHANGED vars
  BY <1>7, <1>11 DEF vars
<1> QED
  BY <1>1, <1>2, <1>3, <1>4, <1>5, <1>6, <1>8, <1>9, <1>10, <1>11
  DEF Next, Broadcast, Relay

(* The queues hold messages, the histories copies, and no more is published*)
(* than the recording has (broadcast_to_network, run_listen_network).      *)
THEOREM StreamTypeCorrect == Spec => []TypeOK
<1>1. Init => TypeOK /\ Progress
  BY TypeCorrectInitially, ProgressInitially
<1>2. TypeOK /\ Progress /\ [Next]_vars => (TypeOK /\ Progress)'
  BY TypeCorrectNext, ProgressNext DEF Progress
<1> QED
  BY <1>1, <1>2, PTL DEF Spec

(* Of a recording of any length, gossipsub accepts every chunk published so*)
(* far or none: what the broadcaster knows of the relay is settled when its*)
(* mesh wait ends (broadcast_to_network).                                  *)
THEOREM PublishedAllOrNothing == Spec => []AllOrNothing
<1>1. Init => TypeOK /\ Progress
  BY TypeCorrectInitially, ProgressInitially
<1>2. TypeOK /\ Progress /\ [Next]_vars => (TypeOK /\ Progress)'
  BY TypeCorrectNext, ProgressNext DEF Progress
<1>3. Progress => AllOrNothing
  BY DEF Progress
<1> QED
  BY <1>1, <1>2, <1>3, PTL DEF Spec
-----------------------------------------------------------------------------
(* What the broadcaster knows of the relay, or will hear of it, is so.     *)
TopicsAreKnown ==
    /\ known \cup ToSet(news) \subseteq relayTopics
    /\ ChunksFindTheRelay

InTransit == ToSet(outbox[Broadcaster]) \cup ToSet(toRelay[Broadcaster])

LEMMA TopicsInitially == Init => TopicsAreKnown
  BY EmptyToSet DEF Init, TopicsAreKnown, ChunksFindTheRelay, Client

(* The relay leaves no topic; so a step is harmless if the broadcaster     *)
(* learns nothing wrong by it and has no new chunk in transit.             *)
LEMMA NoNewChunk ==
    ASSUME TopicsAreKnown,
           relayTopics \subseteq relayTopics',
           known' \cup ToSet(news') \subseteq relayTopics',
           InTransit' \subseteq InTransit \cup {Subscription}
    PROVE  TopicsAreKnown'
<1>1. \A n \in 1..LastChunk : ChunkMessage(n) # Subscription
  BY MessageKinds
<1> QED
  BY <1>1 DEF TopicsAreKnown, ChunksFindTheRelay, InTransit

LEMMA JoinAnnounces ==
    ASSUME TypeOK, TopicsAreKnown, NEW topic, Join(topic), UNCHANGED known
    PROVE  /\ relayTopics \subseteq relayTopics'
           /\ known' \cup ToSet(news') \subseteq relayTopics'
  BY AppendToSet DEF TypeOK, TopicsAreKnown, Join

LEMMA TopicsNext == TypeOK /\ TopicsAreKnown /\ [Next]_vars => TopicsAreKnown'
<1> SUFFICES ASSUME TypeOK, TopicsAreKnown, [Next]_vars
             PROVE  TopicsAreKnown'
  OBVIOUS
<1>0. /\ Broadcaster \in Client /\ Broadcaster \notin Listener
      /\ outbox[Broadcaster] \in Seq(Messages)
      /\ toRelay[Broadcaster] \in Seq(Messages)
      /\ DOMAIN outbox = Client /\ DOMAIN toRelay = Client
      /\ known \cup ToSet(news) \subseteq relayTopics
  BY StreamAssumption DEF Client, TypeOK, TopicsAreKnown
<1>1. ASSUME NEW c \in Client, ConnectionEstablished(c)
      PROVE  TopicsAreKnown'
  <2>1. known' \cup ToSet(news') \subseteq relayTopics'
    BY <1>0, <1>1, GreetingsAreTopics DEF ConnectionEstablished, relayVars
  <2>2. UNCHANGED <<relayTopics, InTransit>>
    BY <1>1 DEF ConnectionEstablished, relayVars, InTransit
  <2> QED
    BY <2>1, <2>2, NoNewChunk
<1>2. ASSUME UNCHANGED <<known, news, relayTopics>>,
             InTransit' \subseteq InTransit \cup {Subscription}
      PROVE  TopicsAreKnown'
  BY <1>0, <1>2, NoNewChunk
<1>3. ASSUME NEW c \in Client,
             \/ IdentifyReceived(c) \/ GiveUp(c)
             \/ StartDrain \/ MeshWaitTimeout \/ HandleChunk
      PROVE  TopicsAreKnown'
  <2>1. UNCHANGED <<known, news, relayTopics, outbox, toRelay>>
    BY <1>3 DEF IdentifyReceived, GiveUp, StartDrain, MeshWaitTimeout,
                HandleChunk, broadcastVars, relayVars
  <2> QED
    BY <1>2, <2>1 DEF InTransit
<1>4. ASSUME NEW c \in Client, Subscribe(c) PROVE TopicsAreKnown'
  <2>1. UNCHANGED <<known, news, relayTopics, toRelay>>
    BY <1>4 DEF Subscribe, broadcastVars, relayVars
  <2>2. outbox'[Broadcaster] \in {outbox[Broadcaster],
                                  Append(outbox[Broadcaster], Subscription)}
    BY <1>0, <1>4 DEF Subscribe
  <2>3. ToSet(Append(outbox[Broadcaster], Subscription))
          = ToSet(outbox[Broadcaster]) \cup {Subscription}
    BY <1>0, AppendToSet
  <2> QED
    BY <1>2, <2>1, <2>2, <2>3 DEF InTransit
<1>5. ASSUME NEW c \in Client, Flush(c) PROVE TopicsAreKnown'
  <2>1. UNCHANGED <<known, news, relayTopics>>
    BY <1>5 DEF Flush, broadcastVars, relayVars
  <2>2. InTransit' \subseteq InTransit
    <3>1. CASE c # Broadcaster
      BY <1>0, <1>5, <3>1 DEF Flush, InTransit
    <3>2. CASE c = Broadcaster
      <4>1. /\ outbox'[c] = Tail(outbox[c])
            /\ toRelay'[c] = Append(toRelay[c], Head(outbox[c]))
            /\ outbox[c] # <<>>
        BY <1>0, <1>5 DEF Flush
      <4>2. /\ ToSet(Tail(outbox[c])) \subseteq ToSet(outbox[c])
            /\ Head(outbox[c]) \in ToSet(outbox[c])
        BY <1>0, <3>2, <4>1, HeadTailToSet
      <4>3. ToSet(Append(toRelay[c], Head(outbox[c])))
              = ToSet(toRelay[c]) \cup {Head(outbox[c])}
        BY <1>0, <3>2, AppendToSet
      <4> QED
        BY <3>2, <4>1, <4>2, <4>3 DEF InTransit
    <3> QED
      BY <3>1, <3>2
  <2> QED
    BY <1>2, <2>1, <2>2
<1>6. ASSUME NewsArrives PROVE TopicsAreKnown'
  <2>1. /\ ToSet(Tail(news)) \subseteq ToSet(news)
        /\ Head(news) \in ToSet(news)
    BY <1>6, HeadTailToSet DEF NewsArrives, TypeOK
  <2>2. UNCHANGED <<relayTopics, InTransit>>
    BY <1>6 DEF NewsArrives, relayVars, InTransit
  <2> QED
    BY <1>0, <1>6, <2>1, <2>2, NoNewChunk DEF NewsArrives
<1>7. ASSUME Publish PROVE TopicsAreKnown'
  <2>1. UNCHANGED <<known, news, relayTopics, toRelay>>
    BY <1>7 DEF Publish, relayVars
  <2>2. CASE PublishAccepted
    BY <1>0, <2>1, <2>2
    DEF PublishAccepted, TopicsAreKnown, ChunksFindTheRelay
  <2>3. CASE ~PublishAccepted
    BY <1>2, <1>7, <2>1, <2>3 DEF Publish, InTransit
  <2> QED
    BY <2>2, <2>3
<1>8. ASSUME DrainEnds PROVE TopicsAreKnown'
  <2>1. UNCHANGED <<known, news, relayTopics>>
    BY <1>8 DEF DrainEnds, relayVars
  <2>2. outbox'[Broadcaster] = <<>>
    BY <1>0, <1>8 DEF DrainEnds
  <2>3. ToSet(toRelay'[Broadcaster]) \subseteq ToSet(toRelay[Broadcaster])
    <3>1. PICK kept \in 0..Len(toRelay[Broadcaster]) :
             toRelay'[Broadcaster] = SubSeq(toRelay[Broadcaster], 1, kept)
      BY <1>0, <1>8 DEF DrainEnds
    <3> QED
      BY <1>0, <3>1, PrefixToSet
  <2> QED
    BY <1>2, <2>1, <2>2, <2>3, EmptyToSet DEF InTransit
<1>9. ASSUME NEW c \in Client, Receive(c) PROVE TopicsAreKnown'
  <2>1. UNCHANGED <<known, news, relayTopics, outbox>>
    BY <1>9 DEF Receive, broadcastVars
  <2>2. ToSet(toRelay'[Broadcaster]) \subseteq ToSet(toRelay[Broadcaster])
    BY <1>0, <1>9, HeadTailToSet DEF Receive
  <2> QED
    BY <1>2, <2>1, <2>2 DEF InTransit
<1>10. ASSUME HandleSubscribed \/ OtherStreamJoined PROVE TopicsAreKnown'
  <2>1. UNCHANGED <<known, outbox, toRelay>>
    BY <1>10 DEF HandleSubscribed, OtherStreamJoined
  <2>2. /\ relayTopics \subseteq relayTopics'
        /\ known' \cup ToSet(news') \subseteq relayTopics'
    BY <1>10, <2>1, JoinAnnounces DEF HandleSubscribed, OtherStreamJoined
  <2> QED
    BY <2>1, <2>2, NoNewChunk DEF InTransit
<1>11. ASSUME NEW l \in Listener, Decode(l) \/ ListenEnds(l)
       PROVE  TopicsAreKnown'
  <2>1. UNCHANGED <<known, news, relayTopics>>
    BY <1>11 DEF Decode, ListenEnds, broadcastVars, relayVars
  <2>2. /\ outbox'[Broadcaster] = outbox[Broadcaster]
        /\ toRelay'[Broadcaster] = toRelay[Broadcaster]
    BY <1>0, <1>11 DEF Decode, ListenEnds
  <2> QED
    BY <1>2, <2>1, <2>2 DEF InTransit
<1>12. CASE UNCHANGED vars
  BY <1>2, <1>12 DEF vars, InTransit
<1> QED
  BY <1>0, <1>1, <1>3, <1>4, <1>5, <1>6, <1>7, <1>8, <1>9, <1>10, <1>11, <1>12
  DEF Next, Connect, Broadcast, Relay

(* Whatever is late, lost or cut short, a chunk that gossipsub accepted    *)
(* never reaches a relay that has not joined its topic (RelayNode::run,    *)
(* broadcast_to_network).                                                  *)
THEOREM ChunksFindTheRelayAlways == Spec => []ChunksFindTheRelay
<1>1. Init => TypeOK /\ Progress /\ TopicsAreKnown
  BY TypeCorrectInitially, ProgressInitially, TopicsInitially
<1>2. TypeOK /\ Progress /\ TopicsAreKnown /\ [Next]_vars
        => (TypeOK /\ Progress /\ TopicsAreKnown)'
  BY TypeCorrectNext, ProgressNext, TopicsNext DEF Progress
<1>3. TopicsAreKnown => ChunksFindTheRelay
  BY DEF TopicsAreKnown
<1> QED
  BY <1>1, <1>2, <1>3, PTL DEF Spec
-----------------------------------------------------------------------------
(* The order of the chunks on the whole path, which the refinement of      *)
(* StreamService needs.  run() has handled the chunks up to e, the relay's *)
(* gossipsub has received those up to r, and those up to o have left the   *)
(* broadcaster.                                                            *)
Chunks   == {ChunkMessage(n) : n \in 1..LastChunk}
Via(via) == {m \in Copies : m.via = via}

PipeInOrder(e, r, o) ==
    /\ e <= r /\ r <= o /\ o <= published
    /\ Carries(events, Chunks, e, r)
    /\ Carries(toRelay[Broadcaster], Chunks, r, o)
    /\ IF phase[Broadcaster] = "done"
       THEN outbox[Broadcaster] = <<>> /\ (cutShort \/ o = published)
       ELSE Carries(outbox[Broadcaster], Chunks, o, published)

(* What run() publishes again reaches a listener from its first copy on;   *)
(* it has decoded those up to h.                                           *)
Republished(l, e) ==
    \E first, h \in 0..e :
        /\ first <= h
        /\ Carries(heard[l], Via("republished"), first, h)
        /\ l \in subscribers => Carries(inbox[l], Via("republished"), h, e)

(* Of what the mesh forwards some may be missing.                          *)
Forwarded(l, r) ==
    \E f \in 0..r : /\ InOrder(heard[l], Via("forwarded"), 0, f)
                    /\ InOrder(inbox[l], Via("forwarded"), f, r)

PathInOrder(e, r, o) ==
    /\ PipeInOrder(e, r, o)
    /\ \A l \in Listener : Republished(l, e) /\ Forwarded(l, r)

(* A listener that has left does not come back, and one that has not yet   *)
(* subscribed has heard nothing: no listener sees a gap.                   *)
Membership(l) ==
    /\ l \notin subscribers =>
         /\ inbox[l] = <<>>
         /\ phase[l] = "done" \/ heard[l] = <<>>
    /\ phase[l] = "done" =>
         l \notin subscribers /\ toRelay[l] = <<>> /\ outbox[l] = <<>>
    /\ \A m \in ToSet(outbox[l]) \cup ToSet(toRelay[l]) : m = Subscription

PathInv ==
    /\ \A l \in Listener : Membership(l)
    /\ \E e, r, o \in 0..LastChunk : PathInOrder(e, r, o)

LEMMA ChunksAreMessages ==
    \A m \in Messages : m \in Chunks <=> m.kind = "chunk"
BY MessageKinds DEF Chunks, Messages, Subscription, ChunkMessage

LEMMA PathInitially == Init => PathInv
<1> SUFFICES ASSUME Init PROVE PathInv
  OBVIOUS
<1>1. \A l \in Listener : Membership(l)
  BY EmptyToSet DEF Init, Membership, Client
<1>2. PathInOrder(0, 0, 0)
  <2>1. \A S : Carries(<<>>, S, 0, 0) /\ InOrder(<<>>, S, 0, 0)
    BY NothingCarried, InOrderEmpty
  <2>2. PipeInOrder(0, 0, 0)
    BY <2>1 DEF Init, PipeInOrder, Client
  <2>3. 0 \in 0..0 /\ 0 <= 0
    OBVIOUS
  <2>4. ASSUME NEW l \in Listener PROVE Republished(l, 0) /\ Forwarded(l, 0)
    BY <2>1, <2>3 DEF Init, Republished, Forwarded
  <2> QED
    BY <2>2, <2>4 DEF PathInOrder
<1>3. 0 \in 0..LastChunk
  BY StreamAssumption
<1> QED
  BY <1>1, <1>2, <1>3 DEF PathInv

(* Who subscribes, and who has left.                                       *)
LEMMA MembershipNext ==
    ASSUME TypeOK, NEW l \in Listener, Membership(l), [Next]_vars
    PROVE  Membership(l)'
<1>0. /\ l \in Client /\ Broadcaster \in Client /\ l # Broadcaster
      /\ Subscription \in Messages /\ Subscription.kind = "subscribe"
  BY StreamAssumption, MessageKinds DEF Client, Subscription
<1>1. outbox[l] \in Seq(Messages) /\ toRelay[l] \in Seq(Messages)
  BY <1>0 DEF TypeOK
<1>2. ASSUME NEW c \in Client, ConnectionEstablished(c) \/ IdentifyReceived(c) \/ GiveUp(c)
      PROVE  Membership(l)'
  BY <1>0, <1>2 DEF ConnectionEstablished, IdentifyReceived, GiveUp, Enter, broadcastVars,
                    relayVars, listenVars, Membership, TypeOK
<1>3. ASSUME NEW c \in Client, Subscribe(c) PROVE Membership(l)'
  <2>1. CASE c # l
    BY <1>0, <1>3, <2>1 DEF Subscribe, Enter, relayVars, listenVars, Membership, TypeOK
  <2>2. CASE c = l
    <3>1. phase[l] = "connecting" /\ phase'[l] = "listening"
      BY <1>0, <1>3, <2>2 DEF Subscribe, Enter, TypeOK
    <3>2. ToSet(outbox'[l]) \subseteq ToSet(outbox[l]) \cup {Subscription}
      <4>1. outbox'[l] = outbox[l] \/ outbox'[l] = Append(outbox[l], Subscription)
        BY <1>0, <1>3, <2>2 DEF Subscribe, TypeOK
      <4> QED
        BY <1>0, <1>1, <4>1, AppendToSet
    <3> QED
      BY <1>3, <3>1, <3>2 DEF Subscribe, relayVars, listenVars, Membership
  <2> QED
    BY <2>1, <2>2
<1>4. ASSUME NEW c \in Client, Flush(c) PROVE Membership(l)'
  <2>1. CASE c # l
    BY <1>0, <1>4, <2>1 DEF Flush, relayVars, listenVars, Membership, TypeOK
  <2>2. CASE c = l
    <3>1. outbox[l] # <<>> /\ phase[l] # "done"
      BY <1>4, <2>2 DEF Flush, PollingPhases
    <3>2. /\ outbox'[l] = Tail(outbox[l])
          /\ toRelay'[l] = Append(toRelay[l], Head(outbox[l]))
      BY <1>0, <1>4, <2>2 DEF Flush, TypeOK
    <3>3. /\ Head(outbox[l]) \in ToSet(outbox[l]) /\ Head(outbox[l]) \in Messages
          /\ ToSet(outbox'[l]) \subseteq ToSet(outbox[l])
      BY <1>1, <3>1, <3>2, HeadTailToSet
    <3>4. ToSet(toRelay'[l]) = ToSet(toRelay[l]) \cup {Head(outbox[l])}
      BY <1>1, <3>2, <3>3, AppendToSet
    <3> QED
      BY <1>4, <3>1, <3>3, <3>4 DEF Flush, relayVars, listenVars, Membership
  <2> QED
    BY <2>1, <2>2
<1>5. ASSUME NewsArrives \/ MeshWaitTimeout \/ Publish \/ StartDrain \/ DrainEnds
      PROVE  Membership(l)'
  BY <1>0, <1>5 DEF NewsArrives, MeshWaitTimeout, Publish, StartDrain, DrainEnds, Enter,
                    relayVars, listenVars, Membership, TypeOK
<1>6. ASSUME NEW c \in Client, Receive(c) PROVE Membership(l)'
  <2>1. toRelay[c] # <<>> /\ toRelay[c] \in Seq(Messages)
    BY <1>6 DEF Receive, TypeOK
  <2>2. /\ ToSet(toRelay'[l]) \subseteq ToSet(toRelay[l])
        /\ toRelay[l] = <<>> => toRelay'[l] = <<>> /\ c # l
    <3>1. CASE c # l
      BY <1>0, <1>6, <3>1 DEF Receive, TypeOK
    <3>2. CASE c = l
      <4>1. toRelay'[l] = Tail(toRelay[l])
        BY <1>0, <1>6, <3>2 DEF Receive, TypeOK
      <4> QED
        BY <2>1, <3>2, <4>1, HeadTailToSet
    <3> QED
      BY <3>1, <3>2
  <2>3. UNCHANGED <<phase, outbox, heard>>
    BY <1>6 DEF Receive
  <2>4. CASE UNCHANGED inbox /\ subscribers' = subscribers \cup ({c} \cap Listener)
    BY <2>2, <2>3, <2>4 DEF Membership
  <2>5. CASE UNCHANGED subscribers /\ (l \notin subscribers => inbox'[l] = inbox[l])
    BY <2>2, <2>3, <2>5 DEF Membership
  <2>6. \/ UNCHANGED inbox /\ subscribers' = subscribers \cup ({c} \cap Listener)
        \/ UNCHANGED subscribers /\ (l \notin subscribers => inbox'[l] = inbox[l])
    BY <1>6 DEF Receive
  <2> QED
    BY <2>4, <2>5, <2>6
<1>7. ASSUME HandleSubscribed \/ HandleChunk \/ OtherStreamJoined
      PROVE  Membership(l)'
  BY <1>7 DEF HandleSubscribed, HandleChunk, OtherStreamJoined, listenVars, Membership
<1>8. ASSUME NEW k \in Listener, Decode(k) PROVE Membership(l)'
  <2>1. inbox[k] # <<>> /\ (k # l => heard'[l] = heard[l] /\ inbox'[l] = inbox[l])
    BY <1>8 DEF Decode, TypeOK
  <2> QED
    BY <1>8, <2>1 DEF Decode, broadcastVars, relayVars, Membership
<1>9. ASSUME NEW k \in Listener, ListenEnds(k) PROVE Membership(l)'
  <2>1. CASE k # l
    BY <1>0, <1>9, <2>1 DEF ListenEnds, Enter, Membership, TypeOK, Client
  <2>2. CASE k = l
    <3>1. /\ phase'[l] = "done" /\ outbox'[l] = <<>> /\ toRelay'[l] = <<>>
          /\ inbox'[l] = <<>> /\ subscribers' = subscribers \ {l}
      BY <1>0, <1>9, <2>2 DEF ListenEnds, Enter, TypeOK
    <3> QED
      BY <3>1, EmptyToSet DEF Membership
  <2> QED
    BY <2>1, <2>2
<1>10. CASE UNCHANGED vars
  BY <1>10 DEF vars, Membership
<1> QED
  BY <1>2, <1>3, <1>4, <1>5, <1>6, <1>7, <1>8, <1>9, <1>10
  DEF Next, Connect, Broadcast, Relay

(* A listener that keeps its histories, its inbox and its place with the   *)
(* relay is as far as it was.                                              *)
LEMMA ListenersStay ==
    ASSUME NEW e, NEW r, \A l \in Listener : Republished(l, e) /\ Forwarded(l, r),
           UNCHANGED <<subscribers, inbox, heard>>
    PROVE  \A l \in Listener : Republished(l, e)' /\ Forwarded(l, r)'
BY DEF Republished, Forwarded

LEMMA BroadcasterIsClient ==
    Broadcaster \in Client /\ Listener \subseteq Client /\ Broadcaster \notin Listener
BY StreamAssumption DEF Client

(* Steps that take no chunk further.                                       *)
LEMMA PathConnect ==
    ASSUME TypeOK, NEW e \in 0..LastChunk, NEW r \in 0..LastChunk, NEW o \in 0..LastChunk,
           PathInOrder(e, r, o), NEW c \in Client, Connect(c)
    PROVE  PathInOrder(e, r, o)'
<1>1. UNCHANGED <<cutShort, events, toRelay, published, subscribers, inbox, heard>>
  BY DEF Connect, ConnectionEstablished, IdentifyReceived, GiveUp, Subscribe,
         broadcastVars, relayVars, listenVars
<1>2. phase'[Broadcaster] = "done" <=> phase[Broadcaster] = "done"
  BY BroadcasterIsClient DEF Connect, ConnectionEstablished, IdentifyReceived, GiveUp,
                             Subscribe, Enter, TypeOK
<1>3. \/ outbox'[Broadcaster] = outbox[Broadcaster]
      \/ /\ phase[Broadcaster] # "done"
         /\ outbox'[Broadcaster] = Append(outbox[Broadcaster], Subscription)
  BY BroadcasterIsClient DEF Connect, ConnectionEstablished, IdentifyReceived, GiveUp,
                             Subscribe, Enter, TypeOK
<1>4. phase'[Broadcaster] # "done" => Carries(outbox'[Broadcaster], Chunks, o, published)
  <2>1. ASSUME phase[Broadcaster] # "done"
        PROVE  Carries(Append(outbox[Broadcaster], Subscription), Chunks, o, published)
    <3>1. Carries(outbox[Broadcaster], Chunks, o, published)
      BY <2>1 DEF PathInOrder, PipeInOrder
    <3>2. Subscription \in Messages /\ Subscription \notin Chunks
      BY MessageKinds DEF Chunks
    <3>3. outbox[Broadcaster] \in Seq(Messages)
      BY BroadcasterIsClient DEF TypeOK
    <3> QED
      BY <3>1, <3>2, <3>3, CarriesAppendOther
  <2> QED
    BY <1>2, <1>3, <2>1 DEF PathInOrder, PipeInOrder
<1>5. PipeInOrder(e, r, o)'
  BY <1>1, <1>2, <1>3, <1>4 DEF PathInOrder, PipeInOrder
<1> QED
  BY <1>1, <1>5, ListenersStay DEF PathInOrder

LEMMA PathWaits ==
    ASSUME TypeOK, NEW e \in 0..LastChunk, NEW r \in 0..LastChunk, NEW o \in 0..LastChunk,
           PathInOrder(e, r, o),
           NewsArrives \/ MeshWaitTimeout \/ StartDrain \/ OtherStreamJoined
    PROVE  PathInOrder(e, r, o)'
<1>1. UNCHANGED <<cutShort, events, toRelay, outbox, published, subscribers, inbox, heard>>
  BY DEF NewsArrives, MeshWaitTimeout, StartDrain, OtherStreamJoined,
         broadcastVars, relayVars, listenVars
<1>2. phase'[Broadcaster] = "done" <=> phase[Broadcaster] = "done"
  BY BroadcasterIsClient DEF NewsArrives, MeshWaitTimeout, StartDrain, OtherStreamJoined,
                             Enter, TypeOK
<1>3. PipeInOrder(e, r, o)'
  BY <1>1, <1>2 DEF PathInOrder, PipeInOrder
<1> QED
  BY <1>1, <1>3, ListenersStay DEF PathInOrder

LEMMA PathPublish ==
    ASSUME TypeOK, Progress, NEW e \in 0..LastChunk, NEW r \in 0..LastChunk,
           NEW o \in 0..LastChunk, PathInOrder(e, r, o), Publish
    PROVE  PathInOrder(e, r, o)'
<1>1. UNCHANGED <<phase, cutShort, events, toRelay, subscribers, inbox, heard>>
  BY DEF Publish, relayVars, listenVars
<1>2. phase[Broadcaster] # "done" /\ Carries(outbox[Broadcaster], Chunks, o, published)
  BY DEF Publish, PathInOrder, PipeInOrder
<1>3. CASE Stream \in known
  <2>1. /\ published' = published + 1 /\ next = published + 1 /\ published \in Nat
        /\ next \in 1..LastChunk /\ o <= published
    BY <1>3, StreamAssumption
    DEF Publish, PublishAccepted, Progress, TypeOK, PathInOrder, PipeInOrder
  <2>2. outbox'[Broadcaster] = Append(outbox[Broadcaster], ChunkMessage(next))
    BY <1>3, BroadcasterIsClient DEF Publish, PublishAccepted, TypeOK
  <2>3. /\ ChunkMessage(next) \in Messages /\ ChunkMessage(next) \in Chunks
        /\ ChunkMessage(next).seq = published + 1
    BY <2>1, MessageKinds DEF Chunks, ChunkMessage
  <2>4. outbox[Broadcaster] \in Seq(Messages) /\ o \in Nat
    BY BroadcasterIsClient DEF TypeOK
  <2>5. Carries(outbox'[Broadcaster], Chunks, o, published + 1)
    BY <1>2, <2>1, <2>2, <2>3, <2>4, CarriesAppend
  <2>6. PipeInOrder(e, r, o)'
    BY <1>1, <1>2, <2>1, <2>5 DEF PathInOrder, PipeInOrder
  <2> QED
    BY <1>1, <2>6, ListenersStay DEF PathInOrder
<1>4. CASE Stream \notin known
  <2>1. UNCHANGED <<published, outbox>>
    BY <1>4 DEF Publish, PublishAccepted
  <2>2. PipeInOrder(e, r, o)'
    BY <1>1, <2>1 DEF PathInOrder, PipeInOrder
  <2> QED
    BY <1>1, <2>2, ListenersStay DEF PathInOrder
<1> QED
  BY <1>3, <1>4

(* What the relay does not get of the queue, it counts as not sent.        *)
LEMMA PathDrainEnds ==
    ASSUME TypeOK, NEW e \in 0..LastChunk, NEW r \in 0..LastChunk, NEW o \in 0..LastChunk,
           PathInOrder(e, r, o), DrainEnds
    PROVE  \E n \in 0..LastChunk : PathInOrder(e, r, n)'
<1> DEFINE w == toRelay[Broadcaster]
<1>1. UNCHANGED <<events, published, subscribers, inbox, heard>>
  BY DEF DrainEnds, relayVars, listenVars
<1>2. phase'[Broadcaster] = "done" /\ outbox'[Broadcaster] = <<>>
  BY BroadcasterIsClient DEF DrainEnds, Enter, TypeOK
<1>3. PICK kept \in 0..Len(w) :
         /\ toRelay'[Broadcaster] = SubSeq(w, 1, kept)
         /\ cutShort' = (outbox[Broadcaster] # <<>> \/ kept < Len(w))
  BY BroadcasterIsClient DEF DrainEnds, TypeOK
<1>4. /\ w \in Seq(Messages) /\ Carries(w, Chunks, r, o)
      /\ r \in Nat /\ o \in Nat /\ published \in Nat
      /\ e <= r /\ r <= o /\ o <= published
  BY BroadcasterIsClient DEF PathInOrder, PipeInOrder, TypeOK
<1>5. Carries(outbox[Broadcaster], Chunks, o, published)
  BY DEF DrainEnds, Enter, PathInOrder, PipeInOrder
<1>6. PICK n \in r..o : /\ Carries(SubSeq(w, 1, kept), Chunks, r, n)
                        /\ cutShort' \/ n = published
  <2>1. CASE outbox[Broadcaster] = <<>> /\ kept = Len(w)
    <3>1. SubSeq(w, 1, kept) = w
      BY <1>4, <2>1, SubSeqFull
    <3>2. o = published
      BY <1>4, <1>5, <2>1, NothingLeft
    <3> QED
      <4>1. o \in r..o
        BY <1>4
      <4>2. Carries(SubSeq(w, 1, kept), Chunks, r, o)
        BY <1>4, <3>1, Zenon
      <4> QED
        BY <3>2, <4>1, <4>2
  <2>2. CASE outbox[Broadcaster] # <<>> \/ kept # Len(w)
    <3>1. Len(w) \in Nat /\ (kept # Len(w) => kept < Len(w))
      BY <1>4
    <3>2. cutShort'
      BY <1>3, <2>2, <3>1, Zenon
    <3>3. \E n \in r..o : Carries(SubSeq(w, 1, kept), Chunks, r, n)
      BY <1>4, CarriesPrefix
    <3> QED
      BY <3>2, <3>3
  <2> QED
    BY <2>1, <2>2
<1>7. n \in 0..LastChunk /\ r <= n /\ n <= published
  BY <1>4, StreamAssumption
<1>8. PipeInOrder(e, r, n)'
  BY <1>1, <1>2, <1>3, <1>4, <1>6, <1>7 DEF PathInOrder, PipeInOrder
<1>9. PathInOrder(e, r, n)'
  BY <1>1, <1>8, ListenersStay DEF PathInOrder
<1> QED
  BY <1>7, <1>9

(* A chunk leaves the broadcaster.                                         *)
LEMMA PathFlush ==
    ASSUME TypeOK, NEW e \in 0..LastChunk, NEW r \in 0..LastChunk, NEW o \in 0..LastChunk,
           PathInOrder(e, r, o), NEW c \in Client, Flush(c)
    PROVE  \E n \in 0..LastChunk : PathInOrder(e, r, n)'
<1>1. UNCHANGED <<phase, cutShort, events, published, subscribers, inbox, heard>>
  BY DEF Flush, broadcastVars, relayVars, listenVars
<1>2. CASE c # Broadcaster
  <2>1. /\ outbox'[Broadcaster] = outbox[Broadcaster]
        /\ toRelay'[Broadcaster] = toRelay[Broadcaster]
    BY <1>2, BroadcasterIsClient DEF Flush, TypeOK
  <2>2. PipeInOrder(e, r, o)'
    BY <1>1, <2>1 DEF PathInOrder, PipeInOrder
  <2> QED
    BY <1>1, <2>2, ListenersStay DEF PathInOrder
<1>3. CASE c = Broadcaster
  <2> DEFINE q == outbox[Broadcaster]
             w == toRelay[Broadcaster]
  <2>1. /\ q # <<>> /\ q \in Seq(Messages) /\ w \in Seq(Messages)
        /\ outbox'[Broadcaster] = Tail(q) /\ toRelay'[Broadcaster] = Append(w, Head(q))
        /\ phase[Broadcaster] # "done"
    BY <1>3, BroadcasterIsClient DEF Flush, PollingPhases, TypeOK
  <2>2. /\ Carries(q, Chunks, o, published) /\ Carries(w, Chunks, r, o)
        /\ r <= o /\ e <= r /\ o <= published /\ published \in 0..LastChunk
        /\ Carries(events, Chunks, e, r)
    BY <2>1 DEF PathInOrder, PipeInOrder, TypeOK
  <2>3. Head(q) \in Messages
    BY <2>1, HeadTailToSet
  <2>4. o \in Nat /\ r \in Nat /\ published \in Nat /\ LastChunk \in Nat
        /\ published <= LastChunk
    BY <2>2, StreamAssumption
  <2> HIDE DEF q, w
  <2>5. CASE Head(q) \in Chunks
    <3>1. Head(q).seq = o + 1 /\ o < published /\ Carries(Tail(q), Chunks, o + 1, published)
      BY <2>1, <2>2, <2>4, <2>5, CarriesTail
    <3>2. Carries(Append(w, Head(q)), Chunks, r, o + 1)
      BY <2>1, <2>2, <2>3, <2>4, <2>5, <3>1, CarriesAppend
    <3>3. o + 1 \in 0..LastChunk /\ o + 1 <= published /\ r <= o + 1
      BY <2>2, <2>4, <3>1
    <3>4. PipeInOrder(e, r, o + 1)'
      BY <1>1, <2>1, <2>2, <3>1, <3>2, <3>3 DEF PipeInOrder
    <3>5. PathInOrder(e, r, o + 1)'
      BY <1>1, <3>4, ListenersStay DEF PathInOrder
    <3> QED
      BY <3>3, <3>5
  <2>6. CASE Head(q) \notin Chunks
    <3>1. Carries(Tail(q), Chunks, o, published)
      BY <2>1, <2>2, <2>4, <2>6, CarriesTailOther
    <3>2. Carries(Append(w, Head(q)), Chunks, r, o)
      BY <2>1, <2>2, <2>3, <2>6, CarriesAppendOther
    <3>3. PipeInOrder(e, r, o)'
      BY <1>1, <2>1, <2>2, <3>1, <3>2 DEF PipeInOrder
    <3> QED
      BY <1>1, <3>3, ListenersStay DEF PathInOrder
  <2> QED
    BY <2>5, <2>6
<1> QED
  BY <1>2, <1>3

(* The relay takes a message: a listener that subscribes has its first     *)
(* chunk still to come, ...                                                *)
LEMMA PathReceiveSubscription ==
    ASSUME TypeOK, NEW e \in 0..LastChunk, NEW r \in 0..LastChunk, NEW o \in 0..LastChunk,
           PathInOrder(e, r, o), \A l \in Listener : Membership(l),
           NEW c \in Client, Receive(c), Head(toRelay[c]).kind = "subscribe"
    PROVE  PathInOrder(e, r, o)'
<1> DEFINE q == toRelay[c]
           m == Head(q)
<1>1. /\ UNCHANGED <<phase, cutShort, outbox, published, inbox, heard>>
      /\ subscribers' = subscribers \cup ({c} \cap Listener)
      /\ events' = Append(events, m)
      /\ toRelay' = [toRelay EXCEPT ![c] = Tail(q)] /\ q # <<>>
  BY DEF Receive, broadcastVars
<1>2. q \in Seq(Messages) /\ events \in Seq(Messages) /\ e \in Nat /\ r \in Nat /\ o \in Nat
  BY DEF TypeOK
<1>3. m \in Messages /\ m \notin Chunks
  <2>1. m \in Messages
    BY <1>1, <1>2, HeadTailToSet
  <2> QED
    BY <2>1, ChunksAreMessages
<1>4. Carries(toRelay'[Broadcaster], Chunks, r, o)
  <2>1. Carries(toRelay[Broadcaster], Chunks, r, o)
    BY DEF PathInOrder, PipeInOrder
  <2>2. CASE c = Broadcaster
    <3>1. toRelay'[Broadcaster] = Tail(q) /\ q = toRelay[Broadcaster]
      BY <1>1, <2>2 DEF TypeOK
    <3> HIDE DEF q
    <3> QED
      BY <1>1, <1>2, <1>3, <2>1, <3>1, CarriesTailOther
  <2>3. CASE c # Broadcaster
    BY <1>1, <2>1, <2>3, BroadcasterIsClient DEF TypeOK
  <2> QED
    BY <2>2, <2>3
<1>5. Carries(events', Chunks, e, r)
  <2>1. Carries(events, Chunks, e, r)
    BY DEF PathInOrder, PipeInOrder
  <2> HIDE DEF m
  <2> QED
    BY <1>1, <1>2, <1>3, <2>1, CarriesAppendOther
<1>6. PipeInOrder(e, r, o)'
  BY <1>1, <1>4, <1>5 DEF PathInOrder, PipeInOrder
<1>7. ASSUME NEW l \in Listener PROVE Republished(l, e)' /\ Forwarded(l, r)'
  <2>1. Forwarded(l, r)'
    BY <1>1 DEF PathInOrder, Forwarded
  <2>2. CASE l \in subscribers \/ l # c
    BY <1>1, <2>1, <2>2 DEF PathInOrder, Republished
  <2>3. CASE l \notin subscribers /\ l = c
    <3>1. inbox[l] = <<>> /\ heard[l] = <<>>
      BY <1>1, <2>3 DEF Membership
    <3>2. Carries(<<>>, Via("republished"), e, e)
      BY <1>2, NothingCarried
    <3>3. e \in 0..e /\ e <= e
      BY <1>2
    <3>4. heard'[l] = <<>> /\ inbox'[l] = <<>>
      BY <1>1, <3>1
    <3>5. \E first, h \in 0..e :
             /\ first <= h
             /\ Carries(heard'[l], Via("republished"), first, h)
             /\ l \in subscribers' => Carries(inbox'[l], Via("republished"), h, e)
      BY <3>2, <3>3, <3>4
    <3> QED
      BY <2>1, <3>5 DEF Republished
  <2> QED
    BY <2>1, <2>2, <2>3
<1> QED
  BY <1>6, <1>7 DEF PathInOrder

(* ... and a chunk is that after the last one, of the broadcaster, and     *)
(* finds the relay on its topic.                                           *)
LEMMA PathReceiveChunk ==
    ASSUME TypeOK, TopicsAreKnown,
           NEW e \in 0..LastChunk, NEW r \in 0..LastChunk, NEW o \in 0..LastChunk,
           PathInOrder(e, r, o), \A l \in Listener : Membership(l),
           NEW c \in Client, Receive(c), Head(toRelay[c]).kind = "chunk"
    PROVE  r + 1 \in 0..LastChunk /\ PathInOrder(e, r + 1, o)'
<1> DEFINE q == toRelay[c]
           m == Head(q)
<1>1. /\ UNCHANGED <<phase, cutShort, outbox, published, subscribers, heard>>
      /\ toRelay' = [toRelay EXCEPT ![c] = Tail(q)] /\ q # <<>>
  BY DEF Receive, broadcastVars
<1>2. /\ q \in Seq(Messages) /\ events \in Seq(Messages)
      /\ e \in Nat /\ r \in Nat /\ o \in Nat /\ LastChunk \in Nat /\ o <= LastChunk
  BY StreamAssumption DEF TypeOK
<1>3. m \in Messages /\ m \in Chunks /\ m \in ToSet(q)
  <2>1. m \in Messages /\ m \in ToSet(q)
    BY <1>1, <1>2, HeadTailToSet
  <2> QED
    BY <2>1, ChunksAreMessages
<1>4. c = Broadcaster
  <2>1. m # Subscription
    BY DEF Subscription
  <2> QED
    BY <1>3, <2>1 DEF Membership, Client
<1>5. Stream \in relayTopics
  <2>1. m.seq \in 1..LastChunk /\ m = ChunkMessage(m.seq)
    BY <1>3, MessageKinds
  <2> QED
    BY <1>3, <1>4, <2>1 DEF TopicsAreKnown, ChunksFindTheRelay
<1>6. /\ m.seq = r + 1 /\ r < o /\ Carries(Tail(q), Chunks, r + 1, o)
  <2>1. Carries(q, Chunks, r, o)
    BY <1>4 DEF PathInOrder, PipeInOrder
  <2> HIDE DEF q
  <2> QED
    BY <1>1, <1>2, <1>3, <2>1, CarriesTail
<1>7. Carries(Append(events, m), Chunks, e, r + 1)
  <2>1. Carries(events, Chunks, e, r) /\ e <= r
    BY DEF PathInOrder, PipeInOrder
  <2> HIDE DEF m
  <2> QED
    BY <1>2, <1>3, <1>6, <2>1, CarriesAppend
<1>8. PipeInOrder(e, r + 1, o)'
  <2>1. events' = Append(events, m) /\ toRelay'[Broadcaster] = Tail(q)
    BY <1>1, <1>4, <1>5 DEF Receive, TypeOK
  <2>2. e <= r + 1 /\ r + 1 <= o
    BY <1>2, <1>6 DEF PathInOrder, PipeInOrder
  <2> HIDE DEF q, m
  <2> QED
    BY <1>1, <1>6, <1>7, <2>1, <2>2 DEF PathInOrder, PipeInOrder
<1> DEFINE copy == [seq |-> r + 1, via |-> "forwarded"]
<1>9. copy \in Copies /\ copy \in Via("forwarded") /\ copy \notin Via("republished")
  <2>1. r + 1 \in 1..LastChunk
    BY <1>2, <1>6
  <2> QED
    BY <2>1 DEF Copies, Via
<1>10. ASSUME NEW l \in Listener
       PROVE  \/ inbox'[l] = inbox[l]
              \/ l \in subscribers /\ inbox'[l] = Append(inbox[l], copy)
  BY <1>6 DEF Receive
<1>11. ASSUME NEW l \in Listener PROVE Republished(l, e)' /\ Forwarded(l, r + 1)'
  <2>0. inbox[l] \in Seq(Copies) /\ copy.seq = r + 1
    BY DEF TypeOK
  <2>1. Republished(l, e)'
    <3>1. PICK first \in 0..e, h \in 0..e :
             /\ first <= h
             /\ Carries(heard[l], Via("republished"), first, h)
             /\ l \in subscribers => Carries(inbox[l], Via("republished"), h, e)
      BY DEF PathInOrder, Republished
    <3> HIDE DEF copy
    <3>2. l \in subscribers => Carries(inbox'[l], Via("republished"), h, e)
      <4>1. ASSUME l \in subscribers
            PROVE  Carries(Append(inbox[l], copy), Via("republished"), h, e)
        BY <1>9, <2>0, <3>1, <4>1, CarriesAppendOther
      <4> QED
        BY <1>10, <3>1, <4>1
    <3> QED
      BY <1>1, <3>1, <3>2 DEF Republished
  <2>2. Forwarded(l, r + 1)'
    <3>1. PICK f \in 0..r : /\ InOrder(heard[l], Via("forwarded"), 0, f)
                            /\ InOrder(inbox[l], Via("forwarded"), f, r)
      BY DEF PathInOrder, Forwarded
    <3>2. f \in Nat /\ f <= r /\ f \in 0..(r + 1) /\ r + 1 \in Nat /\ r < r + 1
      BY <1>2
    <3> HIDE DEF copy
    <3>3. InOrder(inbox[l], Via("forwarded"), f, r + 1)
      BY <1>2, <3>1, <3>2, InOrderWider
    <3>4. InOrder(Append(inbox[l], copy), Via("forwarded"), f, copy.seq)
      <4>1. copy.seq \in Nat /\ r < copy.seq
        BY <2>0, <3>2
      <4> QED
        BY <1>2, <1>9, <2>0, <3>1, <3>2, <4>1, InOrderAppend
    <3>5. InOrder(inbox'[l], Via("forwarded"), f, r + 1)
      BY <1>10, <2>0, <3>3, <3>4
    <3> QED
      BY <1>1, <3>1, <3>2, <3>5 DEF Forwarded
  <2> QED
    BY <2>1, <2>2
<1>12. r + 1 \in 0..LastChunk
  BY <1>2, <1>6
<1> QED
  BY <1>8, <1>11, <1>12 DEF PathInOrder

(* run() handles an event.                                                 *)
LEMMA PathHandleSubscribed ==
    ASSUME TypeOK, NEW e \in 0..LastChunk, NEW r \in 0..LastChunk, NEW o \in 0..LastChunk,
           PathInOrder(e, r, o), HandleSubscribed
    PROVE  PathInOrder(e, r, o)'
<1>1. /\ UNCHANGED <<phase, cutShort, outbox, toRelay, published, subscribers, inbox, heard>>
      /\ events # <<>> /\ events' = Tail(events) /\ events \in Seq(Messages)
  BY DEF HandleSubscribed, listenVars, TypeOK
<1>2. Head(events) \notin Chunks
  BY DEF HandleSubscribed, Chunks, ChunkMessage
<1>3. Carries(events', Chunks, e, r)
  <2>1. e \in Nat /\ r \in Nat /\ Carries(events, Chunks, e, r)
    BY DEF PathInOrder, PipeInOrder
  <2> QED
    BY <1>1, <1>2, <2>1, CarriesTailOther
<1>4. PipeInOrder(e, r, o)'
  BY <1>1, <1>3 DEF PathInOrder, PipeInOrder
<1> QED
  BY <1>1, <1>4, ListenersStay DEF PathInOrder

LEMMA PathHandleChunk ==
    ASSUME TypeOK, NEW e \in 0..LastChunk, NEW r \in 0..LastChunk, NEW o \in 0..LastChunk,
           PathInOrder(e, r, o), \A l \in Listener : Membership(l), HandleChunk
    PROVE  e + 1 \in 0..LastChunk /\ PathInOrder(e + 1, r, o)'
<1>1. /\ UNCHANGED <<phase, cutShort, outbox, toRelay, published, subscribers, heard>>
      /\ events # <<>> /\ events' = Tail(events) /\ events \in Seq(Messages)
  BY DEF HandleChunk, broadcastVars, TypeOK
<1>2. Head(events) \in Chunks
  <2>1. Head(events) \in Messages
    BY <1>1, HeadTailToSet
  <2> QED
    BY <2>1, ChunksAreMessages DEF HandleChunk
<1>3. e \in Nat /\ r \in Nat /\ LastChunk \in Nat /\ r <= LastChunk
  BY StreamAssumption
<1>4. Head(events).seq = e + 1 /\ e < r /\ Carries(events', Chunks, e + 1, r)
  <2>1. Carries(events, Chunks, e, r)
    BY DEF PathInOrder, PipeInOrder
  <2> QED
    BY <1>1, <1>2, <1>3, <2>1, CarriesTail
<1>5. e + 1 \in 0..LastChunk /\ e + 1 <= r
  BY <1>3, <1>4
<1>6. PipeInOrder(e + 1, r, o)'
  BY <1>1, <1>4, <1>5 DEF PathInOrder, PipeInOrder
<1> DEFINE copy == [seq |-> e + 1, via |-> "republished"]
<1>7. copy \in Copies /\ copy \in Via("republished") /\ copy \notin Via("forwarded")
  <2>1. e + 1 \in 1..LastChunk
    BY <1>3, <1>5
  <2> QED
    BY <2>1 DEF Copies, Via
<1>8. ASSUME NEW l \in Listener
      PROVE  /\ l \in subscribers => inbox'[l] = Append(inbox[l], copy)
             /\ l \notin subscribers => inbox'[l] = inbox[l]
  BY <1>4 DEF HandleChunk
<1>9. ASSUME NEW l \in Listener PROVE Republished(l, e + 1)' /\ Forwarded(l, r)'
  <2>0. inbox[l] \in Seq(Copies) /\ copy.seq = e + 1
    BY DEF TypeOK
  <2>1. Republished(l, e + 1)'
    <3>1. PICK first \in 0..e, h \in 0..e :
             /\ first <= h
             /\ Carries(heard[l], Via("republished"), first, h)
             /\ l \in subscribers => Carries(inbox[l], Via("republished"), h, e)
      BY DEF PathInOrder, Republished
    <3>2. /\ first \in 0..(e + 1) /\ h \in 0..(e + 1) /\ h \in Nat /\ h <= e
      BY <1>3
    <3> HIDE DEF copy
    <3>3. l \in subscribers => Carries(inbox'[l], Via("republished"), h, e + 1)
      <4>1. ASSUME l \in subscribers
            PROVE  Carries(Append(inbox[l], copy), Via("republished"), h, e + 1)
        BY <1>3, <1>7, <2>0, <3>1, <3>2, <4>1, CarriesAppend
      <4> QED
        BY <1>8, <4>1
    <3>4. \E a, b \in 0..(e + 1) :
             /\ a <= b
             /\ Carries(heard'[l], Via("republished"), a, b)
             /\ l \in subscribers' => Carries(inbox'[l], Via("republished"), b, e + 1)
      BY <1>1, <3>1, <3>2, <3>3
    <3> QED
      BY <3>4 DEF Republished
  <2>2. Forwarded(l, r)'
    <3>1. PICK f \in 0..r : /\ InOrder(heard[l], Via("forwarded"), 0, f)
                            /\ InOrder(inbox[l], Via("forwarded"), f, r)
      BY DEF PathInOrder, Forwarded
    <3> HIDE DEF copy
    <3>2. InOrder(Append(inbox[l], copy), Via("forwarded"), f, r)
      BY <1>7, <2>0, <3>1, InOrderAppendOther
    <3>3. InOrder(inbox'[l], Via("forwarded"), f, r)
      BY <1>8, <3>1, <3>2
    <3> QED
      BY <1>1, <3>1, <3>3 DEF Forwarded
  <2> QED
    BY <2>1, <2>2
<1> QED
  BY <1>5, <1>6, <1>9 DEF PathInOrder

(* A listener decodes the oldest copy it has got, or leaves.               *)
LEMMA CopyKinds ==
    \A m \in Copies : /\ m.via \in {"forwarded", "republished"} /\ m.seq \in 1..LastChunk
                      /\ \A via : m \in Via(via) <=> m.via = via
BY DEF Copies, Via

LEMMA PathDecode ==
    ASSUME TypeOK, NEW e \in 0..LastChunk, NEW r \in 0..LastChunk, NEW o \in 0..LastChunk,
           PathInOrder(e, r, o), NEW k \in Listener, Membership(k), Decode(k)
    PROVE  PathInOrder(e, r, o)'
<1> DEFINE m == Head(inbox[k])
<1>1. /\ UNCHANGED <<phase, cutShort, outbox, toRelay, published, subscribers, events>>
      /\ inbox[k] # <<>> /\ inbox[k] \in Seq(Copies) /\ heard[k] \in Seq(Copies)
      /\ heard'[k] = Append(heard[k], m) /\ inbox'[k] = Tail(inbox[k])
      /\ \A l \in Listener : l # k => heard'[l] = heard[l] /\ inbox'[l] = inbox[l]
  BY DEF Decode, broadcastVars, relayVars, TypeOK
<1>2. PipeInOrder(e, r, o)'
  BY <1>1 DEF PathInOrder, PipeInOrder
<1>3. m \in Copies /\ m.seq \in Nat
  <2>1. m \in Copies
    BY <1>1, HeadTailToSet
  <2> QED
    BY <2>1, CopyKinds
<1>4. k \in subscribers
  BY <1>1 DEF Membership
<1>5. e \in Nat /\ r \in Nat
  OBVIOUS
<1> HIDE DEF m
<1>6. Republished(k, e)'
  <2>1. PICK first \in 0..e, h \in 0..e :
           /\ first <= h
           /\ Carries(heard[k], Via("republished"), first, h)
           /\ Carries(inbox[k], Via("republished"), h, e)
    BY <1>4 DEF PathInOrder, Republished
  <2>2. first \in Nat /\ h \in Nat
    OBVIOUS
  <2>3. CASE m \in Via("republished")
    <3>1. m.seq = h + 1 /\ h < e /\ Carries(inbox'[k], Via("republished"), h + 1, e)
      BY <1>1, <1>5, <2>1, <2>2, <2>3, CarriesTail DEF m
    <3>2. Carries(heard'[k], Via("republished"), first, h + 1)
      BY <1>1, <1>3, <2>1, <2>2, <2>3, <3>1, CarriesAppend
    <3>3. h + 1 \in 0..e /\ first <= h + 1
      BY <2>1, <2>2, <3>1
    <3>4. \E a, b \in 0..e :
             /\ a <= b
             /\ Carries(heard'[k], Via("republished"), a, b)
             /\ k \in subscribers' => Carries(inbox'[k], Via("republished"), b, e)
      BY <3>1, <3>2, <3>3
    <3> QED
      BY <3>4 DEF Republished
  <2>4. CASE m \notin Via("republished")
    <3>1. Carries(inbox'[k], Via("republished"), h, e)
      BY <1>1, <1>5, <2>1, <2>2, <2>4, CarriesTailOther DEF m
    <3>2. Carries(heard'[k], Via("republished"), first, h)
      BY <1>1, <1>3, <2>1, <2>4, CarriesAppendOther
    <3>3. \E a, b \in 0..e :
             /\ a <= b
             /\ Carries(heard'[k], Via("republished"), a, b)
             /\ k \in subscribers' => Carries(inbox'[k], Via("republished"), b, e)
      BY <2>1, <3>1, <3>2
    <3> QED
      BY <3>3 DEF Republished
  <2> QED
    BY <2>3, <2>4
<1>7. Forwarded(k, r)'
  <2>1. PICK f \in 0..r : /\ InOrder(heard[k], Via("forwarded"), 0, f)
                          /\ InOrder(inbox[k], Via("forwarded"), f, r)
    BY DEF PathInOrder, Forwarded
  <2>2. f \in Nat
    OBVIOUS
  <2>3. CASE m \in Via("forwarded")
    <3>1. m.seq \in (f + 1)..r /\ InOrder(inbox'[k], Via("forwarded"), m.seq, r)
      BY <1>1, <1>5, <2>1, <2>2, <2>3, InOrderTail DEF m
    <3>2. InOrder(heard'[k], Via("forwarded"), 0, m.seq)
      <4>1. m.seq \in Nat /\ f < m.seq /\ 0 \in Nat /\ 0 <= f
        BY <1>3, <2>2, <3>1
      <4> QED
        BY <1>1, <1>3, <2>1, <2>2, <4>1, InOrderAppend
    <3>3. m.seq \in 0..r
      BY <1>3, <3>1
    <3> QED
      BY <3>1, <3>2, <3>3 DEF Forwarded
  <2>4. CASE m \notin Via("forwarded")
    <3>1. InOrder(inbox'[k], Via("forwarded"), f, r)
      BY <1>1, <1>5, <2>1, <2>2, InOrderTailOther
    <3>2. InOrder(heard'[k], Via("forwarded"), 0, f)
      BY <1>1, <1>3, <2>1, <2>4, InOrderAppendOther
    <3> QED
      BY <3>1, <3>2 DEF Forwarded
  <2> QED
    BY <2>3, <2>4
<1>8. ASSUME NEW l \in Listener, l # k PROVE Republished(l, e)' /\ Forwarded(l, r)'
  BY <1>1, <1>8 DEF PathInOrder, Republished, Forwarded
<1> QED
  BY <1>2, <1>6, <1>7, <1>8 DEF PathInOrder

LEMMA PathListenEnds ==
    ASSUME TypeOK, NEW e \in 0..LastChunk, NEW r \in 0..LastChunk, NEW o \in 0..LastChunk,
           PathInOrder(e, r, o), NEW k \in Listener, ListenEnds(k)
    PROVE  PathInOrder(e, r, o)'
<1>1. /\ UNCHANGED <<cutShort, published, events, heard>> /\ subscribers' = subscribers \ {k}
      /\ outbox'[Broadcaster] = outbox[Broadcaster]
      /\ toRelay'[Broadcaster] = toRelay[Broadcaster]
      /\ phase'[Broadcaster] = phase[Broadcaster]
      /\ inbox'[k] = <<>>
      /\ \A l \in Listener : l # k => inbox'[l] = inbox[l]
  BY BroadcasterIsClient DEF ListenEnds, Enter, broadcastVars, TypeOK
<1>2. PipeInOrder(e, r, o)'
  BY <1>1 DEF PathInOrder, PipeInOrder
<1>3. ASSUME NEW l \in Listener PROVE Republished(l, e)' /\ Forwarded(l, r)'
  <2>1. CASE l # k
    BY <1>1, <2>1 DEF PathInOrder, Republished, Forwarded
  <2>2. CASE l = k
    <3>1. Republished(l, e)'
      BY <1>1, <2>2 DEF PathInOrder, Republished
    <3>2. PICK f \in 0..r : InOrder(heard[l], Via("forwarded"), 0, f)
      BY DEF PathInOrder, Forwarded
    <3>3. f \in Nat /\ r \in Nat
      OBVIOUS
    <3>4. InOrder(<<>>, Via("forwarded"), f, r)
      BY <3>3, InOrderEmpty
    <3>5. Forwarded(l, r)'
      BY <1>1, <2>2, <3>2, <3>4 DEF Forwarded
    <3> QED
      BY <3>1, <3>5
  <2> QED
    BY <2>1, <2>2
<1> QED
  BY <1>2, <1>3 DEF PathInOrder

LEMMA PathNext ==
    TypeOK /\ Progress /\ TopicsAreKnown /\ PathInv /\ [Next]_vars => PathInv'
<1> SUFFICES ASSUME TypeOK, Progress, TopicsAreKnown, PathInv, [Next]_vars
             PROVE  PathInv'
  OBVIOUS
<1>1. \A l \in Listener : Membership(l)'
  BY MembershipNext DEF PathInv
<1>2. PICK e \in 0..LastChunk, r \in 0..LastChunk, o \in 0..LastChunk : PathInOrder(e, r, o)
  BY DEF PathInv
<1>3. \A l \in Listener : Membership(l)
  BY DEF PathInv
<1> DEFINE Kept == \E i, j, k \in 0..LastChunk : PathInOrder(i, j, k)'
<1>4. ASSUME NEW c \in Client, Connect(c) PROVE Kept
  BY <1>2, <1>4, PathConnect
<1>5. ASSUME NEW c \in Client, Flush(c) PROVE Kept
  BY <1>2, <1>5, PathFlush
<1>6. ASSUME NewsArrives \/ MeshWaitTimeout \/ StartDrain \/ OtherStreamJoined PROVE Kept
  BY <1>2, <1>6, PathWaits
<1>7. ASSUME Publish PROVE Kept
  BY <1>2, <1>7, PathPublish
<1>8. ASSUME DrainEnds PROVE Kept
  BY <1>2, <1>8, PathDrainEnds
<1>9. ASSUME NEW c \in Client, Receive(c) PROVE Kept
  <2>1. CASE Head(toRelay[c]).kind = "subscribe"
    BY <1>2, <1>3, <1>9, <2>1, PathReceiveSubscription
  <2>2. CASE Head(toRelay[c]).kind = "chunk"
    BY <1>2, <1>3, <1>9, <2>2, PathReceiveChunk
  <2> QED
    BY <1>9, <2>1, <2>2 DEF Receive
<1>10. ASSUME HandleSubscribed PROVE Kept
  BY <1>2, <1>10, PathHandleSubscribed
<1>11. ASSUME HandleChunk PROVE Kept
  BY <1>2, <1>3, <1>11, PathHandleChunk
<1>12. ASSUME NEW l \in Listener, Decode(l) PROVE Kept
  BY <1>2, <1>3, <1>12, PathDecode
<1>13. ASSUME NEW l \in Listener, ListenEnds(l) PROVE Kept
  BY <1>2, <1>13, PathListenEnds
<1>14. ASSUME UNCHANGED vars PROVE Kept
  BY <1>2, <1>14 DEF vars, PathInOrder, PipeInOrder, Republished, Forwarded
<1>15. Kept
  <2> HIDE DEF Kept
  <2> QED
    BY <1>4, <1>5, <1>6, <1>7, <1>8, <1>9, <1>10, <1>11, <1>12, <1>13, <1>14
    DEF Next, Broadcast, Relay
<1> QED
  BY <1>1, <1>15 DEF PathInv
-----------------------------------------------------------------------------
(* The refinement.  Publish is Publish when gossipsub accepts the chunk,   *)
(* Decode is Hear, and everything else a stutter.                          *)
LEMMA ServiceInit == Init => Service!Init
BY DEF Init, Service!Init

LEMMA PublishIsService ==
    ASSUME TypeOK, Progress, Publish
    PROVE  Service!Publish \/ UNCHANGED <<published, heard>>
<1>1. CASE Stream \in known
  <2>1. published < LastChunk /\ published' = published + 1
    BY <1>1, StreamAssumption DEF Publish, PublishAccepted, Progress, TypeOK
  <2> QED
    BY <2>1 DEF Publish, listenVars, Service!Publish
<1>2. CASE Stream \notin known
  BY <1>2 DEF Publish, PublishAccepted, listenVars
<1> QED
  BY <1>1, <1>2

LEMMA DecodeIsHear ==
    ASSUME TypeOK, PathInv, NEW l \in Listener, Decode(l)
    PROVE  Service!Hear(l)
<1> DEFINE m == Head(inbox[l])
<1>1. /\ inbox[l] # <<>> /\ inbox[l] \in Seq(Copies) /\ heard[l] \in Seq(Copies)
      /\ heard' = [heard EXCEPT ![l] = Append(@, m)] /\ published' = published
  BY DEF Decode, broadcastVars, TypeOK
<1>2. m \in Copies
  BY <1>1, HeadTailToSet
<1>3. /\ m.seq \in 1..LastChunk /\ m.via \in {"forwarded", "republished"}
      /\ m = [seq |-> m.seq, via |-> m.via]
  BY <1>2 DEF Copies
<1>4. PICK e \in 0..LastChunk, r \in 0..LastChunk, o \in 0..LastChunk : PathInOrder(e, r, o)
  BY DEF PathInv
<1>5. /\ e \in Nat /\ r \in Nat /\ e <= published /\ r <= published /\ published \in Nat
  BY <1>4 DEF PathInOrder, PipeInOrder, TypeOK
<1>6. l \in subscribers
  BY <1>1 DEF PathInv, Membership
<1> HIDE DEF m
<1>7. m.seq \in 1..published /\ Service!Follows(l, m.seq, m.via)
  <2> DEFINE by == Service!HeardBy(l, m.via)
  <2>1. by = {n \in 1..LastChunk : \E i \in 1..Len(heard[l]) :
                                      heard[l][i].via = m.via /\ heard[l][i].seq = n}
    BY <1>1 DEF Service!HeardBy
  <2>2. \A i \in 1..Len(heard[l]) : /\ heard[l][i] \in Copies
                                    /\ \A via : heard[l][i] \in Via(via) <=> heard[l][i].via = via
    BY <1>1, CopyKinds
  <2> HIDE DEF by
  <2>3. CASE m.via = "republished"
    <3>1. PICK first \in 0..e, h \in 0..e :
             /\ first <= h
             /\ Carries(heard[l], Via("republished"), first, h)
             /\ Carries(inbox[l], Via("republished"), h, e)
      BY <1>4, <1>6 DEF PathInOrder, Republished
    <3>2. first \in Nat /\ h \in Nat /\ h <= e
      BY <1>5
    <3>3. m.seq = h + 1 /\ h < e
      <4>1. m \in Via("republished")
        BY <1>2, <2>3, CopyKinds
      <4> QED
        BY <1>1, <1>5, <3>1, <3>2, <4>1, CarriesTail DEF m
    <3>4. \A n \in by : n \in (first + 1)..h
      <4>1. InOrder(heard[l], Via("republished"), first, h)
        BY <3>1 DEF Carries
      <4> QED
        BY <2>1, <2>2, <2>3, <4>1 DEF InOrder
    <3>5. by # {} => h \in by
      <4> SUFFICES ASSUME by # {} PROVE h \in by
        OBVIOUS
      <4>1. h \in (first + 1)..h
        BY <3>2, <3>4
      <4>2. PICK i \in 1..Len(heard[l]) : /\ heard[l][i] \in Via("republished")
                                          /\ heard[l][i].seq = h
        BY <3>1, <4>1 DEF Carries
      <4>3. heard[l][i].via = m.via /\ h \in 1..LastChunk
        BY <2>2, <2>3, <4>2, CopyKinds
      <4> QED
        BY <2>1, <4>2, <4>3
    <3>6. \A n \in by : n < m.seq
      BY <3>2, <3>3, <3>4
    <3>7. m.seq \in 1..published /\ m.seq - 1 = h
      BY <1>5, <3>2, <3>3
    <3> QED
      BY <3>5, <3>6, <3>7 DEF Service!Follows, by
  <2>4. CASE m.via = "forwarded"
    <3>1. PICK f \in 0..r : /\ InOrder(heard[l], Via("forwarded"), 0, f)
                            /\ InOrder(inbox[l], Via("forwarded"), f, r)
      BY <1>4 DEF PathInOrder, Forwarded
    <3>2. f \in Nat
      BY <1>5
    <3>3. m.seq \in (f + 1)..r
      <4>1. m \in Via("forwarded")
        BY <1>2, <2>4, CopyKinds
      <4> QED
        BY <1>1, <1>5, <3>1, <3>2, <4>1, InOrderTail DEF m
    <3>4. \A n \in by : n \in (0 + 1)..f
      BY <2>1, <2>2, <2>4, <3>1 DEF InOrder
    <3>5. \A n \in by : n < m.seq
      BY <3>2, <3>3, <3>4
    <3>6. m.seq \in 1..published
      BY <1>5, <3>2, <3>3
    <3> QED
      BY <2>4, <3>5, <3>6 DEF Service!Follows, by
  <2> QED
    BY <1>3, <2>3, <2>4
<1>8. heard' = [heard EXCEPT ![l] = Append(@, [seq |-> m.seq, via |-> m.via])]
  BY <1>1, <1>3
<1> QED
  BY <1>1, <1>3, <1>7, <1>8 DEF Service!Hear

LEMMA ServiceStep ==
    TypeOK /\ Progress /\ PathInv /\ [Next]_vars => [Service!Next]_<<published, heard>>
<1> SUFFICES ASSUME TypeOK, Progress, PathInv, [Next]_vars
             PROVE  Service!Next \/ UNCHANGED <<published, heard>>
  OBVIOUS
<1>1. CASE Publish
  BY <1>1, PublishIsService DEF Service!Next
<1>2. ASSUME NEW l \in Listener, Decode(l) PROVE Service!Next
  BY <1>2, DecodeIsHear DEF Service!Next
<1>3. ASSUME NEW c \in Client, Connect(c) \/ Flush(c) \/ Receive(c)
      PROVE  UNCHANGED <<published, heard>>
  BY <1>3 DEF Connect, ConnectionEstablished, IdentifyReceived, GiveUp, Subscribe, Flush,
              Receive, broadcastVars, listenVars
<1>4. ASSUME \/ NewsArrives \/ MeshWaitTimeout \/ StartDrain \/ DrainEnds
             \/ HandleSubscribed \/ HandleChunk \/ OtherStreamJoined
      PROVE  UNCHANGED <<published, heard>>
  BY <1>4 DEF NewsArrives, MeshWaitTimeout, StartDrain, DrainEnds, HandleSubscribed,
              HandleChunk, OtherStreamJoined, broadcastVars, listenVars
<1>5. ASSUME NEW l \in Listener, ListenEnds(l) PROVE UNCHANGED <<published, heard>>
  BY <1>5 DEF ListenEnds, broadcastVars
<1>6. CASE UNCHANGED vars
  BY <1>6 DEF vars
<1> QED
  BY <1>1, <1>2, <1>3, <1>4, <1>5, <1>6 DEF Next, Broadcast, Relay

(* Whatever is late, lost or cut short, a listener hears only what was     *)
(* published, and by each of the two ways in order and at most once; what  *)
(* run() publishes again comes without gaps.                               *)
THEOREM StreamIsService == Spec => ImplementsService
<1>1. Init => TypeOK /\ Progress /\ TopicsAreKnown /\ PathInv
  BY TypeCorrectInitially, ProgressInitially, TopicsInitially, PathInitially
<1>2. TypeOK /\ Progress /\ TopicsAreKnown /\ PathInv /\ [Next]_vars
         => (TypeOK /\ Progress /\ TopicsAreKnown /\ PathInv)'
  BY TypeCorrectNext, ProgressNext, TopicsNext, PathNext DEF Progress
<1> QED
  BY <1>1, <1>2, ServiceInit, ServiceStep, PTL DEF Spec, ImplementsService, Service!Spec

(* What has left the broadcaster and is nowhere on its way any more has    *)
(* been decoded by every listener that stays, from its first copy on.      *)
LEMMA NothingMissed ==
    ASSUME TypeOK, PathInv, NEW l \in Listener,
           phase[Broadcaster] = "done", ~cutShort, l \in subscribers,
           toRelay[Broadcaster] = <<>>, events = <<>>, inbox[l] = <<>>,
           NEW n \in Service!HeardBy(l, "republished")
    PROVE  n..published \subseteq Service!HeardBy(l, "republished")
<1> DEFINE by == Service!HeardBy(l, "republished")
<1>1. heard[l] \in Seq(Copies) /\ published \in 0..LastChunk
  BY DEF TypeOK
<1>2. by = {x \in 1..LastChunk : \E i \in 1..Len(heard[l]) :
                          heard[l][i].via = "republished" /\ heard[l][i].seq = x}
  BY <1>1 DEF Service!HeardBy
<1>3. \A i \in 1..Len(heard[l]) :
         heard[l][i] \in Via("republished") <=> heard[l][i].via = "republished"
  BY <1>1, CopyKinds
<1> HIDE DEF by
<1>4. PICK e \in 0..LastChunk, r \in 0..LastChunk, o \in 0..LastChunk : PathInOrder(e, r, o)
  BY DEF PathInv
<1>5. e = published
  <2>1. /\ Carries(<<>>, Chunks, e, r) /\ Carries(<<>>, Chunks, r, o) /\ o = published
        /\ e <= r /\ r <= o
    BY <1>4 DEF PathInOrder, PipeInOrder
  <2>2. e \in Nat /\ r \in Nat /\ o \in Nat
    OBVIOUS
  <2>3. e = r /\ r = o
    BY <2>1, <2>2, NothingLeft
  <2> QED
    BY <2>1, <2>3
<1>6. PICK first \in 0..e, h \in 0..e :
         /\ first <= h
         /\ Carries(heard[l], Via("republished"), first, h)
         /\ Carries(<<>>, Via("republished"), h, e)
  BY <1>4 DEF PathInOrder, Republished
<1>7. h = e /\ first \in Nat
  <2>1. h \in Nat /\ e \in Nat /\ h <= e /\ first \in Nat
    OBVIOUS
  <2> QED
    BY <1>6, <2>1, NothingLeft
<1>8. n \in (first + 1)..published
  <2>1. InOrder(heard[l], Via("republished"), first, h)
    BY <1>6 DEF Carries
  <2>2. n \in by
    BY DEF by
  <2> QED
    BY <1>2, <1>3, <1>5, <1>7, <2>1, <2>2 DEF InOrder
<1>9. ASSUME NEW x \in n..published PROVE x \in by
  <2>1. x \in (first + 1)..h /\ x \in 1..LastChunk
    <3>1. /\ first \in Nat /\ published \in Nat /\ published <= LastChunk
          /\ h = published /\ LastChunk \in Nat
      BY <1>1, <1>5, <1>7, StreamAssumption
    <3>2. n \in Int /\ first + 1 <= n /\ n <= x /\ x <= published /\ x \in Int
      BY <1>8, <3>1
    <3> QED
      BY <3>1, <3>2
  <2>2. PICK i \in 1..Len(heard[l]) : heard[l][i] \in Via("republished") /\ heard[l][i].seq = x
    BY <1>6, <2>1 DEF Carries
  <2> QED
    BY <1>2, <1>3, <2>1, <2>2
<1> QED
  BY <1>9 DEF by

THEOREM ListenersMissNothing == Spec => []HearsFromThenOn
<1>1. Init => TypeOK /\ Progress /\ TopicsAreKnown /\ PathInv
  BY TypeCorrectInitially, ProgressInitially, TopicsInitially, PathInitially
<1>2. TypeOK /\ Progress /\ TopicsAreKnown /\ PathInv /\ [Next]_vars
         => (TypeOK /\ Progress /\ TopicsAreKnown /\ PathInv)'
  BY TypeCorrectNext, ProgressNext, TopicsNext, PathNext DEF Progress
<1>3. TypeOK /\ PathInv => HearsFromThenOn
  BY NothingMissed DEF HearsFromThenOn
<1> QED
  BY <1>1, <1>2, <1>3, PTL DEF Spec
=============================================================================
