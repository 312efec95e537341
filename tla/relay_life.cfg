\* Two lives of the relay, two peers, every method.
CONSTANTS
    broadcaster = broadcaster
    listener = listener
    jazz = jazz
    Peer <- TwoPeers
    Topic <- OneTopic
    NoMetrics = NoMetrics
    Methods <- AllMethods
    ConnsPerPeer = 2
    MaxStarts = 2
    MaxMessages = 1
    MaxEvents = 2
SPECIFICATION LiveSpec
INVARIANTS TypeOK CountIsOfConnections MessagesAreOnJoinedTopics
PROPERTIES PeerTopicsAreJoined
CHECK_DEADLOCK FALSE
