\* Two lives of the relay, no peer with two connections at a time.
CONSTANTS
    broadcaster = broadcaster
    listener = listener
    jazz = jazz
    Peer <- TwoPeers
    Topic <- OneTopic
    NoMetrics = NoMetrics
    Methods <- AllMethods
    ConnsPerPeer = 1
    MaxStarts = 2
    MaxMessages = 0
    MaxEvents = 1
SPECIFICATION Spec
INVARIANTS PeersAreCurrent
CHECK_DEADLOCK FALSE
