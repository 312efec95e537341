\* Recordings of up to five samples per channel, frames of two.
CONSTANTS
    FrameSize = 2
    MaxFrames = 5
    MaxArrivals = 4
SPECIFICATION Spec
CHECK_DEADLOCK FALSE
INVARIANTS TypeOK FramesAreTheRecording HeardIsRecording DurationIsPlayed
