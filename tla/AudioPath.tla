----------------------------- MODULE AudioPath -----------------------------
(***************************************************************************)
(* A recording from the file that is read to the file that is written:     *)
(* run_broadcast (mdrn-cli/src/broadcast.rs) resamples, cuts into frames,  *)
(* encodes and perhaps encrypts; run_listen_stdin or run_listen_network    *)
(* (mdrn-cli/src/listen.rs) decrypt, decode and write a WAV file.          *)
(*                                                                         *)
(* Samples are numbered in the order the encoder gets them, 0 is silence.  *)
(* What Opus does to their values and its constant delay are left out: an  *)
(* encoded frame stands for its samples.  What arrives of the chunks, how  *)
(* often and in which order is the network's choice (see StreamPath), or   *)
(* that of whoever feeds stdin.  The listener is asked for a file.         *)
(***************************************************************************)
EXTENDS Integers, SequencesExt

CONSTANTS
    FrameSize,      \* samples per channel in 20 ms: FRAME_SIZE, 960
    MaxFrames,      \* bound: samples per channel of a recording
    MaxArrivals     \* bound: chunks the listener gets

ASSUME AudioAssumption ==
    /\ FrameSize \in Nat \ {0}
    /\ MaxFrames \in Nat
    /\ MaxArrivals \in Nat

VARIABLES
    stage,          \* how far the two programs are
    options,        \* the command lines of the two programs
    audio,          \* audio_data of the broadcaster
    chunks,         \* the chunks of the BroadcastResult
    received,       \* chunks_received
    allSamples,     \* all_samples of the listener
    played,         \* history: positions of the chunks decoded, in order
    wav             \* header of the file written

vars == <<stage, options, audio, chunks, received, allSamples, played, wav>>

Silence == 0
NoFile  == [dataSize |-> 0, blockAlign |-> 0]

(* The listener got no key, that of the stream, or another one; announced  *)
(* tells whether it got the announcement, which the CLI never passes.      *)
Options == [encrypted : BOOLEAN, key : {"none", "right", "wrong"},
            mode : {"network", "stdin"}, announced : BOOLEAN]

Numbered(n) == [i \in 1..n |-> i]

Recording(channels, frames, at48k) ==
    [samples |-> Numbered(channels * frames), channels |-> channels, at48k |-> at48k]

(* Every file that read_audio_file can return: mono, stereo or more.       *)
Init ==
    /\ stage = "read"
    /\ options \in Options
    /\ \E channels \in 1..3, frames \in 0..MaxFrames, at48k \in BOOLEAN :
         audio = Recording(channels, frames, at48k)
    /\ chunks = <<>>
    /\ received = 0
    /\ allSamples = <<>>
    /\ played = <<>>
    /\ wav = NoFile
-----------------------------------------------------------------------------
(* The broadcaster.                                                        *)

FramesOf(a) == Len(a.samples) \div a.channels

(* rubato's SincFixedIn demands as many samples in every channel as its    *)
(* chunk_size says (external); the code passes samples.len().              *)
ResamplerAccepts(a) == FramesOf(a) >= Len(a.samples)

(* resample_to_48k.  How many samples come out is the resampler's affair,  *)
(* and so is what it says to none at all.                                  *)
Resample ==
    /\ stage = "read"
    /\ \/ /\ audio.at48k
          /\ stage' = "resampled"
          /\ UNCHANGED audio
       \/ /\ ~audio.at48k /\ ResamplerAccepts(audio)
          /\ stage' = "resampled"
          /\ \E frames \in 0..MaxFrames :
               audio' = Recording(audio.channels, frames, TRUE)
       \/ /\ ~audio.at48k /\ (~ResamplerAccepts(audio) \/ audio.samples = <<>>)
          /\ stage' = "resample_failed"
          /\ UNCHANGED audio
    /\ UNCHANGED <<options, chunks, received, allSamples, played, wav>>

FrameSamples(a) == FrameSize * a.channels

(* Mutant: an incomplete last frame is dropped.                            *)
WholeFramesOnly(a) == Len(a.samples) \div FrameSamples(a)

(* samples.chunks(frame_samples)                                           *)
FrameCount(a) == (Len(a.samples) + FrameSamples(a) - 1) \div FrameSamples(a)

(* Mutant: the last frame is as long as it is.                             *)
FrameUnpadded(a, i) ==
    SubSeq(a.samples, (i - 1) * FrameSamples(a) + 1,
           IF i * FrameSamples(a) < Len(a.samples) THEN i * FrameSamples(a)
                                                   ELSE Len(a.samples))

(* Mutant: the silence comes first.                                        *)
FramePaddedInFront(a, i) ==
    LET samples == FrameUnpadded(a, i)
        missing == FrameSamples(a) - Len(samples)
    IN  [k \in 1..missing |-> Silence] \o samples

(* Frame i, the last one padded with silence.                              *)
Frame(a, i) ==
    [k \in 1..FrameSamples(a) |->
        LET at == (i - 1) * FrameSamples(a) + k
        IN  IF at <= Len(a.samples) THEN a.samples[at] ELSE Silence]

(* encode_opus and the loop over its frames in run_broadcast.              *)
MakeChunks ==
    /\ stage = "resampled"
    /\ IF audio.channels \in {1, 2}
       THEN /\ stage' = "sent"
            /\ chunks' = [i \in 1..FrameCount(audio) |->
                            [seq |-> i - 1, data |-> Frame(audio, i),
                             encrypted |-> options.encrypted]]
       ELSE stage' = "encode_failed" /\ UNCHANGED chunks
    /\ UNCHANGED <<options, audio, received, allSamples, played, wav>>
-----------------------------------------------------------------------------
(* The listener.                                                           *)

(* Without an announcement, and always on stdin, it plays stereo.          *)
ListenerChannels ==
    IF options.mode = "network" /\ options.announced THEN audio.channels ELSE 2

(* A decoder with other channels than the encoder (external): mono sounds  *)
(* on both sides.  The other way round does not occur: a listener that     *)
(* plays mono knows from the announcement that it is.                      *)
Remixed(data, from, to) ==
    [k \in 1..(Len(data) \div from) * to |->
        LET frame == (k - 1) \div to
            side  == (k - 1) % to
        IN  data[frame * from + (IF side < from THEN side ELSE 0) + 1]]

(* Mutant: the samples of one channel are taken for all.                   *)
DecodedLeftOnly(c) ==
    LET pcm == Remixed(c.data, audio.channels, ListenerChannels)
    IN  SubSeq(pcm, 1, Len(pcm) \div ListenerChannels)

Decoded(c) == Remixed(c.data, audio.channels, ListenerChannels)

Decryptable(c) == c.encrypted => options.key = "right"

Arrives ==
    /\ stage = "sent"
    /\ received < MaxArrivals
    /\ received' = received + 1

(* A chunk of the stream: decoded if it is clear or can be decrypted, ...  *)
Play(i) ==
    /\ Arrives
    /\ Decryptable(chunks[i])
    /\ allSamples' = allSamples \o Decoded(chunks[i])
    /\ played' = Append(played, i)
    /\ UNCHANGED <<stage, options, audio, chunks, wav>>

(* ... and otherwise skipped in network mode, the end of all on stdin.     *)
FailToDecrypt(i) ==
    /\ Arrives
    /\ ~Decryptable(chunks[i])
    /\ stage' = IF options.mode = "stdin" THEN "listen_failed" ELSE stage
    /\ UNCHANGED <<options, audio, chunks, allSamples, played, wav>>

(* A chunk of another stream is counted and skipped.                       *)
SkipForeign ==
    /\ Arrives
    /\ UNCHANGED <<stage, options, audio, chunks, allSamples, played, wav>>

(* The end of stdin or of the 60 s; write_wav_file.                        *)
WriteWav ==
    /\ stage = "sent"
    /\ stage' = "written"
    /\ wav' = [dataSize |-> 2 * Len(allSamples), blockAlign |-> 2 * ListenerChannels]
    /\ UNCHANGED <<options, audio, chunks, received, allSamples, played>>
-----------------------------------------------------------------------------
Next == \/ Resample \/ MakeChunks
        \/ \E i \in DOMAIN chunks : Play(i) \/ FailToDecrypt(i)
        \/ SkipForeign \/ WriteWav

Spec == Init /\ [][Next]_vars
-----------------------------------------------------------------------------
(* The type invariant.  Every chunk holds exactly one frame.               *)
TypeOK ==
    /\ stage \in {"read", "resampled", "resample_failed", "encode_failed",
                  "sent", "listen_failed", "written"}
    /\ options \in Options
    /\ audio \in [samples : Seq(Nat \ {Silence}), channels : 1..3, at48k : BOOLEAN]
    /\ \A i \in DOMAIN chunks :
         /\ chunks[i].seq = i - 1
         /\ chunks[i].data \in [1..FrameSamples(audio) -> Nat]
    /\ received \in 0..MaxArrivals
    /\ allSamples \in Seq(Nat)
    /\ played \in Seq(DOMAIN chunks)
    /\ wav \in [dataSize : Nat, blockAlign : Nat]

AllSilence(s) == \A i \in DOMAIN s : s[i] = Silence

(* The frames of encode_opus, put together, are the recording and then     *)
(* silence, less than a frame of it: nothing is lost at a boundary, nothing*)
(* is sent twice, and an empty recording has no frames.                    *)
FramesAreTheRecording ==
    stage \in {"sent", "written"} =>
        LET sent == FlattenSeq([i \in DOMAIN chunks |-> chunks[i].data])
            rest == Len(sent) - Len(audio.samples)
        IN  /\ rest \in 0..(FrameSamples(audio) - 1)
            /\ IsPrefix(audio.samples, sent)
            /\ AllSilence(SubSeq(sent, Len(audio.samples) + 1, Len(sent)))

Side(samples, channels, k) ==
    [i \in 1..(Len(samples) \div channels) |-> samples[(i - 1) * channels + k]]

(* A listener that got the first chunks of a recording, each once and in   *)
(* order, has heard that much of it and nothing else: each of its channels *)
(* is a channel of the recording as the resampler left it, sample by       *)
(* sample, and then silence.  That holds over framing, encryption and a    *)
(* decoder with another number of channels than the encoder.               *)
HeardIsRecording ==
    played = Numbered(Len(played)) =>
        \A k \in 1..ListenerChannels :
            LET heard == Side(allSamples, ListenerChannels, k)
                spoken == Side(audio.samples, audio.channels,
                               IF k <= audio.channels THEN k ELSE 1)
            IN  /\ Len(heard) = Len(played) * FrameSize
                /\ \A i \in DOMAIN heard :
                     heard[i] = IF i <= Len(spoken) THEN spoken[i] ELSE Silence

(* duration_ms, 20 for each decoded chunk, is the duration of the WAV file *)
(* as a player computes it from the header.                                *)
DurationIsPlayed ==
    stage = "written" => wav.dataSize = wav.blockAlign * FrameSize * Len(played)
=============================================================================
