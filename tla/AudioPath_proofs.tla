-------------------------- MODULE AudioPath_proofs --------------------------
(***************************************************************************)
(* The properties of AudioPath, for every size of a frame and every length *)
(* of a recording.  Two lemmas about single samples carry them: where      *)
(* encode_opus puts a sample (FrameAt) and where the decoder of the        *)
(* listener finds one (RemixedAt).                                         *)
(***************************************************************************)
EXTENDS AudioPath, Facts

USE AudioAssumption

LEMMA ListenerChannelsType ==
    ASSUME TypeOK
    PROVE  ListenerChannels \in 1..3
BY DEF TypeOK, ListenerChannels

LEMMA FrameSamplesType ==
    ASSUME NEW a, a.channels \in 1..3
    PROVE  FrameSamples(a) \in Nat \ {0}
<1>1. a.channels = 1 \/ a.channels = 2 \/ a.channels = 3
  OBVIOUS
<1> QED
  BY <1>1 DEF FrameSamples

(* A frame holds FrameSamples samples, each that of the recording at its   *)
(* place or silence.                                                       *)
LEMMA FrameType ==
    ASSUME NEW a, a.channels \in 1..3, a.samples \in Seq(Nat), NEW i \in Nat \ {0}
    PROVE  Frame(a, i) \in [1..FrameSamples(a) -> Nat]
<1> DEFINE fs == FrameSamples(a)
           before == (i - 1) * fs
<1>1. fs \in Nat \ {0}
  BY FrameSamplesType
<1>2. before \in Nat
  <2> HIDE DEF fs
  <2> QED
    BY <1>1
<1> HIDE DEF before, fs
<1>3. \A k \in 1..fs : (IF before + k <= Len(a.samples)
                        THEN a.samples[before + k] ELSE Silence) \in Nat
  BY <1>1, <1>2 DEF Silence
<1>4. Frame(a, i) = [k \in 1..fs |-> IF before + k <= Len(a.samples)
                                     THEN a.samples[before + k] ELSE Silence]
  BY DEF Frame, fs, before
<1> QED
  BY <1>3, <1>4 DEF fs

(* The decoder: in frame f of the result every side k comes from side k of *)
(* frame f of the data, or from the left one.                              *)
LEMMA RemixedAt ==
    ASSUME NEW n \in Nat, NEW from \in 1..3, NEW to \in 1..3,
           NEW data \in [1..(n * from) -> Nat]
    PROVE  /\ Remixed(data, from, to) \in Seq(Nat)
           /\ Len(Remixed(data, from, to)) = n * to
           /\ \A f \in 1..n, k \in 1..to :
                Remixed(data, from, to)[(f - 1) * to + k]
                  = data[(f - 1) * from + (IF k <= from THEN k ELSE 1)]
<1> DEFINE At(x) == ((x - 1) \div to) * from
                    + (IF (x - 1) % to < from THEN (x - 1) % to ELSE 0) + 1
           len == n * to
           whole == n * from
<1>1. len \in Nat /\ whole \in Nat
  OBVIOUS
<1>2. Len(data) \div from = n
  <2>1. Len(data) = whole
    <3> HIDE DEF whole
    <3>1. data \in Seq(Nat) /\ Len(data) = whole
      BY <1>1 DEF whole
    <3> QED
      BY <3>1
  <2>2. (n * from + 0) \div from = n
    BY QuotientUnique
  <2> QED
    BY <1>1, <2>1, <2>2
<1>3. Remixed(data, from, to) = [x \in 1..len |-> data[At(x)]]
  BY <1>2 DEF Remixed
<1>4. ASSUME NEW f \in 1..n, NEW k \in 1..to
      PROVE  /\ (f - 1) * to + k \in 1..len
             /\ At((f - 1) * to + k) = (f - 1) * from + (IF k <= from THEN k ELSE 1)
             /\ At((f - 1) * to + k) \in 1..whole
  <2>1. (f - 1) * to + k \in 1..len
    BY IndexBound
  <2>2. ((f - 1) * to + (k - 1)) \div to = f - 1 /\ ((f - 1) * to + (k - 1)) % to = k - 1
    <3> DEFINE q == f - 1
               r == k - 1
    <3>1. to \in Nat \ {0} /\ q \in Nat /\ r \in 0..(to - 1)
      OBVIOUS
    <3> HIDE DEF q, r
    <3>2. (q * to + r) \div to = q /\ (q * to + r) % to = r
      BY <3>1, QuotientUnique
    <3> QED
      BY <3>2 DEF q, r
  <2>3. ((f - 1) * to + k) - 1 = (f - 1) * to + (k - 1)
    OBVIOUS
  <2>4. At((f - 1) * to + k) = (f - 1) * from + (IF k - 1 < from THEN k - 1 ELSE 0) + 1
    BY <2>2, <2>3
  <2>5. At((f - 1) * to + k) = (f - 1) * from + (IF k <= from THEN k ELSE 1)
    <3> HIDE DEF At
    <3>1. (f - 1) * from \in Int
      OBVIOUS
    <3> QED
      BY <2>4, <3>1
  <2>6. (IF k <= from THEN k ELSE 1) \in 1..from
    OBVIOUS
  <2>7. (f - 1) * from + (IF k <= from THEN k ELSE 1) \in 1..(n * from)
    BY <2>6, IndexBound
  <2> QED
    BY <2>1, <2>5, <2>7
<1>5. ASSUME NEW x \in 1..len PROVE data[At(x)] \in Nat
  <2>1. PICK f \in 1..n, k \in 1..to : x = (f - 1) * to + k
    <3>1. to \in Nat \ {0} /\ x \in 1..(n * to)
      OBVIOUS
    <3> QED
      BY <3>1, IndexSplit
  <2>2. At(x) \in 1..whole
    BY <1>4, <2>1
  <2> HIDE DEF At, whole
  <2>3. data \in [1..whole -> Nat]
    BY DEF whole
  <2> QED
    BY <2>2, <2>3
<1> HIDE DEF At, len, whole
<1>6. Remixed(data, from, to) \in Seq(Nat) /\ Len(Remixed(data, from, to)) = len
  BY <1>1, <1>3, <1>5
<1>7. ASSUME NEW f \in 1..n, NEW k \in 1..to
      PROVE  Remixed(data, from, to)[(f - 1) * to + k]
               = data[(f - 1) * from + (IF k <= from THEN k ELSE 1)]
  <2> DEFINE x == (f - 1) * to + k
  <2>1. x \in 1..len /\ At(x) = (f - 1) * from + (IF k <= from THEN k ELSE 1)
    BY <1>4
  <2> HIDE DEF x
  <2>2. Remixed(data, from, to)[x] = data[At(x)]
    BY <1>3, <2>1
  <2> QED
    BY <2>1, <2>2 DEF x
<1> QED
  BY <1>6, <1>7 DEF len

(* What a listener decodes of a chunk: FrameSize samples for each of its   *)
(* channels, taken from the frame.                                         *)
LEMMA DecodedAt ==
    ASSUME TypeOK, NEW i \in DOMAIN chunks
    PROVE  /\ Decoded(chunks[i]) \in Seq(Nat)
           /\ Len(Decoded(chunks[i])) = FrameSize * ListenerChannels
           /\ \A f \in 1..FrameSize, k \in 1..ListenerChannels :
                Decoded(chunks[i])[(f - 1) * ListenerChannels + k]
                  = chunks[i].data[(f - 1) * audio.channels
                                   + (IF k <= audio.channels THEN k ELSE 1)]
<1>1. audio.channels \in 1..3 /\ ListenerChannels \in 1..3
  BY ListenerChannelsType DEF TypeOK
<1>2. chunks[i].data \in [1..(FrameSize * audio.channels) -> Nat]
  BY DEF TypeOK, FrameSamples
<1> DEFINE from == audio.channels
           to == ListenerChannels
           data == chunks[i].data
<1>3. Decoded(chunks[i]) = Remixed(data, from, to)
  BY DEF Decoded
<1>4. FrameSize \in Nat /\ from \in 1..3 /\ to \in 1..3
      /\ data \in [1..(FrameSize * from) -> Nat]
  BY <1>1, <1>2
<1> HIDE DEF from, to, data
<1>5. /\ Remixed(data, from, to) \in Seq(Nat)
      /\ Len(Remixed(data, from, to)) = FrameSize * to
      /\ \A f \in 1..FrameSize, k \in 1..to :
           Remixed(data, from, to)[(f - 1) * to + k]
             = data[(f - 1) * from + (IF k <= from THEN k ELSE 1)]
  BY <1>4, RemixedAt, ZenonT(60)
<1> QED
  BY <1>3, <1>5 DEF from, to, data

-----------------------------------------------------------------------------
(* Type correctness                                                        *)

LEMMA RecordingType ==
    ASSUME NEW channels \in 1..3, NEW frames \in Nat, NEW at48k \in BOOLEAN
    PROVE  /\ Recording(channels, frames, at48k)
                \in [samples : Seq(Nat \ {Silence}), channels : 1..3, at48k : BOOLEAN]
           /\ Recording(channels, frames, at48k).channels = channels
           /\ Len(Recording(channels, frames, at48k).samples) = frames * channels
<1> DEFINE n == channels * frames
<1>1. n \in Nat /\ n = frames * channels
  OBVIOUS
<1> HIDE DEF n
<1>2. Numbered(n) \in Seq(Nat \ {Silence}) /\ Len(Numbered(n)) = n
  BY <1>1 DEF Numbered, Silence
<1>3. Recording(channels, frames, at48k)
        = [samples |-> Numbered(n), channels |-> channels, at48k |-> at48k]
  BY DEF Recording, n
<1> QED
  BY <1>1, <1>2, <1>3

(* That the positions played are those of chunks needs this much of the    *)
(* order of the two programs.                                              *)
NothingYet ==
    stage \in {"read", "resampled", "resample_failed", "encode_failed"} =>
        chunks = <<>> /\ played = <<>> /\ allSamples = <<>>

TypeInv == TypeOK /\ NothingYet

LEMMA TypeInit == Init => TypeInv
<1> SUFFICES ASSUME Init PROVE TypeInv
  OBVIOUS
<1>1. audio \in [samples : Seq(Nat \ {Silence}), channels : 1..3, at48k : BOOLEAN]
  BY RecordingType DEF Init
<1>2. wav \in [dataSize : Nat, blockAlign : Nat]
  BY DEF Init, NoFile
<1>3. DOMAIN chunks = {} /\ played \in Seq(DOMAIN chunks) /\ allSamples \in Seq(Nat)
  BY DEF Init
<1> QED
  BY <1>1, <1>2, <1>3 DEF Init, TypeOK, TypeInv, NothingYet

LEMMA TypeNext == TypeInv /\ [Next]_vars => TypeInv'
<1> SUFFICES ASSUME TypeOK, NothingYet, [Next]_vars PROVE TypeOK' /\ NothingYet'
  BY DEF TypeInv
<1>0. NothingYet'
  BY DEF NothingYet, Next, vars, Resample, MakeChunks, Play, FailToDecrypt,
         SkipForeign, WriteWav, Arrives
<1> USE DEF TypeOK
<1>1. ASSUME Resample PROVE TypeOK'
  <2>1. /\ audio' \in [samples : Seq(Nat \ {Silence}), channels : 1..3, at48k : BOOLEAN]
        /\ audio'.channels = audio.channels
    <3>1. CASE UNCHANGED audio
      BY <3>1
    <3>2. CASE \E frames \in 0..MaxFrames : audio' = Recording(audio.channels, frames, TRUE)
      <4>1. PICK frames \in 0..MaxFrames : audio' = Recording(audio.channels, frames, TRUE)
        BY <3>2
      <4>2. frames \in Nat /\ audio.channels \in 1..3
        OBVIOUS
      <4> QED
        BY <4>1, <4>2, RecordingType
    <3> QED
      BY <1>1, <3>1, <3>2 DEF Resample
  <2>2. FrameSamples(audio') = FrameSamples(audio)
    BY <2>1 DEF FrameSamples
  <2> QED
    BY <1>1, <2>1, <2>2 DEF Resample
<1>2. ASSUME MakeChunks PROVE TypeOK'
  <2>1. CASE audio.channels \in {1, 2}
    <3>1. FrameCount(audio) \in Nat
      <4> DEFINE fs == FrameSamples(audio)
      <4>1. fs \in Nat \ {0} /\ Len(audio.samples) \in Nat
        BY FrameSamplesType
      <4> HIDE DEF fs
      <4>2. Len(audio.samples) + fs - 1 \in Nat
        BY <4>1
      <4>3. (Len(audio.samples) + fs - 1) \div fs \in Nat
        BY <4>1, <4>2, Quotient
      <4> QED
        BY <4>3 DEF FrameCount, fs
    <3>2. \A i \in 1..FrameCount(audio) : Frame(audio, i) \in [1..FrameSamples(audio) -> Nat]
      <4>1. audio.samples \in Seq(Nat)
        BY DEF Silence
      <4> QED
        <5> TAKE i \in 1..FrameCount(audio)
        <5>1. i \in Nat \ {0} /\ audio.channels \in 1..3
          BY <3>1
        <5> QED
          BY <4>1, <5>1, FrameType
    <3>3. DOMAIN chunks' = 1..FrameCount(audio)
      BY <1>2, <2>1 DEF MakeChunks
    <3>4. \A i \in DOMAIN chunks' : /\ chunks'[i].seq = i - 1
                                   /\ chunks'[i].data = Frame(audio, i)
      BY <1>2, <2>1 DEF MakeChunks
    <3>5. played' \in Seq(DOMAIN chunks')
      BY <1>2 DEF MakeChunks, NothingYet
    <3> QED
      BY <1>2, <2>1, <3>2, <3>3, <3>4, <3>5 DEF MakeChunks
  <2> QED
    BY <1>2, <2>1 DEF MakeChunks
<1>3. ASSUME NEW i \in DOMAIN chunks, Play(i) PROVE TypeOK'
  <2>1. Decoded(chunks[i]) \in Seq(Nat)
    BY DecodedAt
  <2>2. allSamples' \in Seq(Nat)
    BY <1>3, <2>1, ConcatProperties DEF Play
  <2>3. played' \in Seq(DOMAIN chunks)
    BY <1>3, AppendProperties DEF Play
  <2> QED
    BY <1>3, <2>2, <2>3 DEF Play, Arrives
<1>4. ASSUME NEW i \in DOMAIN chunks, FailToDecrypt(i) PROVE TypeOK'
  BY <1>4 DEF FailToDecrypt, Arrives
<1>5. ASSUME SkipForeign PROVE TypeOK'
  BY <1>5 DEF SkipForeign, Arrives
<1>6. ASSUME WriteWav PROVE TypeOK'
  <2>1. wav' \in [dataSize : Nat, blockAlign : Nat]
    BY <1>6, ListenerChannelsType DEF WriteWav
  <2> QED
    BY <1>6, <2>1 DEF WriteWav
<1>7. ASSUME UNCHANGED vars PROVE TypeOK'
  BY <1>7 DEF vars
<1> QED
  BY <1>0, <1>1, <1>2, <1>3, <1>4, <1>5, <1>6, <1>7 DEF Next

(* Every chunk holds one frame, every decoded sample is a sample, whatever *)
(* arrives and however often.                                              *)
THEOREM AudioTypes == Spec => []TypeOK
<1>1. TypeInv => TypeOK
  BY DEF TypeInv
<1> QED
  BY <1>1, TypeInit, TypeNext, PTL DEF Spec

-----------------------------------------------------------------------------
(* The inductive invariant                                                 *)

(* The file and the resampler leave whole frames, one sample per channel.  *)
EvenChannels ==
    \E n \in Nat : Len(audio.samples) = n * audio.channels

(* What is sent is what encode_opus cut.                                   *)
ChunksAreFrames ==
    stage \in {"sent", "listen_failed", "written"} =>
        /\ audio.channels \in {1, 2}
        /\ chunks = [i \in 1..FrameCount(audio) |->
                        [seq |-> i - 1, data |-> Frame(audio, i),
                         encrypted |-> options.encrypted]]

(* all_samples, in pieces of one decoded chunk each.                       *)
PieceSize == FrameSize * ListenerChannels

SamplesAreDecoded ==
    /\ Len(allSamples) = Len(played) * PieceSize
    /\ \A j \in 1..Len(played), m \in 1..PieceSize :
         allSamples[(j - 1) * PieceSize + m] = Decoded(chunks[played[j]])[m]

HeaderIsOfSamples ==
    stage = "written" => wav = [dataSize |-> 2 * Len(allSamples),
                                blockAlign |-> 2 * ListenerChannels]

AudioInv == /\ TypeInv /\ EvenChannels /\ ChunksAreFrames
            /\ SamplesAreDecoded /\ HeaderIsOfSamples

LEMMA PieceType ==
    ASSUME TypeOK
    PROVE  PieceSize \in Nat
<1>1. ListenerChannels \in 1..3
  BY ListenerChannelsType
<1> QED
  BY <1>1 DEF PieceSize

(* The two programs agree on the channels as long as they run.             *)
LEMMA ChannelsStay ==
    ASSUME TypeOK, [Next]_vars
    PROVE  /\ options' = options /\ audio'.channels = audio.channels
           /\ ListenerChannels' = ListenerChannels /\ PieceSize' = PieceSize
<1>1. options' = options
  BY DEF Next, vars, Resample, MakeChunks, Play, FailToDecrypt, SkipForeign, WriteWav
<1>2. audio'.channels = audio.channels
  <2>1. CASE Resample
    <3>1. audio' = audio \/ \E frames \in 0..MaxFrames :
                               audio' = Recording(audio.channels, frames, TRUE)
      BY <2>1 DEF Resample
    <3> QED
      BY <3>1 DEF Recording
  <2>2. CASE ~Resample
    BY <2>2 DEF Next, vars, MakeChunks, Play, FailToDecrypt, SkipForeign, WriteWav
  <2> QED
    BY <2>1, <2>2
<1>3. ListenerChannels' = ListenerChannels
  BY <1>1, <1>2 DEF ListenerChannels
<1> QED
  BY <1>1, <1>2, <1>3 DEF PieceSize

LEMMA AudioInit == Init => AudioInv
<1> SUFFICES ASSUME Init PROVE AudioInv
  OBVIOUS
<1>1. TypeInv
  BY TypeInit
<1>2. EvenChannels
  <2>1. PICK channels \in 1..3, frames \in 0..MaxFrames, at48k \in BOOLEAN :
          audio = Recording(channels, frames, at48k)
    BY DEF Init
  <2>2. frames \in Nat
    OBVIOUS
  <2> QED
    BY <2>1, <2>2, RecordingType DEF EvenChannels
<1>3. SamplesAreDecoded
  <2>1. Len(allSamples) = 0 /\ Len(played) = 0
    BY DEF Init
  <2>2. 0 * PieceSize = 0
    BY <1>1, PieceType DEF TypeInv
  <2> QED
    BY <2>1, <2>2 DEF SamplesAreDecoded
<1> QED
  BY <1>1, <1>2, <1>3 DEF AudioInv, Init, ChunksAreFrames, HeaderIsOfSamples

(* Appending what was decoded of one more chunk.                           *)
LEMMA PlayAppends ==
    ASSUME TypeOK, SamplesAreDecoded, NEW i \in DOMAIN chunks, Play(i)
    PROVE  SamplesAreDecoded'
<1> DEFINE n == Len(played)
           m == PieceSize
           pcm == Decoded(chunks[i])
<1>1. n \in Nat /\ m \in Nat /\ pcm \in Seq(Nat) /\ allSamples \in Seq(Nat)
  BY DecodedAt, PieceType DEF TypeOK
<1>2. Len(pcm) = m /\ Len(allSamples) = n * m
  BY DecodedAt DEF SamplesAreDecoded, PieceSize
<1>3. PieceSize' = m /\ chunks' = chunks /\ \A c : Decoded(c)' = Decoded(c)
  BY DEF Play, PieceSize, ListenerChannels, Decoded
<1>4. played' = Append(played, i) /\ allSamples' = allSamples \o pcm
  BY DEF Play
<1>5. /\ Len(played') = n + 1 /\ played'[n + 1] = i
      /\ \A j \in 1..n : played'[j] = played[j]
  BY <1>4, AppendProperties DEF TypeOK
<1>6. \A j \in 1..n, k \in 1..m :
         allSamples[(j - 1) * m + k] = Decoded(chunks[played[j]])[k]
  BY DEF SamplesAreDecoded
<1> HIDE DEF m, pcm, n
<1>7. Len(allSamples') = (n + 1) * m
  BY <1>1, <1>2, <1>4, AppendEqual
<1>8. ASSUME NEW j \in 1..(n + 1), NEW k \in 1..m
      PROVE  allSamples'[(j - 1) * m + k] = Decoded(chunks[played'[j]])[k]
  <2>1. CASE j \in 1..n
    <3> DEFINE at == (j - 1) * m + k
    <3>1. at \in 1..(n * m)
      BY <1>1, <2>1, IndexBound
    <3>2. allSamples[at] = Decoded(chunks[played[j]])[k]
      BY <1>6, <2>1
    <3> HIDE DEF at
    <3>3. (allSamples \o pcm)[at] = allSamples[at]
      BY <1>1, <1>2, <3>1, ConcatBefore
    <3> QED
      BY <1>4, <1>5, <2>1, <3>2, <3>3 DEF at
  <2>2. CASE j = n + 1
    <3>1. (allSamples \o pcm)[n * m + k] = pcm[k]
      <4>1. (allSamples \o pcm)[Len(allSamples) + k] = pcm[k]
        BY <1>1, <1>2, ConcatAfter
      <4> QED
        BY <4>1, <1>2
    <3>2. j - 1 = n
      BY <1>1, <2>2
    <3> QED
      BY <1>4, <1>5, <2>2, <3>1, <3>2 DEF pcm
  <2> QED
    BY <1>1, <2>1, <2>2
<1> QED
  BY <1>3, <1>5, <1>7, <1>8 DEF SamplesAreDecoded

LEMMA AudioNext == AudioInv /\ [Next]_vars => AudioInv'
<1> SUFFICES ASSUME AudioInv, [Next]_vars PROVE AudioInv'
  OBVIOUS
<1>0. /\ TypeInv /\ TypeOK /\ NothingYet /\ EvenChannels /\ ChunksAreFrames
      /\ SamplesAreDecoded /\ HeaderIsOfSamples
  BY DEF AudioInv, TypeInv
<1>1. TypeInv'
  BY <1>0, TypeNext
<1>2. EvenChannels'
  <2>1. CASE audio' = audio
    BY <1>0, <2>1 DEF EvenChannels
  <2>2. CASE audio' # audio
    <3>1. PICK frames \in 0..MaxFrames : audio' = Recording(audio.channels, frames, TRUE)
      BY <2>2 DEF Next, vars, Resample, MakeChunks, Play, FailToDecrypt, SkipForeign, WriteWav
    <3>2. frames \in Nat /\ audio.channels \in 1..3
      BY <1>0 DEF TypeOK
    <3>3. Len(audio'.samples) = frames * audio.channels /\ audio'.channels = audio.channels
      BY <3>1, <3>2, RecordingType
    <3> QED
      BY <3>2, <3>3 DEF EvenChannels
  <2> QED
    BY <2>1, <2>2
<1>3. ChunksAreFrames'
  BY <1>0 DEF ChunksAreFrames, FrameCount, FrameSamples, Frame, Next, vars, Resample,
              MakeChunks, Play, FailToDecrypt, SkipForeign, WriteWav, Arrives
<1>4. HeaderIsOfSamples'
  <2>1. ListenerChannels' = ListenerChannels
    BY <1>0, ChannelsStay
  <2> QED
    BY <1>0, <2>1 DEF HeaderIsOfSamples, Next, vars, Resample, MakeChunks, Play,
                      FailToDecrypt, SkipForeign, WriteWav, Arrives
<1>5. SamplesAreDecoded'
  <2>1. ASSUME NEW i \in DOMAIN chunks, Play(i) PROVE SamplesAreDecoded'
    BY <1>0, <2>1, PlayAppends
  <2>2. CASE \A i \in DOMAIN chunks : ~Play(i)
    <3>1. allSamples' = allSamples /\ played' = played
      BY <2>2 DEF Next, vars, Resample, MakeChunks, FailToDecrypt, SkipForeign, WriteWav
    <3>2. PieceSize' = PieceSize
      BY <1>0, ChannelsStay
    <3>3. CASE Len(played) = 0
      BY <1>0, <3>1, <3>2, <3>3 DEF SamplesAreDecoded
    <3>4. CASE Len(played) # 0
      <4>1. stage \in {"sent", "listen_failed", "written"}
        BY <1>0, <3>4 DEF NothingYet, TypeOK
      <4>2. chunks' = chunks /\ audio' = audio /\ options' = options
        BY <4>1 DEF Next, vars, Resample, MakeChunks, Play, FailToDecrypt, SkipForeign, WriteWav
      <4>3. \A c : Decoded(c)' = Decoded(c)
        BY <4>2 DEF Decoded, ListenerChannels
      <4> QED
        BY <1>0, <3>1, <3>2, <4>2, <4>3 DEF SamplesAreDecoded
    <3> QED
      BY <3>3, <3>4
  <2> QED
    BY <2>1, <2>2
<1> QED
  BY <1>1, <1>2, <1>3, <1>4, <1>5 DEF AudioInv

LEMMA AudioInvariant == Spec => []AudioInv
BY AudioInit, AudioNext, PTL DEF Spec

-----------------------------------------------------------------------------
(* The file plays for as long as the listener reports: its header counts   *)
(* bytes, FrameSize samples of every channel for each chunk decoded.       *)
LEMMA HeaderOfPieces == AudioInv => DurationIsPlayed
<1> SUFFICES ASSUME AudioInv, stage = "written"
             PROVE  wav.dataSize = wav.blockAlign * FrameSize * Len(played)
  BY DEF DurationIsPlayed
<1>1. /\ wav = [dataSize |-> 2 * Len(allSamples), blockAlign |-> 2 * ListenerChannels]
      /\ Len(allSamples) = Len(played) * (FrameSize * ListenerChannels)
  BY DEF AudioInv, HeaderIsOfSamples, SamplesAreDecoded, PieceSize
<1>2. ListenerChannels \in 1..3 /\ Len(played) \in Nat
  BY ListenerChannelsType DEF AudioInv, TypeInv, TypeOK
<1> DEFINE n == Len(played)
           channels == ListenerChannels
<1>3. wav.dataSize = 2 * (n * (FrameSize * channels)) /\ wav.blockAlign = 2 * channels
  BY <1>1
<1>4. n \in Nat /\ channels \in Nat
  BY <1>2
<1> HIDE DEF n, channels
<1>5. 2 * (n * (FrameSize * channels)) = 2 * channels * FrameSize * n
  BY <1>4
<1> QED
  BY <1>3, <1>5 DEF n

THEOREM WavLastsAsPlayed == Spec => []DurationIsPlayed
BY AudioInvariant, HeaderOfPieces, PTL

-----------------------------------------------------------------------------
(* Cutting and putting together.                                           *)

LEMMA FrameCountRest ==
    ASSUME NEW a, a.channels \in 1..3, Len(a.samples) \in Nat
    PROVE  /\ FrameCount(a) \in Nat
           /\ FrameCount(a) * FrameSamples(a) - Len(a.samples) \in 0..(FrameSamples(a) - 1)
<1> DEFINE fs == FrameSamples(a)
           len == Len(a.samples)
           q == (len + fs - 1) \div fs
           r == (len + fs - 1) % fs
<1>1. fs \in Nat \ {0} /\ len \in Nat
  BY FrameSamplesType
<1>2. FrameCount(a) = q
  BY DEF FrameCount
<1> HIDE DEF fs, len
<1>3. len + fs - 1 \in Nat
  BY <1>1
<1>4. q \in Nat /\ r \in 0..(fs - 1) /\ len + fs - 1 = q * fs + r
  BY <1>1, <1>3, Quotient
<1> HIDE DEF q, r
<1>5. q * fs \in Int
  BY <1>1, <1>4
<1>6. q * fs - len \in 0..(fs - 1)
  BY <1>1, <1>4, <1>5
<1> QED
  BY <1>2, <1>4, <1>6 DEF fs, len

(* Sample at of the frames put together is sample at of the recording, or  *)
(* silence when it has ended.                                              *)
LEMMA SentAt ==
    ASSUME TypeOK, ChunksAreFrames, stage \in {"sent", "written"},
           NEW sent, sent = FlattenSeq([i \in DOMAIN chunks |-> chunks[i].data])
    PROVE  /\ sent \in Seq(Nat)
           /\ Len(sent) = FrameCount(audio) * FrameSamples(audio)
           /\ \A at \in 1..Len(sent) :
                sent[at] = IF at <= Len(audio.samples) THEN audio.samples[at] ELSE Silence
<1> DEFINE fs == FrameSamples(audio)
           n == FrameCount(audio)
           frames == [i \in 1..n |-> Frame(audio, i)]
<1>1. /\ audio.channels \in 1..3 /\ audio.samples \in Seq(Nat)
      /\ Len(audio.samples) \in Nat
  BY DEF TypeOK, Silence
<1>2. fs \in Nat \ {0} /\ n \in Nat
  BY <1>1, FrameSamplesType, FrameCountRest
<1>3. DOMAIN chunks = 1..n /\ \A i \in 1..n : chunks[i].data = Frame(audio, i)
  <2>1. chunks = [i \in 1..n |-> [seq |-> i - 1, data |-> Frame(audio, i),
                                 encrypted |-> options.encrypted]]
    BY DEF ChunksAreFrames
  <2> HIDE DEF n
  <2> QED
    BY <2>1
<1>4. sent = FlattenSeq(frames)
  BY <1>3
<1>5. \A i \in 1..n : Frame(audio, i) \in [1..fs -> Nat]
  <2> TAKE i \in 1..n
  <2>1. i \in Nat \ {0}
    BY <1>2
  <2> QED
    BY <1>1, <2>1, FrameType
<1>6. \A i \in 1..n : Frame(audio, i) \in Seq(Nat) /\ Len(Frame(audio, i)) = fs
  <2> HIDE DEF fs, n
  <2> QED
    BY <1>2, <1>5
<1>7. /\ frames \in Seq(Seq(Nat)) /\ Len(frames) = n
      /\ \A i \in 1..n : frames[i] = Frame(audio, i)
  <2> HIDE DEF n
  <2> QED
    BY <1>2, <1>6
<1>8. \A i \in 1..n, k \in 1..fs :
         Frame(audio, i)[k] = IF (i - 1) * fs + k <= Len(audio.samples)
                              THEN audio.samples[(i - 1) * fs + k] ELSE Silence
  BY DEF Frame
<1> HIDE DEF fs, n, frames
<1>9. /\ FlattenSeq(frames) \in Seq(Nat)
      /\ Len(FlattenSeq(frames)) = n * fs
      /\ \A i \in 1..n, k \in 1..fs : FlattenSeq(frames)[(i - 1) * fs + k] = frames[i][k]
  <2>1. Pieces(frames, fs)
    BY <1>6, <1>7 DEF Pieces
  <2>2. FlattenSeq(frames) \in Seq(Nat) /\ MadeOf(FlattenSeq(frames), frames, fs)
    BY <1>2, <1>7, <2>1, FlattenEqual
  <2> QED
    BY <1>7, <2>2 DEF MadeOf
<1>10. ASSUME NEW at \in 1..Len(sent)
       PROVE  sent[at] = IF at <= Len(audio.samples) THEN audio.samples[at] ELSE Silence
  <2>1. at \in 1..(n * fs)
    BY <1>4, <1>9
  <2>2. PICK i \in 1..n, k \in 1..fs : at = (i - 1) * fs + k
    BY <1>2, <2>1, IndexSplit
  <2>3. sent[at] = Frame(audio, i)[k]
    BY <1>4, <1>7, <1>9, <2>2
  <2> QED
    BY <1>8, <2>2, <2>3
<1> QED
  BY <1>4, <1>9, <1>10 DEF fs, n

LEMMA FramesOfRecording == AudioInv => FramesAreTheRecording
<1> DEFINE sent == FlattenSeq([i \in DOMAIN chunks |-> chunks[i].data])
           samples == audio.samples
           fs == FrameSamples(audio)
<1> SUFFICES ASSUME AudioInv, stage \in {"sent", "written"}
             PROVE  /\ Len(sent) - Len(samples) \in 0..(fs - 1)
                    /\ IsPrefix(samples, sent)
                    /\ AllSilence(SubSeq(sent, Len(samples) + 1, Len(sent)))
  BY DEF FramesAreTheRecording
<1>1. /\ audio.channels \in 1..3 /\ samples \in Seq(Nat) /\ Len(samples) \in Nat
  BY DEF AudioInv, TypeInv, TypeOK, Silence
<1>2. /\ sent \in Seq(Nat) /\ Len(sent) = FrameCount(audio) * fs
      /\ \A at \in 1..Len(sent) :
           sent[at] = IF at <= Len(samples) THEN samples[at] ELSE Silence
  BY SentAt DEF AudioInv, TypeInv
<1>3. Len(sent) - Len(samples) \in 0..(fs - 1)
  BY <1>1, <1>2, FrameCountRest
<1>4. fs \in Nat
  BY <1>1, FrameSamplesType
<1> HIDE DEF sent, samples, fs
<1>5. Len(samples) <= Len(sent) /\ Len(sent) \in Nat
  BY <1>1, <1>2, <1>3, <1>4
<1>6. IsPrefix(samples, sent)
  <2>1. SubSeq(samples, 1, Len(samples)) = samples
    BY <1>1
  <2>2. /\ SubSeq(sent, 1, Len(samples)) \in Seq(Nat)
        /\ Len(SubSeq(sent, 1, Len(samples))) = Len(samples)
        /\ \A at \in 1..Len(samples) : SubSeq(sent, 1, Len(samples))[at] = sent[at]
    BY <1>1, <1>2, <1>5
  <2>3. \A at \in 1..Len(samples) : SubSeq(sent, 1, Len(samples))[at] = samples[at]
    BY <1>1, <1>2, <1>5, <2>2
  <2>4. SubSeq(sent, 1, Len(samples)) = samples
    BY <1>1, <2>2, <2>3, SeqEqual
  <2> QED
    BY <1>5, <2>1, <2>4 DEF IsPrefix
<1>7. AllSilence(SubSeq(sent, Len(samples) + 1, Len(sent)))
  <2> DEFINE rest == SubSeq(sent, Len(samples) + 1, Len(sent))
  <2>1. /\ DOMAIN rest = 1..(Len(sent) - Len(samples))
        /\ \A i \in DOMAIN rest : rest[i] = sent[Len(samples) + i]
    BY <1>1, <1>2, <1>5
  <2>2. ASSUME NEW i \in DOMAIN rest PROVE rest[i] = Silence
    <3>1. /\ Len(samples) + i \in 1..Len(sent) /\ ~(Len(samples) + i <= Len(samples))
      BY <1>1, <1>5, <2>1
    <3> QED
      BY <1>2, <2>1, <3>1
  <2> QED
    BY <2>2 DEF AllSilence
<1> QED
  BY <1>3, <1>6, <1>7

(* encode_opus loses nothing at the boundary of two frames, sends nothing  *)
(* twice, and fills the last frame with silence.                           *)
THEOREM FramesAreWhole == Spec => []FramesAreTheRecording
BY AudioInvariant, FramesOfRecording, PTL

-----------------------------------------------------------------------------
(* What is heard.                                                          *)

(* Side k of a listener with channels of its own, and the channel of the   *)
(* recording that it plays.                                                *)
Source(k) == IF k <= audio.channels THEN k ELSE 1

Sample(at) == IF at <= Len(audio.samples) THEN audio.samples[at] ELSE Silence

(* Sample (f, k) of the j-th chunk, through framing and decoder.           *)
LEMMA DecodedIsSample ==
    ASSUME TypeOK, ChunksAreFrames, NEW j \in DOMAIN chunks,
           NEW f \in 1..FrameSize, NEW k \in 1..ListenerChannels,
           stage \in {"sent", "listen_failed", "written"}
    PROVE  /\ j \in Nat \ {0}
           /\ Decoded(chunks[j])[(f - 1) * ListenerChannels + k]
                = Sample(((j - 1) * FrameSize + (f - 1)) * audio.channels + Source(k))
<1> DEFINE fs == FrameSamples(audio)
           n == FrameCount(audio)
           channels == audio.channels
           side == (f - 1) * channels + Source(k)
<1>1. channels \in 1..3 /\ ListenerChannels \in 1..3 /\ Len(audio.samples) \in Nat
  BY ListenerChannelsType DEF TypeOK
<1>2. fs = FrameSize * channels /\ n \in Nat
  BY <1>1, FrameCountRest DEF FrameSamples
<1>3. Source(k) \in 1..channels
  BY <1>1 DEF Source
<1>4. chunks = [i \in 1..n |-> [seq |-> i - 1, data |-> Frame(audio, i),
                               encrypted |-> options.encrypted]]
  BY DEF ChunksAreFrames
<1>5. j \in 1..n /\ j \in Nat \ {0} /\ chunks[j].data = Frame(audio, j)
  <2> HIDE DEF n
  <2> QED
    BY <1>2, <1>4
<1>6. Decoded(chunks[j])[(f - 1) * ListenerChannels + k] = chunks[j].data[side]
  BY DecodedAt DEF Source
<1>7. side \in 1..fs
  <2> DEFINE s == Source(k)
  <2>1. channels \in Nat /\ s \in 1..channels
    BY <1>1, <1>3
  <2> HIDE DEF s, channels
  <2>2. (f - 1) * channels + s \in 1..(FrameSize * channels)
    BY <2>1, IndexBound
  <2> QED
    BY <1>2, <2>2 DEF s
<1>8. Frame(audio, j)[side] = Sample((j - 1) * fs + side)
  BY <1>7 DEF Frame, Sample
<1>9. (j - 1) * fs + side = ((j - 1) * FrameSize + (f - 1)) * channels + Source(k)
  <2> DEFINE s == Source(k)
  <2>1. s \in Int /\ channels \in Int /\ j \in Int
    BY <1>1, <1>3, <1>5
  <2> HIDE DEF s, channels
  <2>2. (j - 1) * (FrameSize * channels) + ((f - 1) * channels + s)
          = ((j - 1) * FrameSize + (f - 1)) * channels + s
    BY <2>1
  <2> QED
    BY <1>2, <2>2 DEF s
<1> QED
  BY <1>5, <1>6, <1>8, <1>9

LEMMA HeardInOrder == AudioInv => HeardIsRecording
<1> DEFINE n == Len(played)
           to == ListenerChannels
           from == audio.channels
           samples == audio.samples
<1> SUFFICES ASSUME AudioInv, played = Numbered(n), NEW k \in 1..to
             PROVE  LET heard == Side(allSamples, to, k)
                        spoken == Side(samples, from, Source(k))
                    IN  /\ Len(heard) = n * FrameSize
                        /\ \A i \in DOMAIN heard :
                             heard[i] = IF i <= Len(spoken) THEN spoken[i] ELSE Silence
  BY DEF HeardIsRecording, Source
<1>1. TypeOK /\ NothingYet /\ ChunksAreFrames /\ SamplesAreDecoded /\ EvenChannels
  BY DEF AudioInv, TypeInv
<1>2. /\ n \in Nat /\ to \in 1..3 /\ from \in 1..3
      /\ samples \in Seq(Nat) /\ Len(samples) \in Nat
  BY <1>1, ListenerChannelsType DEF TypeOK, Silence
<1>3. /\ Len(allSamples) = n * (FrameSize * to)
      /\ \A j \in 1..n, m \in 1..(FrameSize * to) :
           allSamples[(j - 1) * (FrameSize * to) + m] = Decoded(chunks[played[j]])[m]
  BY <1>1 DEF SamplesAreDecoded, PieceSize
<1>4. PICK frames \in Nat : Len(samples) = frames * from
  BY <1>1 DEF EvenChannels
<1>5. Source(k) \in 1..from
  BY <1>2 DEF Source
<1>6. Len(allSamples) \div to = n * FrameSize /\ n * FrameSize \in Nat
  <2> DEFINE len == n * FrameSize
  <2>1. len \in Nat /\ Len(allSamples) = len * to + 0
    <3> HIDE DEF n, to
    <3> QED
      BY <1>2, <1>3
  <2> HIDE DEF len, to
  <2>2. (len * to + 0) \div to = len
    BY <1>2, <2>1, QuotientUnique
  <2> QED
    BY <2>1, <2>2 DEF len
<1>7. Len(samples) \div from = frames
  <2> HIDE DEF from
  <2>1. (frames * from + 0) \div from = frames
    BY <1>2, QuotientUnique
  <2> QED
    BY <1>2, <1>4, <2>1
<1> DEFINE heard == Side(allSamples, to, k)
           spoken == Side(samples, from, Source(k))
<1>8. /\ heard = [i \in 1..(n * FrameSize) |-> allSamples[(i - 1) * to + k]]
      /\ spoken = [i \in 1..frames |-> samples[(i - 1) * from + Source(k)]]
  BY <1>6, <1>7 DEF Side
<1> HIDE DEF heard, spoken
<1>9. Len(heard) = n * FrameSize /\ Len(spoken) = frames
  BY <1>6, <1>8
<1>10. ASSUME NEW i \in 1..(n * FrameSize)
       PROVE  heard[i] = IF i <= Len(spoken) THEN spoken[i] ELSE Silence
  <2>0. i \in Nat
    BY <1>6
  <2>1. PICK j \in 1..n, f \in 1..FrameSize : i = (j - 1) * FrameSize + f
    BY <1>2, IndexSplit
  <2>2. j \in DOMAIN chunks /\ played[j] = j
    <3>1. played[j] \in DOMAIN chunks
      BY <1>1 DEF TypeOK
    <3>2. Numbered(n)[j] = j
      BY <2>1 DEF Numbered
    <3>3. played[j] = Numbered(n)[j]
      OBVIOUS
    <3> QED
      BY <3>1, <3>2, <3>3
  <2>3. stage \in {"sent", "listen_failed", "written"}
    <3>1. played # <<>>
      BY <1>2, <2>1
    <3> QED
      BY <1>1, <3>1 DEF NothingYet, TypeOK
  <2>4. heard[i] = allSamples[(j - 1) * (FrameSize * to) + ((f - 1) * to + k)]
    <3>1. heard[i] = allSamples[(i - 1) * to + k]
      BY <1>8
    <3>2. (i - 1) * to + k = (j - 1) * (FrameSize * to) + ((f - 1) * to + k)
      <4> HIDE DEF to, n
      <4> QED
        BY <1>2, <2>0, <2>1
    <3> QED
      BY <3>1, <3>2
  <2>5. (f - 1) * to + k \in 1..(FrameSize * to)
    <3>1. to \in Nat /\ FrameSize \in Nat
      BY <1>2
    <3> HIDE DEF to
    <3> QED
      BY <3>1, IndexBound
  <2>6. heard[i] = Decoded(chunks[j])[(f - 1) * to + k]
    <3> DEFINE m == (f - 1) * to + k
    <3>1. allSamples[(j - 1) * (FrameSize * to) + m] = Decoded(chunks[played[j]])[m]
      BY <1>3, <2>5
    <3> QED
      BY <2>2, <2>4, <3>1
  <2>7. heard[i] = Sample((i - 1) * from + Source(k))
    <3>1. heard[i] = Sample(((j - 1) * FrameSize + (f - 1)) * from + Source(k))
      BY <1>1, <2>2, <2>3, <2>6, DecodedIsSample
    <3>2. (j - 1) * FrameSize + (f - 1) = i - 1
      BY <2>0, <2>1
    <3> QED
      BY <3>1, <3>2
  <2>8. (i - 1) * from + Source(k) <= Len(samples) <=> i <= frames
    <3> DEFINE s == Source(k)
    <3>1. s \in 1..from /\ from \in 1..3 /\ Len(samples) = frames * from
      BY <1>2, <1>4, <1>5
    <3> HIDE DEF s, from
    <3>2. from = 1 \/ from = 2 \/ from = 3
      BY <3>1
    <3>3. (i - 1) * from + s <= frames * from <=> i <= frames
      BY <2>0, <3>1, <3>2
    <3> QED
      BY <3>1, <3>3 DEF s
  <2> QED
    BY <1>8, <1>9, <2>0, <2>7, <2>8 DEF Sample
<1> QED
  BY <1>8, <1>9, <1>10 DEF heard, spoken

(* A listener that decoded the first chunks of a recording, each once and  *)
(* in order, has that much of it, sample by sample, on every channel it    *)
(* plays, and then silence.                                                *)
THEOREM HeardAsRecorded == Spec => []HeardIsRecording
BY AudioInvariant, HeardInOrder, PTL
=============================================================================
