---------------------------- MODULE VadSegmenter ----------------------------
(***************************************************************************)
(* TenVADSession (src/src/services/vad_service.py): the samples of one     *)
(* connection are cut into frames of Hop samples, the detector flags each  *)
(* frame as speech or silence, and the frames are grouped into segments.   *)
(* Time is counted in frames and the frames of the stream are numbered     *)
(* from 0, so a frame in a buffer stands for its Hop samples; the flags    *)
(* are what the native detector answers, and any answer is possible.       *)
(***************************************************************************)
EXTENDS Integers, Sequences

CONSTANTS
    Hop,            \* samples in a frame (VAD_HOP_SIZE)
    Pad,            \* ASR_PAD_FRAMES
    MinSpeech,      \* VAD_MIN_SPEECH, in frames
    MaxSpeech,      \* VAD_MAX_SPEECH
    PauseMax, PauseMin, DynamicRange,   \* VAD_PAUSE_MAX, VAD_PAUSE_MIN, VAD_DYNAMIC_RANGE_END
    MaxSamples      \* bound: samples the client sends

ASSUME VadAssumption ==
    /\ Hop \in Nat \ {0} /\ Pad \in Nat
    /\ MinSpeech \in Nat /\ MaxSpeech \in Nat
    /\ PauseMax \in Nat /\ PauseMin \in Nat /\ DynamicRange \in Nat
    /\ MaxSamples \in Nat

VARIABLES
    chunk,          \* _chunk_total: samples waiting to make a frame
    total,          \* _total_samples, in frames
    pre,            \* _pre_buffer: the last Pad frames
    snap,           \* _pre_snapshot
    frames,         \* _segment_frames
    inSpeech,       \* _in_speech
    speechCount,    \* _speech_frame_count
    silenceCount,   \* _silence_frame_count
    start,          \* _speech_start_sample, in frames
    lastEnd,        \* _last_speech_end_sample, in frames
    segments,       \* segments returned so far
    ended,          \* flush() has been called: the session is closing
    fed,            \* history: samples fed so far
    spoken,         \* history: the frames flagged as speech
    dropped         \* history: those that belong to a segment discarded as too short

bufVars == <<pre, snap, frames>>
speechVars == <<inSpeech, speechCount, silenceCount, start, lastEnd>>
history == <<fed, spoken, dropped>>
vars == <<chunk, total, bufVars, speechVars, segments, ended, history>>

Frames == 0 .. MaxSamples
Segment == [audio: Seq(Frames), start: Int, end: Int, speech: Nat]

TypeOK ==
    /\ chunk \in 0 .. MaxSamples
    /\ total \in Frames
    /\ pre \in Seq(Frames) /\ Len(pre) <= Pad
    /\ snap \in Seq(Frames) /\ Len(snap) <= Pad
    /\ frames \in Seq(Frames)
    /\ inSpeech \in BOOLEAN
    /\ speechCount \in Frames /\ silenceCount \in Frames
    /\ start \in Frames /\ lastEnd \in Frames
    /\ segments \in Seq(Segment)
    /\ ended \in BOOLEAN
    /\ fed \in 0 .. MaxSamples
    /\ spoken \in SUBSET Frames /\ dropped \in SUBSET spoken

Init ==
    /\ chunk = 0 /\ total = 0
    /\ pre = <<>> /\ snap = <<>> /\ frames = <<>>
    /\ inSpeech = FALSE /\ speechCount = 0 /\ silenceCount = 0
    /\ start = 0 /\ lastEnd = 0
    /\ segments = <<>> /\ ended = FALSE
    /\ fed = 0 /\ spoken = {} /\ dropped = {}

Lesser(a, b) == IF a < b THEN a ELSE b
LastFrames(s, n) == IF Len(s) <= n THEN s ELSE SubSeq(s, Len(s) - n + 1, Len(s))

-----------------------------------------------------------------------------
(* The rules that end a segment. *)

\* _pause_threshold: falls linearly from PauseMax to PauseMin over DynamicRange.
PauseReached(speech, pause) ==
    IF speech >= DynamicRange
      THEN pause >= PauseMin
      ELSE pause * DynamicRange >= PauseMax * DynamicRange - (PauseMax - PauseMin) * speech

ShouldCut(speech, pause) == speech >= MaxSpeech \/ PauseReached(speech, pause)

\* Mutant of TooLong: the upper limit is forgotten.
NeverTooLong(speech) == FALSE

\* The forced cut of a segment without a pause.
TooLong(speech) == speech > MaxSpeech

-----------------------------------------------------------------------------
(* Frames *)

\* Mutant of Window: the window is one frame too long.
WindowTooLong(f) == LastFrames(Append(pre, f), Pad + 1)

\* The frame enters the sliding window after the snapshot was taken.
Window(f) == LastFrames(Append(pre, f), Pad)

\* Mutant of Snapshot: the window is read after the frame has entered it.
SnapshotLate(f) == LastFrames(Append(pre, f), Pad)

Snapshot(f) == pre

\* Mutant of SegmentEnd: the segment ends at its last speech frame less the padding.
SegmentEndEarly(st, le, buffered) == Lesser(le - Pad, st + buffered)

\* _compute_segment_end
SegmentEnd(st, le, buffered) == Lesser(le + Pad, st + buffered)

\* _extract_and_reset and _finalize_segment for the segment made of the frames
\* sn and fr, which starts at st, whose last speech frame ends at le and which
\* holds sp speech frames, among them those in said.
Finalize(sn, fr, st, le, sp, said) ==
    LET all == sn \o fr
        end == SegmentEnd(st, le, Len(all))
        audio == SubSeq(all, 1, Lesser(Len(all), end - st))
    IN  /\ IF sp < MinSpeech
             THEN /\ dropped' = dropped \cup {f \in said : f >= st + Len(sn)}
                  /\ UNCHANGED segments
             ELSE /\ segments' = Append(segments,
                        [audio |-> audio, start |-> st, end |-> end, speech |-> sp])
                  /\ UNCHANGED dropped
        /\ frames' = <<>> /\ snap' = <<>>
        /\ inSpeech' = FALSE /\ speechCount' = 0 /\ silenceCount' = 0
        /\ lastEnd' = 0 /\ start' = st

\* Mutant of Remainder: what is left of a chunk after one frame is thrown away.
RemainderLost == 0

Remainder == chunk - Hop

\* A frame flagged as speech: it opens a segment or extends it.
SpeechFrame ==
    LET sn == IF inSpeech THEN snap ELSE Snapshot(total)
        st == IF inSpeech THEN start ELSE total - Len(sn)
        sp == (IF inSpeech THEN speechCount ELSE 0) + 1
        fr == Append(IF inSpeech THEN frames ELSE <<>>, total)
    IN  /\ spoken' = spoken \cup {total}
        /\ IF TooLong(sp)
             THEN Finalize(sn, fr, st, total + 1, sp, spoken')
             ELSE /\ snap' = sn /\ start' = st /\ speechCount' = sp /\ frames' = fr
                  /\ inSpeech' = TRUE /\ silenceCount' = 0 /\ lastEnd' = total + 1
                  /\ UNCHANGED <<segments, dropped>>

\* A frame flagged as silence: it may end the segment that is open.
SilenceFrame ==
    /\ UNCHANGED spoken
    /\ IF ~inSpeech
         THEN UNCHANGED <<snap, frames, speechVars, segments, dropped>>
         ELSE LET fr == Append(frames, total)
                  pause == silenceCount + 1
              IN  IF ShouldCut(speechCount, pause) \/ TooLong(speechCount)
                    THEN Finalize(snap, fr, start, lastEnd, speechCount, spoken)
                    ELSE /\ frames' = fr /\ silenceCount' = pause
                         /\ UNCHANGED <<snap, inSpeech, speechCount, start, lastEnd,
                                        segments, dropped>>

\* One turn of the loop of feed_audio (_process_frame).
ProcessFrame ==
    /\ chunk >= Hop
    /\ chunk' = Remainder
    /\ pre' = Window(total)
    /\ SpeechFrame \/ SilenceFrame
    /\ total' = total + 1
    /\ UNCHANGED <<ended, fed>>

\* feed_audio is called with n samples, after the previous call has returned.
FeedAudio(n) ==
    /\ ~ended /\ chunk < Hop
    /\ fed + n <= MaxSamples
    /\ fed' = fed + n
    /\ chunk' = chunk + n
    /\ UNCHANGED <<total, bufVars, speechVars, segments, ended, spoken, dropped>>

\* flush: the client's end frame; nothing is fed afterwards.
Flush ==
    /\ ~ended /\ chunk < Hop
    /\ ended' = TRUE
    /\ IF frames = <<>>
         THEN UNCHANGED <<snap, frames, speechVars, segments, dropped>>
         ELSE Finalize(snap, frames, start, lastEnd, speechCount, spoken)
    /\ UNCHANGED <<chunk, total, pre, fed, spoken>>

Finished == ended /\ UNCHANGED vars

Next == ProcessFrame \/ (\E n \in 1 .. MaxSamples : FeedAudio(n)) \/ Flush \/ Finished

Spec == Init /\ [][Next]_vars

-----------------------------------------------------------------------------
(* Properties *)

\* A segment's audio is exactly the stretch of the stream its start and end
\* announce: no frame is missing, doubled or out of place.
AudioIsStretch ==
    \A i \in 1 .. Len(segments) :
        LET s == segments[i]
        IN  /\ Len(s.audio) = s.end - s.start
            /\ \A k \in 1 .. Len(s.audio) : s.audio[k] = s.start + k - 1

\* Segments follow each other: each begins and ends after the one before, and
\* repeats at most Pad frames of it.
SegmentsAdvance ==
    \A i, j \in 1 .. Len(segments) : j = i + 1 =>
        /\ segments[i].start < segments[j].start
        /\ segments[i].end < segments[j].end
        /\ segments[i].end - Pad <= segments[j].start

\* No speech is lost: a frame flagged as speech is in the segment that is open,
\* in one that was returned, or in one discarded as too short.
SpeechKept ==
    \A f \in spoken :
        \/ \E k \in 1 .. Len(frames) : frames[k] = f
        \/ \E i \in 1 .. Len(segments) : \E k \in 1 .. Len(segments[i].audio) : segments[i].audio[k] = f
        \/ f \in dropped

\* The segments that leave hold enough speech, and never more than one frame
\* above the limit, however the detector answers.
SpeechBounded ==
    /\ speechCount <= MaxSpeech
    /\ \A i \in 1 .. Len(segments) : segments[i].speech \in MinSpeech .. MaxSpeech + 1

\* What the segmenter has to decide and what it has decided, as Segmentation
\* has it: the speech of the open segment waits.
Waiting == IF inSpeech THEN {f \in spoken : f >= start + Len(snap)} ELSE {}
Stretch(s) == [start |-> s.start, end |-> s.end, speech |-> s.speech]
Stretches == [i \in 1 .. Len(segments) |-> Stretch(segments[i])]

Greater(a, b) == IF a < b THEN b ELSE a

\* Slack is 1, not the documented 0: see SpeechWithinLimit.
Promise == INSTANCE Segmentation
    WITH clock <- total, waiting <- Waiting, stretches <- Stretches, over <- ended, Slack <- 1,
         MinPause <- Lesser(PauseMin, PauseMax), MaxPause <- Greater(PauseMin, PauseMax)

\* Whatever the counters, the window and the snapshot do, each frame of speech is
\* decided once and in one segment with all that wait, after a pause that is
\* neither too short nor too long, and without one at most a frame later than
\* the documented limit.
SegmentsAsPromised == Promise!Spec

\* Between two calls every sample is in a frame that was processed or waits in
\* the buffer, which is shorter than a frame.
NoSampleLost == fed = total * Hop + chunk

\* The documented suppression of short audio: speech below MinSpeech triggers
\* nothing and goes on waiting, so none is thrown away while the stream runs.
ShortSpeechWaits == ~ended => dropped = {}

\* The documented limit: speech is cut as soon as it has reached MaxSpeech, so a
\* segment for the recogniser never holds more.
SpeechWithinLimit == \A i \in 1 .. Len(segments) : segments[i].speech <= MaxSpeech
==============================================================================
