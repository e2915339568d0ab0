------------------------------ MODULE VadProofs ------------------------------
(***************************************************************************)
(* Proofs about VadSegmenter, for every frame length, padding and limit,   *)
(* and for every answer of the detector.                                   *)
(***************************************************************************)
EXTENDS VadSegmenter, FiniteSetTheorems, TLAPS

\* s holds the consecutive frames of the stream from a on.
From(s, a) == \A k \in 1 .. Len(s) : s[k] = a + k - 1

\* A returned segment is the stretch it announces.
IsStretch(s) == Len(s.audio) = s.end - s.start /\ From(s.audio, s.start)

\* The window holds the frames before the next one.
WindowLast == Len(pre) <= total /\ From(pre, total - Len(pre))

\* The open segment reaches from its start to the frame that was processed
\* last; its counters count frames of it; its last speech frame is one of it.
OpenSegment ==
    inSpeech =>
        /\ start + Len(snap) + Len(frames) = total
        /\ From(snap, start) /\ From(frames, start + Len(snap))
        /\ speechCount + silenceCount <= Len(frames)
        /\ start <= lastEnd /\ lastEnd <= total

\* Between two segments everything is reset.
NoSegment == ~inSpeech => frames = <<>> /\ speechCount = 0 /\ silenceCount = 0

VadInv == TypeOK /\ NoSampleLost /\ WindowLast /\ OpenSegment /\ NoSegment /\ AudioIsStretch

-----------------------------------------------------------------------------
(* Sequences of frames *)

\* What one more frame at its end makes of a stretch.
LEMMA AppendFrom ==
    ASSUME NEW s \in Seq(Frames), NEW a \in Int, From(s, a), NEW f \in Frames, f = a + Len(s)
    PROVE  /\ Append(s, f) \in Seq(Frames)
           /\ Len(Append(s, f)) = Len(s) + 1
           /\ From(Append(s, f), a)
BY DEF From

\* The last n frames of a stretch are a stretch that ends where it does.
LEMMA LastFramesFrom ==
    ASSUME NEW s \in Seq(Frames), NEW a \in Int, From(s, a), NEW n \in Nat
    PROVE  /\ LastFrames(s, n) \in Seq(Frames)
           /\ Len(LastFrames(s, n)) <= n
           /\ Len(LastFrames(s, n)) <= Len(s)
           /\ From(LastFrames(s, n), a + Len(s) - Len(LastFrames(s, n)))
<1>1. CASE Len(s) <= n BY <1>1 DEF LastFrames, From
<1>2. CASE ~(Len(s) <= n)
  <2> DEFINE r == SubSeq(s, Len(s) - n + 1, Len(s))
  <2>1. LastFrames(s, n) = r BY <1>2 DEF LastFrames
  <2>2. r \in Seq(Frames) /\ Len(r) = n /\ \A k \in 1 .. n : r[k] = s[Len(s) - n + k]
      BY <1>2
  <2> HIDE DEF r
  <2> QED BY <1>2, <2>1, <2>2, SMTT(30) DEF From
<1> QED BY <1>1, <1>2

\* Two stretches, the second where the first ends, make one.
LEMMA ConcatFrom ==
    ASSUME NEW s \in Seq(Frames), NEW t \in Seq(Frames), NEW a \in Int,
           From(s, a), From(t, a + Len(s))
    PROVE  s \o t \in Seq(Frames) /\ Len(s \o t) = Len(s) + Len(t) /\ From(s \o t, a)
<1>1. s \o t \in Seq(Frames) /\ Len(s \o t) = Len(s) + Len(t) OBVIOUS
<1>2. \A k \in 1 .. Len(s) + Len(t) :
         (s \o t)[k] = IF k <= Len(s) THEN s[k] ELSE t[k - Len(s)]
    OBVIOUS
<1> QED BY <1>1, <1>2 DEF From

\* The first n frames of a stretch.
LEMMA PrefixFrom ==
    ASSUME NEW s \in Seq(Frames), NEW a \in Int, From(s, a), NEW n \in 0 .. Len(s)
    PROVE  /\ SubSeq(s, 1, n) \in Seq(Frames)
           /\ Len(SubSeq(s, 1, n)) = n
           /\ From(SubSeq(s, 1, n), a)
BY DEF From

-----------------------------------------------------------------------------
(* Finalize *)

\* A segment made of a stretch of frames is recorded as that stretch, or not at
\* all, and the session is reset.
LEMMA FinalizeSound ==
    ASSUME TypeOK, AudioIsStretch,
           NEW sn \in Seq(Frames), NEW fr \in Seq(Frames), NEW st \in Frames,
           NEW le \in Frames, NEW sp \in Nat, NEW said \in SUBSET Frames,
           From(sn, st), From(fr, st + Len(sn)), st <= le,
           Finalize(sn, fr, st, le, sp, said)
    PROVE  /\ segments' \in Seq(Segment) /\ AudioIsStretch'
           /\ dropped' \in SUBSET (dropped \cup said)
           /\ frames' = <<>> /\ snap' = <<>> /\ ~inSpeech' /\ inSpeech' \in BOOLEAN
           /\ speechCount' = 0 /\ silenceCount' = 0 /\ lastEnd' = 0 /\ start' = st
<1> DEFINE all == sn \o fr
           end == SegmentEnd(st, le, Len(all))
           audio == SubSeq(all, 1, Lesser(Len(all), end - st))
           seg == [audio |-> audio, start |-> st, end |-> end, speech |-> sp]
<1>1. all \in Seq(Frames) /\ From(all, st) BY ConcatFrom DEF Frames
<1> HIDE DEF all
<1>2. end \in Int /\ end - st \in 0 .. Len(all)
    BY <1>1, VadAssumption DEF SegmentEnd, Lesser, Frames
<1> HIDE DEF end
<1>3. Lesser(Len(all), end - st) = end - st BY <1>1, <1>2 DEF Lesser, Frames
<1>4. audio = SubSeq(all, 1, end - st) BY <1>3
<1> HIDE DEF audio
<1>5. st \in Int BY DEF Frames
<1>6. audio \in Seq(Frames) /\ Len(audio) = end - st /\ From(audio, st)
    BY <1>1, <1>2, <1>4, <1>5, PrefixFrom
<1>7. seg \in Segment BY <1>2, <1>6, <1>5 DEF Segment
<1>8. IsStretch(seg) BY <1>6 DEF IsStretch
<1>9. segments \in Seq(Segment) BY DEF TypeOK
<1>10. segments' = segments \/ segments' = Append(segments, seg)
    BY DEF Finalize, all, end, audio
<1> HIDE DEF seg
<1>11. segments' \in Seq(Segment) /\ AudioIsStretch'
  <2>1. \A i \in 1 .. Len(segments) : IsStretch(segments[i])
      BY DEF AudioIsStretch, IsStretch, From
  <2>2. CASE segments' = segments
    <3>1. \A i \in 1 .. Len(segments') : IsStretch(segments'[i]) BY <2>1, <2>2
    <3> QED BY <3>1, <2>2, <1>9 DEF AudioIsStretch, IsStretch, From
  <2>3. CASE segments' = Append(segments, seg)
    <3>1. /\ segments' \in Seq(Segment) /\ Len(segments') = Len(segments) + 1
          /\ \A i \in 1 .. Len(segments) : segments'[i] = segments[i]
          /\ segments'[Len(segments) + 1] = seg
        BY <1>7, <1>9, <2>3
    <3>2. \A i \in 1 .. Len(segments') : IsStretch(segments'[i])
        BY <2>1, <3>1, <1>8, <1>9
    <3> QED BY <3>1, <3>2 DEF AudioIsStretch, IsStretch, From
  <2> QED BY <1>10, <2>2, <2>3
<1>12. dropped' \in SUBSET (dropped \cup said) BY DEF Finalize
<1> QED BY <1>11, <1>12 DEF Finalize

-----------------------------------------------------------------------------
(* The invariant *)

\* Every processed frame took Hop samples of the stream.
LEMMA RoomForFrame ==
    ASSUME TypeOK, NoSampleLost, chunk >= Hop
    PROVE  total + 1 \in Frames
<1>1. total \in Nat /\ Hop \in Nat /\ Hop >= 1 /\ chunk \in Nat /\ fed \in Nat /\ fed <= MaxSamples
    BY VadAssumption DEF TypeOK, Frames
<1>2. (total + 1) * Hop = total * Hop + Hop BY <1>1
<1>3. (total + 1) * Hop <= MaxSamples
  <2>1. fed = total * Hop + chunk /\ total * Hop \in Nat /\ MaxSamples \in Nat
      BY <1>1, VadAssumption DEF NoSampleLost
  <2> DEFINE q == total * Hop
  <2>2. q \in Nat /\ fed = q + chunk BY <2>1
  <2> HIDE DEF q
  <2>3. q + Hop <= MaxSamples BY <1>1, <2>1, <2>2
  <2> QED BY <1>2, <2>3 DEF q
<1>4. total + 1 <= (total + 1) * Hop BY <1>1
<1> QED BY <1>1, <1>3, <1>4, VadAssumption DEF Frames

\* The invariant holds of a segmenter that has read nothing.
LEMMA InitVad == Init => VadInv
<1> SUFFICES ASSUME Init PROVE VadInv OBVIOUS
<1>1. TypeOK
  <2>1. 0 \in 0 .. MaxSamples /\ 0 \in Frames BY VadAssumption DEF Frames
  <2>2. <<>> \in Seq(Frames) /\ Len(<<>>) <= Pad /\ <<>> \in Seq(Segment) BY VadAssumption
  <2>3. {} \in SUBSET Frames OBVIOUS
  <2> QED BY <2>1, <2>2, <2>3 DEF Init, TypeOK
<1>2. NoSampleLost BY VadAssumption DEF Init, NoSampleLost
<1>3. WindowLast /\ OpenSegment /\ NoSegment /\ AudioIsStretch
    BY DEF Init, WindowLast, OpenSegment, NoSegment, AudioIsStretch, From
<1> QED BY <1>1, <1>2, <1>3 DEF VadInv

\* What a frame leaves of the state that belongs to segments.
SegmentState(t) ==
    /\ snap' \in Seq(Frames) /\ Len(snap') <= Pad
    /\ frames' \in Seq(Frames)
    /\ inSpeech' \in BOOLEAN
    /\ speechCount' \in Frames /\ silenceCount' \in Frames
    /\ start' \in Frames /\ lastEnd' \in Frames
    /\ segments' \in Seq(Segment)
    /\ spoken' \in SUBSET Frames /\ dropped' \in SUBSET spoken'
    /\ AudioIsStretch'
    /\ (~inSpeech' => frames' = <<>> /\ speechCount' = 0 /\ silenceCount' = 0)
    /\ (inSpeech' =>
          /\ start' + Len(snap') + Len(frames') = t
          /\ From(snap', start') /\ From(frames', start' + Len(snap'))
          /\ speechCount' + silenceCount' <= Len(frames')
          /\ start' <= lastEnd' /\ lastEnd' <= t)

\* A segment that ends leaves the session between two segments.
LEMMA FinalizeState ==
    ASSUME VadInv, NEW t \in Frames,
           NEW sn \in Seq(Frames), NEW fr \in Seq(Frames), NEW st \in Frames,
           NEW le \in Frames, NEW sp \in Nat,
           From(sn, st), From(fr, st + Len(sn)), st <= le,
           spoken' \in SUBSET Frames, spoken \subseteq spoken',
           Finalize(sn, fr, st, le, sp, spoken')
    PROVE  SegmentState(t)
<1>1. TypeOK /\ AudioIsStretch BY DEF VadInv
<1>2. /\ segments' \in Seq(Segment) /\ AudioIsStretch'
      /\ dropped' \in SUBSET (dropped \cup spoken')
      /\ frames' = <<>> /\ snap' = <<>> /\ ~inSpeech' /\ inSpeech' \in BOOLEAN
      /\ speechCount' = 0 /\ silenceCount' = 0 /\ lastEnd' = 0 /\ start' = st
    BY <1>1, FinalizeSound
<1>3. dropped' \in SUBSET spoken' BY <1>1, <1>2 DEF TypeOK
<1> QED BY <1>2, <1>3, VadAssumption DEF SegmentState, Frames

\* A frame of speech leaves the segmenter in a state that fits the frames read.
LEMMA SpeechFrameState ==
    ASSUME VadInv, total + 1 \in Frames, SpeechFrame
    PROVE  SegmentState(total + 1)
<1> DEFINE sn == IF inSpeech THEN snap ELSE Snapshot(total)
           st == IF inSpeech THEN start ELSE total - Len(sn)
           sp == (IF inSpeech THEN speechCount ELSE 0) + 1
           old == IF inSpeech THEN frames ELSE <<>>
           fr == Append(old, total)
<1>1. TypeOK /\ WindowLast /\ OpenSegment /\ NoSegment /\ AudioIsStretch BY DEF VadInv
<1>2. total \in Frames /\ total \in Nat /\ total + 1 <= MaxSamples
    BY <1>1 DEF TypeOK, Frames
<1>3. /\ sn \in Seq(Frames) /\ Len(sn) <= Pad /\ old \in Seq(Frames)
      /\ st \in Frames /\ st + Len(sn) + Len(old) = total
      /\ From(sn, st) /\ From(old, st + Len(sn))
      /\ sp \in Nat /\ sp <= Len(old) + 1
  <2>1. CASE inSpeech BY <1>1, <2>1 DEF TypeOK, OpenSegment, Frames
  <2>2. CASE ~inSpeech
    <3>1. sn = pre /\ st = total - Len(pre) /\ sp = 1 /\ old = <<>> BY <2>2 DEF Snapshot
    <3>2. Len(pre) \in Nat /\ pre \in Seq(Frames) /\ Len(pre) <= Pad /\ Len(pre) <= total
          /\ From(pre, total - Len(pre))
        BY <1>1 DEF TypeOK, WindowLast
    <3> HIDE DEF sn, st, sp, old
    <3>3. st \in Frames /\ st + Len(sn) + 0 = total
        BY <1>2, <3>1, <3>2, VadAssumption DEF Frames
    <3>4. From(old, st + Len(sn)) /\ old \in Seq(Frames) /\ Len(old) = 0 BY <3>1 DEF From
    <3> QED BY <3>1, <3>2, <3>3, <3>4
  <2> QED BY <2>1, <2>2
<1>4. spoken' = spoken \cup {total} /\ spoken' \in SUBSET Frames /\ spoken \subseteq spoken'
    BY <1>1, <1>2 DEF SpeechFrame, TypeOK
<1>5. \/ Finalize(sn, fr, st, total + 1, sp, spoken')
      \/ /\ snap' = sn /\ start' = st /\ speechCount' = sp /\ frames' = fr
         /\ inSpeech' = TRUE /\ silenceCount' = 0 /\ lastEnd' = total + 1
         /\ UNCHANGED <<segments, dropped>>
    BY DEF SpeechFrame
<1> HIDE DEF sn, st, sp, old
<1>6. st + Len(sn) \in Int /\ Len(old) \in Nat /\ Len(sn) \in Nat /\ st \in Nat BY <1>3 DEF Frames
<1>7. fr \in Seq(Frames) /\ Len(fr) = Len(old) + 1 /\ From(fr, st + Len(sn))
    BY <1>2, <1>3, <1>6, AppendFrom
<1> HIDE DEF fr
<1>8. CASE Finalize(sn, fr, st, total + 1, sp, spoken')
  <2>1. st <= total + 1 BY <1>2, <1>3, <1>6
  <2> QED BY <1>3, <1>4, <1>7, <1>8, <2>1, FinalizeState
<1>9. CASE /\ snap' = sn /\ start' = st /\ speechCount' = sp /\ frames' = fr
           /\ inSpeech' = TRUE /\ silenceCount' = 0 /\ lastEnd' = total + 1
           /\ UNCHANGED <<segments, dropped>>
  <2>1. sp \in Frames /\ 0 \in Frames BY <1>2, <1>3, <1>6, VadAssumption DEF Frames
  <2>2. start' + Len(snap') + Len(frames') = total + 1 /\ start' <= lastEnd'
      BY <1>2, <1>3, <1>6, <1>7, <1>9
  <2>3. speechCount' + silenceCount' <= Len(frames') BY <1>3, <1>6, <1>7, <1>9
  <2>4. segments' \in Seq(Segment) /\ dropped' \in SUBSET spoken' BY <1>1, <1>4, <1>9 DEF TypeOK
  <2>5. AudioIsStretch' BY <1>1, <1>9 DEF AudioIsStretch
  <2>6. lastEnd' <= total + 1 BY <1>2, <1>9
  <2>7. /\ snap' \in Seq(Frames) /\ Len(snap') <= Pad /\ frames' \in Seq(Frames)
        /\ inSpeech' /\ inSpeech' \in BOOLEAN /\ start' \in Frames /\ lastEnd' \in Frames
        /\ speechCount' \in Frames /\ silenceCount' \in Frames
        /\ From(snap', start') /\ From(frames', start' + Len(snap'))
      BY <1>3, <1>7, <1>9, <2>1
  <2> QED BY <1>4, <2>2, <2>3, <2>4, <2>5, <2>6, <2>7 DEF SegmentState
<1> QED BY <1>5, <1>8, <1>9

\* A frame of silence leaves the segmenter in a state that fits the frames read.
LEMMA SilenceFrameState ==
    ASSUME VadInv, total + 1 \in Frames, SilenceFrame
    PROVE  SegmentState(total + 1)
<1> DEFINE fr == Append(frames, total)
<1>1. TypeOK /\ WindowLast /\ OpenSegment /\ NoSegment /\ AudioIsStretch BY DEF VadInv
<1>2. total \in Frames /\ total \in Nat /\ total + 1 <= MaxSamples
    BY <1>1 DEF TypeOK, Frames
<1>3. spoken' = spoken /\ spoken' \in SUBSET Frames /\ spoken \subseteq spoken'
    BY <1>1 DEF SilenceFrame, TypeOK
<1>4. CASE ~inSpeech
  <2>1. UNCHANGED <<snap, frames, speechVars, segments, dropped>> BY <1>4 DEF SilenceFrame
  <2>2. AudioIsStretch' BY <1>1, <2>1 DEF AudioIsStretch
  <2> QED BY <1>1, <1>3, <1>4, <2>1, <2>2 DEF SegmentState, TypeOK, NoSegment, speechVars
<1>5. CASE inSpeech
  <2>1. /\ start + Len(snap) + Len(frames) = total
        /\ From(snap, start) /\ From(frames, start + Len(snap))
        /\ speechCount + silenceCount <= Len(frames)
        /\ start <= lastEnd /\ lastEnd <= total
      BY <1>1, <1>5 DEF OpenSegment
  <2>2. /\ snap \in Seq(Frames) /\ frames \in Seq(Frames) /\ start \in Nat /\ lastEnd \in Nat
        /\ start \in Frames /\ lastEnd \in Frames /\ Len(snap) <= Pad
        /\ Len(snap) \in Nat /\ Len(frames) \in Nat
        /\ speechCount \in Nat /\ silenceCount \in Nat /\ speechCount \in Frames
      BY <1>1 DEF TypeOK, Frames
  <2>3. fr \in Seq(Frames) /\ Len(fr) = Len(frames) + 1 /\ From(fr, start + Len(snap))
      BY <1>2, <2>1, <2>2, AppendFrom
  <2>4. \/ Finalize(snap, fr, start, lastEnd, speechCount, spoken)
        \/ /\ frames' = fr /\ silenceCount' = silenceCount + 1
           /\ UNCHANGED <<snap, inSpeech, speechCount, start, lastEnd, segments, dropped>>
      BY <1>5 DEF SilenceFrame
  <2> HIDE DEF fr
  <2>5. CASE Finalize(snap, fr, start, lastEnd, speechCount, spoken)
    <3>1. Finalize(snap, fr, start, lastEnd, speechCount, spoken') BY <2>5, <1>3
    <3> QED BY <1>3, <2>1, <2>2, <2>3, <3>1, FinalizeState
  <2>6. CASE /\ frames' = fr /\ silenceCount' = silenceCount + 1
             /\ UNCHANGED <<snap, inSpeech, speechCount, start, lastEnd, segments, dropped>>
    <3>1. silenceCount' \in Frames BY <1>2, <2>1, <2>2, <2>6, VadAssumption DEF Frames
    <3>2. /\ start' + Len(snap') + Len(frames') = total + 1
          /\ speechCount' + silenceCount' <= Len(frames')
          /\ start' <= lastEnd' /\ lastEnd' <= total + 1
      <4>1. start' = start /\ Len(snap') = Len(snap) /\ Len(frames') = Len(frames) + 1
          BY <2>3, <2>6
      <4>2. speechCount' = speechCount /\ silenceCount' = silenceCount + 1 /\ lastEnd' = lastEnd
          BY <2>6
      <4>3. /\ start \in Nat /\ lastEnd \in Nat /\ Len(snap) \in Nat /\ Len(frames) \in Nat
            /\ speechCount \in Nat /\ silenceCount \in Nat
          BY <2>2
      <4>4. /\ start + Len(snap) + Len(frames) = total
            /\ speechCount + silenceCount <= Len(frames)
            /\ start <= lastEnd /\ lastEnd <= total
          BY <2>1
      <4> QED BY <1>2, <4>1, <4>2, <4>3, <4>4
    <3>3. segments' \in Seq(Segment) /\ dropped' \in SUBSET spoken' BY <1>1, <1>3, <2>6 DEF TypeOK
    <3>4. AudioIsStretch' BY <1>1, <2>6 DEF AudioIsStretch
    <3>5. /\ snap' \in Seq(Frames) /\ Len(snap') <= Pad /\ frames' \in Seq(Frames)
          /\ inSpeech' /\ inSpeech' \in BOOLEAN /\ start' \in Frames /\ lastEnd' \in Frames
          /\ speechCount' \in Frames
          /\ From(snap', start') /\ From(frames', start' + Len(snap'))
        BY <1>1, <1>5, <2>1, <2>2, <2>3, <2>6 DEF TypeOK
    <3> QED BY <1>3, <3>1, <3>2, <3>3, <3>4, <3>5 DEF SegmentState
  <2> QED BY <2>4, <2>5, <2>6
<1> QED BY <1>1, <1>4, <1>5 DEF TypeOK

\* The state of the segments is what VadInv says of it once the step has counted
\* the frame.
LEMMA SegmentStateInv ==
    ASSUME SegmentState(total'),
           chunk' \in 0 .. MaxSamples, fed' \in 0 .. MaxSamples, total' \in Frames,
           ended' \in BOOLEAN, pre' \in Seq(Frames), Len(pre') <= Pad,
           NoSampleLost', WindowLast'
    PROVE  VadInv'
<1>1. TypeOK' BY DEF SegmentState, TypeOK
<1>2. OpenSegment' /\ NoSegment' /\ AudioIsStretch'
    BY DEF SegmentState, OpenSegment, NoSegment
<1> QED BY <1>1, <1>2 DEF VadInv

\* Every frame the detector judges keeps the invariant.
LEMMA ProcessFrameVad == VadInv /\ ProcessFrame => VadInv'
<1> SUFFICES ASSUME VadInv, ProcessFrame PROVE VadInv' OBVIOUS
<1>1. TypeOK /\ WindowLast /\ NoSampleLost BY DEF VadInv
<1>2. total + 1 \in Frames BY <1>1, RoomForFrame DEF ProcessFrame
<1>3. SegmentState(total + 1)
    BY <1>2, SpeechFrameState, SilenceFrameState DEF ProcessFrame
<1>4. /\ chunk >= Hop /\ chunk' = chunk - Hop /\ total' = total + 1
      /\ ended' = ended /\ fed' = fed /\ pre' = LastFrames(Append(pre, total), Pad)
    BY DEF ProcessFrame, Remainder, Window
<1>5. /\ total \in Nat /\ total \in Frames /\ pre \in Seq(Frames) /\ Len(pre) \in Nat
      /\ chunk \in Nat /\ chunk <= MaxSamples /\ fed \in Nat /\ Hop \in Nat /\ Pad \in Nat
      /\ MaxSamples \in Nat
    BY <1>1, VadAssumption DEF TypeOK, Frames
<1>6. NoSampleLost'
  <2>1. (total + 1) * Hop = total * Hop + Hop /\ total * Hop \in Int BY <1>5
  <2>2. fed' = total' * Hop + chunk' BY <1>1, <1>4, <1>5, <2>1 DEF NoSampleLost
  <2> QED BY <2>2 DEF NoSampleLost
<1>7. pre' \in Seq(Frames) /\ Len(pre') <= Pad /\ WindowLast'
  <2> DEFINE w == Append(pre, total)
             a == total - Len(pre)
  <2>1. a \in Int /\ total = a + Len(pre) /\ a >= 0 /\ From(pre, a) BY <1>1, <1>5 DEF WindowLast
  <2> HIDE DEF a
  <2>2. w \in Seq(Frames) /\ Len(w) = Len(pre) + 1 /\ From(w, a) BY <1>5, <2>1, AppendFrom
  <2>3. pre' = LastFrames(w, Pad) BY <1>4
  <2> HIDE DEF w
  <2>4. /\ pre' \in Seq(Frames) /\ Len(pre') <= Pad /\ Len(pre') <= Len(w)
        /\ From(pre', a + Len(w) - Len(pre'))
      BY <1>5, <2>1, <2>2, <2>3, LastFramesFrom
  <2>5. a + Len(w) = total' /\ Len(w) <= total' BY <1>4, <1>5, <2>1, <2>2
  <2>6. Len(pre') \in Nat /\ Len(w) \in Nat /\ total' \in Nat BY <1>4, <1>5, <2>2, <2>4
  <2>7. Len(pre') <= total' BY <2>4, <2>5, <2>6
  <2>8. From(pre', total' - Len(pre')) BY <2>1, <2>4, <2>5, <2>6 DEF From
  <2> QED BY <2>4, <2>7, <2>8 DEF WindowLast
<1>8. chunk' \in 0 .. MaxSamples BY <1>4, <1>5
<1>9. fed' \in 0 .. MaxSamples /\ ended' \in BOOLEAN /\ total' \in Frames
    BY <1>1, <1>2, <1>4 DEF TypeOK
<1>10. SegmentState(total') BY <1>3, <1>4
<1> QED BY <1>6, <1>7, <1>8, <1>9, <1>10, SegmentStateInv

\* A message of audio keeps the invariant, whatever the number of its samples.
LEMMA FeedAudioVad == ASSUME NEW n \in 1 .. MaxSamples PROVE VadInv /\ FeedAudio(n) => VadInv'
<1> SUFFICES ASSUME VadInv, FeedAudio(n) PROVE VadInv' OBVIOUS
<1>1. TypeOK /\ NoSampleLost /\ WindowLast /\ OpenSegment /\ NoSegment /\ AudioIsStretch
    BY DEF VadInv
<1>2. UNCHANGED <<total, bufVars, speechVars, segments, ended, spoken, dropped>>
    BY DEF FeedAudio
<1>3. /\ total * Hop \in Nat /\ chunk \in Nat /\ fed \in Nat /\ n \in Nat
      /\ fed' = fed + n /\ chunk' = chunk + n /\ fed + n <= MaxSamples /\ fed = total * Hop + chunk
    BY <1>1, VadAssumption DEF FeedAudio, TypeOK, Frames, NoSampleLost
<1>4. NoSampleLost'
  <2>1. total' * Hop = total * Hop BY <1>2
  <2> QED BY <1>3, <2>1 DEF NoSampleLost
<1>5. TypeOK'
  <2>1. chunk' \in 0 .. MaxSamples /\ fed' \in 0 .. MaxSamples BY <1>3, VadAssumption
  <2> QED BY <1>1, <1>2, <2>1 DEF TypeOK, bufVars, speechVars
<1>6. WindowLast' /\ OpenSegment' /\ NoSegment' /\ AudioIsStretch'
    BY <1>1, <1>2 DEF WindowLast, OpenSegment, NoSegment, AudioIsStretch, bufVars, speechVars
<1> QED BY <1>4, <1>5, <1>6 DEF VadInv

\* flush() keeps the invariant: it closes the segment that is open.
LEMMA FlushVad == VadInv /\ Flush => VadInv'
<1> SUFFICES ASSUME VadInv, Flush PROVE VadInv' OBVIOUS
<1>1. TypeOK /\ NoSampleLost /\ WindowLast /\ OpenSegment /\ NoSegment /\ AudioIsStretch
    BY DEF VadInv
<1>2. UNCHANGED <<chunk, total, pre, fed, spoken>> /\ ended' = TRUE BY DEF Flush
<1>3. NoSampleLost' /\ WindowLast' BY <1>1, <1>2 DEF NoSampleLost, WindowLast
<1>4. CASE frames = <<>>
  <2>1. UNCHANGED <<snap, frames, speechVars, segments, dropped>> BY <1>4 DEF Flush
  <2>2. TypeOK' BY <1>1, <1>2, <2>1 DEF TypeOK, speechVars
  <2>3. OpenSegment' /\ NoSegment' /\ AudioIsStretch'
      BY <1>1, <1>2, <2>1 DEF OpenSegment, NoSegment, AudioIsStretch, speechVars
  <2> QED BY <1>3, <2>2, <2>3 DEF VadInv
<1>5. CASE frames # <<>>
  <2>1. inSpeech BY <1>1, <1>5 DEF NoSegment
  <2>2. Finalize(snap, frames, start, lastEnd, speechCount, spoken')
      BY <1>2, <1>5 DEF Flush
  <2>3. /\ total' \in Frames /\ snap \in Seq(Frames) /\ frames \in Seq(Frames)
        /\ start \in Frames /\ lastEnd \in Frames /\ speechCount \in Nat
        /\ spoken' \in SUBSET Frames /\ spoken \subseteq spoken'
      BY <1>1, <1>2 DEF TypeOK, Frames
  <2>4. From(snap, start) /\ From(frames, start + Len(snap)) /\ start <= lastEnd
      BY <1>1, <2>1 DEF OpenSegment
  <2>5. SegmentState(total') BY <2>2, <2>3, <2>4, FinalizeState
  <2>6. chunk' \in 0 .. MaxSamples /\ fed' \in 0 .. MaxSamples /\ ended' \in BOOLEAN
        /\ pre' \in Seq(Frames) /\ Len(pre') <= Pad
      BY <1>1, <1>2 DEF TypeOK
  <2> QED BY <1>3, <2>3, <2>5, <2>6, SegmentStateInv
<1> QED BY <1>4, <1>5

\* Every step of the segmenter keeps the invariant.
LEMMA NextVad == VadInv /\ [Next]_vars => VadInv'
<1>1. VadInv /\ UNCHANGED vars => VadInv'
  <2> SUFFICES ASSUME VadInv, UNCHANGED vars PROVE VadInv' OBVIOUS
  <2>1. TypeOK' BY DEF VadInv, TypeOK, vars, bufVars, speechVars, history
  <2>2. NoSampleLost' /\ WindowLast' /\ OpenSegment' /\ NoSegment' /\ AudioIsStretch'
      BY DEF VadInv, NoSampleLost, WindowLast, OpenSegment, NoSegment, AudioIsStretch,
             vars, bufVars, speechVars, history
  <2> QED BY <2>1, <2>2 DEF VadInv
<1> QED BY <1>1, ProcessFrameVad, FeedAudioVad, FlushVad DEF Next, Finished

-----------------------------------------------------------------------------
(* Theorems *)

\* The invariant holds throughout, whatever the detector answers.
LEMMA VadInvariant == Spec => []VadInv
BY InitVad, NextVad, PTL DEF Spec

\* Every variable of the segmenter keeps its type, whatever the detector answers.
THEOREM VadTypes == Spec => []TypeOK
<1>1. VadInv => TypeOK BY DEF VadInv
<1> QED BY <1>1, VadInvariant, PTL

\* Every sample fed is in a processed frame or waits in the buffer.
THEOREM SamplesKept == Spec => []NoSampleLost
<1>1. VadInv => NoSampleLost BY DEF VadInv
<1> QED BY <1>1, VadInvariant, PTL

\* The audio handed to recognition is exactly the stretch that the segment's
\* start and end announce (the timestamps sent to the client).
THEOREM SegmentsAreStretches == Spec => []AudioIsStretch
<1>1. VadInv => AudioIsStretch BY DEF VadInv
<1> QED BY <1>1, VadInvariant, PTL

\* The limit holds for the open segment and is passed by one frame at most in a
\* returned one: the forced cut comes before the counter can run on.
LEMMA FinalizeBounded ==
    ASSUME TypeOK, SpeechBounded,
           NEW sn, NEW fr, NEW st, NEW le, NEW sp \in Nat, NEW said, sp <= MaxSpeech + 1,
           Finalize(sn, fr, st, le, sp, said), segments' \in Seq(Segment)
    PROVE  SpeechBounded'
<1>1. speechCount' = 0 BY DEF Finalize
<1>2. CASE segments' = segments BY <1>1, <1>2, VadAssumption DEF SpeechBounded
<1>3. CASE segments' # segments
  <2>1. sp \in MinSpeech .. MaxSpeech + 1 BY <1>3, VadAssumption DEF Finalize
  <2>2. PICK seg : seg.speech = sp /\ segments' = Append(segments, seg)
      BY <1>3 DEF Finalize
  <2>3. \A i \in 1 .. Len(segments') : segments'[i].speech \in MinSpeech .. MaxSpeech + 1
      BY <2>1, <2>2 DEF SpeechBounded, TypeOK
  <2> QED BY <1>1, <2>3, VadAssumption DEF SpeechBounded
<1> QED BY <1>2, <1>3

\* What is returned holds between MinSpeech and MaxSpeech + 1 frames of speech.
THEOREM SegmentsBounded == Spec => []SpeechBounded
<1>1. Init => SpeechBounded BY VadAssumption DEF Init, SpeechBounded
<1>2. VadInv /\ VadInv' /\ SpeechBounded /\ [Next]_vars => SpeechBounded'
  <2> SUFFICES ASSUME VadInv, VadInv', SpeechBounded, [Next]_vars PROVE SpeechBounded'
      OBVIOUS
  <2>1. TypeOK /\ segments' \in Seq(Segment) BY DEF VadInv, TypeOK
  <2>2. speechCount \in Nat /\ speechCount <= MaxSpeech /\ MaxSpeech \in Nat
      BY <2>1, VadAssumption DEF TypeOK, Frames, SpeechBounded
  <2>3. ASSUME UNCHANGED <<segments, speechCount>> PROVE SpeechBounded'
      BY <2>3 DEF SpeechBounded
  <2>4. CASE SpeechFrame
    <3> DEFINE sn == IF inSpeech THEN snap ELSE Snapshot(total)
               st == IF inSpeech THEN start ELSE total - Len(sn)
               sp == (IF inSpeech THEN speechCount ELSE 0) + 1
               fr == Append(IF inSpeech THEN frames ELSE <<>>, total)
    <3>1. sp \in Nat /\ sp <= MaxSpeech + 1 BY <2>2
    <3>2. \/ Finalize(sn, fr, st, total + 1, sp, spoken')
          \/ ~TooLong(sp) /\ speechCount' = sp /\ UNCHANGED segments
        BY <2>4 DEF SpeechFrame
    <3> HIDE DEF sn, st, sp, fr
    <3>3. CASE Finalize(sn, fr, st, total + 1, sp, spoken')
        BY <2>1, <3>1, <3>3, FinalizeBounded
    <3>4. CASE ~TooLong(sp) /\ speechCount' = sp /\ UNCHANGED segments
        BY <2>2, <3>1, <3>4 DEF TooLong, SpeechBounded
    <3> QED BY <3>2, <3>3, <3>4
  <2>5. CASE SilenceFrame
    <3> DEFINE fr == Append(frames, total)
    <3>1. \/ Finalize(snap, fr, start, lastEnd, speechCount, spoken)
          \/ UNCHANGED <<segments, speechCount>>
        BY <2>5 DEF SilenceFrame, speechVars
    <3> HIDE DEF fr
    <3> QED BY <2>1, <2>2, <2>3, <3>1, FinalizeBounded
  <2>6. CASE Flush
    <3>1. \/ Finalize(snap, frames, start, lastEnd, speechCount, spoken)
          \/ UNCHANGED <<segments, speechCount>>
        BY <2>6 DEF Flush, speechVars
    <3> QED BY <2>1, <2>2, <2>3, <3>1, FinalizeBounded
  <2>7. CASE \E n \in 1 .. MaxSamples : FeedAudio(n)
      BY <2>3, <2>7 DEF FeedAudio, speechVars
  <2>8. CASE UNCHANGED vars BY <2>3, <2>8 DEF vars, speechVars
  <2> QED BY <2>4, <2>5, <2>6, <2>7, <2>8 DEF Next, ProcessFrame, Finished
<1> QED BY <1>1, <1>2, VadInvariant, PTL DEF Spec

-----------------------------------------------------------------------------
(* Segments advance, and speech is kept *)

\* The first speech frame of the open segment.
Onset == start + Len(snap)

\* Where the next segment that is returned can have its first speech frame.
NextOnset == IF inSpeech THEN Onset ELSE total

\* f belongs to a segment that was returned or discarded.
Settled(f) ==
    \/ \E i \in 1 .. Len(segments) : \E k \in 1 .. Len(segments[i].audio) : segments[i].audio[k] = f
    \/ f \in dropped

\* A speech frame that is not settled lies in the open segment, before its last
\* speech frame has ended.
Unsettled == \A f \in spoken : Settled(f) \/ (inSpeech /\ Onset <= f /\ f < lastEnd)

\* The window is as long as the stream allows, and so is the copy the open
\* segment begins with.
WindowFull ==
    /\ Len(pre) = Lesser(total, Pad)
    /\ inSpeech => Len(snap) = Lesser(Onset, Pad) /\ Onset < lastEnd

\* The last returned segment lies before the next one, with the padding.
LastBefore(segs, n) ==
    segs # <<>> =>
        /\ segs[Len(segs)].end <= n
        /\ segs[Len(segs)].start + Pad < n

OrderInv ==
    /\ WindowFull
    /\ ended => chunk < Hop
    /\ ~ended => LastBefore(segments, NextOnset)
    /\ SegmentsAdvance

\* The padding is not longer than the shortest segment nor than the longest.
ShortPad == Pad <= MinSpeech /\ Pad <= MaxSpeech

\* The types the steps below use.
LEMMA VadFacts ==
    ASSUME VadInv
    PROVE  /\ snap \in Seq(Frames) /\ frames \in Seq(Frames) /\ start \in Frames /\ lastEnd \in Frames
           /\ start \in Nat /\ lastEnd \in Nat /\ speechCount \in Nat /\ silenceCount \in Nat
           /\ Len(snap) \in Nat /\ Len(frames) \in Nat /\ spoken \in SUBSET Frames
           /\ total \in Frames /\ total \in Nat /\ inSpeech \in BOOLEAN
<1>1. TypeOK BY DEF VadInv
<1>2. /\ snap \in Seq(Frames) /\ frames \in Seq(Frames) /\ start \in Frames /\ lastEnd \in Frames
      /\ speechCount \in Frames /\ silenceCount \in Frames /\ spoken \in SUBSET Frames
      /\ total \in Frames /\ inSpeech \in BOOLEAN
    BY <1>1 DEF TypeOK
<1>3. Len(snap) \in Nat /\ Len(frames) \in Nat BY <1>2
<1> QED BY <1>2, <1>3 DEF Frames

-----------------------------------------------------------------------------
(* Finalize *)

\* A segment is discarded, or becomes the last one.
LEMMA FinalizeExact ==
    ASSUME NEW sn \in Seq(Frames), NEW fr \in Seq(Frames), NEW st \in Frames,
           NEW le \in Frames, NEW sp \in Nat, NEW said \in SUBSET Frames,
           st <= le, le <= st + Len(sn) + Len(fr),
           Finalize(sn, fr, st, le, sp, said)
    PROVE  \/ /\ sp < MinSpeech /\ segments' = segments
              /\ dropped' = dropped \cup {f \in said : f >= st + Len(sn)}
           \/ /\ sp >= MinSpeech /\ dropped' = dropped
              /\ \E seg : /\ segments' = Append(segments, seg)
                          /\ seg.start = st /\ le <= seg.end
                          /\ seg.end <= st + Len(sn) + Len(fr)
<1> DEFINE all == sn \o fr
           end == SegmentEnd(st, le, Len(all))
           audio == SubSeq(all, 1, Lesser(Len(all), end - st))
           seg == [audio |-> audio, start |-> st, end |-> end, speech |-> sp]
<1>1. Len(all) = Len(sn) + Len(fr) /\ Len(sn) \in Nat /\ Len(fr) \in Nat /\ st \in Nat /\ le \in Nat
    BY DEF Frames
<1> HIDE DEF all
<1>2. end \in Int /\ le <= end /\ end <= st + Len(sn) + Len(fr)
    BY <1>1, VadAssumption DEF SegmentEnd, Lesser
<1>3. IF sp < MinSpeech
        THEN dropped' = dropped \cup {f \in said : f >= st + Len(sn)} /\ segments' = segments
        ELSE segments' = Append(segments, seg) /\ dropped' = dropped
    BY DEF Finalize, all
<1> HIDE DEF end
<1>4. seg.start = st /\ seg.end = end OBVIOUS
<1> HIDE DEF seg
<1>5. sp < MinSpeech \/ sp >= MinSpeech BY VadAssumption
<1> QED BY <1>2, <1>3, <1>4, <1>5

\* What one more segment leaves of the others.
LEMMA OneMore ==
    ASSUME segments \in Seq(Segment), segments' \in Seq(Segment),
           NEW seg, segments' = Append(segments, seg)
    PROVE  /\ Len(segments) \in Nat /\ Len(segments') = Len(segments) + 1 /\ segments' # <<>>
           /\ \A i \in 1 .. Len(segments) : segments'[i] = segments[i]
           /\ segments'[Len(segments')] = seg /\ seg \in Segment
<1>1. Len(segments) \in Nat /\ Len(segments') \in Nat OBVIOUS
<1>2. Len(segments') = Len(segments) + 1 /\ \A i \in 1 .. Len(segments) : segments'[i] = segments[i]
    OBVIOUS
<1>3. segments'[Len(segments) + 1] = seg OBVIOUS
<1>4. segments'[Len(segments')] \in Segment BY <1>1, <1>2
<1> QED BY <1>1, <1>2, <1>3, <1>4

\* A segment whose first speech frame comes after the last one keeps the order.
LEMMA FinalizeAdvances ==
    ASSUME ShortPad, VadInv, VadInv', SegmentsAdvance,
           NEW sn \in Seq(Frames), NEW fr \in Seq(Frames), NEW st \in Frames,
           NEW le \in Frames, NEW sp \in Nat, NEW said \in SUBSET Frames,
           Len(sn) = Lesser(st + Len(sn), Pad), st + Len(sn) < le,
           le <= st + Len(sn) + Len(fr), sp <= Len(fr),
           LastBefore(segments, st + Len(sn)),
           Finalize(sn, fr, st, le, sp, said)
    PROVE  /\ SegmentsAdvance'
           /\ Pad < Len(fr) \/ sp < MinSpeech =>
                LastBefore(segments', st + Len(sn) + Len(fr))
<1> DEFINE o == st + Len(sn)
           n == st + Len(sn) + Len(fr)
<1>1. /\ st \in Nat /\ le \in Nat /\ Len(sn) \in Nat /\ Len(fr) \in Nat /\ Pad \in Nat
      /\ o \in Nat /\ n \in Nat /\ o <= n /\ st <= le
    BY VadAssumption DEF Frames
<1>2. segments \in Seq(Segment) /\ segments' \in Seq(Segment)
    BY DEF VadInv, TypeOK
<1>3. CASE /\ sp < MinSpeech /\ segments' = segments
  <2>1. SegmentsAdvance' BY <1>3 DEF SegmentsAdvance
  <2>2. segments # <<>> => segments[Len(segments)] \in Segment BY <1>2
  <2>3. segments # <<>> => segments[Len(segments)].end \in Int /\ segments[Len(segments)].start \in Int
      BY <2>2 DEF Segment
  <2>4. LastBefore(segments, o) BY DEF o
  <2> HIDE DEF o
  <2>5. ASSUME segments # <<>>
        PROVE  segments[Len(segments)].end <= n /\ segments[Len(segments)].start + Pad < n
    <3>1. segments[Len(segments)].end <= o /\ segments[Len(segments)].start + Pad < o
        BY <2>4, <2>5 DEF LastBefore
    <3>2. segments[Len(segments)].end \in Int /\ segments[Len(segments)].start \in Int
        BY <2>3, <2>5
    <3>3. \A x \in Int : (x <= o => x <= n) /\ (x + Pad < o => x + Pad < n) BY <1>1
    <3> HIDE DEF n
    <3> QED BY <3>1, <3>2, <3>3
  <2> HIDE DEF n
  <2>6. LastBefore(segments', n) BY <1>3, <2>5 DEF LastBefore, n
  <2> QED BY <2>1, <2>6 DEF n
<1>4. ASSUME sp >= MinSpeech, NEW seg, segments' = Append(segments, seg), seg.start = st,
             le <= seg.end, seg.end <= n
      PROVE  SegmentsAdvance' /\ (Pad < Len(fr) => LastBefore(segments', n))
  <2>1. /\ Len(segments) \in Nat /\ Len(segments') = Len(segments) + 1 /\ segments' # <<>>
        /\ \A i \in 1 .. Len(segments) : segments'[i] = segments[i]
        /\ segments'[Len(segments')] = seg /\ seg \in Segment
      BY <1>2, <1>4, OneMore
  <2>2. seg.end \in Int /\ seg.start \in Int BY <2>1 DEF Segment
  <2>3. ASSUME NEW i \in 1 .. Len(segments), i = Len(segments)
        PROVE  /\ segments[i].start < seg.start
               /\ segments[i].end < seg.end
               /\ segments[i].end - Pad <= seg.start
    <3>1. segments # <<>> BY <2>1, <2>3
    <3>2. segments[i].end <= o /\ segments[i].start + Pad < o BY <2>3, <3>1 DEF LastBefore
    <3>3. segments[i] \in Segment BY <1>2
    <3>4. segments[i].end \in Int /\ segments[i].start \in Int BY <3>3 DEF Segment
    <3>5. Len(sn) <= Pad BY <1>1 DEF Lesser
    <3> DEFINE e == segments[i].end
               b == segments[i].start
    <3>6. /\ e <= st + Len(sn) /\ b + Pad < st + Len(sn) /\ e \in Int /\ b \in Int
          /\ seg.start = st /\ st + Len(sn) < seg.end
      <4>1. e <= st + Len(sn) /\ b + Pad < st + Len(sn) BY <3>2
      <4>2. st + Len(sn) < seg.end BY <1>1, <1>4, <2>2
      <4> QED BY <1>4, <3>4, <4>1, <4>2
    <3> HIDE DEF e, b
    <3>7. b < seg.start /\ e < seg.end /\ e - Pad <= seg.start
      BY <1>1, <2>2, <3>5, <3>6
    <3> QED BY <3>7 DEF e, b
  <2>4. SegmentsAdvance'
    <3> SUFFICES ASSUME NEW i \in 1 .. Len(segments'), NEW j \in 1 .. Len(segments'), j = i + 1
                 PROVE  /\ segments'[i].start < segments'[j].start
                        /\ segments'[i].end < segments'[j].end
                        /\ segments'[i].end - Pad <= segments'[j].start
        BY DEF SegmentsAdvance
    <3>1. i \in 1 .. Len(segments) /\ segments'[i] = segments[i] BY <2>1
    <3>2. CASE j = Len(segments')
      <4>1. i = Len(segments) /\ segments'[j] = seg BY <2>1, <3>2
      <4> QED BY <2>3, <3>1, <4>1
    <3>3. CASE j # Len(segments')
      <4>1. j \in 1 .. Len(segments) /\ segments'[j] = segments[j] BY <2>1, <3>3
      <4> QED BY <3>1, <4>1 DEF SegmentsAdvance
    <3> QED BY <3>2, <3>3
  <2>5. ASSUME Pad < Len(fr) PROVE LastBefore(segments', n)
    <3>1. st + Pad < n BY <1>1, <2>5 DEF Lesser
    <3>2. seg.start + Pad < n /\ seg.end <= n BY <1>4, <3>1
    <3> HIDE DEF n
    <3> QED BY <2>1, <3>2 DEF LastBefore
  <2> QED BY <2>4, <2>5
<1>5. \/ sp < MinSpeech /\ segments' = segments
      \/ sp >= MinSpeech /\ \E seg : /\ segments' = Append(segments, seg)
                          /\ seg.start = st /\ le <= seg.end
                          /\ seg.end <= n
    BY <1>1, FinalizeExact
<1>6. sp >= MinSpeech => ~(sp < MinSpeech) BY VadAssumption
<1> QED BY <1>3, <1>4, <1>5, <1>6

\* No speech frame of the open segment is lost when it ends.
LEMMA FinalizeSettles ==
    ASSUME VadInv, VadInv',
           NEW sn \in Seq(Frames), NEW fr \in Seq(Frames), NEW st \in Frames,
           NEW le \in Frames, NEW sp \in Nat, NEW said \in SUBSET Frames,
           st <= le, le <= st + Len(sn) + Len(fr),
           \A f \in said : Settled(f) \/ (st + Len(sn) <= f /\ f < le),
           Finalize(sn, fr, st, le, sp, said)
    PROVE  \A f \in said : Settled(f)'
<1> SUFFICES ASSUME NEW f \in said PROVE Settled(f)' OBVIOUS
<1> DEFINE o == st + Len(sn)
           n == st + Len(sn) + Len(fr)
<1>1. /\ segments \in Seq(Segment) /\ segments' \in Seq(Segment)
      /\ AudioIsStretch' /\ st \in Nat /\ le \in Nat /\ f \in Nat /\ Len(sn) \in Nat
  <2>1. segments \in Seq(Segment) /\ segments' \in Seq(Segment) BY DEF VadInv, TypeOK
  <2>2. AudioIsStretch' BY DEF VadInv
  <2>3. st \in Nat /\ le \in Nat /\ f \in Nat /\ Len(sn) \in Nat BY DEF Frames
  <2> QED BY <2>1, <2>2, <2>3
<1>2. Settled(f) \/ (o <= f /\ f < le) OBVIOUS
<1>3. CASE segments' = segments /\ dropped' = dropped \cup {g \in said : g >= o}
  <2>1. CASE Settled(f) BY <1>3, <2>1 DEF Settled
  <2>2. CASE o <= f /\ f < le
    <3>1. f >= o BY <1>1, <2>2
    <3>2. f \in dropped' BY <1>3, <3>1
    <3> QED BY <3>2 DEF Settled
  <2> QED BY <1>2, <2>1, <2>2
<1>4. ASSUME NEW seg, segments' = Append(segments, seg), seg.start = st, le <= seg.end,
             dropped' = dropped
      PROVE  Settled(f)'
  <2>1. /\ Len(segments) \in Nat /\ Len(segments') = Len(segments) + 1
        /\ \A i \in 1 .. Len(segments) : segments'[i] = segments[i]
        /\ segments'[Len(segments')] = seg /\ seg \in Segment
      BY <1>1, <1>4, OneMore
  <2>2. CASE Settled(f)
    <3>1. CASE f \in dropped BY <1>4, <3>1 DEF Settled
    <3>2. ASSUME NEW i \in 1 .. Len(segments), NEW k \in 1 .. Len(segments[i].audio),
                 segments[i].audio[k] = f
          PROVE  Settled(f)'
      <4>1. i \in 1 .. Len(segments') /\ segments'[i] = segments[i] BY <2>1
      <4>2. k \in 1 .. Len(segments'[i].audio) /\ segments'[i].audio[k] = f BY <3>2, <4>1
      <4> QED BY <4>1, <4>2 DEF Settled
    <3> QED BY <2>2, <3>1, <3>2 DEF Settled
  <2>3. CASE o <= f /\ f < le
    <3> DEFINE i == Len(segments')
               k == f - st + 1
    <3>1. i \in 1 .. Len(segments') /\ segments'[i] = seg BY <2>1
    <3>2. /\ Len(seg.audio) = seg.end - seg.start
          /\ \A j \in 1 .. Len(seg.audio) : seg.audio[j] = seg.start + j - 1
        BY <1>1, <3>1 DEF AudioIsStretch
    <3>3. seg.end \in Int BY <2>1 DEF Segment
    <3>4. k \in 1 .. Len(seg.audio) /\ st + k - 1 = f
        BY <1>1, <1>4, <2>3, <3>2, <3>3
    <3> HIDE DEF i, k
    <3>5. seg.audio[k] = f BY <1>4, <3>2, <3>4
    <3> QED BY <3>1, <3>4, <3>5 DEF Settled
  <2> QED BY <1>2, <2>2, <2>3
<1>5. \/ segments' = segments /\ dropped' = dropped \cup {g \in said : g >= o}
      \/ dropped' = dropped /\ \E seg : /\ segments' = Append(segments, seg)
                          /\ seg.start = st /\ le <= seg.end
    BY FinalizeExact
<1> QED BY <1>3, <1>4, <1>5

-----------------------------------------------------------------------------
(* The steps *)

\* What a frame flagged as speech does, with the values the segment has had
\* since its onset.
LEMMA SpeechParts ==
    ASSUME VadInv, total + 1 \in Frames, SpeechFrame
    PROVE  \E sn, old \in Seq(Frames), st \in Frames, sp \in Nat :
             /\ Len(sn) \in Nat /\ Len(old) \in Nat
             /\ (WindowFull => Len(sn) = Lesser(st + Len(sn), Pad)) /\ sp <= Len(old) + 1
             /\ st + Len(sn) = NextOnset /\ st + Len(sn) + Len(old) = total
             /\ inSpeech => old = frames
             /\ spoken' = spoken \cup {total} /\ spoken' \in SUBSET Frames
             /\ \/ /\ sp > MaxSpeech
                   /\ Finalize(sn, Append(old, total), st, total + 1, sp, spoken')
                \/ /\ snap' = sn /\ start' = st /\ frames' = Append(old, total)
                   /\ inSpeech' /\ lastEnd' = total + 1
                   /\ UNCHANGED <<segments, dropped>>
<1> DEFINE sn == IF inSpeech THEN snap ELSE Snapshot(total)
           st == IF inSpeech THEN start ELSE total - Len(sn)
           sp == (IF inSpeech THEN speechCount ELSE 0) + 1
           old == IF inSpeech THEN frames ELSE <<>>
<1>1. TypeOK /\ WindowLast /\ OpenSegment BY DEF VadInv
<1>2. total \in Frames /\ total \in Nat BY <1>1 DEF TypeOK, Frames
<1>3. /\ sn \in Seq(Frames) /\ old \in Seq(Frames) /\ st \in Frames /\ sp \in Nat
      /\ (WindowFull => Len(sn) = Lesser(st + Len(sn), Pad)) /\ sp <= Len(old) + 1
      /\ st + Len(sn) = NextOnset /\ st + Len(sn) + Len(old) = total
      /\ inSpeech => old = frames
  <2>1. CASE inSpeech
    <3>1. sn = snap /\ st = start /\ sp = speechCount + 1 /\ old = frames BY <2>1
    <3> HIDE DEF sn, st, sp, old
    <3>2. /\ snap \in Seq(Frames) /\ frames \in Seq(Frames) /\ start \in Frames
          /\ speechCount \in Nat /\ silenceCount \in Nat
        BY <1>1 DEF TypeOK, Frames
    <3>3. speechCount + 1 <= Len(frames) + 1
      <4>1. speechCount + silenceCount <= Len(frames) /\ Len(frames) \in Nat
          BY <1>1, <2>1, <3>2 DEF OpenSegment
      <4> QED BY <3>2, <4>1
    <3> QED BY <1>1, <2>1, <3>1, <3>2, <3>3 DEF OpenSegment, WindowFull, NextOnset, Onset
  <2>2. CASE ~inSpeech
    <3>1. sn = pre /\ st = total - Len(pre) /\ sp = 1 /\ old = <<>> BY <2>2 DEF Snapshot
    <3>2. Len(pre) \in Nat /\ pre \in Seq(Frames) /\ Len(pre) <= total
        BY <1>1 DEF TypeOK, WindowLast
    <3> HIDE DEF sn, st, sp, old
    <3>3. st \in Frames /\ st + Len(sn) = total /\ st + Len(sn) + 0 = total
        BY <1>2, <3>1, <3>2, VadAssumption DEF Frames
    <3>4. old \in Seq(Frames) /\ Len(old) = 0 BY <3>1
    <3> QED BY <2>2, <3>1, <3>2, <3>3, <3>4 DEF WindowFull, NextOnset
  <2> QED BY <2>1, <2>2
<1>4. spoken' = spoken \cup {total} /\ spoken' \in SUBSET Frames
    BY <1>1, <1>2 DEF SpeechFrame, TypeOK
<1>5. \/ sp > MaxSpeech /\ Finalize(sn, Append(old, total), st, total + 1, sp, spoken')
      \/ /\ snap' = sn /\ start' = st /\ frames' = Append(old, total)
         /\ inSpeech' /\ lastEnd' = total + 1
         /\ UNCHANGED <<segments, dropped>>
    BY DEF SpeechFrame, TooLong
<1> HIDE DEF sn, st, sp, old
<1>6. Len(sn) \in Nat /\ Len(old) \in Nat BY <1>3
<1> QED BY <1>3, <1>4, <1>5, <1>6

\* The window after a frame.
LEMMA WindowStep ==
    ASSUME VadInv, VadInv', WindowFull, ProcessFrame
    PROVE  Len(pre') = Lesser(total', Pad)
<1>1. pre \in Seq(Frames) /\ total \in Frames /\ Len(pre) \in Nat /\ total \in Nat /\ Pad \in Nat
    BY VadAssumption DEF VadInv, TypeOK, Frames
<1> DEFINE w == Append(pre, total)
<1>2. w \in Seq(Frames) /\ Len(w) = Len(pre) + 1 BY <1>1
<1>3. pre' = LastFrames(w, Pad) /\ total' = total + 1 BY DEF ProcessFrame, Window
<1> HIDE DEF w
<1>4. Len(LastFrames(w, Pad)) = Lesser(Len(w), Pad)
  <2>1. CASE Len(w) <= Pad BY <1>1, <1>2, <2>1 DEF LastFrames, Lesser
  <2>2. CASE ~(Len(w) <= Pad)
    <3>1. LastFrames(w, Pad) = SubSeq(w, Len(w) - Pad + 1, Len(w)) BY <2>2 DEF LastFrames
    <3>2. Len(w) - Pad + 1 \in 1 .. Len(w) + 1 BY <1>1, <1>2, <2>2
    <3>3. Len(SubSeq(w, Len(w) - Pad + 1, Len(w))) = Pad BY <1>1, <1>2, <3>2
    <3> QED BY <1>1, <1>2, <2>2, <3>1, <3>3 DEF Lesser
  <2> QED BY <2>1, <2>2
<1>5. Len(pre) = Lesser(total, Pad) BY DEF WindowFull
<1> QED BY <1>1, <1>2, <1>3, <1>4, <1>5 DEF Lesser

\* A frame flagged as speech keeps the order.
LEMMA SpeechAdvances ==
    ASSUME ShortPad, VadInv, VadInv', OrderInv, ProcessFrame, SpeechFrame
    PROVE  OrderInv'
<1>1. /\ total + 1 \in Frames /\ total' = total + 1 /\ total \in Nat /\ chunk >= Hop
      /\ ended' = ended /\ ~ended
  <2>1. TypeOK /\ NoSampleLost BY DEF VadInv
  <2>2. chunk >= Hop /\ total' = total + 1 /\ ended' = ended BY DEF ProcessFrame
  <2>3. total \in Nat /\ chunk \in Nat /\ Hop \in Nat BY <2>1, VadAssumption DEF TypeOK, Frames
  <2>4. ~ended BY <2>2, <2>3 DEF OrderInv
  <2> QED BY <2>1, <2>2, <2>3, <2>4, RoomForFrame
<1>2. WindowFull /\ SegmentsAdvance /\ LastBefore(segments, NextOnset) BY <1>1 DEF OrderInv
<1>3. Len(pre') = Lesser(total', Pad) BY <1>2, WindowStep
<1>4. PICK sn \in Seq(Frames), old \in Seq(Frames), st \in Frames, sp \in Nat :
             /\ Len(sn) \in Nat /\ Len(old) \in Nat
             /\ (WindowFull => Len(sn) = Lesser(st + Len(sn), Pad)) /\ sp <= Len(old) + 1
             /\ st + Len(sn) = NextOnset /\ st + Len(sn) + Len(old) = total
             /\ inSpeech => old = frames
             /\ spoken' = spoken \cup {total} /\ spoken' \in SUBSET Frames
             /\ \/ /\ sp > MaxSpeech
                   /\ Finalize(sn, Append(old, total), st, total + 1, sp, spoken')
                \/ /\ snap' = sn /\ start' = st /\ frames' = Append(old, total)
                   /\ inSpeech' /\ lastEnd' = total + 1
                   /\ UNCHANGED <<segments, dropped>>
    BY <1>1, <1>2, SpeechParts
<1> DEFINE fr == Append(old, total)
<1>5. fr \in Seq(Frames) /\ Len(fr) = Len(old) + 1 BY <1>4, <1>1, VadAssumption DEF Frames
<1>6. st \in Nat /\ Pad \in Nat /\ MaxSpeech \in Nat BY VadAssumption DEF Frames
<1>7. CASE sp > MaxSpeech /\ Finalize(sn, fr, st, total + 1, sp, spoken')
  <2> HIDE DEF fr
  <2>1. st + Len(sn) < total + 1 /\ total + 1 <= st + Len(sn) + Len(fr) /\ sp <= Len(fr)
      BY <1>1, <1>4, <1>5, <1>6
  <2>2. Pad < Len(fr) BY <1>5, <1>6, <1>7, <2>1 DEF ShortPad
  <2>3. LastBefore(segments, st + Len(sn)) BY <1>2, <1>4
  <2>4. SegmentsAdvance' /\ LastBefore(segments', st + Len(sn) + Len(fr))
      BY <1>1, <1>2, <1>4, <1>5, <1>7, <2>1, <2>2, <2>3, FinalizeAdvances
  <2>5. ~inSpeech' BY <1>7 DEF Finalize
  <2>6. NextOnset' = st + Len(sn) + Len(fr)
      BY <1>1, <1>4, <1>5, <1>6, <2>5 DEF NextOnset
  <2>7. LastBefore(segments', NextOnset') BY <2>4, <2>6 DEF LastBefore
  <2> QED BY <1>1, <1>3, <2>4, <2>5, <2>7 DEF OrderInv, WindowFull
<1>8. CASE /\ snap' = sn /\ start' = st /\ frames' = fr
           /\ inSpeech' /\ lastEnd' = total + 1
           /\ UNCHANGED <<segments, dropped>>
  <2>1. Onset' = NextOnset /\ NextOnset' = NextOnset BY <1>4, <1>8 DEF Onset, NextOnset
  <2>2. LastBefore(segments', NextOnset') BY <1>2, <1>8, <2>1 DEF LastBefore
  <2>3. SegmentsAdvance' BY <1>2, <1>8 DEF SegmentsAdvance
  <2>4. Len(snap') = Lesser(Onset', Pad) /\ Onset' < lastEnd'
    <3>1. st + Len(sn) = NextOnset /\ Len(sn) = Lesser(st + Len(sn), Pad) BY <1>2, <1>4
    <3>2. NextOnset <= total BY <1>1, <1>4, <1>6
    <3>3. NextOnset < total + 1
      <4>1. NextOnset \in Nat BY <1>4, <1>6, <3>1
      <4> QED BY <1>1, <3>2, <4>1
    <3> QED BY <1>8, <2>1, <3>1, <3>3
  <2> QED BY <1>1, <1>3, <2>2, <2>3, <2>4 DEF OrderInv, WindowFull
<1> QED BY <1>4, <1>7, <1>8

\* A frame of silence keeps the order.
LEMMA SilenceAdvances ==
    ASSUME ShortPad, VadInv, VadInv', OrderInv, ProcessFrame, SilenceFrame
    PROVE  OrderInv'
<1>1. /\ total \in Frames /\ total' = total + 1 /\ total \in Nat /\ ended' = ended /\ ~ended
  <2>1. TypeOK BY DEF VadInv
  <2>2. chunk >= Hop /\ total' = total + 1 /\ ended' = ended BY DEF ProcessFrame
  <2>3. total \in Nat /\ chunk \in Nat /\ Hop \in Nat BY <2>1, VadAssumption DEF TypeOK, Frames
  <2>4. ~ended BY <2>2, <2>3 DEF OrderInv
  <2> QED BY <2>1, <2>2, <2>3, <2>4 DEF TypeOK
<1>2. WindowFull /\ SegmentsAdvance /\ LastBefore(segments, NextOnset) BY <1>1 DEF OrderInv
<1>3. Len(pre') = Lesser(total', Pad) BY <1>2, WindowStep
<1>4. CASE ~inSpeech
  <2>1. UNCHANGED <<snap, frames, speechVars, segments, dropped>> BY <1>4 DEF SilenceFrame
  <2>2. ~inSpeech' /\ segments' = segments BY <1>4, <2>1 DEF speechVars
  <2>3. NextOnset = total /\ NextOnset' = total + 1 BY <1>1, <1>4, <2>2 DEF NextOnset
  <2>4. segments # <<>> => segments[Len(segments)] \in Segment BY DEF VadInv, TypeOK
  <2>5. segments # <<>> => segments[Len(segments)].end \in Int /\ segments[Len(segments)].start \in Int
      BY <2>4 DEF Segment
  <2>6. segments # <<>> =>
           segments[Len(segments)].end <= total + 1 /\ segments[Len(segments)].start + Pad < total + 1
      BY <1>1, <1>2, <2>3, <2>5, VadAssumption DEF LastBefore
  <2>7. LastBefore(segments', NextOnset') BY <2>2, <2>3, <2>6 DEF LastBefore
  <2>8. SegmentsAdvance' BY <1>2, <2>2 DEF SegmentsAdvance
  <2> QED BY <1>1, <1>3, <2>2, <2>7, <2>8 DEF OrderInv, WindowFull
<1>5. CASE inSpeech
  <2> DEFINE fr == Append(frames, total)
  <2>1. /\ snap \in Seq(Frames) /\ frames \in Seq(Frames) /\ start \in Frames /\ lastEnd \in Frames
        /\ start \in Nat /\ lastEnd \in Nat /\ speechCount \in Nat /\ silenceCount \in Nat
        /\ Len(snap) \in Nat /\ Len(frames) \in Nat /\ spoken \in SUBSET Frames
        /\ inSpeech \in BOOLEAN
      BY VadFacts
  <2>2. fr \in Seq(Frames) /\ Len(fr) = Len(frames) + 1 BY <1>1, <2>1
  <2> HIDE DEF fr
  <2>3. /\ start + Len(snap) + Len(frames) = total /\ lastEnd <= total
        /\ speechCount + silenceCount <= Len(frames)
      BY <1>5 DEF VadInv, OpenSegment
  <2>4. Len(snap) = Lesser(start + Len(snap), Pad) /\ start + Len(snap) < lastEnd
        /\ NextOnset = start + Len(snap)
      BY <1>2, <1>5 DEF WindowFull, Onset, NextOnset
  <2>5. \/ Finalize(snap, fr, start, lastEnd, speechCount, spoken)
        \/ UNCHANGED <<snap, inSpeech, speechCount, start, lastEnd, segments, dropped>>
      BY <1>5 DEF SilenceFrame, fr
  <2>6. CASE Finalize(snap, fr, start, lastEnd, speechCount, spoken)
    <3>1. lastEnd <= start + Len(snap) + Len(fr) /\ speechCount <= Len(fr) /\ speechCount < Len(fr)
        BY <1>1, <2>1, <2>2, <2>3
    <3>2. Pad < Len(fr) \/ speechCount < MinSpeech
        BY <2>1, <2>2, <3>1, VadAssumption DEF ShortPad
    <3>3. LastBefore(segments, start + Len(snap)) BY <1>2, <2>4
    <3>4. SegmentsAdvance' /\ LastBefore(segments', start + Len(snap) + Len(fr))
        BY <1>2, <2>1, <2>2, <2>3, <2>4, <2>6, <3>1, <3>2, <3>3, FinalizeAdvances
    <3>5. ~inSpeech' BY <2>6 DEF Finalize
    <3>6. NextOnset' = start + Len(snap) + Len(fr)
        BY <1>1, <2>1, <2>2, <2>3, <3>5 DEF NextOnset
    <3> QED BY <1>1, <1>3, <3>4, <3>5, <3>6 DEF OrderInv, WindowFull
  <2>7. CASE UNCHANGED <<snap, inSpeech, speechCount, start, lastEnd, segments, dropped>>
    <3>1. Onset' = Onset /\ NextOnset' = NextOnset /\ inSpeech'
        BY <1>5, <2>7 DEF Onset, NextOnset
    <3>2. SegmentsAdvance' BY <1>2, <2>7 DEF SegmentsAdvance
    <3>3. Len(snap') = Lesser(Onset', Pad) /\ Onset' < lastEnd'
      <4>1. Len(snap) = Lesser(Onset, Pad) /\ Onset < lastEnd BY <1>2, <1>5 DEF WindowFull
      <4>2. snap' = snap /\ lastEnd' = lastEnd BY <2>7
      <4> QED BY <3>1, <4>1, <4>2
    <3> QED BY <1>1, <1>2, <1>3, <2>7, <3>1, <3>2, <3>3 DEF OrderInv, WindowFull
  <2> QED BY <2>5, <2>6, <2>7
<1> QED BY <1>4, <1>5 DEF VadInv, TypeOK

\* The end of the stream keeps the order.
LEMMA FlushAdvances ==
    ASSUME ShortPad, VadInv, VadInv', OrderInv, Flush
    PROVE  OrderInv'
<1>1. UNCHANGED <<chunk, total, pre>> /\ ended' /\ chunk < Hop /\ ~ended BY DEF Flush
<1>2. WindowFull /\ SegmentsAdvance /\ LastBefore(segments, NextOnset) BY <1>1 DEF OrderInv
<1>3. CASE frames = <<>>
  <2>1. UNCHANGED <<snap, speechVars, segments>> BY <1>3 DEF Flush
  <2>2. SegmentsAdvance' BY <1>2, <2>1 DEF SegmentsAdvance
  <2>3. WindowFull' BY <1>1, <1>2, <2>1 DEF WindowFull, Onset, speechVars
  <2> QED BY <1>1, <2>2, <2>3 DEF OrderInv
<1>4. CASE frames # <<>>
  <2>1. inSpeech BY <1>4 DEF VadInv, NoSegment
  <2>2. /\ snap \in Seq(Frames) /\ frames \in Seq(Frames) /\ start \in Frames /\ lastEnd \in Frames
        /\ start \in Nat /\ lastEnd \in Nat /\ speechCount \in Nat /\ silenceCount \in Nat
        /\ Len(snap) \in Nat /\ Len(frames) \in Nat /\ spoken \in SUBSET Frames
      BY VadFacts
  <2>3. /\ start + Len(snap) + Len(frames) = total /\ lastEnd <= total
        /\ speechCount + silenceCount <= Len(frames)
      BY <2>1 DEF VadInv, OpenSegment
  <2>4. Len(snap) = Lesser(start + Len(snap), Pad) /\ start + Len(snap) < lastEnd
        /\ NextOnset = start + Len(snap)
      BY <1>2, <2>1 DEF WindowFull, Onset, NextOnset
  <2>5. Finalize(snap, frames, start, lastEnd, speechCount, spoken) BY <1>4 DEF Flush
  <2>6. lastEnd <= start + Len(snap) + Len(frames) /\ speechCount <= Len(frames)
      BY <2>2, <2>3
  <2>7. LastBefore(segments, start + Len(snap)) BY <1>2, <2>4
  <2>8. SegmentsAdvance' BY <1>2, <2>2, <2>4, <2>5, <2>6, <2>7, FinalizeAdvances
  <2>9. WindowFull' BY <1>1, <1>2, <2>5 DEF WindowFull, Finalize
  <2> QED BY <1>1, <2>8, <2>9 DEF OrderInv
<1> QED BY <1>3, <1>4

\* No step disturbs the order.
LEMMA NextAdvances ==
    ASSUME ShortPad
    PROVE  VadInv /\ VadInv' /\ OrderInv /\ [Next]_vars => OrderInv'
<1> SUFFICES ASSUME VadInv, VadInv', OrderInv, [Next]_vars PROVE OrderInv' OBVIOUS
<1>1. CASE UNCHANGED vars
  BY <1>1 DEF OrderInv, WindowFull, LastBefore, NextOnset, Onset, SegmentsAdvance,
              vars, bufVars, speechVars, history
<1>2. CASE ProcessFrame
  BY <1>2, SpeechAdvances, SilenceAdvances DEF ProcessFrame
<1>3. ASSUME NEW n \in 1 .. MaxSamples, FeedAudio(n) PROVE OrderInv'
  <2>1. UNCHANGED <<total, bufVars, speechVars, segments, ended>> /\ ~ended BY <1>3 DEF FeedAudio
  <2> QED BY <2>1 DEF OrderInv, WindowFull, LastBefore, NextOnset, Onset, SegmentsAdvance,
                      bufVars, speechVars
<1>4. CASE Flush BY <1>4, FlushAdvances
<1> QED BY <1>1, <1>2, <1>3, <1>4 DEF Next, Finished

-----------------------------------------------------------------------------
(* Speech *)

\* No step loses a frame of speech.
LEMMA NextSettles == VadInv /\ VadInv' /\ Unsettled /\ [Next]_vars => Unsettled'
<1> SUFFICES ASSUME VadInv, VadInv', Unsettled, [Next]_vars PROVE Unsettled' OBVIOUS
<1>1. /\ snap \in Seq(Frames) /\ frames \in Seq(Frames) /\ start \in Frames /\ lastEnd \in Frames
      /\ start \in Nat /\ lastEnd \in Nat /\ speechCount \in Nat
      /\ Len(snap) \in Nat /\ Len(frames) \in Nat /\ spoken \in SUBSET Frames
      /\ total \in Frames /\ total \in Nat
    BY VadFacts
<1>2. ASSUME UNCHANGED <<segments, dropped, spoken, snap, speechVars>> PROVE Unsettled'
  BY <1>2 DEF Unsettled, Settled, Onset, speechVars
<1>3. CASE ProcessFrame /\ SpeechFrame
  <2>1. total + 1 \in Frames BY <1>3, RoomForFrame DEF ProcessFrame, VadInv
  <2>2. PICK sn \in Seq(Frames), old \in Seq(Frames), st \in Frames, sp \in Nat :
             /\ Len(sn) \in Nat /\ Len(old) \in Nat
             /\ (WindowFull => Len(sn) = Lesser(st + Len(sn), Pad)) /\ sp <= Len(old) + 1
             /\ st + Len(sn) = NextOnset /\ st + Len(sn) + Len(old) = total
             /\ inSpeech => old = frames
             /\ spoken' = spoken \cup {total} /\ spoken' \in SUBSET Frames
             /\ \/ /\ sp > MaxSpeech
                   /\ Finalize(sn, Append(old, total), st, total + 1, sp, spoken')
                \/ /\ snap' = sn /\ start' = st /\ frames' = Append(old, total)
                   /\ inSpeech' /\ lastEnd' = total + 1
                   /\ UNCHANGED <<segments, dropped>>
      BY <1>3, <2>1, SpeechParts
  <2> DEFINE fr == Append(old, total)
  <2>3. fr \in Seq(Frames) /\ Len(fr) = Len(old) + 1 /\ st \in Nat BY <1>1, <2>2 DEF Frames
  <2> HIDE DEF fr
  <2>4. \A f \in spoken' : Settled(f) \/ (st + Len(sn) <= f /\ f < total + 1)
    <3> SUFFICES ASSUME NEW f \in spoken', ~Settled(f)
                 PROVE  st + Len(sn) <= f /\ f < total + 1
        OBVIOUS
    <3>1. CASE f = total BY <1>1, <2>2, <2>3, <3>1
    <3>2. CASE f \in spoken
      <4>1. inSpeech /\ Onset <= f /\ f < lastEnd BY <3>2 DEF Unsettled
      <4>2. Onset = st + Len(sn) BY <2>2, <4>1 DEF NextOnset
      <4>3. lastEnd <= total BY <4>1 DEF VadInv, OpenSegment
      <4>4. f \in Nat BY <1>1, <3>2 DEF Frames
      <4> QED BY <1>1, <4>1, <4>2, <4>3, <4>4
    <3> QED BY <2>2, <3>1, <3>2
  <2>5. CASE Finalize(sn, fr, st, total + 1, sp, spoken')
    <3>1. st <= total + 1 /\ total + 1 <= st + Len(sn) + Len(fr) BY <1>1, <2>2, <2>3
    <3>2. \A f \in spoken' : Settled(f)'
      <4> DEFINE le == total + 1
                 said == spoken'
      <4>1. /\ le \in Frames /\ said \in SUBSET Frames /\ st <= le /\ le <= st + Len(sn) + Len(fr)
            /\ \A f \in said : Settled(f) \/ (st + Len(sn) <= f /\ f < le)
            /\ Finalize(sn, fr, st, le, sp, said)
          BY <2>1, <2>2, <2>4, <2>5, <3>1
      <4> HIDE DEF le, said
      <4>2. \A f \in said : Settled(f)' BY <2>3, <4>1, FinalizeSettles
      <4> QED BY <4>2 DEF said
    <3> QED BY <3>2 DEF Unsettled
  <2>6. CASE /\ snap' = sn /\ start' = st /\ inSpeech' /\ lastEnd' = total + 1
             /\ UNCHANGED <<segments, dropped>>
    BY <2>4, <2>6 DEF Unsettled, Settled, Onset
  <2> QED BY <2>2, <2>5, <2>6 DEF fr
<1>4. ASSUME NEW fr \in Seq(Frames), fr = frames \/ fr = Append(frames, total), inSpeech,
             Finalize(snap, fr, start, lastEnd, speechCount, spoken), spoken' = spoken
      PROVE  Unsettled'
  <2>1. start + Len(snap) + Len(frames) = total /\ lastEnd <= total /\ start <= lastEnd
      BY <1>4 DEF VadInv, OpenSegment
  <2>2. Len(fr) \in Nat /\ Len(frames) <= Len(fr) BY <1>1, <1>4
  <2>3. lastEnd <= start + Len(snap) + Len(fr) BY <1>1, <2>1, <2>2
  <2>4. \A f \in spoken : Settled(f) \/ (start + Len(snap) <= f /\ f < lastEnd)
      BY DEF Unsettled, Onset
  <2>5. \A f \in spoken : Settled(f)'
      BY <1>1, <1>4, <2>1, <2>3, <2>4, FinalizeSettles
  <2> QED BY <1>4, <2>5 DEF Unsettled
<1>5. CASE ProcessFrame /\ SilenceFrame
  <2>1. spoken' = spoken BY <1>5 DEF SilenceFrame
  <2>2. CASE ~inSpeech
    <3>1. UNCHANGED <<segments, dropped, spoken, snap, speechVars>> BY <1>5, <2>2 DEF SilenceFrame
    <3> QED BY <1>2, <3>1
  <2>3. CASE inSpeech
    <3> DEFINE fr == Append(frames, total)
    <3>1. fr \in Seq(Frames) BY <1>1
    <3>2. \/ Finalize(snap, fr, start, lastEnd, speechCount, spoken)
          \/ UNCHANGED <<snap, inSpeech, speechCount, start, lastEnd, segments, dropped>>
        BY <1>5, <2>3 DEF SilenceFrame
    <3>5. fr = Append(frames, total) OBVIOUS
    <3> HIDE DEF fr
    <3>3. CASE Finalize(snap, fr, start, lastEnd, speechCount, spoken)
      BY <1>4, <2>1, <2>3, <3>1, <3>3, <3>5
    <3>4. CASE UNCHANGED <<snap, inSpeech, speechCount, start, lastEnd, segments, dropped>>
      BY <2>1, <3>4 DEF Unsettled, Settled, Onset
    <3> QED BY <3>2, <3>3, <3>4
  <2> QED BY <2>2, <2>3
<1>6. CASE Flush
  <2>1. spoken' = spoken BY <1>6 DEF Flush
  <2>2. CASE frames = <<>>
    <3>1. UNCHANGED <<segments, dropped, spoken, snap, speechVars>> BY <1>6, <2>2 DEF Flush
    <3> QED BY <1>2, <3>1
  <2>3. CASE frames # <<>>
    <3>1. inSpeech BY <2>3 DEF VadInv, NoSegment
    <3>2. Finalize(snap, frames, start, lastEnd, speechCount, spoken) BY <1>6, <2>3 DEF Flush
    <3> QED BY <1>1, <1>4, <2>1, <3>1, <3>2
  <2> QED BY <2>2, <2>3
<1>7. ASSUME NEW n \in 1 .. MaxSamples, FeedAudio(n) PROVE Unsettled'
  BY <1>2, <1>7 DEF FeedAudio, bufVars
<1>8. CASE UNCHANGED vars BY <1>2, <1>8 DEF vars, bufVars, history
<1> QED BY <1>3, <1>5, <1>6, <1>7, <1>8 DEF Next, Finished, ProcessFrame

\* Where the frames of speech are is where the property says.
LEMMA UnsettledIsKept == VadInv /\ Unsettled => SpeechKept
<1> SUFFICES ASSUME VadInv, Unsettled, NEW f \in spoken, ~Settled(f)
             PROVE  \E k \in 1 .. Len(frames) : frames[k] = f
    BY DEF SpeechKept, Settled
<1>1. inSpeech /\ Onset <= f /\ f < lastEnd BY DEF Unsettled
<1>2. /\ start + Len(snap) + Len(frames) = total /\ lastEnd <= total
      /\ From(frames, start + Len(snap))
    BY <1>1 DEF VadInv, OpenSegment
<1>3. /\ start \in Nat /\ Len(snap) \in Nat /\ Len(frames) \in Nat /\ lastEnd \in Nat
      /\ total \in Nat /\ f \in Nat
    BY DEF VadInv, TypeOK, Frames
<1> DEFINE k == f - Onset + 1
<1>4. k \in 1 .. Len(frames) /\ Onset + k - 1 = f BY <1>1, <1>2, <1>3 DEF Onset
<1> HIDE DEF k
<1>5. frames[k] = f BY <1>2, <1>4 DEF From, Onset
<1> QED BY <1>4, <1>5

-----------------------------------------------------------------------------
(* Theorems *)

\* Every frame the detector flags as speech stays in the open segment until it is
\* in a returned segment or in one discarded as too short, for every padding and
\* limit, however the stream is fed and wherever pauses and forced cuts fall.
THEOREM SpeechIsKept == Spec => []SpeechKept
<1>1. Init => Unsettled BY DEF Init, Unsettled
<1>2. Spec => []Unsettled BY <1>1, NextSettles, VadInvariant, PTL DEF Spec
<1> QED BY <1>2, VadInvariant, UnsettledIsKept, PTL

\* When the padding is not longer than the speech of any segment, returned segments
\* begin and end one after the other and overlap in the padding only, although
\* the window of the frames before a segment is not emptied by the one before.
THEOREM SegmentsInOrder == ASSUME ShortPad PROVE Spec => []SegmentsAdvance
<1>1. Init => OrderInv
  BY VadAssumption
     DEF Init, OrderInv, WindowFull, LastBefore, SegmentsAdvance, Lesser
<1>2. VadInv /\ VadInv' /\ OrderInv /\ [Next]_vars => OrderInv' BY NextAdvances
<1>3. Spec => []OrderInv BY <1>1, <1>2, VadInvariant, PTL DEF Spec
<1>4. OrderInv => SegmentsAdvance BY DEF OrderInv
<1> QED BY <1>3, <1>4, PTL

-----------------------------------------------------------------------------
(* The segmenter implements Segmentation *)

\* Where the frames of speech are, and what the counters of the open segment
\* count: the speech that waits, and the silence since.
Counted ==
    /\ \A f \in spoken : f \in Nat /\ f < total
    /\ ended => chunk < Hop
    /\ inSpeech =>
        /\ Onset \in spoken /\ lastEnd - 1 \in spoken /\ \A f \in spoken : f < lastEnd
        /\ lastEnd + silenceCount = total
        /\ IsFiniteSet(Waiting) /\ Cardinality(Waiting) = speechCount

\* The abstract module counts as this one does.
LEMMA SameCount == \A w : Promise!Cardinality(w) = Cardinality(w)
  BY DEF Promise!Cardinality, Cardinality

\* The pause that ends a segment is between the two limits, whichever is greater.
LEMMA PauseBetween ==
    ASSUME NEW s \in Nat, NEW p \in Nat
    PROVE  /\ PauseReached(s, p) => p >= Lesser(PauseMin, PauseMax)
           /\ p >= Greater(PauseMin, PauseMax) => PauseReached(s, p)
<1>1. PauseMax \in Nat /\ PauseMin \in Nat /\ DynamicRange \in Nat BY VadAssumption
<1>2. CASE s >= DynamicRange BY <1>1, <1>2 DEF PauseReached, Lesser, Greater
<1>3. CASE s < DynamicRange
  <2> DEFINE d == DynamicRange
             x == PauseMax * d - (PauseMax - PauseMin) * s
  <2>1. d \in Nat /\ d > 0 /\ s < d BY <1>1, <1>3
  <2>2. PauseReached(s, p) <=> p * d >= x BY <1>1, <1>3 DEF PauseReached
  <2> HIDE DEF d
  <2>3. x = PauseMin * s + PauseMax * (d - s) BY <1>1, <2>1
  <2>4. \A m \in Nat : m <= PauseMin /\ m <= PauseMax => m * d <= x
    <3> TAKE m \in Nat
    <3> HAVE m <= PauseMin /\ m <= PauseMax
    <3>1. m * s <= PauseMin * s /\ m * (d - s) <= PauseMax * (d - s) BY <1>1, <2>1
    <3>2. m * d = m * s + m * (d - s) BY <2>1
    <3> QED BY <1>1, <2>1, <2>3, <3>1, <3>2
  <2>5. \A m \in Nat : PauseMin <= m /\ PauseMax <= m => x <= m * d
    <3> TAKE m \in Nat
    <3> HAVE PauseMin <= m /\ PauseMax <= m
    <3>1. PauseMin * s <= m * s /\ PauseMax * (d - s) <= m * (d - s) BY <1>1, <2>1
    <3>2. m * d = m * s + m * (d - s) BY <2>1
    <3> QED BY <1>1, <2>1, <2>3, <3>1, <3>2
  <2> DEFINE lo == Lesser(PauseMin, PauseMax)
             hi == Greater(PauseMin, PauseMax)
  <2>6. lo \in Nat /\ hi \in Nat /\ lo * d <= x /\ x <= hi * d
    <3>1. lo \in Nat /\ lo <= PauseMin /\ lo <= PauseMax BY <1>1 DEF Lesser
    <3>2. hi \in Nat /\ PauseMin <= hi /\ PauseMax <= hi BY <1>1 DEF Greater
    <3> HIDE DEF lo, hi, x
    <3> QED BY <2>4, <2>5, <3>1, <3>2
  <2>7. x \in Int BY <1>1, <2>1
  <2> HIDE DEF lo, hi, x
  <2>8. p * d >= x => p >= lo
    <3> SUFFICES ASSUME p < lo PROVE p * d < x
      BY <2>1, <2>6, <2>7
    <3>1. p + 1 <= lo BY <2>6
    <3>2. (p + 1) * d <= lo * d BY <2>1, <2>6, <3>1
    <3>3. (p + 1) * d = p * d + d BY <2>1
    <3> QED BY <2>1, <2>6, <2>7, <3>2, <3>3
  <2>9. p >= hi => p * d >= x
    <3> SUFFICES ASSUME p >= hi PROVE p * d >= x OBVIOUS
    <3>1. hi * d <= p * d BY <2>1, <2>6
    <3> QED BY <2>1, <2>6, <2>7, <3>1
  <2> QED BY <2>2, <2>8, <2>9 DEF lo, hi, x
<1> QED BY <1>1, <1>2, <1>3

\* What a returned segment adds to the stretches.
LEMMA StretchAdded ==
    ASSUME segments \in Seq(Segment), NEW seg \in Segment, segments' = Append(segments, seg)
    PROVE  Stretches' = Append(Stretches, Stretch(seg))
<1>1. /\ segments' \in Seq(Segment) /\ Len(segments') = Len(segments) + 1 /\ Len(segments) \in Nat
      /\ \A i \in 1 .. Len(segments) : segments'[i] = segments[i]
      /\ segments'[Len(segments) + 1] = seg
  OBVIOUS
<1> DEFINE n == Len(segments)
           all == Stretches
           E == {Stretch(segments[i]) : i \in 1 .. n}
<1>2. all = [i \in 1 .. n |-> Stretch(segments[i])] BY DEF Stretches
<1>3. Stretches' = [i \in 1 .. n + 1 |-> Stretch(segments'[i])] BY <1>1 DEF Stretches, Stretch
<1>4. \A i \in 1 .. n + 1 : Stretch(segments'[i]) = IF i = n + 1 THEN Stretch(seg) ELSE all[i]
  BY <1>1, <1>2
<1>5. n \in Nat /\ all \in [1 .. n -> E] BY <1>1, <1>2
<1> HIDE DEF n, all, E
<1>6. all \in Seq(E) /\ Len(all) = n /\ DOMAIN all = 1 .. n BY <1>5
<1>7. Append(all, Stretch(seg)) = [i \in 1 .. n + 1 |-> IF i = n + 1 THEN Stretch(seg) ELSE all[i]]
  <2> DEFINE e == Stretch(seg)
             G == E \cup {e}
             x == Append(all, e)
  <2>1. all \in Seq(G) /\ e \in G BY <1>5
  <2> HIDE DEF e, G
  <2>2. x \in Seq(G) /\ Len(x) = n + 1 /\ x[n + 1] = e /\ \A i \in 1 .. n : x[i] = all[i]
    BY <1>5, <1>6, <2>1
  <2> HIDE DEF x
  <2>3. x = [i \in 1 .. n + 1 |-> IF i = n + 1 THEN e ELSE all[i]]
    BY <1>5, <2>2
  <2> QED BY <2>3 DEF x, e
<1> QED BY <1>3, <1>4, <1>7 DEF all

\* The end of a segment decides the speech it holds.
LEMMA FinalizeDecides ==
    ASSUME segments \in Seq(Segment), segments' \in Seq(Segment),
           NEW sn \in Seq(Frames), NEW fr \in Seq(Frames), NEW st \in Nat, NEW le \in Nat,
           NEW sp \in Nat, NEW said, NEW w, NEW t \in Nat,
           Len(sn) <= Pad, t = st + Len(sn) + Len(fr), le <= t,
           Cardinality(w) = sp, w \subseteq Nat,
           st + Len(sn) \in w, \A f \in w : st + Len(sn) <= f,
           le - 1 \in w, \A f \in w : f <= le - 1,
           Finalize(sn, fr, st, le, sp, said)
    PROVE  Promise!Decide(w, t)
<1> DEFINE all == sn \o fr
           end == SegmentEnd(st, le, Len(all))
           audio == SubSeq(all, 1, Lesser(Len(all), end - st))
           seg == [audio |-> audio, start |-> st, end |-> end, speech |-> sp]
<1>1. Len(all) = Len(sn) + Len(fr) /\ Len(sn) \in Nat /\ Len(fr) \in Nat /\ Pad \in Nat
      /\ all \in Seq(Frames)
  BY VadAssumption
<1>2. end \in Int /\ le <= end /\ end <= le + Pad /\ end <= t
  BY <1>1 DEF SegmentEnd, Lesser
<1>3. /\ inSpeech' = FALSE
      /\ IF sp < MinSpeech THEN segments' = segments ELSE segments' = Append(segments, seg)
  BY DEF Finalize
<1> HIDE DEF all, end, audio
<1>4. Waiting' = {} BY <1>3 DEF Waiting
<1>5. w # {} OBVIOUS
<1>6. CASE sp < MinSpeech
  <2>1. Stretches' = Stretches BY <1>3, <1>6 DEF Stretches, Stretch
  <2> QED BY <1>4, <1>5, <1>6, <2>1, SameCount DEF Promise!Decide, Promise!GiveUp
<1>7. CASE ~(sp < MinSpeech)
  <2>1. segments' = Append(segments, seg) BY <1>3, <1>7
  <2>2. seg \in Segment
    <3>1. segments' \in Seq(Segment) /\ Len(segments') = Len(segments) + 1
          /\ Len(segments) \in Nat /\ segments'[Len(segments) + 1] = seg
      <4> HIDE DEF seg
      <4> QED BY <2>1
    <3> HIDE DEF seg
    <3> QED BY <3>1
  <2>3. Stretch(seg) = [start |-> st, end |-> end, speech |-> sp] BY DEF Stretch
  <2> HIDE DEF seg
  <2>4. Stretches' = Append(Stretches, [start |-> st, end |-> end, speech |-> sp])
    BY <2>1, <2>2, <2>3, StretchAdded
  <2> DEFINE first == st + Len(sn)
             last == le - 1
  <2>5. Promise!IsFirst(first, w) /\ Promise!IsLast(last, w)
    BY DEF Promise!IsFirst, Promise!IsLast
  <2>6. first \in w /\ last \in w OBVIOUS
  <2>7. st \in first - Pad .. first /\ end \in last + 1 .. last + 1 + Pad /\ 0 <= st /\ end <= t
    BY <1>1, <1>2
  <2>8. Promise!Cardinality(w) = sp /\ sp >= MinSpeech
    BY <1>7, SameCount, VadAssumption
  <2> HIDE DEF first, last
  <2>9. Promise!Return(w, t)
    BY <2>4, <2>5, <2>6, <2>7, <2>8 DEF Promise!Return
  <2> QED BY <1>4, <1>5, <2>9 DEF Promise!Decide
<1> QED BY <1>6, <1>7

\* One more frame of speech that waits.
LEMMA OneMoreWaits ==
    ASSUME NEW w, IsFiniteSet(w), NEW f, f \notin w
    PROVE  IsFiniteSet(w \cup {f}) /\ Cardinality(w \cup {f}) = Cardinality(w) + 1
BY FS_AddElement

\* A frame of speech is kept waiting, or ends a segment that is too long.
LEMMA SpeechPromised ==
    ASSUME VadInv, VadInv', Counted, ProcessFrame, SpeechFrame
    PROVE  Promise!Frame /\ Counted'
<1> DEFINE sn == IF inSpeech THEN snap ELSE Snapshot(total)
           st == IF inSpeech THEN start ELSE total - Len(sn)
           sp == (IF inSpeech THEN speechCount ELSE 0) + 1
           old == IF inSpeech THEN frames ELSE <<>>
           fr == Append(old, total)
           w == Waiting \cup {total}
           o == st + Len(sn)
<1>1. /\ total \in Frames /\ total \in Nat /\ total' = total + 1
      /\ ended' = ended /\ ended \in BOOLEAN /\ ~ended
  <2>1. chunk >= Hop /\ total' = total + 1 /\ ended' = ended BY DEF ProcessFrame
  <2>2. chunk \in Nat /\ Hop \in Nat /\ ended \in BOOLEAN
    BY VadAssumption DEF VadInv, TypeOK
  <2> QED BY <2>1, <2>2, VadFacts DEF Counted
<1>2. segments \in Seq(Segment) /\ segments' \in Seq(Segment) BY DEF VadInv, TypeOK
<1>3. \A f \in spoken : f \in Nat /\ f < total BY DEF Counted
<1>4. /\ sn \in Seq(Frames) /\ old \in Seq(Frames) /\ st \in Nat /\ sp \in Nat
      /\ Len(sn) \in Nat /\ Len(sn) <= Pad /\ Len(old) \in Nat
      /\ o + Len(old) = total
      /\ w = {f \in spoken \cup {total} : f >= o}
      /\ IsFiniteSet(w) /\ Cardinality(w) = sp
      /\ o \in w
  <2>1. CASE inSpeech
    <3>1. sn = snap /\ st = start /\ sp = speechCount + 1 /\ old = frames /\ o = Onset
      BY <2>1 DEF Onset
    <3> HIDE DEF sn, st, sp, old, o
    <3>2. Len(snap) <= Pad BY DEF VadInv, TypeOK
    <3>3. start + Len(snap) + Len(frames) = total BY <2>1 DEF VadInv, OpenSegment
    <3>4. /\ Onset \in spoken /\ IsFiniteSet(Waiting) /\ Cardinality(Waiting) = speechCount
          /\ Waiting = {f \in spoken : f >= Onset}
      BY <2>1 DEF Counted, Waiting, Onset
    <3>5. total \notin Waiting BY <1>1, <1>3, <3>4
    <3>6. Onset \in Nat /\ Onset <= total /\ Onset + Len(frames) = total
      BY <1>1, <3>3, VadFacts DEF Onset
    <3>7. w = {f \in spoken \cup {total} : f >= Onset} /\ Onset \in w
      BY <1>1, <3>4, <3>6
    <3>8. IsFiniteSet(w) /\ Cardinality(w) = speechCount + 1
      <4> HIDE DEF w
      <4> QED BY <3>4, <3>5, OneMoreWaits DEF w
    <3> HIDE DEF w
    <3> QED BY <3>1, <3>2, <3>6, <3>7, <3>8, VadFacts
  <2>2. CASE ~inSpeech
    <3>1. sn = pre /\ st = total - Len(pre) /\ sp = 1 /\ old = <<>> BY <2>2 DEF Snapshot
    <3>2. Len(pre) \in Nat /\ pre \in Seq(Frames) /\ Len(pre) <= total /\ Len(pre) <= Pad
        BY DEF VadInv, TypeOK, WindowLast
    <3>3. o = total /\ st \in Nat BY <1>1, <3>1, <3>2
    <3> HIDE DEF sn, st, sp, old, o
    <3>4. Waiting = {} BY <2>2 DEF Waiting
    <3>5. w = {total} BY <3>4
    <3>6. w = {f \in spoken \cup {total} : f >= total} BY <1>1, <1>3, <3>5
    <3>7. IsFiniteSet(w) /\ Cardinality(w) = 1 BY <3>5, FS_Singleton
    <3> HIDE DEF w
    <3>8. old \in Seq(Frames) /\ Len(old) = 0 BY <3>1
    <3> QED BY <1>1, <3>1, <3>2, <3>3, <3>5, <3>6, <3>7, <3>8
  <2> QED BY <2>1, <2>2
<1>5. \/ TooLong(sp) /\ Finalize(sn, fr, st, total + 1, sp, spoken')
      \/ /\ ~TooLong(sp)
         /\ snap' = sn /\ start' = st /\ speechCount' = sp
         /\ inSpeech' = TRUE /\ silenceCount' = 0 /\ lastEnd' = total + 1
         /\ UNCHANGED segments
  BY DEF SpeechFrame
<1>6. spoken' = spoken \cup {total} BY DEF SpeechFrame
<1> HIDE DEF sn, st, sp, old, w, o
<1>7. fr \in Seq(Frames) /\ Len(fr) = Len(old) + 1 BY <1>1, <1>4
<1> HIDE DEF fr
<1>8. \A f \in w : f \in Nat /\ o <= f /\ f <= total
  BY <1>1, <1>3, <1>4
<1>9. total \in w BY DEF w
<1>10. \A f \in spoken' : f \in Nat /\ f < total' /\ f < total + 1
  BY <1>1, <1>3, <1>6
<1>11. (ended' => chunk' < Hop) BY <1>1
<1>12. CASE TooLong(sp) /\ Finalize(sn, fr, st, total + 1, sp, spoken')
  <2> DEFINE t == total + 1
  <2>1. t \in Nat /\ t = st + Len(sn) + Len(fr) /\ t - 1 = total
    BY <1>1, <1>4, <1>7 DEF o
  <2>2. w \subseteq Nat /\ st + Len(sn) \in w /\ \A f \in w : st + Len(sn) <= f BY <1>4, <1>8 DEF o
  <2>3. t - 1 \in w /\ \A f \in w : f <= t - 1 BY <1>8, <1>9, <2>1
  <2>4. t <= t BY <2>1
  <2> HIDE DEF t
  <2>5. Promise!Decide(w, t)
    <3>1. Finalize(sn, fr, st, t, sp, spoken') BY <1>12 DEF t
    <3> QED BY <1>2, <1>4, <1>7, <2>1, <2>2, <2>3, <2>4, <3>1, FinalizeDecides
  <2>6. Promise!Cardinality(w) >= MaxSpeech
    BY <1>4, <1>12, SameCount, VadAssumption DEF TooLong
  <2>7. Promise!Speech BY <2>5, <2>6 DEF Promise!Speech, w, t
  <2>8. inSpeech' = FALSE BY <1>12 DEF Finalize
  <2> QED BY <1>1, <1>10, <1>11, <2>7, <2>8 DEF Promise!Frame, Counted
<1>13. CASE /\ ~TooLong(sp)
            /\ snap' = sn /\ start' = st /\ speechCount' = sp
            /\ inSpeech' = TRUE /\ silenceCount' = 0 /\ lastEnd' = total + 1
            /\ UNCHANGED segments
  <2>1. Waiting' = w
    <3>1. Waiting' = {f \in spoken' : f >= st + Len(sn)} BY <1>13 DEF Waiting
    <3> QED BY <1>4, <1>6, <3>1 DEF o
  <2>2. Stretches' = Stretches BY <1>13 DEF Stretches, Stretch
  <2>3. Promise!Cardinality(w) < MaxSpeech + 1
    BY <1>4, <1>13, SameCount, VadAssumption DEF TooLong
  <2>4. Promise!Keep(w) BY <2>1, <2>2 DEF Promise!Keep
  <2>5. Promise!Speech BY <2>3, <2>4 DEF Promise!Speech, w
  <2>6. Onset' = o BY <1>13 DEF Onset, o
  <2>7. o \in spoken' /\ total \in spoken' BY <1>4, <1>6
  <2>8. lastEnd' - 1 = total /\ lastEnd' + silenceCount' = total' BY <1>1, <1>13
  <2>9. IsFiniteSet(Waiting') /\ Cardinality(Waiting') = speechCount' BY <1>4, <1>13, <2>1
  <2>10. Counted'
    BY <1>10, <1>11, <1>13, <2>6, <2>7, <2>8, <2>9 DEF Counted
  <2> QED BY <1>1, <2>5, <2>10 DEF Promise!Frame
<1> QED BY <1>5, <1>12, <1>13

\* What the open segment looks like to Segmentation.
LEMMA OpenWaits ==
    ASSUME VadInv, Counted, inSpeech
    PROVE  /\ IsFiniteSet(Waiting) /\ Cardinality(Waiting) = speechCount
           /\ Waiting \subseteq Nat /\ Waiting # {}
           /\ start + Len(snap) \in Waiting /\ \A f \in Waiting : start + Len(snap) <= f
           /\ lastEnd - 1 \in Waiting /\ \A f \in Waiting : f <= lastEnd - 1
           /\ lastEnd \in Nat \ {0} /\ lastEnd + silenceCount = total
<1>1. Waiting = {f \in spoken : f >= start + Len(snap)} BY DEF Waiting
<1>2. /\ start + Len(snap) \in spoken /\ lastEnd - 1 \in spoken
      /\ \A f \in spoken : f \in Nat /\ f < lastEnd
      /\ lastEnd + silenceCount = total
      /\ IsFiniteSet(Waiting) /\ Cardinality(Waiting) = speechCount
  BY DEF Counted, Onset
<1>3. start \in Nat /\ Len(snap) \in Nat /\ lastEnd \in Nat BY VadFacts
<1> DEFINE o == start + Len(snap)
<1>4. o \in Nat /\ o \in spoken /\ o < lastEnd BY <1>2, <1>3
<1>5. Waiting = {f \in spoken : f >= o} BY <1>1
<1> HIDE DEF o
<1>6. o \in Waiting /\ \A f \in Waiting : o <= f BY <1>2, <1>4, <1>5
<1>7. lastEnd - 1 \in Waiting /\ \A f \in Waiting : f <= lastEnd - 1
  BY <1>2, <1>3, <1>4, <1>5
<1>8. Waiting \subseteq Nat /\ lastEnd \in Nat \ {0} BY <1>2, <1>3, <1>5
<1> QED BY <1>2, <1>6, <1>7, <1>8 DEF o

\* A frame of silence decides after a pause, or when much speech is waiting.
LEMMA SilencePromised ==
    ASSUME VadInv, VadInv', Counted, ProcessFrame, SilenceFrame
    PROVE  Promise!Frame /\ Counted'
<1>1. /\ total \in Frames /\ total \in Nat /\ total' = total + 1
      /\ ended' = ended /\ ended \in BOOLEAN /\ ~ended
  <2>1. chunk >= Hop /\ total' = total + 1 /\ ended' = ended BY DEF ProcessFrame
  <2>2. chunk \in Nat /\ Hop \in Nat /\ ended \in BOOLEAN
    BY VadAssumption DEF VadInv, TypeOK
  <2> QED BY <2>1, <2>2, VadFacts DEF Counted
<1>2. segments \in Seq(Segment) /\ segments' \in Seq(Segment) BY DEF VadInv, TypeOK
<1>3. spoken' = spoken BY DEF SilenceFrame
<1>4. \A f \in spoken' : f \in Nat /\ f < total' BY <1>1, <1>3 DEF Counted
<1>5. CASE ~inSpeech
  <2>1. UNCHANGED <<snap, speechVars, segments>> BY <1>5 DEF SilenceFrame
  <2>2. ~inSpeech' /\ segments' = segments BY <1>5, <2>1 DEF speechVars
  <2>3. Waiting = {} /\ Waiting' = {} BY <1>5, <2>2 DEF Waiting
  <2>4. Stretches' = Stretches BY <2>2 DEF Stretches, Stretch
  <2>5. Promise!Silence BY <2>3, <2>4 DEF Promise!Silence
  <2>6. Counted' BY <1>1, <1>4, <2>2 DEF Counted
  <2> QED BY <1>1, <2>5, <2>6 DEF Promise!Frame
<1>6. CASE inSpeech
  <2> DEFINE fr == Append(frames, total)
             n == silenceCount + 1
             le == lastEnd
             w == Waiting
  <2>1. /\ snap \in Seq(Frames) /\ frames \in Seq(Frames) /\ start \in Nat /\ le \in Nat
        /\ Len(snap) \in Nat /\ Len(frames) \in Nat
        /\ speechCount \in Nat /\ silenceCount \in Nat
    BY VadFacts
  <2>2. Len(snap) <= Pad BY DEF VadInv, TypeOK
  <2>3. start + Len(snap) + Len(frames) = total BY <1>6 DEF VadInv, OpenSegment
  <2>4. fr \in Seq(Frames) /\ Len(fr) = Len(frames) + 1 BY <1>1, <2>1
  <2>5. /\ IsFiniteSet(w) /\ Cardinality(w) = speechCount
        /\ w \subseteq Nat /\ w # {}
        /\ start + Len(snap) \in w /\ \A f \in w : start + Len(snap) <= f
        /\ le - 1 \in w /\ \A f \in w : f <= le - 1
        /\ le \in Nat \ {0} /\ le + silenceCount = total
    BY <1>6, OpenWaits
  <2>6. \/ /\ ShouldCut(speechCount, n) \/ TooLong(speechCount)
           /\ Finalize(snap, fr, start, le, speechCount, spoken)
        \/ /\ ~ShouldCut(speechCount, n)
           /\ silenceCount' = n
           /\ UNCHANGED <<snap, inSpeech, speechCount, start, lastEnd, segments>>
    BY <1>6 DEF SilenceFrame
  <2> HIDE DEF fr, n, le, w
  <2>7. n \in 1 .. total /\ Promise!Pause(n)
    <3>1. n \in 1 .. total /\ n = total - (le - 1) BY <1>1, <2>1, <2>5 DEF n
    <3> DEFINE l == le - 1
    <3>2. Promise!IsLast(l, w) BY <2>5 DEF Promise!IsLast
    <3>3. l \in w /\ n = total - l BY <2>5, <3>1
    <3> HIDE DEF l
    <3> QED BY <3>1, <3>2, <3>3 DEF Promise!Pause, w
  <2>8. Promise!Cardinality(w) = speechCount BY <2>5, SameCount
  <2>9. n \in Nat BY <2>1 DEF n
  <2>10. CASE /\ ShouldCut(speechCount, n) \/ TooLong(speechCount)
              /\ Finalize(snap, fr, start, le, speechCount, spoken)
    <3> DEFINE t == total + 1
    <3>1. t \in Nat /\ t = start + Len(snap) + Len(fr) /\ le <= t
      <4>1. t \in Nat BY <1>1
      <4>2. t = start + Len(snap) + Len(fr)
        <5>1. start \in Nat /\ Len(snap) \in Nat /\ Len(frames) \in Nat BY <2>1
        <5> QED BY <1>1, <2>3, <2>4, <5>1
      <4>3. le <= t
        <5>1. le \in Nat /\ silenceCount \in Nat /\ le + silenceCount = total BY <2>1, <2>5
        <5> QED BY <1>1, <5>1
      <4> QED BY <4>1, <4>2, <4>3
    <3> HIDE DEF t
    <3>2. Promise!Decide(w, t)
      BY <1>2, <2>1, <2>2, <2>4, <2>5, <2>10, <3>1, FinalizeDecides
    <3>3. n >= Lesser(PauseMin, PauseMax) \/ speechCount >= MaxSpeech
      BY <2>1, <2>9, <2>10, PauseBetween, VadAssumption DEF ShouldCut, TooLong
    <3>4. Promise!Silence
      BY <2>7, <2>8, <3>2, <3>3 DEF Promise!Silence, w, t
    <3>5. inSpeech' = FALSE BY <2>10 DEF Finalize
    <3> QED BY <1>1, <1>4, <3>4, <3>5 DEF Promise!Frame, Counted
  <2>11. CASE /\ ~ShouldCut(speechCount, n)
              /\ silenceCount' = n
              /\ UNCHANGED <<snap, inSpeech, speechCount, start, lastEnd, segments>>
    <3>1. Waiting' = Waiting BY <1>3, <2>11 DEF Waiting
    <3>2. Stretches' = Stretches BY <2>11 DEF Stretches, Stretch
    <3>3. n < Greater(PauseMin, PauseMax) /\ speechCount < MaxSpeech
      <4>1. Greater(PauseMin, PauseMax) \in Nat BY VadAssumption DEF Greater
      <4> QED BY <2>1, <2>9, <2>11, <4>1, PauseBetween, VadAssumption DEF ShouldCut
    <3>4. Promise!Keep(w) BY <3>1, <3>2 DEF Promise!Keep, w
    <3>5. Promise!Silence BY <2>7, <2>8, <3>3, <3>4 DEF Promise!Silence, w
    <3>6. Onset' = Onset BY <2>11 DEF Onset
    <3>7. lastEnd' + silenceCount' = total' BY <1>1, <2>1, <2>5, <2>11 DEF n, le
    <3>8. Counted'
      BY <1>1, <1>3, <1>4, <1>6, <2>11, <3>1, <3>6, <3>7 DEF Counted
    <3> QED BY <1>1, <3>5, <3>8 DEF Promise!Frame
  <2> QED BY <2>6, <2>10, <2>11
<1> QED BY <1>5, <1>6

\* The end of the stream decides what waits.
LEMMA FlushPromised ==
    ASSUME VadInv, VadInv', Counted, Flush
    PROVE  Promise!End /\ Counted'
<1>1. /\ ~ended /\ ended' = TRUE /\ chunk' = chunk /\ total' = total /\ spoken' = spoken
      /\ chunk < Hop
  BY DEF Flush
<1>2. CASE frames = <<>>
  <2>1. UNCHANGED <<snap, speechVars, segments>> BY <1>2 DEF Flush
  <2>2. ~inSpeech
    <3> SUFFICES ASSUME inSpeech PROVE FALSE OBVIOUS
    <3>1. start + Len(snap) + Len(frames) = total BY DEF VadInv, OpenSegment
    <3>2. start + Len(snap) \in spoken /\ \A f \in spoken : f < total BY DEF Counted, Onset
    <3>3. Len(frames) = 0 BY <1>2
    <3> DEFINE o == start + Len(snap)
    <3>4. o \in Nat /\ o = total /\ o < total BY <3>1, <3>2, <3>3, VadFacts
    <3> HIDE DEF o
    <3> QED BY <3>4
  <2>3. inSpeech' = inSpeech /\ segments' = segments BY <2>1 DEF speechVars
  <2>4. Waiting = {} /\ Waiting' = {} BY <2>2, <2>3 DEF Waiting
  <2>5. Stretches' = Stretches BY <2>3 DEF Stretches, Stretch
  <2> QED BY <1>1, <2>2, <2>3, <2>4, <2>5 DEF Promise!End, Counted
<1>3. CASE frames # <<>>
  <2>1. inSpeech BY <1>3 DEF VadInv, NoSegment
  <2>2. Finalize(snap, frames, start, lastEnd, speechCount, spoken) BY <1>3 DEF Flush
  <2>3. /\ snap \in Seq(Frames) /\ frames \in Seq(Frames) /\ start \in Nat /\ lastEnd \in Nat
        /\ total \in Nat /\ speechCount \in Nat
    BY VadFacts
  <2>4. Len(snap) <= Pad /\ segments \in Seq(Segment) /\ segments' \in Seq(Segment)
    BY DEF VadInv, TypeOK
  <2>5. total = start + Len(snap) + Len(frames) /\ lastEnd <= total
    BY <2>1 DEF VadInv, OpenSegment
  <2>6. Promise!Decide(Waiting, total)
    BY <2>1, <2>2, <2>3, <2>4, <2>5, OpenWaits, FinalizeDecides
  <2>7. inSpeech' = FALSE BY <2>2 DEF Finalize
  <2> QED BY <1>1, <2>6, <2>7 DEF Promise!End, Counted
<1> QED BY <1>2, <1>3

\* Every step is one of Segmentation or leaves it alone.
LEMMA NextPromised ==
    VadInv /\ VadInv' /\ Counted /\ [Next]_vars => [Promise!Next]_(Promise!promised) /\ Counted'
<1> SUFFICES ASSUME VadInv, VadInv', Counted, [Next]_vars
             PROVE  [Promise!Next]_(Promise!promised) /\ Counted'
  OBVIOUS
<1>1. ASSUME UNCHANGED <<total, spoken, snap, speechVars, segments, ended>>, ended => chunk' < Hop
      PROVE  UNCHANGED Promise!promised /\ Counted'
  <2>1. Waiting' = Waiting /\ Stretches' = Stretches /\ Onset' = Onset
    BY <1>1 DEF Waiting, Stretches, Stretch, Onset, speechVars
  <2> QED BY <1>1, <2>1 DEF Counted, Promise!promised, speechVars
<1>2. CASE ProcessFrame
  <2>1. Promise!Frame /\ Counted' BY <1>2, SpeechPromised, SilencePromised DEF ProcessFrame
  <2> QED BY <2>1 DEF Promise!Next
<1>3. ASSUME NEW n \in 1 .. MaxSamples, FeedAudio(n)
      PROVE  UNCHANGED Promise!promised /\ Counted'
  <2>1. UNCHANGED <<total, spoken, snap, speechVars, segments, ended>> /\ ~ended
    BY <1>3 DEF FeedAudio, bufVars
  <2> QED BY <1>1, <2>1
<1>4. CASE Flush
  BY <1>4, FlushPromised DEF Promise!Next
<1>5. CASE UNCHANGED vars
  <2>1. UNCHANGED <<total, spoken, snap, speechVars, segments, ended, chunk>>
    BY <1>5 DEF vars, bufVars, history
  <2> QED BY <1>1, <2>1 DEF Counted
<1> QED BY <1>2, <1>3, <1>4, <1>5 DEF Next, Finished

\* The segmenter implements Segmentation: each frame of speech is decided once
\* and together with all that wait, after a pause that is neither too short nor too
\* long, for every padding and limit and every answer of the detector.
THEOREM SegmenterKeepsPromise == Spec => SegmentsAsPromised
<1>1. Init => Promise!Init /\ Counted
  BY DEF Init, Promise!Init, Counted, Waiting, Stretches
<1>2. Spec => []VadInv BY VadInvariant
<1> QED BY <1>1, <1>2, NextPromised, PTL DEF Spec, SegmentsAsPromised, Promise!Spec
==============================================================================
