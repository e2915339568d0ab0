---------------------------- MODULE Segmentation ----------------------------
(***************************************************************************)
(* What a segmentation promises about the speech in a stream of frames.    *)
(* Each frame of speech is decided once, together with all that wait: they *)
(* become one stretch of the stream, if there are enough of them, or are   *)
(* given up.  A pause that is long enough decides, one that is too short   *)
(* does not, and from MaxSpeech frames on the speech may wait for at most  *)
(* Slack frames more.  The documents have Slack = 0: speech is cut, pause  *)
(* or none, as soon as it reaches MaxSpeech.                               *)
(*                                                                         *)
(* How the stream is cut into frames, what is buffered of it, and how the  *)
(* length of the pause depends on the speech before it, are left open.     *)
(***************************************************************************)
EXTENDS Integers, FiniteSets, Sequences

CONSTANTS
    Pad,                    \* frames a stretch may have before and after its speech
    MinSpeech, MaxSpeech,   \* frames of speech in a stretch
    Slack,                  \* frames by which speech without a pause may exceed MaxSpeech
    MinPause, MaxPause      \* pauses that may decide, and that must

VARIABLES
    clock,      \* frames so far; the next one has this number
    waiting,    \* frames of speech that are not decided yet
    stretches,  \* what has been made of those that are
    over        \* the stream has ended

promised == <<clock, waiting, stretches, over>>

Init == clock = 0 /\ waiting = {} /\ stretches = <<>> /\ over = FALSE

IsFirst(f, w) == f \in w /\ \A g \in w : f <= g
IsLast(f, w) == f \in w /\ \A g \in w : g <= f

\* The speech in w becomes a stretch that holds all of it and at most Pad frames
\* more at each side, of those before t.
Return(w, t) ==
    /\ Cardinality(w) >= MinSpeech
    /\ \E first, last \in w :
        /\ IsFirst(first, w) /\ IsLast(last, w)
        /\ \E a \in first - Pad .. first, b \in last + 1 .. last + 1 + Pad :
            /\ 0 <= a /\ b <= t
            /\ stretches' = Append(stretches, [start |-> a, end |-> b, speech |-> Cardinality(w)])

GiveUp(w) == Cardinality(w) < MinSpeech /\ UNCHANGED stretches

Decide(w, t) == w # {} /\ waiting' = {} /\ (Return(w, t) \/ GiveUp(w))

Keep(w) == waiting' = w /\ UNCHANGED stretches

\* A frame of speech goes on waiting; only speech that has reached the limit is
\* decided, and must be once it has used up the slack.
Speech ==
    LET w == waiting \cup {clock}
    IN  \/ Cardinality(w) < MaxSpeech + Slack /\ Keep(w)
        \/ Cardinality(w) >= MaxSpeech /\ Decide(w, clock + 1)

\* The frames of silence since the last frame of speech, this one included.
Pause(n) == \E last \in waiting : IsLast(last, waiting) /\ n = clock - last

\* A frame of silence decides after a pause, or when much speech is waiting.
Silence ==
    \/ waiting = {} /\ UNCHANGED <<waiting, stretches>>
    \/ \E n \in 1 .. clock :
        /\ Pause(n)
        /\ \/ n < MaxPause /\ Cardinality(waiting) < MaxSpeech /\ Keep(waiting)
           \/ (n >= MinPause \/ Cardinality(waiting) >= MaxSpeech) /\ Decide(waiting, clock + 1)

Frame == ~over /\ clock' = clock + 1 /\ UNCHANGED over /\ (Speech \/ Silence)

\* At the end of the stream nothing is left waiting.
End ==
    /\ ~over /\ over' = TRUE /\ UNCHANGED clock
    /\ \/ waiting = {} /\ UNCHANGED <<waiting, stretches>>
       \/ Decide(waiting, clock)

Next == Frame \/ End

Spec == Init /\ [][Next]_promised
=============================================================================
