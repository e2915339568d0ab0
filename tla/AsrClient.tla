------------------------------ MODULE AsrClient ------------------------------
(***************************************************************************)
(* The client of the recogniser (src/src/services/asr_service.py): calls   *)
(* of recognize() share one HTTP client, and each posts its audio to vLLM  *)
(* up to MaxRetries times.  A connection that breaks is retried after a    *)
(* sleep; a status other than success, a timeout and an answer that cannot *)
(* be read end the call at once.  vLLM is whatever Serves says it is; the  *)
(* module Serving lets it live and die.                                    *)
(***************************************************************************)
EXTENDS Integers, Sequences

CONSTANTS
    Calls,      \* calls of recognize()
    MaxRetries  \* max_retries

ASSUME RetriesAssumption == MaxRetries \in Nat \ {0}

VARIABLES
    open,       \* self._client is not None
    call,       \* where each call is
    attempt,    \* the loop variable of each call
    reply,      \* vLLM has answered the post that is under way
    posts       \* history: how the posts of each call ended, as the call sees it

callVars == <<call, attempt, reply, posts>>
asrVars == <<open, callVars>>

Busy == {"encode", "post", "sleep"}
CallOver == {"text", "asrerror", "broken", "raised", "cancelled"}
Answers == {"text", "status", "raised"}     \* the last: one without a text in it
PostEndings == Answers \cup {"lost"}

AsrTypeOK ==
    /\ open \in BOOLEAN
    /\ call \in [Calls -> {"idle"} \cup Busy \cup CallOver]
    /\ attempt \in [Calls -> 0 .. MaxRetries]
    /\ reply \in [Calls -> BOOLEAN]
    /\ posts \in [Calls -> Seq(PostEndings)]

AsrInit ==
    /\ open = FALSE
    /\ call = [c \in Calls |-> "idle"]
    /\ attempt = [c \in Calls |-> 0]
    /\ reply = [c \in Calls |-> FALSE]
    /\ posts = [c \in Calls |-> <<>>]

Moves(c, p) == call' = [call EXCEPT ![c] = p]

-----------------------------------------------------------------------------

Startup == open' = TRUE /\ UNCHANGED callVars

Shutdown == open' = FALSE /\ UNCHANGED callVars

\* The assertion on self._client, then the audio is encoded in a thread.
Recognize(c) ==
    /\ call[c] = "idle"
    /\ Moves(c, IF open THEN "encode" ELSE "raised")
    /\ UNCHANGED <<open, attempt, reply, posts>>

\* self._client is read again for each post, and may be None by now.
ToPost(c) == Moves(c, IF open THEN "post" ELSE "raised")

Encoded(c) ==
    /\ call[c] = "encode"
    /\ ToPost(c)
    /\ UNCHANGED <<open, attempt, reply, posts>>

\* vLLM answers the post; the answer is on its way, and what it says is seen when
\* it is read.
Serves(c) ==
    /\ call[c] = "post" /\ ~reply[c]
    /\ reply' = [reply EXCEPT ![c] = TRUE]
    /\ UNCHANGED <<open, call, attempt, posts>>

\* Mutant of After: an HTTP error is retried like a broken connection.
AfterRetried(o) == IF o \in {"lost", "status"} THEN "sleep" ELSE o

\* A lost connection is slept over, an HTTP error becomes an ASRError.
After(o) == CASE o = "lost" -> "sleep" [] o = "status" -> "asrerror" [] OTHER -> o

\* The post has ended with o.
PostEnds(c, o) ==
    /\ call[c] = "post"
    /\ posts' = [posts EXCEPT ![c] = Append(@, o)]
    /\ reply' = [reply EXCEPT ![c] = FALSE]
    /\ Moves(c, After(o))
    /\ UNCHANGED <<open, attempt>>

\* The answer is read.
Replied(c) == reply[c] /\ \E o \in Answers : PostEnds(c, o)

\* Mutant of TimesOut: the client has no timeout.
TimesOutNever(c) == FALSE

\* The client's 60 seconds are over.
TimesOut(c) == PostEnds(c, "raised")

\* ReadError, ConnectError or RemoteProtocolError, even when vLLM has done the
\* work: sleep, also after the last attempt.
Lost(c) == PostEnds(c, "lost")

\* Mutant of Wakes: one post too many.
WakesOnceMore(c) ==
    /\ call[c] = "sleep"
    /\ attempt' = [attempt EXCEPT ![c] = @ + 1]
    /\ IF attempt'[c] <= MaxRetries THEN ToPost(c) ELSE Moves(c, "broken")
    /\ UNCHANGED <<open, reply, posts>>

\* The next turn of the loop, or the last exception.
Wakes(c) ==
    /\ call[c] = "sleep"
    /\ attempt' = [attempt EXCEPT ![c] = @ + 1]
    /\ IF attempt'[c] < MaxRetries THEN ToPost(c) ELSE Moves(c, "broken")
    /\ UNCHANGED <<open, reply, posts>>

\* The session cancels its task, whatever the call is waiting for.
Cancelled(c) ==
    /\ call[c] \in Busy
    /\ Moves(c, "cancelled")
    /\ reply' = [reply EXCEPT ![c] = FALSE]
    /\ UNCHANGED <<open, attempt, posts>>

\* What a call does by itself, and what may happen to it.
CallStep(c) == Encoded(c) \/ Replied(c) \/ TimesOut(c) \/ Wakes(c)
CallMeets(c) == Lost(c) \/ Cancelled(c)

AsrNext ==
    \/ Startup \/ Shutdown
    \/ \E c \in Calls : Recognize(c) \/ CallStep(c) \/ CallMeets(c) \/ Serves(c)

AsrSpec == AsrInit /\ [][AsrNext]_asrVars

-----------------------------------------------------------------------------
(* Properties *)

\* Only broken connections are retried, at most MaxRetries posts are made, and
\* a call fails with a connection error only after so many of them; a text
\* comes from the last post.  No order of losses, late answers, cancellations
\* and shutdown makes vLLM work again on audio it has answered for.
RetriesForCause ==
    \A c \in Calls :
        LET n == Len(posts[c]) IN
            /\ n <= MaxRetries
            /\ \A i \in 1 .. n - 1 : posts[c][i] = "lost"
            /\ call[c] \in {"post", "sleep", "broken"} => \A i \in 1 .. n : posts[c][i] = "lost"
            /\ call[c] = "broken" => n = MaxRetries
            /\ call[c] = "text" => n > 0 /\ posts[c][n] = "text"
            /\ call[c] = "asrerror" => n > 0 /\ posts[c][n] = "status"
==============================================================================
