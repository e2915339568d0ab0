------------------------------- MODULE Serving -------------------------------
(***************************************************************************)
(* The service from its start to its end: vLLM's life (VllmLifecycle) with *)
(* the recognitions that depend on it (AsrClient), the sessions that start *)
(* them, and the readers of the log stream.                                *)
(*                                                                         *)
(* Recognitions run in tasks of their own.  A session that has had its end *)
(* frame waits for those it has started; one that breaks cancels them and  *)
(* ends without waiting, and each meets its cancellation later, at the     *)
(* next step it takes.  (Session has the session in detail; here it is     *)
(* what keeps uvicorn.)                                                    *)
(*                                                                         *)
(* When the service has been told to end, uvicorn accepts nobody any more, *)
(* closes the WebSockets and waits, without a limit, for the endpoints and *)
(* the requests it has, but not for tasks; a log stream lasts until its    *)
(* reader leaves.  Only then does lifespan close the client and stop vLLM. *)
(***************************************************************************)
EXTENDS VllmLifecycle, AsrClient

CONSTANTS
    Sessions,   \* each the set of the calls it may make
    Readers     \* clients that may read the log stream

ASSUME SessionsAssumption ==
    /\ UNION Sessions = Calls
    /\ \A s, t \in Sessions : s # t => s \cap t = {}

VARIABLES
    endpoint,   \* where the endpoint of each session is
    cancelled,  \* calls whose task has been told to end
    reading     \* the readers whose request is being answered

sessionVars == <<endpoint, cancelled>>
servingVars == <<vars, asrVars, sessionVars, reading>>

Here == {"streaming", "gather"}    \* the endpoint runs

SessionTypeOK ==
    /\ endpoint \in [Sessions -> {"none", "over"} \cup Here]
    /\ cancelled \in SUBSET Calls
    /\ reading \in SUBSET Readers

ServingInit ==
    /\ Init /\ AsrInit
    /\ endpoint = [s \in Sessions |-> "none"] /\ cancelled = {}
    /\ reading = {}

-----------------------------------------------------------------------------
(* lifespan *)

\* itn_pool.start() and asr_service.startup()
StartServices ==
    /\ StartItn
    /\ IF life' = "serving" THEN Startup ELSE UNCHANGED asrVars
    /\ UNCHANGED <<sessionVars, reading>>

\* uvicorn's drain has ended; asr_service.shutdown() comes before stop().
CloseServices ==
    /\ \A s \in Sessions : endpoint[s] \notin Here
    /\ reading = {}
    /\ Close /\ Shutdown
    /\ UNCHANGED <<sessionVars, reading>>

-----------------------------------------------------------------------------
(* Sessions *)

Connect(s) ==
    /\ life = "serving" /\ ~sigterm
    /\ endpoint[s] = "none"
    /\ endpoint' = [endpoint EXCEPT ![s] = "streaming"]
    /\ UNCHANGED cancelled

\* The end frame: what has been started is waited for (wait_pending_asr).
EndFrame(s) ==
    /\ endpoint[s] = "streaming"
    /\ endpoint' = [endpoint EXCEPT ![s] = "gather"]
    /\ UNCHANGED cancelled

Running(s) == {c \in s : call[c] \in Busy}

\* Mutant of CloseSession: close() forgets the tasks.
CloseSessionUncancelled(s) ==
    /\ endpoint' = [endpoint EXCEPT ![s] = "over"]
    /\ UNCHANGED cancelled

\* The endpoint's finally: the tasks that have not ended are cancelled, and
\* nobody waits for them.
CloseSession(s) ==
    /\ endpoint' = [endpoint EXCEPT ![s] = "over"]
    /\ cancelled' = cancelled \cup Running(s)

Gathered(s) == endpoint[s] = "gather" /\ Running(s) = {} /\ CloseSession(s)

\* The client, an error or uvicorn breaks the connection.
Breaks(s) == endpoint[s] = "streaming" /\ CloseSession(s)

OfSession(sessionStep) == sessionStep /\ UNCHANGED <<vars, asrVars, reading>>

SessionStep(s) == Connect(s) \/ EndFrame(s) \/ Gathered(s) \/ Breaks(s)

-----------------------------------------------------------------------------
(* Recognitions *)

\* A segment is recognised while its endpoint is there: also, when it was cut
\* or flushed before, during the gather.
StartRecognition(c) ==
    /\ \E s \in Sessions : c \in s /\ endpoint[s] \in Here
    /\ Recognize(c)

\* An answer needs a vLLM that is up; it can be read when vLLM is gone.
VllmServes(c) == leader = "up" /\ Serves(c)

\* A task that has been cancelled meets that and nothing else.
TaskRuns(c) ==
    \/ c \notin cancelled /\ CallStep(c)
    \/ c \in cancelled /\ Cancelled(c)

TaskLoses(c) == c \notin cancelled /\ Lost(c)

OfCall(callStep) == callStep /\ UNCHANGED <<vars, sessionVars, reading>>

RecognitionStep(c) ==
    StartRecognition(c) \/ VllmServes(c) \/ TaskRuns(c) \/ TaskLoses(c)

-----------------------------------------------------------------------------
(* Readers *)

\* logs_stream: the generator never returns by itself.
OpenLog(r) ==
    /\ life = "serving" /\ ~sigterm
    /\ r \notin reading /\ reading' = reading \cup {r}
    /\ UNCHANGED <<vars, asrVars, sessionVars>>

LeaveLog(r) ==
    /\ r \in reading /\ reading' = reading \ {r}
    /\ UNCHANGED <<vars, asrVars, sessionVars>>

-----------------------------------------------------------------------------

LifeStep ==
    \/ Vllm \/ Sigterm
    \/ Popen \/ StartPolls \/ StartAsks \/ StartGivesUp
    \/ Watch \/ Stop \/ MonitorLooks \/ MonitorAsks

Alone(lifeStep) == lifeStep /\ UNCHANGED <<asrVars, sessionVars, reading>>

Over == life \in Ended /\ UNCHANGED servingVars

ServingNext ==
    \/ Alone(LifeStep)
    \/ StartServices
    \/ CloseServices
    \/ \E s \in Sessions : OfSession(SessionStep(s))
    \/ \E c \in Calls : OfCall(RecognitionStep(c))
    \/ \E r \in Readers : OpenLog(r) \/ LeaveLog(r)
    \/ Over

ServingSpec == ServingInit /\ [][ServingNext]_servingVars

\* What lifespan does, with the thread of start() and _watch_shutdown: at any
\* moment one of these steps at most can be taken, apart from the monitor's.
Lifespan ==
    \/ Alone(Popen \/ StartPolls \/ StartAsks \/ Watch \/ Stop)
    \/ StartServices \/ CloseServices

\* The event loop and the thread of start() run, the startup deadline passes,
\* posts have a timeout, and uvicorn closes the WebSockets once it has been told
\* to end.  That the drain ends is not assumed but follows.
ServingFair ==
    /\ ServingSpec
    /\ WF_servingVars(Lifespan)
    /\ SF_servingVars(Alone(StartGivesUp))
    /\ WF_servingVars(Alone(MonitorLooks \/ MonitorAsks))
    /\ \A s \in Sessions : WF_servingVars(OfSession(Gathered(s) \/ (sigterm /\ Breaks(s))))
    /\ \A c \in Calls : WF_servingVars(OfCall(TaskRuns(c)))

\* Readers of the log stream leave some day: nothing in the code makes them.
ServingLive == ServingFair /\ \A r \in Readers : WF_servingVars(LeaveLog(r))

-----------------------------------------------------------------------------
(* Properties *)

\* The lifecycle, the client and the sessions keep their types: failures are
\* counted up to MaxFailures, and no call makes more attempts than MaxRetries
\* allows.
ServingTypeOK == TypeOK /\ AsrTypeOK /\ SessionTypeOK

\* A recognition outlives the session that started it, and may outlive the
\* client and vLLM, only as one that has been cancelled: shutdown, from an
\* operator or from the monitor, never takes them away from a call that will
\* still use them, although uvicorn waits for no task.
CallsHaveServer ==
    \A c \in Calls : call[c] \in Busy /\ c \notin cancelled =>
        open /\ life = "serving" /\ stopping = "no"

\* Every recognition ends, whether vLLM answers, hangs, dies or comes and goes.
\* (Each call is made once, so that all have ended is for good.)
CallsEnd == <>[](\A c \in Calls : call[c] \notin Busy)

\* What main.py says of the monitor: when vLLM has died or failed too often, the
\* service goes down, whatever its clients do.
DeathExits == (life = "serving" /\ event) ~> life = "down"
==============================================================================
