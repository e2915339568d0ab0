---------------------------- MODULE VllmLifecycle ----------------------------
(***************************************************************************)
(* The life of the vLLM subprocess under the service (src/main.py):        *)
(* VLLMManager.start and stop, the health monitor, the task that turns its *)
(* verdict into SIGTERM, and the lifespan that calls them.  vLLM itself is *)
(* a process (the leader of its process group) and its worker processes.   *)
(* A leader that has exited keeps its pid until somebody polls or waits    *)
(* for it; then it is "reaped" and getpgid on its pid fails.               *)
(***************************************************************************)
EXTENDS Integers, Sequences

CONSTANT MaxFailures    \* MAX_HEALTH_FAILURES

ASSUME FailuresAssumption == MaxFailures \in Nat \ {0}

VARIABLES
    life,       \* where lifespan is
    stopping,   \* where VLLMManager.stop is, or "no"
    process,    \* VLLMManager.process is not None
    leader,     \* "none", "up", "dead" (a zombie) or "reaped"
    workers,    \* processes of the group other than the leader are alive
    api,        \* vLLM answers its health check
    monitor,    \* where _health_monitor is
    failures,   \* consecutive_failures
    event,      \* _shutdown_event is set
    sigterm,    \* the service has received SIGTERM
    termed,     \* history: the group has been sent SIGTERM
    checks      \* history: what the last MaxFailures health checks found

os == <<leader, workers, api>>
mon == <<monitor, failures, event, checks>>
vars == <<life, stopping, process, os, mon, sigterm, termed>>

Ended == {"down", "failed", "aborted"}      \* the service process is over

TypeOK ==
    /\ life \in {"popen", "poll", "ask", "gaveup", "itn", "serving", "stop"} \cup Ended
    /\ stopping \in {"no", "group", "term", "wait", "kill", "reap"}
    /\ process \in BOOLEAN
    /\ leader \in {"none", "up", "dead", "reaped"}
    /\ workers \in BOOLEAN /\ api \in BOOLEAN
    /\ monitor \in {"off", "sleep", "get", "over"}
    /\ failures \in 0 .. MaxFailures
    /\ event \in BOOLEAN /\ sigterm \in BOOLEAN /\ termed \in BOOLEAN
    /\ checks \in Seq(BOOLEAN) /\ Len(checks) <= MaxFailures

Init ==
    /\ life = "popen" /\ stopping = "no" /\ process = FALSE
    /\ leader = "none" /\ workers = FALSE /\ api = FALSE
    /\ monitor = "off" /\ failures = 0 /\ event = FALSE
    /\ sigterm = FALSE /\ termed = FALSE /\ checks = <<>>

-----------------------------------------------------------------------------
(* The processes of vLLM *)

LeaderForks ==
    /\ leader = "up" /\ ~workers
    /\ workers' = TRUE
    /\ UNCHANGED <<life, stopping, process, leader, api, mon, sigterm, termed>>

LeaderExits ==
    /\ leader = "up"
    /\ leader' = "dead" /\ api' = FALSE
    /\ UNCHANGED <<life, stopping, process, workers, mon, sigterm, termed>>

WorkersExit ==
    /\ workers
    /\ workers' = FALSE
    /\ UNCHANGED <<life, stopping, process, leader, api, mon, sigterm, termed>>

ApiChanges ==
    /\ leader = "up"
    /\ api' = ~api
    /\ UNCHANGED <<life, stopping, process, leader, workers, mon, sigterm, termed>>

Vllm == LeaderForks \/ LeaderExits \/ WorkersExit \/ ApiChanges

\* Popen.poll and Popen.wait collect a leader that has exited.
Reaped == IF leader = "dead" THEN "reaped" ELSE leader

-----------------------------------------------------------------------------
(* VLLMManager.start, in a thread, while lifespan waits for it *)

Popen ==
    /\ life = "popen"
    /\ \/ leader' = "up" /\ process' = TRUE /\ life' = "poll"
       \/ life' = "failed" /\ UNCHANGED <<leader, process>>
    /\ UNCHANGED <<stopping, workers, api, mon, sigterm, termed>>

\* The subprocess may have died while it was starting.
StartPolls ==
    /\ life = "poll"
    /\ leader' = Reaped
    /\ life' = IF leader = "up" THEN "ask" ELSE "failed"
    /\ UNCHANGED <<stopping, process, workers, api, mon, sigterm, termed>>

StartAsks ==
    /\ life = "ask"
    /\ life' = IF api THEN "itn" ELSE "poll"
    /\ UNCHANGED <<stopping, process, os, mon, sigterm, termed>>

\* VLLM_STARTUP_TIMEOUT has passed: stop() is called and start() fails.
StartGivesUp ==
    /\ life = "poll"
    /\ life' = "gaveup" /\ stopping' = "group"
    /\ UNCHANGED <<process, os, mon, sigterm, termed>>

-----------------------------------------------------------------------------
(* lifespan *)

\* The monitor is created first, but nothing lets it run before the service is
\* up.  When the ITN pool cannot start, lifespan raises and nothing stops vLLM.
StartItn ==
    /\ life = "itn"
    /\ \/ life' = "serving" /\ monitor' = "sleep"
       \/ life' = "aborted" /\ UNCHANGED monitor
    /\ UNCHANGED <<stopping, process, os, failures, event, checks, sigterm, termed>>

\* The operator stops the service.
Sigterm ==
    /\ life = "serving" /\ ~sigterm
    /\ sigterm' = TRUE
    /\ UNCHANGED <<life, stopping, process, os, mon, termed>>

\* _watch_shutdown
Watch ==
    /\ life = "serving" /\ event /\ ~sigterm
    /\ sigterm' = TRUE
    /\ UNCHANGED <<life, stopping, process, os, mon, termed>>

\* uvicorn has drained its connections; lifespan cancels its tasks, shuts the
\* ASR client and the ITN pool down and calls stop().
Close ==
    /\ life = "serving" /\ sigterm
    /\ monitor' = "over"
    /\ life' = "stop" /\ stopping' = "group"
    /\ UNCHANGED <<process, os, failures, event, checks, sigterm, termed>>

-----------------------------------------------------------------------------
(* VLLMManager.stop *)

Stopped ==
    /\ process' = FALSE /\ stopping' = "no"
    /\ life' = IF life = "gaveup" THEN "failed" ELSE "down"

\* os.getpgid
StopFindsGroup ==
    /\ stopping = "group"
    /\ IF ~process \/ leader = "reaped"
         THEN Stopped
         ELSE stopping' = "term" /\ UNCHANGED <<life, process>>
    /\ UNCHANGED <<os, mon, sigterm, termed>>

StopTerminates ==
    /\ stopping = "term"
    /\ termed' = TRUE /\ stopping' = "wait"
    /\ UNCHANGED <<life, process, os, mon, sigterm>>

\* The leader exits within 15 seconds.
StopWaits ==
    /\ stopping = "wait" /\ leader # "up"
    /\ leader' = Reaped
    /\ Stopped
    /\ UNCHANGED <<workers, api, mon, sigterm, termed>>

\* Mutant of StopExpires: a leader that ignores SIGTERM is given up.
StopExpiresOnly ==
    /\ stopping = "wait" /\ leader = "up"
    /\ Stopped
    /\ UNCHANGED <<os, mon, sigterm, termed>>

\* It does not: SIGKILL to the whole group.
StopExpires ==
    /\ stopping = "wait" /\ leader = "up"
    /\ stopping' = "kill"
    /\ UNCHANGED <<life, process, os, mon, sigterm, termed>>

StopKills ==
    /\ stopping = "kill"
    /\ leader' = "dead" /\ workers' = FALSE /\ api' = FALSE
    /\ stopping' = "reap"
    /\ UNCHANGED <<life, process, mon, sigterm, termed>>

StopReaps ==
    /\ stopping = "reap"
    /\ leader' = Reaped
    /\ Stopped
    /\ UNCHANGED <<workers, api, mon, sigterm, termed>>

Stop ==
    \/ StopFindsGroup \/ StopTerminates \/ StopWaits \/ StopExpires \/ StopKills \/ StopReaps

-----------------------------------------------------------------------------
(* _health_monitor *)

Checked(ok) ==
    checks' = LET all == Append(checks, ok)
              IN  IF Len(all) > MaxFailures THEN Tail(all) ELSE all

\* Mutant of MonitorLooks: the monitor ends without setting the event.
MonitorLooksSilently ==
    /\ life = "serving" /\ monitor = "sleep"
    /\ leader' = Reaped
    /\ monitor' = IF leader = "up" THEN "get" ELSE "over"
    /\ UNCHANGED <<life, stopping, process, workers, api, failures, event, checks,
                   sigterm, termed>>

\* After the interval: is_alive() polls the process.
MonitorLooks ==
    /\ life = "serving" /\ monitor = "sleep"
    /\ leader' = Reaped
    /\ IF leader = "up"
         THEN monitor' = "get" /\ UNCHANGED event
         ELSE monitor' = "over" /\ event' = TRUE
    /\ UNCHANGED <<life, stopping, process, workers, api, failures, checks, sigterm, termed>>

\* Mutant of CheckOk: a success does not reset the count.
CheckOkNoReset ==
    /\ api
    /\ Checked(TRUE) /\ monitor' = "sleep"
    /\ UNCHANGED <<failures, event>>

CheckOk ==
    /\ api
    /\ Checked(TRUE) /\ monitor' = "sleep" /\ failures' = 0
    /\ UNCHANGED event

\* Another status, or no answer; a request can fail although vLLM is well.
CheckFails ==
    /\ Checked(FALSE) /\ failures' = failures + 1
    /\ IF failures' >= MaxFailures
         THEN monitor' = "over" /\ event' = TRUE
         ELSE monitor' = "sleep" /\ UNCHANGED event

MonitorAsks ==
    /\ life = "serving" /\ monitor = "get"
    /\ CheckOk \/ CheckFails
    /\ UNCHANGED <<life, stopping, process, os, sigterm, termed>>

-----------------------------------------------------------------------------

Finished == life \in Ended /\ UNCHANGED vars

Service ==
    \/ Popen \/ StartPolls \/ StartAsks \/ StartGivesUp \/ StartItn
    \/ Watch \/ Close \/ Stop \/ MonitorLooks \/ MonitorAsks

Next == Vllm \/ Service \/ Sigterm \/ Finished

Spec == Init /\ [][Next]_vars

-----------------------------------------------------------------------------
(* Properties *)

\* The service is brought down by its monitor only when vLLM has died or has
\* failed MaxFailures checks in a row: no success lies between them.
DownForCause ==
    event => \/ leader \in {"dead", "reaped"}
             \/ Len(checks) = MaxFailures /\ \A i \in 1 .. MaxFailures : ~checks[i]

\* When the service has stopped in order, or has failed to start vLLM, the
\* leader is gone and waited for, and so is the manager's handle on it unless
\* the leader died by itself while it was starting.
NoLeaderLeft ==
    life \in {"down", "failed"} =>
        /\ leader \in {"none", "reaped"}
        /\ life = "down" => ~process

\* The service runs with its vLLM.
Healthy == life = "serving" /\ leader = "up" /\ ~event

\* Start, service and stop never stay without a vLLM: the start ends one way or
\* the other, and a service whose vLLM has died or has failed as often as it may,
\* which cannot be healthy again, goes down whatever vLLM does.
DeathBringsDown == []<>(Healthy \/ life \in Ended)

\* What the docstring of stop() says: the group is stopped with the leader.  A
\* worker process that is still alive has at least been sent SIGTERM.
StopReachesGroup == life = "down" /\ workers => termed
==============================================================================
