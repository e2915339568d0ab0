---------------------------- MODULE ServingProofs ----------------------------
(***************************************************************************)
(* Theorems about VllmLifecycle, AsrClient and their composition Serving,  *)
(* for any limit of failures and of retries, any calls and any readers.    *)
(* The composition is shown to implement each of the two, so that what     *)
(* they guarantee holds in it.                                             *)
(***************************************************************************)
EXTENDS Serving, SequenceTheorems, TLAPS

-----------------------------------------------------------------------------
(* The life of vLLM *)

\* Before Popen every variable of the lifecycle has its type.
LEMMA InitTypes == Init => TypeOK
  <1> SUFFICES ASSUME Init PROVE TypeOK
    OBVIOUS
  <1>1. checks \in Seq(BOOLEAN) /\ Len(checks) <= MaxFailures
    BY FailuresAssumption DEF Init
  <1>2. failures \in 0 .. MaxFailures
    BY FailuresAssumption DEF Init
  <1> QED
    BY <1>1, <1>2 DEF Init, TypeOK, Ended

\* The history of checks stays a sequence of at most MaxFailures answers.
LEMMA CheckedKeeps ==
    ASSUME TypeOK, NEW ok \in BOOLEAN, Checked(ok)
    PROVE  checks' \in Seq(BOOLEAN) /\ Len(checks') <= MaxFailures
  <1> DEFINE all == Append(checks, ok)
  <1>1. checks \in Seq(BOOLEAN) /\ Len(checks) <= MaxFailures /\ MaxFailures \in Nat
    BY FailuresAssumption DEF TypeOK
  <1>2. all \in Seq(BOOLEAN) /\ Len(all) = Len(checks) + 1 /\ all # <<>>
    BY <1>1
  <1> HIDE DEF all
  <1>3. Tail(all) \in Seq(BOOLEAN) /\ Len(Tail(all)) = Len(checks)
    BY <1>1, <1>2
  <1>4. checks' = IF Len(all) > MaxFailures THEN Tail(all) ELSE all
    BY DEF Checked, all
  <1>5. CASE Len(all) > MaxFailures
    BY <1>1, <1>2, <1>3, <1>4, <1>5
  <1>6. CASE ~(Len(all) > MaxFailures)
    BY <1>1, <1>2, <1>4, <1>6
  <1> QED
    BY <1>5, <1>6

\* A monitor that has not ended has not reached the limit.
Counting ==
    /\ monitor # "over" => ~event /\ failures < MaxFailures
    /\ failures <= Len(checks)
    /\ \A i \in 1 .. failures : ~checks[Len(checks) + 1 - i]

\* What lifespan knows of the process, and where stop() can be.
Phases ==
    /\ life = "popen" => leader = "none" /\ ~process
    /\ life \in {"poll", "ask", "gaveup", "itn", "serving", "stop", "aborted"} =>
         process /\ leader # "none"
    /\ stopping # "no" <=> life \in {"gaveup", "stop"}
    /\ stopping = "reap" => leader # "up"
    /\ event => life \notin {"popen", "poll", "ask", "gaveup", "itn", "failed", "aborted"}
    /\ life \in {"popen", "poll", "ask", "gaveup", "itn", "failed", "aborted"} => monitor = "off"

LifeInv == TypeOK /\ Counting /\ Phases /\ DownForCause /\ NoLeaderLeft

\* The invariant of the lifecycle holds before vLLM is started.
LEMMA LifeInit == Init => LifeInv
  <1> SUFFICES ASSUME Init PROVE LifeInv
    OBVIOUS
  <1>1. TypeOK
    BY InitTypes
  <1> QED
    BY <1>1, FailuresAssumption
    DEF Init, LifeInv, Counting, Phases, DownForCause, NoLeaderLeft

\* vLLM's own steps and the service's, except those of the monitor, keep the
\* types; neither they nor the end of the monitor touch its counts.
LEMMA VllmKeeps ==
    ASSUME LifeInv, Vllm
    PROVE  LifeInv'
  <1> USE DEF Vllm, LeaderForks, LeaderExits, WorkersExit, ApiChanges, mon
  <1>1. TypeOK'
    <2>1. TypeOK
      BY DEF LifeInv
    <2>2. UNCHANGED <<life, stopping, process, mon, sigterm, termed>>
      OBVIOUS
    <2>3. leader' \in {"none", "up", "dead", "reaped"}
      BY <2>1 DEF TypeOK
    <2>4. workers' \in BOOLEAN
      BY <2>1 DEF TypeOK
    <2>5. api' \in BOOLEAN
      BY <2>1 DEF TypeOK
    <2> HIDE DEF Vllm
    <2> QED
      BY <2>1, <2>2, <2>3, <2>4, <2>5 DEF TypeOK, Ended
  <1>2. Phases'
    BY DEF LifeInv, TypeOK, Phases, Counting
  <1>3. Counting'
    BY DEF LifeInv, Counting
  <1>4. DownForCause'
    BY DEF LifeInv, DownForCause, Phases, TypeOK
  <1>5. NoLeaderLeft'
    BY DEF LifeInv, NoLeaderLeft, Phases, TypeOK
  <1> QED
    BY <1>1, <1>2, <1>3, <1>4, <1>5 DEF LifeInv

\* The steps of the start-up, from Popen to the ITN pool, keep the invariant:
\* none of them counts a failure.
LEMMA StartKeeps ==
    ASSUME LifeInv, Popen \/ StartPolls \/ StartAsks \/ StartGivesUp \/ StartItn
    PROVE  LifeInv'
  <1> USE DEF Popen, StartPolls, StartAsks, StartGivesUp, StartItn, Reaped, os, mon
  <1>1. TypeOK'
    <2>1. CASE Popen
      BY <2>1 DEF LifeInv, TypeOK, Ended, Phases
    <2>2. CASE StartPolls
      BY <2>2 DEF LifeInv, TypeOK, Ended, Phases
    <2>3. CASE StartAsks
      BY <2>3 DEF LifeInv, TypeOK, Ended, Phases
    <2>4. CASE StartGivesUp
      BY <2>4 DEF LifeInv, TypeOK, Ended, Phases
    <2>5. CASE StartItn
      BY <2>5 DEF LifeInv, TypeOK, Ended, Phases
    <2> QED
      BY <2>1, <2>2, <2>3, <2>4, <2>5
  <1>2. Phases'
    BY DEF LifeInv, TypeOK, Phases, Counting
  <1>3. Counting'
    <2>1. UNCHANGED <<failures, event, checks>> /\ (monitor' = monitor \/ monitor # "over")
      BY DEF LifeInv, Phases
    <2> QED
      BY <2>1 DEF LifeInv, Counting
  <1>4. DownForCause'
    BY DEF LifeInv, DownForCause, Phases, TypeOK
  <1>5. NoLeaderLeft'
    BY DEF LifeInv, NoLeaderLeft, Phases, TypeOK
  <1> QED
    BY <1>1, <1>2, <1>3, <1>4, <1>5 DEF LifeInv

\* The end of the service, by a signal or by the monitor, keeps the invariant.
LEMMA ServingKeeps ==
    ASSUME LifeInv, Sigterm \/ Watch \/ Close
    PROVE  LifeInv'
  <1> USE DEF Sigterm, Watch, Close, os, mon
  <1>1. TypeOK'
    BY DEF LifeInv, TypeOK, Ended, Phases
  <1>2. Phases'
    BY DEF LifeInv, TypeOK, Phases, Counting
  <1>3. Counting'
    <2>1. UNCHANGED <<failures, event, checks>> /\ monitor' \in {monitor, "over"}
      OBVIOUS
    <2> QED
      BY <2>1 DEF LifeInv, Counting
  <1>4. DownForCause'
    BY DEF LifeInv, DownForCause, Phases, TypeOK
  <1>5. NoLeaderLeft'
    BY DEF LifeInv, NoLeaderLeft, Phases, TypeOK
  <1> QED
    BY <1>1, <1>2, <1>3, <1>4, <1>5 DEF LifeInv

\* The steps of VLLMManager.stop() keep the invariant: each way out of it has
\* waited for the leader.
LEMMA StopKeeps ==
    ASSUME LifeInv, Stop
    PROVE  LifeInv'
  <1> USE DEF Stop, StopFindsGroup, StopTerminates, StopWaits, StopExpires, StopKills, StopReaps,
             Stopped, Reaped, os, mon
  <1>1. TypeOK'
    <2>1. CASE StopFindsGroup
      BY <2>1 DEF LifeInv, TypeOK, Ended, Phases
    <2>2. CASE StopTerminates
      BY <2>2 DEF LifeInv, TypeOK, Ended, Phases
    <2>3. CASE StopWaits
      BY <2>3 DEF LifeInv, TypeOK, Ended, Phases
    <2>4. CASE StopExpires
      BY <2>4 DEF LifeInv, TypeOK, Ended, Phases
    <2>5. CASE StopKills
      BY <2>5 DEF LifeInv, TypeOK, Ended, Phases
    <2>6. CASE StopReaps
      BY <2>6 DEF LifeInv, TypeOK, Ended, Phases
    <2> QED
      BY <2>1, <2>2, <2>3, <2>4, <2>5, <2>6
  <1>2. Phases'
    BY DEF LifeInv, TypeOK, Phases, Counting
  <1>3. Counting'
    BY DEF LifeInv, Counting
  <1>4. DownForCause'
    BY DEF LifeInv, DownForCause, Phases, TypeOK
  <1>5. NoLeaderLeft'
    BY DEF LifeInv, NoLeaderLeft, Phases, TypeOK
  <1> QED
    BY <1>1, <1>2, <1>3, <1>4, <1>5 DEF LifeInv

\* A check adds its answer at the end, and may drop the first one.
LEMMA LastChecks ==
    ASSUME TypeOK, NEW ok \in BOOLEAN, Checked(ok)
    PROVE  /\ Len(checks') >= Len(checks)
           /\ Len(checks') >= 1
           /\ Len(checks') <= MaxFailures
           /\ Len(checks) < MaxFailures => Len(checks') = Len(checks) + 1
           /\ checks'[Len(checks')] = ok
           /\ \A i \in 1 .. Len(checks') - 1 :
                checks'[Len(checks') - i] = checks[Len(checks) + 1 - i]
  <1> DEFINE all == Append(checks, ok)
  <1>1. checks \in Seq(BOOLEAN) /\ Len(checks) <= MaxFailures /\ MaxFailures \in Nat \ {0}
    BY FailuresAssumption DEF TypeOK
  <1>2. all \in Seq(BOOLEAN) /\ Len(all) = Len(checks) + 1
    BY <1>1
  <1>3. all[Len(all)] = ok /\ \A i \in 1 .. Len(checks) : all[i] = checks[i]
    BY <1>1
  <1>4. checks' = IF Len(all) > MaxFailures THEN Tail(all) ELSE all
    BY DEF Checked
  <1> HIDE DEF all
  <1>5. CASE Len(all) > MaxFailures
    <2>1. checks' = Tail(all) /\ Len(checks) = MaxFailures
      BY <1>1, <1>2, <1>4, <1>5
    <2>2. Len(Tail(all)) = Len(checks) /\ \A i \in 1 .. Len(checks) : Tail(all)[i] = all[i + 1]
      BY <1>1, <1>2
    <2>3. checks'[Len(checks')] = ok
      BY <1>1, <1>2, <1>3, <2>1, <2>2, SMTT(30)
    <2>4. ASSUME NEW i \in 1 .. Len(checks') - 1
          PROVE  checks'[Len(checks') - i] = checks[Len(checks) + 1 - i]
      BY <1>1, <1>2, <1>3, <2>1, <2>2, SMTT(30)
    <2>5. Len(checks') = Len(checks) /\ Len(checks) = MaxFailures
      BY <2>1, <2>2
    <2> QED
      BY <1>1, <2>3, <2>4, <2>5
  <1>6. CASE ~(Len(all) > MaxFailures)
    <2>1. checks' = all
      BY <1>4, <1>6
    <2>2. ASSUME NEW i \in 1 .. Len(checks') - 1
          PROVE  checks'[Len(checks') - i] = checks[Len(checks) + 1 - i]
      BY <1>1, <1>2, <1>3, <2>1
    <2> QED
      BY <1>1, <1>2, <1>3, <1>6, <2>1, <2>2
  <1> QED
    BY <1>5, <1>6

\* The monitor looks at the process.
LEMMA LooksKeeps ==
    ASSUME LifeInv, MonitorLooks
    PROVE  LifeInv'
  <1> USE DEF MonitorLooks, Reaped
  <1>1. TypeOK'
    BY DEF LifeInv, TypeOK, Ended, Phases
  <1>2. Phases'
    BY DEF LifeInv, TypeOK, Phases, Ended
  <1>3. Counting'
    BY DEF LifeInv, Counting
  <1>4. DownForCause'
    BY DEF LifeInv, DownForCause, Phases, TypeOK
  <1>5. NoLeaderLeft'
    BY DEF LifeInv, NoLeaderLeft
  <1> QED
    BY <1>1, <1>2, <1>3, <1>4, <1>5 DEF LifeInv

\* The monitor asks vLLM: a success resets the count, and the count is that of
\* the failures at the end of the history.
LEMMA AsksKeeps ==
    ASSUME LifeInv, MonitorAsks
    PROVE  LifeInv'
  <1>1. /\ life = "serving" /\ monitor = "get" /\ ~event /\ failures < MaxFailures
        /\ UNCHANGED <<life, stopping, process, leader, workers, api, sigterm, termed>>
    BY DEF MonitorAsks, LifeInv, Counting, os
  <1>2. TypeOK /\ failures \in Nat /\ MaxFailures \in Nat \ {0}
    BY FailuresAssumption DEF LifeInv, TypeOK
  <1>3. CASE CheckOk
    <2>1. Checked(TRUE) /\ monitor' = "sleep" /\ failures' = 0 /\ event' = event
      BY <1>3 DEF CheckOk
    <2>2. checks' \in Seq(BOOLEAN) /\ Len(checks') <= MaxFailures /\ Len(checks') \in Nat
      <3>1. checks' \in Seq(BOOLEAN) /\ Len(checks') <= MaxFailures
        BY <1>2, <2>1, CheckedKeeps
      <3> QED
        BY <3>1
    <2>3. TypeOK'
      BY <1>1, <1>2, <2>1, <2>2 DEF TypeOK, Ended
    <2>4. Counting'
      BY <1>1, <1>2, <2>1, <2>2 DEF Counting
    <2> QED
      BY <1>1, <2>1, <2>3, <2>4 DEF LifeInv, Phases, DownForCause, NoLeaderLeft
  <1>4. CASE CheckFails
    <2>1. Checked(FALSE) /\ failures' = failures + 1
      BY <1>4 DEF CheckFails
    <2>2. IF failures' >= MaxFailures
            THEN monitor' = "over" /\ event' = TRUE
            ELSE monitor' = "sleep" /\ event' = event
      BY <1>4 DEF CheckFails
    <2>3. checks' \in Seq(BOOLEAN) /\ Len(checks') <= MaxFailures /\ Len(checks') \in Nat
      <3>1. checks' \in Seq(BOOLEAN) /\ Len(checks') <= MaxFailures
        BY <1>2, <2>1, CheckedKeeps
      <3> QED
        BY <3>1
    <2>4. TypeOK'
      <3>1. failures' \in 0 .. MaxFailures
        BY <1>1, <1>2, <2>1
      <3>2. monitor' \in {"sleep", "over"}
        BY <2>2
      <3>3. event' \in BOOLEAN
        BY <1>2, <2>2 DEF TypeOK
      <3> QED
        BY <1>1, <1>2, <2>3, <3>1, <3>2, <3>3 DEF TypeOK, Ended
    <2>5. /\ Len(checks') >= Len(checks) /\ Len(checks') >= 1
          /\ Len(checks) < MaxFailures => Len(checks') = Len(checks) + 1
          /\ checks'[Len(checks')] = FALSE
          /\ \A i \in 1 .. Len(checks') - 1 :
               checks'[Len(checks') - i] = checks[Len(checks) + 1 - i]
      BY <1>2, <2>1, LastChecks
    <2>6. failures <= Len(checks) /\ Len(checks) <= MaxFailures /\ Len(checks) \in Nat
      BY <1>2 DEF LifeInv, Counting, TypeOK
    <2>7. failures' <= Len(checks')
      BY <1>1, <1>2, <2>1, <2>3, <2>5, <2>6
    <2>8. ASSUME NEW i \in 1 .. failures'
          PROVE  ~checks'[Len(checks') + 1 - i]
      <3>1. CASE i = 1
        BY <2>3, <2>5, <3>1
      <3>2. CASE i > 1
        <4>1. i - 1 \in 1 .. failures /\ i - 1 \in 1 .. Len(checks') - 1
          BY <1>2, <2>1, <2>3, <2>7, <3>2
        <4>2. ~checks[Len(checks) + 1 - (i - 1)]
          BY <4>1 DEF LifeInv, Counting
        <4>3. checks'[Len(checks') - (i - 1)] = checks[Len(checks) + 1 - (i - 1)]
          BY <2>5, <4>1
        <4>4. Len(checks') - (i - 1) = Len(checks') + 1 - i
          BY <2>3
        <4> QED
          BY <4>2, <4>3, <4>4
      <3> QED
        BY <1>2, <3>1, <3>2
    <2>9. Counting'
      BY <1>1, <1>2, <2>1, <2>2, <2>7, <2>8 DEF Counting
    <2>10. DownForCause'
      <3>1. CASE failures' >= MaxFailures
        <4>1. Len(checks') = MaxFailures /\ failures' = MaxFailures
          BY <1>1, <1>2, <2>1, <2>3, <2>7, <3>1
        <4>2. ASSUME NEW i \in 1 .. MaxFailures
              PROVE  ~checks'[i]
          <5>1. MaxFailures + 1 - i \in 1 .. failures'
            BY <1>2, <4>1
          <5>2. Len(checks') + 1 - (MaxFailures + 1 - i) = i
            BY <1>2, <4>1
          <5> QED
            BY <2>8, <5>1, <5>2
        <4> QED
          BY <4>1, <4>2 DEF DownForCause
      <3>2. CASE ~(failures' >= MaxFailures)
        BY <1>1, <2>2, <3>2 DEF DownForCause
      <3> QED
        BY <3>1, <3>2
    <2>11. Phases' /\ NoLeaderLeft'
      BY <1>1, <2>2 DEF LifeInv, Phases, NoLeaderLeft
    <2> QED
      BY <2>4, <2>9, <2>10, <2>11 DEF LifeInv
  <1> QED
    BY <1>3, <1>4 DEF MonitorAsks

\* Every step of vLLM and of the service that runs it keeps the invariant.
LEMMA LifeStepKeeps == LifeInv /\ [Next]_vars => LifeInv'
  <1> SUFFICES ASSUME LifeInv, [Next]_vars PROVE LifeInv'
    OBVIOUS
  <1>1. CASE UNCHANGED vars
    BY <1>1 DEF vars, os, mon, LifeInv, TypeOK, Ended, Counting, Phases, DownForCause,
                NoLeaderLeft
  <1>2. CASE Next
    BY <1>1, <1>2, VllmKeeps, StartKeeps, ServingKeeps, StopKeeps, LooksKeeps, AsksKeeps
       DEF Next, Service, Finished
  <1> QED
    BY <1>1, <1>2

\* The invariant of the lifecycle holds throughout, for every MaxFailures.
THEOREM LifeInvariant == Spec => []LifeInv
  BY LifeInit, LifeStepKeeps, PTL DEF Spec

-----------------------------------------------------------------------------
(* The client of the recogniser *)

\* While a call is under way its attempts are those of its posts, all of which
\* have been lost.
Attempts ==
    \A c \in Calls :
        /\ call[c] \in {"idle", "encode", "post"} =>
             Len(posts[c]) = attempt[c] /\ attempt[c] < MaxRetries
        /\ call[c] = "sleep" => Len(posts[c]) = attempt[c] + 1 /\ attempt[c] < MaxRetries

\* Every post but the last was lost, and a call that may still post has lost all.
LostSoFar ==
    \A c \in Calls :
        /\ \A i \in 1 .. Len(posts[c]) - 1 : posts[c][i] = "lost"
        /\ call[c] \in {"idle", "encode", "post", "sleep", "broken"} =>
             \A i \in 1 .. Len(posts[c]) : posts[c][i] = "lost"

AsrInv == AsrTypeOK /\ Attempts /\ LostSoFar /\ RetriesForCause

\* The invariant of the client holds before the first recognition.
LEMMA AsrInitially == AsrInit => AsrInv
  <1> SUFFICES ASSUME AsrInit PROVE AsrInv
    OBVIOUS
  <1>1. AsrTypeOK
    <2>1. <<>> \in Seq(PostEndings) /\ 0 \in 0 .. MaxRetries
      BY RetriesAssumption
    <2> QED
      BY <2>1 DEF AsrInit, AsrTypeOK
  <1>2. \A c \in Calls : posts[c] = <<>> /\ call[c] = "idle" /\ attempt[c] = 0
    BY DEF AsrInit
  <1> QED
    BY <1>1, <1>2, RetriesAssumption DEF AsrInv, Attempts, LostSoFar, RetriesForCause

\* A step of call d that makes no post.
NoPost(d) ==
    /\ posts' = posts
    /\ \A c \in Calls : c # d => call'[c] = call[c] /\ attempt'[c] = attempt[c]
    /\ \/ call'[d] \in {"raised", "cancelled"}
       \/ call'[d] = "encode" /\ call[d] = "idle" /\ attempt'[d] = attempt[d]
       \/ call'[d] = "post" /\ call[d] = "encode" /\ attempt'[d] = attempt[d]
       \/ /\ call[d] = "sleep" /\ attempt'[d] = attempt[d] + 1
          /\ \/ call'[d] = "post" /\ attempt'[d] < MaxRetries
             \/ call'[d] = "broken" /\ ~(attempt'[d] < MaxRetries)

\* A step that ends no post keeps the invariant of the client.
LEMMA NoPostKeeps ==
    ASSUME AsrInv, NEW d \in Calls, AsrTypeOK', NoPost(d)
    PROVE  AsrInv'
  <1>1. \A c \in Calls : Len(posts[c]) \in Nat /\ attempt[c] \in Nat /\ MaxRetries \in Nat
    BY RetriesAssumption DEF AsrInv, AsrTypeOK
  <1>2. Attempts'
    BY <1>1 DEF AsrInv, Attempts, NoPost
  <1>3. LostSoFar'
    BY <1>1 DEF AsrInv, LostSoFar, NoPost
  <1>4. RetriesForCause'
    BY <1>1 DEF AsrInv, Attempts, LostSoFar, RetriesForCause, NoPost
  <1> QED
    BY <1>2, <1>3, <1>4 DEF AsrInv

\* The post of call d ends with o.
LEMMA PostKeeps ==
    ASSUME AsrInv, NEW d \in Calls, NEW o \in PostEndings, PostEnds(d, o)
    PROVE  AsrInv'
  <1> DEFINE p == After(o)
  <1>0. \/ o = "lost" /\ p = "sleep"
        \/ o = "text" /\ p = "text"
        \/ o = "status" /\ p = "asrerror"
        \/ o = "raised" /\ p = "raised"
    BY DEF After, PostEndings, Answers
  <1>1. /\ call[d] = "post" /\ call' = [call EXCEPT ![d] = p]
        /\ posts' = [posts EXCEPT ![d] = Append(posts[d], o)]
        /\ reply' = [reply EXCEPT ![d] = FALSE] /\ open' = open /\ attempt' = attempt
    BY DEF PostEnds, Moves
  <1> HIDE DEF p
  <1>2. AsrTypeOK
    BY DEF AsrInv
  <1>3. \A c \in Calls : posts[c] \in Seq(PostEndings) /\ Len(posts[c]) \in Nat
                         /\ attempt[c] \in Nat /\ MaxRetries \in Nat
    BY RetriesAssumption DEF AsrInv, AsrTypeOK
  <1>4. Append(posts[d], o) \in Seq(PostEndings)
    BY <1>3
  <1>5. AsrTypeOK'
    BY <1>0, <1>1, <1>2, <1>4 DEF AsrTypeOK, Busy, CallOver
  <1>6. /\ posts'[d] = Append(posts[d], o) /\ call'[d] = p
        /\ \A c \in Calls : c # d => posts'[c] = posts[c] /\ call'[c] = call[c]
    BY <1>1, <1>2 DEF AsrTypeOK
  <1>7. /\ Len(posts'[d]) = Len(posts[d]) + 1 /\ posts'[d][Len(posts[d]) + 1] = o
        /\ \A i \in 1 .. Len(posts[d]) : posts'[d][i] = posts[d][i]
    BY <1>3, <1>6
  <1>8. /\ Len(posts[d]) = attempt[d] /\ attempt[d] < MaxRetries
        /\ \A i \in 1 .. Len(posts[d]) : posts[d][i] = "lost"
    BY <1>1 DEF AsrInv, Attempts, LostSoFar
  <1>9. Attempts'
    BY <1>0, <1>1, <1>3, <1>6, <1>7, <1>8 DEF AsrInv, Attempts
  <1>10. \A i \in 1 .. Len(posts'[d]) : i = Len(posts[d]) + 1 \/ i \in 1 .. Len(posts[d])
    BY <1>3, <1>7
  <1>11. LostSoFar'
    <2>1. ASSUME NEW c \in Calls, c # d
          PROVE  /\ \A i \in 1 .. Len(posts'[c]) - 1 : posts'[c][i] = "lost"
                 /\ call'[c] \in {"idle", "encode", "post", "sleep", "broken"} =>
                      \A i \in 1 .. Len(posts'[c]) : posts'[c][i] = "lost"
      BY <1>6, <2>1 DEF AsrInv, LostSoFar
    <2>2. ASSUME NEW i \in 1 .. Len(posts'[d]) - 1
          PROVE  posts'[d][i] = "lost"
      <3>1. i \in 1 .. Len(posts[d])
        BY <1>3, <1>7
      <3> QED
        BY <1>7, <1>8, <3>1
    <2>3. p \in {"sleep"} => \A i \in 1 .. Len(posts'[d]) : posts'[d][i] = "lost"
      BY <1>0, <1>3, <1>7, <1>8, <1>10
    <2> QED
      BY <1>0, <1>6, <2>1, <2>2, <2>3 DEF LostSoFar
  <1>12. RetriesForCause'
    BY <1>0, <1>1, <1>3, <1>6, <1>7, <1>8, <1>10 DEF AsrInv, RetriesForCause
  <1> QED
    BY <1>5, <1>9, <1>11, <1>12 DEF AsrInv

\* Every step of the client and of the calls that use it keeps its invariant.
LEMMA AsrStepKeeps == AsrInv /\ [AsrNext]_asrVars => AsrInv'
  <1> SUFFICES ASSUME AsrInv, [AsrNext]_asrVars PROVE AsrInv'
    OBVIOUS
  <1>1. AsrTypeOK
    BY DEF AsrInv
  <1>2. CASE UNCHANGED asrVars \/ Startup \/ Shutdown
    <2>1. UNCHANGED callVars /\ open' \in BOOLEAN
      BY <1>1, <1>2 DEF asrVars, Startup, Shutdown, AsrTypeOK
    <2> QED
      BY <2>1 DEF callVars, AsrInv, AsrTypeOK, Attempts, LostSoFar, RetriesForCause
  <1>3. ASSUME NEW c \in Calls, Recognize(c) \/ Encoded(c) \/ Wakes(c) \/ Cancelled(c)
        PROVE  AsrInv'
    <2>1. CASE Recognize(c)
      <3>1. \E q \in {"encode", "raised"} : call' = [call EXCEPT ![c] = q]
        BY <2>1 DEF Recognize, Moves
      <3>2. AsrTypeOK' /\ UNCHANGED <<attempt, posts>> /\ call[c] = "idle"
        BY <1>1, <2>1, <3>1 DEF Recognize, AsrTypeOK, Busy, CallOver
      <3>3. /\ call'[c] \in {"encode", "raised"}
            /\ \A d \in Calls : d # c => call'[d] = call[d] /\ attempt'[d] = attempt[d]
        BY <1>1, <3>1, <3>2 DEF AsrTypeOK
      <3>4. NoPost(c)
        BY <3>2, <3>3 DEF NoPost
      <3> QED
        BY <3>2, <3>4, NoPostKeeps
    <2>2. CASE Encoded(c)
      <3>1. \E q \in {"post", "raised"} : call' = [call EXCEPT ![c] = q]
        BY <2>2 DEF Encoded, ToPost, Moves
      <3>2. AsrTypeOK' /\ UNCHANGED <<attempt, posts>> /\ call[c] = "encode"
        BY <1>1, <2>2, <3>1 DEF Encoded, AsrTypeOK, Busy, CallOver
      <3>3. /\ call'[c] \in {"post", "raised"}
            /\ \A d \in Calls : d # c => call'[d] = call[d] /\ attempt'[d] = attempt[d]
        BY <1>1, <3>1, <3>2 DEF AsrTypeOK
      <3>4. NoPost(c)
        BY <3>2, <3>3 DEF NoPost
      <3> QED
        BY <3>2, <3>4, NoPostKeeps
    <2>3. CASE Wakes(c)
      <3>1. attempt[c] + 1 \in 0 .. MaxRetries
        BY <1>1, <2>3, RetriesAssumption DEF Wakes, AsrInv, Attempts, AsrTypeOK
      <3>2. \E q \in {"post", "broken", "raised"} :
              /\ call' = [call EXCEPT ![c] = q]
              /\ q = "post" => attempt'[c] < MaxRetries
              /\ q = "broken" => ~(attempt'[c] < MaxRetries)
        BY <2>3 DEF Wakes, ToPost, Moves
      <3>3. /\ attempt' = [attempt EXCEPT ![c] = attempt[c] + 1]
            /\ UNCHANGED <<open, reply, posts>> /\ call[c] = "sleep"
        BY <2>3 DEF Wakes
      <3>4. AsrTypeOK'
        BY <1>1, <3>1, <3>2, <3>3 DEF AsrTypeOK, Busy, CallOver
      <3>5. /\ call'[c] \in {"post", "broken", "raised"}
            /\ attempt'[c] = attempt[c] + 1
            /\ call'[c] = "post" => attempt'[c] < MaxRetries
            /\ call'[c] = "broken" => ~(attempt'[c] < MaxRetries)
            /\ \A d \in Calls : d # c => call'[d] = call[d] /\ attempt'[d] = attempt[d]
        BY <1>1, <3>2, <3>3 DEF AsrTypeOK
      <3>6. NoPost(c)
        BY <3>3, <3>4, <3>5 DEF NoPost
      <3> QED
        BY <3>4, <3>6, NoPostKeeps
    <2>4. CASE Cancelled(c)
      <3>1. /\ call' = [call EXCEPT ![c] = "cancelled"]
            /\ UNCHANGED <<open, attempt, posts>>
            /\ reply' = [reply EXCEPT ![c] = FALSE]
        BY <2>4 DEF Cancelled, Moves
      <3>2. AsrTypeOK'
        BY <1>1, <3>1 DEF AsrTypeOK, Busy, CallOver
      <3>3. /\ call'[c] = "cancelled"
            /\ \A d \in Calls : d # c => call'[d] = call[d] /\ attempt'[d] = attempt[d]
        BY <1>1, <3>1 DEF AsrTypeOK
      <3>4. NoPost(c)
        BY <3>1, <3>2, <3>3 DEF NoPost
      <3> QED
        BY <3>2, <3>4, NoPostKeeps
    <2> QED
      BY <1>3, <2>1, <2>2, <2>3, <2>4
  <1>4. ASSUME NEW c \in Calls, Replied(c) \/ TimesOut(c) \/ Lost(c)
        PROVE  AsrInv'
    <2>1. CASE Replied(c)
      BY <2>1, PostKeeps DEF Replied, PostEndings
    <2>2. CASE TimesOut(c)
      BY <2>2, PostKeeps DEF TimesOut, Answers, PostEndings
    <2>3. CASE Lost(c)
      BY <2>3, PostKeeps DEF Lost, PostEndings
    <2> QED
      BY <1>4, <2>1, <2>2, <2>3
  <1>5. ASSUME NEW c \in Calls, Serves(c)
        PROVE  AsrInv'
    <2>1. AsrTypeOK' /\ UNCHANGED <<call, attempt, posts>>
      BY <1>1, <1>5 DEF Serves, AsrTypeOK
    <2> QED
      BY <2>1 DEF AsrInv, Attempts, LostSoFar, RetriesForCause
  <1> QED
    BY <1>2, <1>3, <1>4, <1>5 DEF AsrNext, CallStep, CallMeets

\* The invariant of the client holds throughout, for every MaxRetries.
THEOREM AsrInvariant == AsrSpec => []AsrInv
  BY AsrInitially, AsrStepKeeps, PTL DEF AsrSpec

-----------------------------------------------------------------------------
(* The service *)

\* A step of the lifecycle alone is a step of VllmLifecycle.
LEMMA LifeStepIsNext == LifeStep => Next
  BY DEF LifeStep, Next, Service

\* A step of the service is a step of vLLM's life, or leaves it alone.
LEMMA StepOfLife == [ServingNext]_servingVars => [Next]_vars
  <1> SUFFICES ASSUME [ServingNext]_servingVars PROVE [Next]_vars
    OBVIOUS
  <1>1. CASE Alone(LifeStep)
    BY <1>1, LifeStepIsNext DEF Alone
  <1>2. CASE StartServices \/ CloseServices
    BY <1>2 DEF StartServices, CloseServices, Next, Service
  <1>3. CASE UNCHANGED servingVars \/ Over
    BY <1>3 DEF Over, servingVars
  <1>4. CASE \E c \in Calls : OfCall(RecognitionStep(c))
    BY <1>4 DEF OfCall
  <1>5. CASE \E s \in Sessions : OfSession(SessionStep(s))
    BY <1>5 DEF OfSession
  <1>6. CASE \E r \in Readers : OpenLog(r) \/ LeaveLog(r)
    BY <1>6 DEF OpenLog, LeaveLog
  <1> QED
    BY <1>1, <1>2, <1>3, <1>4, <1>5, <1>6 DEF ServingNext

\* Likewise of the client of the recogniser.
LEMMA StepOfClient == [ServingNext]_servingVars => [AsrNext]_asrVars
  <1> SUFFICES ASSUME [ServingNext]_servingVars PROVE [AsrNext]_asrVars
    OBVIOUS
  <1>1. CASE Alone(LifeStep)
    BY <1>1 DEF Alone
  <1>2. CASE StartServices \/ CloseServices
    BY <1>2 DEF StartServices, CloseServices, AsrNext
  <1>3. CASE UNCHANGED servingVars \/ Over
    BY <1>3 DEF Over, servingVars
  <1>4. CASE \E c \in Calls : OfCall(RecognitionStep(c))
    BY <1>4 DEF OfCall, RecognitionStep, StartRecognition, VllmServes, TaskRuns, TaskLoses,
                AsrNext, CallMeets
  <1>5. CASE \E s \in Sessions : OfSession(SessionStep(s))
    BY <1>5 DEF OfSession
  <1>6. CASE \E r \in Readers : OpenLog(r) \/ LeaveLog(r)
    BY <1>6 DEF OpenLog, LeaveLog
  <1> QED
    BY <1>1, <1>2, <1>3, <1>4, <1>5, <1>6 DEF ServingNext

\* The service implements the life of vLLM: its recognitions, its readers and
\* the wait for them take nothing from lifespan, start, stop and the monitor.
THEOREM LifeImplemented == ServingSpec => Spec
  BY StepOfLife, PTL DEF ServingSpec, ServingInit, Spec

\* It implements the client of the recogniser, whose vLLM may answer at will.
THEOREM ClientImplemented == ServingSpec => AsrSpec
  BY StepOfClient, PTL DEF ServingSpec, ServingInit, AsrSpec

\* When the service has stopped in order vLLM is gone and waited for, with any
\* recognitions and any readers.
THEOREM ServingLeavesNoLeader == ServingSpec => []NoLeaderLeft
  BY LifeImplemented, LifeInvariant, PTL DEF LifeInv

\* The monitor ends the service for the death of vLLM or for MaxFailures
\* failures in a row, for every MaxFailures.
THEOREM ServingDownForCause == ServingSpec => []DownForCause
  BY LifeImplemented, LifeInvariant, PTL DEF LifeInv

\* A post is repeated only after broken connections, at most MaxRetries times,
\* for every MaxRetries and any number of calls.
THEOREM ServingRetriesForCause == ServingSpec => []RetriesForCause
  BY ClientImplemented, AsrInvariant, PTL DEF AsrInv

\* The sessions and the readers keep their types.
LEMMA SessionTypesKept == SessionTypeOK /\ [ServingNext]_servingVars => SessionTypeOK'
  <1> SUFFICES ASSUME SessionTypeOK, [ServingNext]_servingVars PROVE SessionTypeOK'
    OBVIOUS
  <1>1. CASE Alone(LifeStep) \/ StartServices \/ CloseServices \/ Over \/ UNCHANGED servingVars
    BY <1>1 DEF Alone, StartServices, CloseServices, Over, servingVars, sessionVars, SessionTypeOK
  <1>2. ASSUME NEW c \in Calls, OfCall(RecognitionStep(c))
        PROVE  SessionTypeOK'
    BY <1>2 DEF OfCall, sessionVars, SessionTypeOK
  <1>3. ASSUME NEW s \in Sessions, OfSession(SessionStep(s))
        PROVE  SessionTypeOK'
    <2>1. reading' = reading /\ SessionStep(s)
      BY <1>3 DEF OfSession
    <2>2. \E p \in {"streaming", "gather", "over"} : endpoint' = [endpoint EXCEPT ![s] = p]
      BY <2>1 DEF SessionStep, Connect, EndFrame, Gathered, Breaks, CloseSession
    <2>3. cancelled' \in SUBSET Calls
      <3>1. Running(s) \subseteq Calls
        BY SessionsAssumption DEF Running
      <3> QED
        BY <2>1, <3>1 DEF SessionTypeOK, SessionStep, Connect, EndFrame, Gathered, Breaks,
                          CloseSession
    <2> QED
      BY <2>1, <2>2, <2>3 DEF SessionTypeOK, Here
  <1>4. ASSUME NEW r \in Readers, OpenLog(r) \/ LeaveLog(r)
        PROVE  SessionTypeOK'
    BY <1>4 DEF OpenLog, LeaveLog, sessionVars, SessionTypeOK
  <1> QED
    BY <1>1, <1>2, <1>3, <1>4 DEF ServingNext

\* The types of sessions and readers hold throughout.
LEMMA SessionTypes == ServingSpec => []SessionTypeOK
  <1>1. ServingInit => SessionTypeOK
    BY DEF ServingInit, SessionTypeOK
  <1> QED
    BY <1>1, SessionTypesKept, PTL DEF ServingSpec

\* In the service the lifecycle, the recogniser's client and the sessions keep
\* their types, for any sessions, calls and readers, every MaxFailures and every
\* MaxRetries.
THEOREM ServingHasTypes == ServingSpec => []ServingTypeOK
  <1>1. LifeInv /\ AsrInv /\ SessionTypeOK => ServingTypeOK
    BY DEF LifeInv, AsrInv, ServingTypeOK
  <1> QED
    BY <1>1, LifeImplemented, LifeInvariant, ClientImplemented, AsrInvariant, SessionTypes, PTL

\* The client is open, and endpoints run, exactly while the service is up; a call
\* whose endpoint has gone has been cancelled.  That is what a session's end has
\* to establish: uvicorn waits for the endpoint alone.
InsideLife ==
    /\ open <=> life = "serving"
    /\ \A s \in Sessions : endpoint[s] \in Here => life = "serving"
    /\ \A c \in Calls : call[c] \in Busy /\ c \notin cancelled =>
         \E s \in Sessions : c \in s /\ endpoint[s] \in Here

\* A step of a session keeps its calls inside: one that ends cancels those that
\* have not ended.
LEMMA SessionKeepsInside ==
    ASSUME InsideLife, SessionTypeOK, NEW s \in Sessions, OfSession(SessionStep(s))
    PROVE  InsideLife'
  <1>1. UNCHANGED <<life, open, call>>
    BY DEF OfSession, vars, asrVars, callVars
  <1>2. CASE Connect(s)
    <2>1. /\ endpoint[s] = "none" /\ life = "serving" /\ cancelled' = cancelled
          /\ \A t \in Sessions : t # s => endpoint'[t] = endpoint[t]
      BY <1>2 DEF Connect, SessionTypeOK
    <2> QED
      BY <1>1, <2>1 DEF InsideLife, Here
  <1>3. CASE EndFrame(s)
    <2>1. /\ endpoint[s] = "streaming" /\ endpoint'[s] = "gather" /\ cancelled' = cancelled
          /\ \A t \in Sessions : t # s => endpoint'[t] = endpoint[t]
      BY <1>3 DEF EndFrame, SessionTypeOK
    <2>2. \A t \in Sessions : endpoint'[t] \in Here <=> endpoint[t] \in Here
      BY <2>1 DEF Here
    <2> QED
      BY <1>1, <2>1, <2>2 DEF InsideLife
  <1>4. CASE CloseSession(s)
    <2>1. /\ endpoint'[s] = "over" /\ cancelled' = cancelled \cup Running(s)
          /\ \A t \in Sessions : t # s => endpoint'[t] = endpoint[t]
      BY <1>4 DEF CloseSession, SessionTypeOK
    <2>2. \A t \in Sessions : endpoint'[t] \in Here => endpoint[t] \in Here
      BY <2>1 DEF Here
    <2>3. ASSUME NEW c \in Calls, call'[c] \in Busy, c \notin cancelled'
          PROVE  \E t \in Sessions : c \in t /\ endpoint'[t] \in Here
      <3>1. call[c] \in Busy /\ c \notin cancelled /\ c \notin s
        BY <1>1, <2>1, <2>3 DEF Running
      <3>2. PICK t \in Sessions : c \in t /\ endpoint[t] \in Here
        BY <3>1 DEF InsideLife
      <3> QED
        BY <2>1, <3>1, <3>2
    <2> QED
      BY <1>1, <2>2, <2>3 DEF InsideLife
  <1> QED
    BY <1>2, <1>3, <1>4 DEF OfSession, SessionStep, Gathered, Breaks

\* Every step of the service keeps its client open for as long as it serves, and
\* its calls inside that time.
LEMMA InsideLifeKept ==
    LifeInv /\ AsrInv /\ SessionTypeOK /\ InsideLife /\ [ServingNext]_servingVars => InsideLife'
  <1> SUFFICES ASSUME LifeInv, AsrInv, SessionTypeOK, InsideLife, [ServingNext]_servingVars
               PROVE  InsideLife'
    OBVIOUS
  <1>1. AsrTypeOK /\ Phases /\ TypeOK
    BY DEF AsrInv, LifeInv
  <1>2. CASE Alone(LifeStep)
    <2>1. UNCHANGED <<open, call, endpoint, cancelled>>
      BY <1>2 DEF Alone, asrVars, callVars, sessionVars
    <2>2. life' = "serving" <=> life = "serving"
      <3>1. CASE Vllm \/ Sigterm \/ Watch \/ MonitorLooks \/ MonitorAsks
        BY <3>1 DEF Vllm, LeaderForks, LeaderExits, WorkersExit, ApiChanges, Sigterm, Watch,
                    MonitorLooks, MonitorAsks
      <3>2. CASE Popen \/ StartPolls \/ StartAsks \/ StartGivesUp
        BY <3>2 DEF Popen, StartPolls, StartAsks, StartGivesUp
      <3>3. CASE Stop
        BY <1>1, <3>3 DEF Phases, Stop, StopFindsGroup, StopTerminates, StopWaits, StopExpires,
                          StopKills, StopReaps, Stopped
      <3> QED
        BY <1>2, <3>1, <3>2, <3>3 DEF Alone, LifeStep
    <2> QED
      BY <2>1, <2>2 DEF InsideLife
  <1>3. CASE StartServices
    <2>1. life = "itn" /\ UNCHANGED <<call, endpoint, cancelled>>
      BY <1>3 DEF StartServices, StartItn, Startup, asrVars, callVars, sessionVars
    <2>2. open' <=> life' = "serving"
      BY <1>3, <2>1 DEF StartServices, Startup, asrVars, InsideLife
    <2> QED
      BY <2>1, <2>2 DEF InsideLife
  <1>4. CASE CloseServices
    <2>1. \A s \in Sessions : endpoint[s] \notin Here
      BY <1>4 DEF CloseServices
    <2>2. open' = FALSE /\ life' = "stop" /\ UNCHANGED <<call, endpoint, cancelled>>
      BY <1>4 DEF CloseServices, Close, Shutdown, callVars, sessionVars
    <2> QED
      BY <2>1, <2>2 DEF InsideLife
  <1>5. CASE UNCHANGED servingVars \/ Over
    BY <1>5 DEF Over, servingVars, vars, asrVars, callVars, sessionVars, InsideLife
  <1>6. ASSUME NEW c \in Calls, OfCall(RecognitionStep(c))
        PROVE  InsideLife'
    <2>1. UNCHANGED <<life, endpoint, cancelled>>
      BY <1>6 DEF OfCall, vars, sessionVars
    <2>2. open' = open
      BY <1>6 DEF OfCall, RecognitionStep, StartRecognition, Recognize, VllmServes, Serves,
                  TaskRuns, TaskLoses, CallStep, Encoded, Replied, PostEnds, TimesOut, Wakes,
                  Lost, Cancelled
    <2>3. call[c] \in Busy \/ \E s \in Sessions : c \in s /\ endpoint[s] \in Here
      BY <1>6 DEF OfCall, RecognitionStep, StartRecognition, VllmServes, Serves,
                  TaskRuns, TaskLoses, CallStep, Encoded, Replied, PostEnds, TimesOut, Wakes,
                  Lost, Cancelled, Busy
    <2>4. \A d \in Calls : d # c => call'[d] = call[d]
      <3>1. call \in [Calls -> {"idle"} \cup Busy \cup CallOver]
        BY <1>1 DEF AsrTypeOK
      <3>2. call' = call \/ \E p : call' = [call EXCEPT ![c] = p]
        BY <1>6 DEF OfCall, RecognitionStep, StartRecognition, Recognize, VllmServes, Serves,
                    TaskRuns, TaskLoses, CallStep, Encoded, Replied, PostEnds, TimesOut, Wakes,
                    Lost, Cancelled, ToPost, Moves
      <3> QED
        BY <3>1, <3>2
    <2> QED
      BY <2>1, <2>2, <2>3, <2>4 DEF InsideLife
  <1>7. ASSUME NEW s \in Sessions, OfSession(SessionStep(s))
        PROVE  InsideLife'
    BY <1>7, SessionKeepsInside
  <1>8. CASE \E r \in Readers : OpenLog(r) \/ LeaveLog(r)
    BY <1>8 DEF OpenLog, LeaveLog, vars, asrVars, callVars, sessionVars, InsideLife
  <1> QED
    BY <1>2, <1>3, <1>4, <1>5, <1>6, <1>7, <1>8 DEF ServingNext

\* A call that has begun and has not been cancelled keeps its client and a service
\* that is up: a session that ends before its calls cancels all of them, and
\* uvicorn waits for the sessions.
THEOREM ServingKeepsCalls == ServingSpec => []CallsHaveServer
  <1>1. ServingInit => InsideLife
    BY DEF ServingInit, Init, AsrInit, InsideLife, Busy, Here
  <1>2. ServingSpec => []LifeInv /\ []AsrInv /\ []SessionTypeOK
    BY LifeImplemented, LifeInvariant, ClientImplemented, AsrInvariant, SessionTypes, PTL
  <1>3. LifeInv /\ InsideLife => CallsHaveServer
    BY DEF LifeInv, Phases, InsideLife, CallsHaveServer
  <1> QED
    BY <1>1, <1>2, <1>3, InsideLifeKept, PTL DEF ServingSpec
==============================================================================
