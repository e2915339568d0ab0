---------------------------- MODULE SessionProofs ----------------------------
(***************************************************************************)
(* Proofs about Session, for every number of segments and of audio frames. *)
(***************************************************************************)
EXTENDS Session, TLAPS

-----------------------------------------------------------------------------
(* The invariant that makes TypeOK inductive. *)

Active == {"work", "push", "send", "epush", "esend", "elock", "report"}

\* Numbers are handed out in the order in which the tasks were created.
Numbering ==
    /\ seg_id <= created
    /\ \A t \in Tasks : t >= created <=> pc[t] = "none"
    /\ \A t \in Tasks : pc[t] \in Active => t < seg_id
    /\ \A t \in Tasks : pc[t] = "ready" => t >= seg_id
    /\ hpc # "done" => \A u \in Tasks : seg_id <= u /\ u < created => pc[u] = "ready"
    /\ \A t \in Tasks : t < seg_id => segId[t] = t

\* The handler can cancel every task that is not over.
Tracking ==
    \A t \in Tasks : Live(t) =>
        IF hpc = "done" THEN pc[t] = "cancelled" ELSE t \in tracked /\ pc[t] # "cancelled"

Inv1 == TypeOK /\ Numbering /\ Tracking

USE DEF Tasks, SegIds, None, Empty, HandlerId

\* The initial state satisfies Inv1.
LEMMA InitInv1 == Init => Inv1
BY SegsAssumption, FramesAssumption
   DEF Init, Inv1, TypeOK, Numbering, Tracking, Live, HandlerPc, TaskPc, Active, Frame

\* A frame handed to the client keeps the wire a sequence of frames.
LEMMA WriteType ==
    ASSUME TypeOK, NEW k \in Kinds, NEW t \in Tasks \cup {None}, Write(k, t)
    PROVE  wire' \in Seq(Frame)
<1> DEFINE f == [kind |-> k, task |-> t]
<1>1. f \in Frame BY DEF Frame
<1>2. wire \in Seq(Frame) BY DEF TypeOK
<1> HIDE DEF f
<1>3. Append(wire, f) \in Seq(Frame) BY <1>1, <1>2
<1> QED BY <1>2, <1>3 DEF Write, f

\* The reorder loop keeps the types of what it touches, and moves its task on.
LEMMA DrainType ==
    ASSUME TypeOK, NEW t \in Tasks, NEW buf \in [SegIds -> Tasks \cup {None, Empty}],
           NEW n \in Nat, Drain(t, buf, n)
    PROVE  /\ buffer' \in [SegIds -> Tasks \cup {None, Empty}]
           /\ nextSend' \in SegIds
           /\ wire' \in Seq(Frame)
           /\ lock' \in {None, t}
           /\ \E p \in {"done", "elock", "send", "esend", "epush"} : pc' = [pc EXCEPT ![t] = p]
<1> PICK m \in n .. MaxSegs :
        /\ nextSend' = m
        /\ buffer' = Popped(buf, n, m)
        /\ DrainStops(t, buf, n, m) \/ DrainSends(t, buf, n, m) \/ DrainRaises(t, buf, n, m)
    BY DEF Drain
<1>1. buffer' \in [SegIds -> Tasks \cup {None, Empty}] BY DEF Popped
<1>2. nextSend' \in SegIds BY SegsAssumption
<1>3. CASE DrainStops(t, buf, n, m) BY <1>1, <1>2, <1>3 DEF DrainStops, TypeOK
<1>4. CASE DrainSends(t, buf, n, m)
  <2>1. wire' \in Seq(Frame) BY <1>4, WriteType DEF DrainSends, Kinds
  <2> QED BY <1>1, <1>2, <1>4, <2>1 DEF DrainSends
<1>5. CASE DrainRaises(t, buf, n, m) BY <1>1, <1>2, <1>5 DEF DrainRaises, TypeOK
<1> QED BY <1>3, <1>4, <1>5

\* What a step that only moves task t from one await to the next keeps.
LEMMA MoveInv1 ==
    ASSUME Inv1, NEW t \in Tasks, pc[t] \in Active, NEW p \in Active \cup {"done"},
           pc' = [pc EXCEPT ![t] = p],
           UNCHANGED <<hpc, created, tracked, segId, seg_id>>
    PROVE  Numbering' /\ Tracking' /\ pc' \in [Tasks -> TaskPc]
<1>1. pc' \in [Tasks -> TaskPc] BY DEF Inv1, TypeOK, TaskPc, Active
<1>2. Numbering' BY DEF Inv1, TypeOK, Numbering, TaskPc, Active
<1>3. Tracking' BY DEF Inv1, TypeOK, Tracking, Live, Active
<1> QED BY <1>1, <1>2, <1>3

\* New tasks come last, ready and tracked.
LEMMA SpawnInv1 ==
    ASSUME Inv1, NEW k \in 0 .. MaxSegs, Spawn(k), hpc # "done", hpc' # "done",
           UNCHANGED <<segId, seg_id>>
    PROVE  /\ Numbering' /\ Tracking'
           /\ created' \in 0 .. MaxSegs
           /\ tracked' \in SUBSET Tasks
           /\ pc' \in [Tasks -> TaskPc]
<1> USE DEF Inv1, TypeOK
<1>1. created' \in 0 .. MaxSegs /\ created' = created + k BY DEF Spawn
<1>2. pc' \in [Tasks -> TaskPc] BY DEF Spawn, TaskPc
<1>3. tracked' \in SUBSET Tasks
  <2>1. created .. created + k - 1 \subseteq Tasks BY <1>1, SegsAssumption
  <2> QED BY <2>1 DEF Spawn
<1>4. \A t \in Tasks : pc'[t] = IF t \in created .. created + k - 1 THEN "ready" ELSE pc[t]
    BY DEF Spawn
<1>5. Numbering'
  <2>1. \A t \in Tasks : t >= created' <=> pc'[t] = "none" BY <1>1, <1>4 DEF Numbering
  <2>2. \A t \in Tasks : pc'[t] \in Active => t < seg_id' BY <1>1, <1>4 DEF Numbering, Active
  <2>3. \A t \in Tasks : pc'[t] = "ready" => t >= seg_id' BY <1>1, <1>4 DEF Numbering
  <2>4. \A u \in Tasks : seg_id' <= u /\ u < created' => pc'[u] = "ready"
      BY <1>1, <1>4 DEF Numbering
  <2> QED BY <1>1, <2>1, <2>2, <2>3, <2>4 DEF Numbering
<1>6. Tracking' BY <1>1, <1>4 DEF Tracking, Spawn, Live
<1> QED BY <1>1, <1>2, <1>3, <1>5, <1>6
\* Every step keeps Inv1.
LEMMA StepInv1 == Inv1 /\ [Next]_vars => Inv1'
<1> SUFFICES ASSUME Inv1, [Next]_vars PROVE Inv1'
    OBVIOUS
<1> USE DEF Inv1
<1> USE SegsAssumption, FramesAssumption
<1>1. ASSUME NEW t \in Tasks, TaskStart(t) PROVE Inv1'
  <2>1. hpc # "done" BY <1>1 DEF TaskStart, Tracking, Live
  <2>2. t = seg_id /\ seg_id < created
    <3>1. t >= seg_id /\ t < created BY <1>1 DEF TaskStart, Numbering, TypeOK
    <3>2. seg_id \in Tasks BY <3>1 DEF TypeOK
    <3>3. pc[seg_id] = "ready" BY <2>1, <3>1, <3>2 DEF Numbering, TypeOK
    <3>4. ~(seg_id < t) BY <1>1, <3>2, <3>3 DEF TaskStart
    <3> QED BY <3>1, <3>4 DEF TypeOK
  <2>3. TypeOK'
    <3>1. seg_id' \in 0 .. MaxSegs BY <1>1, <2>2 DEF TaskStart, TypeOK
    <3>2. segId' \in [Tasks -> Tasks \cup {None}] BY <1>1, <2>2 DEF TaskStart, TypeOK
    <3>3. pc' \in [Tasks -> TaskPc] BY <1>1 DEF TaskStart, TypeOK, TaskPc
    <3> QED BY <1>1, <3>1, <3>2, <3>3 DEF TaskStart, TypeOK, hVars, orderVars
  <2>4. Numbering' BY <1>1, <2>1, <2>2 DEF TaskStart, Numbering, TypeOK, Active, hVars
  <2>5. Tracking' BY <1>1, <2>1 DEF TaskStart, Tracking, Live, TypeOK, hVars
  <2> QED BY <2>3, <2>4, <2>5
<1>2. ASSUME NEW t \in Tasks, TaskSucceeds(t) PROVE Inv1'
  <2>1. Numbering' /\ Tracking' /\ pc' \in [Tasks -> TaskPc]
      BY <1>2, MoveInv1 DEF TaskSucceeds, hVars, taskVars, Active
  <2> QED BY <1>2, <2>1 DEF TaskSucceeds, TypeOK, hVars, orderVars
<1>3. ASSUME NEW t \in Tasks, TaskFails(t) PROVE Inv1'
  <2>1. Numbering' /\ Tracking' /\ pc' \in [Tasks -> TaskPc]
      BY <1>3, MoveInv1 DEF TaskFails, hVars, Active
  <2> QED BY <1>3, <2>1 DEF TaskFails, TypeOK, hVars, orderVars
<1>4. ASSUME NEW t \in Tasks, TaskPush(t) PROVE Inv1'
  <2> DEFINE buf == [buffer EXCEPT ![segId[t]] = Stored(t)]
  <2>1. buf \in [SegIds -> Tasks \cup {None, Empty}] BY DEF TypeOK, Stored
  <2>2. nextSend \in Nat /\ Drain(t, buf, nextSend) BY <1>4 DEF TypeOK, TaskPush
  <2> HIDE DEF buf
  <2>3. /\ buffer' \in [SegIds -> Tasks \cup {None, Empty}]
        /\ nextSend' \in SegIds /\ wire' \in Seq(Frame) /\ lock' \in {None, t}
        /\ \E p \in {"done", "elock", "send", "esend", "epush"} : pc' = [pc EXCEPT ![t] = p]
      BY <2>1, <2>2, DrainType
  <2>4. Numbering' /\ Tracking' /\ pc' \in [Tasks -> TaskPc]
      BY <1>4, <2>3, MoveInv1 DEF TaskPush, hVars, taskVars, Active
  <2> QED BY <1>4, <2>3, <2>4 DEF TaskPush, TypeOK, hVars, taskVars
<1>5. ASSUME NEW t \in Tasks, TaskSent(t) PROVE Inv1'
  <2>1. nextSend + 1 \in Nat /\ Drain(t, buffer, nextSend + 1) BY <1>5 DEF TypeOK, TaskSent
  <2>2. buffer \in [SegIds -> Tasks \cup {None, Empty}] BY DEF TypeOK
  <2>3. /\ buffer' \in [SegIds -> Tasks \cup {None, Empty}]
        /\ nextSend' \in SegIds /\ wire' \in Seq(Frame) /\ lock' \in {None, t}
        /\ \E p \in {"done", "elock", "send", "esend", "epush"} : pc' = [pc EXCEPT ![t] = p]
      BY <2>1, <2>2, DrainType
  <2>4. Numbering' /\ Tracking' /\ pc' \in [Tasks -> TaskPc]
      BY <1>5, <2>3, MoveInv1 DEF TaskSent, hVars, taskVars, Active
  <2> QED BY <1>5, <2>3, <2>4 DEF TaskSent, TypeOK, hVars, taskVars
<1>6. ASSUME NEW t \in Tasks, TaskReport(t) PROVE Inv1'
  <2>1. Numbering' /\ Tracking' /\ pc' \in [Tasks -> TaskPc]
      BY <1>6, MoveInv1 DEF TaskReport, hVars, taskVars, Active
  <2>2. wire' \in Seq(Frame) BY <1>6, WriteType DEF TaskReport, TypeOK, Kinds
  <2> QED BY <1>6, <2>1, <2>2 DEF TaskReport, TypeOK, hVars, taskVars, orderVars
<1>7. ASSUME NEW t \in Tasks, TaskReported(t) PROVE Inv1'
  <2>1. Numbering' /\ Tracking' /\ pc' \in [Tasks -> TaskPc]
      BY <1>7, MoveInv1 DEF TaskReported, hVars, taskVars, Active
  <2> QED BY <1>7, <2>1 DEF TaskReported, TypeOK, hVars, taskVars, orderVars
<1>8. ASSUME NEW t \in Tasks, TaskSendFails(t) PROVE Inv1'
  <2>1. Numbering' /\ Tracking' /\ pc' \in [Tasks -> TaskPc]
      BY <1>8, MoveInv1 DEF TaskSendFails, hVars, taskVars, Active
  <2> QED BY <1>8, <2>1 DEF TaskSendFails, TypeOK, hVars, taskVars, orderVars
<1>9. ASSUME NEW t \in Tasks, TaskCancelled(t) PROVE Inv1'
  <2>1. TypeOK' BY <1>9 DEF TaskCancelled, TypeOK, TaskPc, hVars, taskVars, orderVars
  <2>2. hpc = "done" BY <1>9 DEF TaskCancelled, Tracking, Live
  <2>3. Numbering' BY <1>9, <2>2 DEF TaskCancelled, TypeOK, Numbering, Active, hVars, taskVars
  <2>4. Tracking' BY <1>9 DEF TaskCancelled, TypeOK, Tracking, Live, hVars, taskVars
  <2> QED BY <2>1, <2>3, <2>4
<1>10. ASSUME hpc # "done", hpc' # "done", TypeOK',
              UNCHANGED <<pc, created, tracked, segId, seg_id>>
       PROVE  Inv1'
  BY <1>10 DEF Numbering, Tracking, Live, Active
<1>11. ASSUME Hello \/ HelloSent \/ ReceiveAudio \/ HandlerRaises \/ SendEnd \/ EndSent
              \/ SendFatal \/ FatalSent \/ HandlerSendFails \/ ReceiveDisconnect
              \/ CloseBegins \/ CloseEnds
       PROVE  Inv1'
  <2>1. TypeOK'
    <3>1. CASE Hello
      <4>1. wire' \in Seq(Frame) BY <3>1, WriteType DEF Hello, Kinds
      <4> QED BY <3>1, <4>1 DEF Hello, TypeOK, taskVars, orderVars, HandlerPc
    <3>2. CASE SendEnd
      <4>1. wire' \in Seq(Frame) BY <3>2, WriteType DEF SendEnd, Kinds, TypeOK
      <4> QED BY <3>2, <4>1 DEF SendEnd, TypeOK, taskVars, orderVars, HandlerPc
    <3>3. CASE SendFatal
      <4>1. wire' \in Seq(Frame) BY <3>3, WriteType DEF SendFatal, Kinds, TypeOK
      <4> QED BY <3>3, <4>1 DEF SendFatal, TypeOK, taskVars, orderVars, HandlerPc
    <3>4. CASE HelloSent BY <3>4
        DEF HelloSent, BackToReceive, TypeOK, taskVars, orderVars, HandlerPc
    <3>5. CASE ReceiveAudio BY <3>5 DEF ReceiveAudio, TypeOK, taskVars, orderVars, HandlerPc
    <3>6. CASE HandlerRaises \/ EndSent \/ FatalSent \/ CloseEnds BY <3>6
        DEF HandlerRaises, EndSent, FatalSent, CloseEnds, TypeOK, taskVars, orderVars, HandlerPc
    <3>7. CASE HandlerSendFails \/ ReceiveDisconnect \/ CloseBegins BY <3>7
        DEF HandlerSendFails, ReceiveDisconnect, CloseBegins, TypeOK, taskVars, orderVars,
            HandlerPc
    <3> QED BY <1>11, <3>1, <3>2, <3>3, <3>4, <3>5, <3>6, <3>7
  <2>2. /\ hpc # "done" /\ hpc' # "done"
        /\ UNCHANGED <<pc, created, tracked, segId, seg_id>>
      BY <1>11 DEF Hello, HelloSent, ReceiveAudio, HandlerRaises, SendEnd, EndSent, SendFatal,
                   FatalSent, HandlerSendFails, ReceiveDisconnect, CloseBegins, CloseEnds,
                   BackToReceive, taskVars
  <2> QED BY <1>10, <2>1, <2>2
<1>12. ASSUME FeedReturns PROVE Inv1'
  <2>1. PICK k \in 0 .. MaxSegs : Spawn(k) BY <1>12 DEF FeedReturns
  <2>2. hpc # "done" /\ hpc' # "done" /\ hpc' \in HandlerPc
      BY <1>12 DEF FeedReturns, BackToReceive, HandlerPc
  <2>3. /\ Numbering' /\ Tracking' /\ created' \in 0 .. MaxSegs
        /\ tracked' \in SUBSET Tasks /\ pc' \in [Tasks -> TaskPc]
      BY <1>12, <2>1, <2>2, SpawnInv1 DEF FeedReturns
  <2> QED BY <1>12, <2>2, <2>3 DEF FeedReturns, TypeOK, orderVars
<1>13. ASSUME ReceiveEnd PROVE Inv1'
  <2>1. \/ Spawn(0) /\ final' = final
        \/ Spawn(1) /\ final' = created
      BY <1>13 DEF ReceiveEnd
  <2>2. hpc # "done" /\ hpc' # "done" /\ hpc' \in HandlerPc BY <1>13 DEF ReceiveEnd, HandlerPc
  <2>3. 0 \in 0 .. MaxSegs /\ 1 \in 0 .. MaxSegs OBVIOUS
  <2>4. /\ Numbering' /\ Tracking' /\ created' \in 0 .. MaxSegs
        /\ tracked' \in SUBSET Tasks /\ pc' \in [Tasks -> TaskPc]
      BY <1>13, <2>1, <2>2, <2>3, SpawnInv1 DEF ReceiveEnd
  <2>5. final' \in Tasks \cup {None} BY <2>1 DEF TypeOK, Spawn
  <2> QED BY <1>13, <2>2, <2>4, <2>5 DEF ReceiveEnd, TypeOK, orderVars
<1>14. ASSUME GatherReturns PROVE Inv1'
  <2>1. TypeOK' BY <1>14 DEF GatherReturns, TypeOK, HandlerPc, orderVars
  <2>2. Numbering' BY <1>14 DEF GatherReturns, Numbering, Active
  <2>3. Tracking' BY <1>14 DEF GatherReturns, Tracking, Live
  <2> QED BY <2>1, <2>2, <2>3
<1>15. ASSUME Cleanup PROVE Inv1'
  <2>1. TypeOK' BY <1>15 DEF Cleanup, TypeOK, HandlerPc, TaskPc, orderVars
  <2>2. Numbering' BY <1>15 DEF Cleanup, TypeOK, Numbering, Active, Live
  <2>3. Tracking' BY <1>15 DEF Cleanup, TypeOK, Tracking, Live
  <2> QED BY <2>1, <2>2, <2>3
<1>16. ASSUME ClientGone PROVE Inv1'
  BY <1>16 DEF ClientGone, TypeOK, Numbering, Tracking, Live, Active, hVars, taskVars, orderVars
<1>17. ASSUME UNCHANGED vars PROVE Inv1'
  BY <1>17 DEF vars, TypeOK, Numbering, Tracking, Live, Active, hVars, taskVars, orderVars
<1> QED BY <1>1, <1>2, <1>3, <1>4, <1>5, <1>6, <1>7, <1>8, <1>9, <1>11, <1>12, <1>13, <1>14,
           <1>15, <1>16, <1>17 DEF Next, TaskStep, HandlerStep, Finished

\* The variables keep their types, whatever the client, the model and the loop do.
THEOREM TypeCorrect == Spec => []TypeOK
<1>1. Inv1 => TypeOK BY DEF Inv1
<1> QED BY InitInv1, StepInv1, <1>1, PTL DEF Spec
-----------------------------------------------------------------------------
(* send_lock *)

\* The initial state satisfies SendLockSound.
LEMMA InitLock == Init => SendLockSound
BY SegsAssumption DEF Init, SendLockSound

\* The reorder loop is left with the lock held exactly when a send is awaited.
LEMMA DrainLock ==
    ASSUME NEW t \in Tasks, NEW buf, NEW n, Drain(t, buf, n)
    PROVE  \/ lock' = t /\ \E p \in {"send", "esend"} : pc' = [pc EXCEPT ![t] = p]
           \/ lock' = None /\ \E p \in {"done", "elock", "epush"} : pc' = [pc EXCEPT ![t] = p]
BY DEF Drain, DrainStops, DrainSends, DrainRaises

\* Every step keeps SendLockSound.
LEMMA StepLock == Inv1 /\ SendLockSound /\ [Next]_vars => SendLockSound'
<1> SUFFICES ASSUME Inv1, SendLockSound, [Next]_vars PROVE SendLockSound'
    OBVIOUS
<1> USE SegsAssumption DEF Inv1
<1>1. ASSUME NEW t \in Tasks,
             TaskStart(t) \/ TaskSucceeds(t) \/ TaskFails(t)
      PROVE  SendLockSound'
  BY <1>1, SMTT(30) DEF TaskStart, TaskSucceeds, TaskFails, SendLockSound, TypeOK, hVars
<1>2. ASSUME NEW t \in Tasks, TaskPush(t) \/ TaskSent(t) PROVE SendLockSound'
  <2>1. lock \in {None, t} /\ hpc' = hpc
      BY <1>2 DEF TaskPush, TaskSent, SendLockSound, hVars
  <2>2. \/ lock' = t /\ \E p \in {"send", "esend"} : pc' = [pc EXCEPT ![t] = p]
        \/ lock' = None /\ \E p \in {"done", "elock", "epush"} : pc' = [pc EXCEPT ![t] = p]
      BY <1>2, DrainLock DEF TaskPush, TaskSent
  <2> QED BY <2>1, <2>2 DEF SendLockSound, TypeOK
<1>3. ASSUME NEW t \in Tasks,
             TaskReport(t) \/ TaskReported(t) \/ TaskSendFails(t) \/ TaskCancelled(t)
      PROVE  SendLockSound'
  BY <1>3 DEF TaskReport, TaskReported, TaskSendFails, TaskCancelled, SendLockSound, TypeOK, hVars
<1>4. ASSUME FeedReturns \/ ReceiveEnd PROVE SendLockSound'
  <2>1. /\ \E k \in 0 .. MaxSegs : Spawn(k)
        /\ lock' = lock /\ hpc # "endsend" /\ hpc' # "endsend"
    <3>1. 0 \in 0 .. MaxSegs /\ 1 \in 0 .. MaxSegs OBVIOUS
    <3> QED BY <1>4, <3>1 DEF FeedReturns, ReceiveEnd, BackToReceive
  <2>2. \A t \in Tasks : pc'[t] = pc[t] \/ (pc[t] = "none" /\ pc'[t] = "ready")
    <3>1. PICK k \in 0 .. MaxSegs : Spawn(k) BY <2>1
    <3>2. \A t \in Tasks : pc'[t] = IF t \in created .. created + k - 1 THEN "ready" ELSE pc[t]
        BY <3>1 DEF Spawn, TypeOK
    <3>3. \A t \in Tasks : t \in created .. created + k - 1 => pc[t] = "none"
        BY DEF Numbering, TypeOK
    <3> QED BY <3>2, <3>3
  <2> QED BY <2>1, <2>2 DEF SendLockSound, TypeOK
<1>5. ASSUME SendEnd \/ EndSent \/ HandlerSendFails PROVE SendLockSound'
  BY <1>5 DEF SendEnd, EndSent, HandlerSendFails, SendLockSound, TypeOK
<1>6. ASSUME Cleanup PROVE SendLockSound'
  BY <1>6 DEF Cleanup, SendLockSound, TypeOK, Tracking, Live
<1>7. ASSUME UNCHANGED <<pc, lock>>, hpc # "endsend", hpc' # "endsend" PROVE SendLockSound'
  BY <1>7 DEF SendLockSound
<1>8. ASSUME Hello \/ HelloSent \/ ReceiveAudio \/ HandlerRaises \/ GatherReturns \/ SendFatal
             \/ FatalSent \/ ReceiveDisconnect \/ CloseBegins \/ CloseEnds
      PROVE  SendLockSound'
  BY <1>7, <1>8 DEF Hello, HelloSent, ReceiveAudio, HandlerRaises, GatherReturns, SendFatal,
                    FatalSent, ReceiveDisconnect, CloseBegins, CloseEnds, BackToReceive
<1>9. ASSUME ClientGone \/ UNCHANGED vars PROVE SendLockSound'
  BY <1>9 DEF ClientGone, vars, hVars, SendLockSound
<1> QED BY <1>1, <1>2, <1>3, <1>4, <1>5, <1>6, <1>8, <1>9
        DEF Next, TaskStep, HandlerStep, Finished

\* A task or the end frame writes only under send_lock, and the lock is never
\* left with a coroutine that is over.
THEOREM LockDiscipline == Spec => []SendLockSound
BY InitInv1, StepInv1, InitLock, StepLock, PTL DEF Spec

\* After the cleanup the socket is silent: what is left of the tasks is cancelled.
THEOREM SilenceAfterCleanup == Spec => SilentAfterCleanup
<1> DEFINE Quiet == hpc = "done" => wire' = wire /\ \A t \in Tasks : pc'[t] # pc[t] => pc[t] = "cancelled"
<1>1. Inv1 /\ [Next]_vars => [Quiet]_vars
  <2> SUFFICES ASSUME Inv1, Next, hpc = "done"
               PROVE  wire' = wire /\ \A t \in Tasks : pc'[t] # pc[t] => pc[t] = "cancelled"
      OBVIOUS
  <2>1. \A t \in Tasks : pc[t] \in {"none", "done", "cancelled"}
      BY DEF Inv1, Tracking, Live
  <2>2. ASSUME NEW t \in Tasks, TaskStep(t)
        PROVE  wire' = wire /\ \A u \in Tasks : pc'[u] # pc[u] => pc[u] = "cancelled"
    <3>1. TaskCancelled(t)
        BY <2>1, <2>2 DEF TaskStep, TaskStart, TaskSucceeds, TaskFails, TaskPush, TaskSent,
                          TaskReport, TaskReported, TaskSendFails
    <3> QED BY <3>1 DEF TaskCancelled, Inv1, TypeOK
  <2>3. ASSUME ClientGone \/ Finished PROVE wire' = wire /\ pc' = pc
      BY <2>3 DEF ClientGone, Finished, vars
  <2>4. ~HandlerStep /\ ~ReceiveAudio /\ ~ReceiveEnd /\ ~HandlerRaises
      BY DEF HandlerStep, Hello, HelloSent, FeedReturns, GatherReturns, SendEnd, EndSent, SendFatal,
             FatalSent, HandlerSendFails, ReceiveDisconnect, CloseBegins, CloseEnds, Cleanup,
             ReceiveAudio, ReceiveEnd, HandlerRaises
  <2> QED BY <2>2, <2>3, <2>4 DEF Next
<1> QED BY InitInv1, StepInv1, <1>1, PTL DEF Spec, SilentAfterCleanup
-----------------------------------------------------------------------------
(* The order of the texts *)

Results == {i \in 1 .. Len(wire) : wire[i].kind = "result"}

\* A result carries the number of its own segment, and never the flush segment.
Buffered ==
    \A n \in SegIds : buffer[n] \in Tasks => buffer[n] = n /\ n < created /\ n # final

\* What has been sent precedes what is to be sent next, as long as the socket
\* may still be written; a result whose send is awaited has that very number.
Sending == \E t \in Tasks : pc[t] \in {"send", "esend"}
Below ==
    app = "connected" /\ hpc # "done" =>
        \A i \in Results : wire[i].task < nextSend \/ (wire[i].task = nextSend /\ Sending)

\* The flush segment is the last one that is cut, and is never sent as a result.
FlushLast ==
    /\ final # None => final = created - 1 /\ hpc \notin {"hello", "hellosend", "recv", "feed"}
    /\ finalJson \in {None, final}
    /\ \A i \in Results : wire[i].task \in Tasks /\ wire[i].task < created /\ wire[i].task # final

\* The end frame is sent when no task is left, and nothing follows it.
EndLast ==
    /\ hpc \in {"endlock", "endsend"} => \A t \in Tasks : ~Live(t)
    /\ \A i \in 1 .. Len(wire) : wire[i].kind = "end" =>
          /\ i = Len(wire)
          /\ hpc \in {"endsend", "close", "closing", "cleanup", "done"}
          /\ \A t \in Tasks : ~Live(t)

Inv2 == Buffered /\ Below /\ FlushLast /\ EndLast /\ SpokenOrder

\* The initial state satisfies Inv2.
LEMMA InitInv2 == Init => Inv2
BY DEF Init, Inv2, Buffered, Below, FlushLast, EndLast, SpokenOrder, Results

\* What a written frame does to the wire: nothing, or one more frame at its end.
LEMMA WriteWire ==
    ASSUME TypeOK, NEW k \in Kinds, NEW t \in Tasks \cup {None}, Write(k, t)
    PROVE  \/ wire' = wire
           \/ /\ Len(wire') = Len(wire) + 1
              /\ \A i \in 1 .. Len(wire) : wire'[i] = wire[i]
              /\ wire'[Len(wire) + 1] = [kind |-> k, task |-> t]
<1> DEFINE f == [kind |-> k, task |-> t]
<1>1. f \in Frame /\ wire \in Seq(Frame) BY DEF TypeOK, Frame
<1> HIDE DEF f
<1>2. wire' = wire \/ wire' = Append(wire, f) BY DEF Write, f
<1>3. ASSUME wire' = Append(wire, f)
      PROVE  /\ Len(wire') = Len(wire) + 1
             /\ \A i \in 1 .. Len(wire) : wire'[i] = wire[i]
             /\ wire'[Len(wire) + 1] = f
    BY <1>1, <1>3
<1> QED BY <1>2, <1>3 DEF f

\* The indexes of the wire and the types of its frames.
LEMMA WireType ==
    ASSUME TypeOK
    PROVE  /\ Len(wire) \in Nat
           /\ \A i \in 1 .. Len(wire) :
                 wire[i].kind \in Kinds /\ wire[i].task \in Tasks \cup {None}
<1>1. wire \in Seq(Frame) BY DEF TypeOK
<1>2. Len(wire) \in Nat /\ \A i \in 1 .. Len(wire) : wire[i] \in Frame BY <1>1
<1> QED BY <1>2 DEF Frame

\* The reorder loop keeps Inv2 when what has been sent precedes the number n it
\* starts from.
LEMMA DrainInv2 ==
    ASSUME Inv1, Inv2, NEW t \in Tasks, pc[t] \in {"push", "epush", "send", "esend"},
           UNCHANGED <<client, app, hVars, taskVars>>,
           NEW buf \in [SegIds -> Tasks \cup {None, Empty}], NEW n \in Nat,
           \A k \in SegIds : buf[k] \in Tasks => buf[k] = k /\ k < created /\ k # final,
           app = "connected" => \A i \in Results : wire[i].task < n,
           Drain(t, buf, n)
    PROVE  Inv2'
<1> USE DEF Inv1, Inv2, hVars, taskVars
<1> PICK m \in n .. MaxSegs :
        /\ nextSend' = m
        /\ buffer' = Popped(buf, n, m)
        /\ DrainStops(t, buf, n, m) \/ DrainSends(t, buf, n, m) \/ DrainRaises(t, buf, n, m)
    BY DEF Drain
<1>1. Live(t) /\ pc[t] # "cancelled" BY DEF Live
<1>2. hpc # "done" BY <1>1 DEF Tracking
<1>3. /\ hpc \notin {"endlock", "endsend"}
      /\ \A i \in 1 .. Len(wire) : wire[i].kind # "end"
    BY <1>1 DEF EndLast
<1>4. Buffered' BY DEF Buffered, Popped
<1>5. m \in SegIds BY SegsAssumption
<1>6. CASE wire' = wire
  <2>1. Below'
    <3>1. \A i \in Results : app = "connected" => wire[i].task < m
      <4>1. \A i \in Results : wire[i].task \in Tasks BY DEF FlushLast
      <4> QED BY <4>1
    <3> QED BY <1>6, <3>1 DEF Below, Results
  <2>2. FlushLast' BY <1>6 DEF FlushLast, Results
  <2>3. EndLast' BY <1>3, <1>6 DEF EndLast
  <2>4. SpokenOrder' BY <1>6 DEF SpokenOrder
  <2> QED BY <1>4, <2>1, <2>2, <2>3, <2>4
<1>7. CASE wire' # wire
  <2>1. DrainSends(t, buf, n, m) BY <1>7 DEF DrainStops, DrainRaises
  <2>2. buf[m] = m /\ m \in Tasks /\ m < created /\ m # final
      BY <1>5, <2>1 DEF DrainSends
  <2>3. /\ Len(wire') = Len(wire) + 1
        /\ \A i \in 1 .. Len(wire) : wire'[i] = wire[i]
        /\ wire'[Len(wire) + 1] = [kind |-> "result", task |-> m]
      BY <1>7, <2>1, <2>2, WriteWire DEF DrainSends, Kinds
  <2>4. Len(wire) \in Nat BY WireType
  <2>5. Results' = Results \cup {Len(wire) + 1} BY <2>3, <2>4 DEF Results
  <2>6. \A i \in Results : wire'[i] = wire[i] /\ wire[i].task \in Tasks /\ wire[i].task < m
    <3>1. \A i \in Results : wire[i].task < n BY <2>1 DEF DrainSends
    <3> QED BY <2>3, <3>1 DEF FlushLast, Results
  <2>7. Sending'
    <3>1. pc'[t] \in {"send", "esend"} BY <2>1 DEF DrainSends, TypeOK
    <3> QED BY <3>1 DEF Sending
  <2>8. Below' BY <2>3, <2>5, <2>6, <2>7 DEF Below
  <2>9. FlushLast' BY <2>2, <2>3, <2>5, <2>6 DEF FlushLast
  <2>10. EndLast'
    <3>1. \A i \in 1 .. Len(wire') : wire'[i].kind # "end" BY <1>3, <2>3, <2>4
    <3> QED BY <1>3, <3>1 DEF EndLast
  <2>11. SpokenOrder'
    <3>1. \A i \in 1 .. Len(wire') : Carries(wire'[i]) => i \in Results'
        BY <1>3, <2>3, <2>4, <2>5 DEF Carries, Results
    <3>2. \A i \in 1 .. Len(wire) : Carries(wire[i]) <=> Carries(wire'[i]) BY <2>3
    <3> SUFFICES ASSUME NEW i \in 1 .. Len(wire'), NEW j \in 1 .. Len(wire'), i < j,
                        Carries(wire'[i]), Carries(wire'[j])
                 PROVE  wire'[i].task < wire'[j].task
        BY DEF SpokenOrder
    <3>3. i \in 1 .. Len(wire) /\ i \in Results BY <2>3, <2>4, <2>5, <3>1
    <3>4. CASE j = Len(wire) + 1 BY <2>3, <2>6, <3>3, <3>4
    <3>5. CASE j # Len(wire) + 1
      <4>1. j \in 1 .. Len(wire) BY <2>3, <2>4, <3>5
      <4> QED BY <2>3, <3>2, <3>3, <4>1 DEF SpokenOrder
    <3> QED BY <3>4, <3>5
  <2> QED BY <1>4, <2>8, <2>9, <2>10, <2>11
<1> QED BY <1>6, <1>7
\* What a frame without a text does to the part of Inv2 that is about the wire.
LEMMA PlainFrame ==
    ASSUME TypeOK, Inv2, NEW k \in {"hello", "segerr", "fatal"}, NEW t \in Tasks \cup {None},
           Write(k, t), \A i \in 1 .. Len(wire) : wire[i].kind # "end"
    PROVE  /\ SpokenOrder'
           /\ Results' = Results
           /\ \A i \in Results : wire'[i] = wire[i]
           /\ \A i \in 1 .. Len(wire') : wire'[i].kind # "end"
<1>1. CASE wire' = wire BY <1>1 DEF Inv2, SpokenOrder, Results
<1>2. CASE wire' # wire
  <2>1. /\ Len(wire') = Len(wire) + 1
        /\ \A i \in 1 .. Len(wire) : wire'[i] = wire[i]
        /\ wire'[Len(wire) + 1] = [kind |-> k, task |-> t]
      BY <1>2, WriteWire DEF Kinds
  <2>2. Len(wire) \in Nat BY WireType
  <2>3. Results' = Results /\ \A i \in Results : wire'[i] = wire[i]
      BY <2>1, <2>2 DEF Results
  <2>4. \A i \in 1 .. Len(wire') : wire'[i].kind # "end" BY <2>1, <2>2
  <2>5. \A i \in 1 .. Len(wire') :
            Carries(wire'[i]) => i \in 1 .. Len(wire) /\ Carries(wire[i]) /\ wire'[i] = wire[i]
      BY <2>1, <2>2 DEF Carries
  <2>6. SpokenOrder' BY <2>5 DEF Inv2, SpokenOrder
  <2> QED BY <2>3, <2>4, <2>6
<1> QED BY <1>1, <1>2

\* Every step keeps Inv2.
LEMMA StepInv2 == Inv1 /\ SendLockSound /\ Inv2 /\ [Next]_vars => Inv2'
<1> SUFFICES ASSUME Inv1, SendLockSound, Inv2, [Next]_vars PROVE Inv2'
    OBVIOUS
<1> USE SegsAssumption DEF Inv1, Inv2
<1>1. ASSUME NEW t \in Tasks, TaskStart(t) \/ TaskSucceeds(t) \/ TaskFails(t) PROVE Inv2'
  <2>1. Live(t) BY <1>1 DEF TaskStart, TaskSucceeds, TaskFails, Live
  <2>2. /\ UNCHANGED <<client, app, hpc, created, final, buffer, nextSend, wire>>
        /\ \A u \in Tasks : pc'[u] \in {"send", "esend"} <=> pc[u] \in {"send", "esend"}
        /\ finalJson' \in {finalJson, final}
      BY <1>1 DEF TaskStart, TaskSucceeds, TaskFails, TypeOK, hVars, orderVars
  <2>3. Buffered' /\ SpokenOrder' BY <2>2 DEF Buffered, SpokenOrder
  <2>4. Below' BY <2>2 DEF Below, Results, Sending
  <2>5. FlushLast' BY <2>2 DEF FlushLast, Results
  <2>6. EndLast' BY <2>1, <2>2 DEF EndLast
  <2> QED BY <2>3, <2>4, <2>5, <2>6
<1>2. ASSUME NEW t \in Tasks, TaskPush(t) PROVE Inv2'
  <2> DEFINE buf == [buffer EXCEPT ![segId[t]] = Stored(t)]
  <2>1. hpc # "done" BY <1>2 DEF TaskPush, Tracking, Live
  <2>2. segId[t] = t /\ t < created
    <3>1. t < seg_id BY <1>2 DEF TaskPush, Numbering, Active
    <3> QED BY <3>1 DEF Numbering, TypeOK
  <2>3. buf \in [SegIds -> Tasks \cup {None, Empty}] BY DEF TypeOK, Stored
  <2>4. \A k \in SegIds : buf[k] \in Tasks => buf[k] = k /\ k < created /\ k # final
      BY <2>2 DEF Buffered, Stored, TypeOK
  <2>5. nextSend \in Nat /\ Drain(t, buf, nextSend) /\ pc[t] \in {"push", "epush"}
      BY <1>2 DEF TypeOK, TaskPush
  <2>6. ~Sending BY <1>2 DEF TaskPush, SendLockSound, Sending
  <2>7. app = "connected" => \A i \in Results : wire[i].task < nextSend
      BY <2>1, <2>6 DEF Below
  <2> HIDE DEF buf
  <2> QED BY <1>2, <2>3, <2>4, <2>5, <2>7, DrainInv2 DEF TaskPush
<1>3. ASSUME NEW t \in Tasks, TaskSent(t) PROVE Inv2'
  <2>1. hpc # "done" BY <1>3 DEF TaskSent, Tracking, Live
  <2>2. buffer \in [SegIds -> Tasks \cup {None, Empty}] BY DEF TypeOK
  <2>3. \A k \in SegIds : buffer[k] \in Tasks => buffer[k] = k /\ k < created /\ k # final
      BY DEF Buffered
  <2>4. nextSend + 1 \in Nat /\ Drain(t, buffer, nextSend + 1) /\ pc[t] \in {"send", "esend"}
      BY <1>3 DEF TypeOK, TaskSent
  <2>5. ASSUME app = "connected", NEW i \in Results PROVE wire[i].task < nextSend + 1
    <3>1. wire[i].task \in Int /\ nextSend \in Int BY DEF FlushLast, TypeOK
    <3>2. wire[i].task < nextSend \/ wire[i].task = nextSend BY <2>1, <2>5 DEF Below
    <3> QED BY <3>1, <3>2
  <2> QED BY <1>3, <2>2, <2>3, <2>4, <2>5, DrainInv2 DEF TaskSent
<1>4. ASSUME NEW t \in Tasks, TaskReport(t) PROVE Inv2'
  <2>1. Live(t) BY <1>4 DEF TaskReport, Live
  <2>2. /\ hpc \notin {"endlock", "endsend"}
        /\ \A i \in 1 .. Len(wire) : wire[i].kind # "end"
      BY <2>1 DEF EndLast
  <2>3. /\ UNCHANGED <<client, app, hpc, created, final, finalJson, buffer, nextSend>>
        /\ \A u \in Tasks : pc'[u] \in {"send", "esend"} <=> pc[u] \in {"send", "esend"}
        /\ Write("segerr", t) \/ wire' = wire
      BY <1>4 DEF TaskReport, TypeOK, hVars, taskVars, orderVars
  <2>4. /\ SpokenOrder' /\ Results' = Results /\ \A i \in Results : wire'[i] = wire[i]
        /\ \A i \in 1 .. Len(wire') : wire'[i].kind # "end"
    <3>1. CASE wire' = wire BY <2>2, <3>1 DEF SpokenOrder, Results
    <3>2. CASE Write("segerr", t) BY <2>2, <3>2, PlainFrame
    <3> QED BY <2>3, <3>1, <3>2
  <2>5. Buffered' BY <2>3 DEF Buffered
  <2>6. Below' BY <2>3, <2>4 DEF Below, Sending
  <2>7. FlushLast' BY <2>3, <2>4 DEF FlushLast
  <2>8. EndLast' BY <2>2, <2>3, <2>4 DEF EndLast
  <2> QED BY <2>4, <2>5, <2>6, <2>7, <2>8
<1>5. ASSUME NEW t \in Tasks, TaskReported(t) \/ TaskSendFails(t) \/ TaskCancelled(t)
      PROVE  Inv2'
  <2>1. /\ UNCHANGED <<hpc, created, final, finalJson, buffer, nextSend, wire>>
        /\ pc' = [pc EXCEPT ![t] = "done"]
      BY <1>5 DEF TaskReported, TaskSendFails, TaskCancelled, hVars, taskVars, orderVars
  <2>2. Buffered' /\ SpokenOrder' /\ FlushLast'
      BY <2>1 DEF Buffered, SpokenOrder, FlushLast, Results
  <2>3. Below'
    <3>1. CASE TaskReported(t)
      <4>1. app' = app /\ \A u \in Tasks : pc'[u] \in {"send", "esend"} <=> pc[u] \in {"send", "esend"}
          BY <3>1 DEF TaskReported, TypeOK
      <4> QED BY <2>1, <4>1 DEF Below, Sending, Results
    <3>2. CASE TaskSendFails(t) BY <3>2 DEF TaskSendFails, Below
    <3>3. CASE TaskCancelled(t)
      <4>1. hpc = "done" BY <3>3 DEF TaskCancelled, Tracking, Live
      <4> QED BY <2>1, <4>1 DEF Below
    <3> QED BY <1>5, <3>1, <3>2, <3>3
  <2>4. EndLast'
    <3>1. \A u \in Tasks : Live(u)' => Live(u) BY <2>1 DEF Live, TypeOK
    <3> QED BY <2>1, <3>1 DEF EndLast
  <2> QED BY <2>2, <2>3, <2>4
<1>6. ASSUME FeedReturns \/ ReceiveEnd PROVE Inv2'
  <2>1. PICK k \in 0 .. MaxSegs : Spawn(k)
    <3>1. 0 \in 0 .. MaxSegs /\ 1 \in 0 .. MaxSegs OBVIOUS
    <3> QED BY <1>6, <3>1 DEF FeedReturns, ReceiveEnd
  <2>2. created' = created + k /\ created \in Nat BY <2>1 DEF Spawn, TypeOK
  <2>3. /\ UNCHANGED <<client, app, finalJson, buffer, nextSend, wire>>
        /\ hpc \in {"recv", "feed"} /\ hpc' \in {"recv", "fatal", "gather"}
        /\ hpc = "feed" => hpc' \in {"recv", "fatal"} /\ final' = final
        /\ hpc = "recv" => hpc' = "gather" /\ (final' = final \/ (final' = created /\ created' = created + 1))
      BY <1>6 DEF FeedReturns, ReceiveEnd, BackToReceive, Spawn, orderVars
  <2>4. final = None /\ finalJson = None BY <2>3 DEF FlushLast
  <2>5. Buffered' BY <2>2, <2>3, <2>4 DEF Buffered
  <2>6. SpokenOrder' BY <2>3 DEF SpokenOrder
  <2>7. Below'
    <3>1. \A t \in Tasks : pc[t] \in {"send", "esend"} => pc'[t] = pc[t]
      <4>1. \A t \in Tasks : t \in created .. created + k - 1 => pc[t] = "none"
          BY <2>2 DEF Numbering
      <4> QED BY <2>1, <4>1 DEF Spawn
    <3>2. Sending => Sending' BY <3>1 DEF Sending
    <3> QED BY <2>3, <3>2 DEF Below, Results
  <2>8. FlushLast'
    <3>1. Results' = Results BY <2>3 DEF Results
    <3>2. \A i \in Results : wire[i].task \in Tasks /\ wire[i].task < created' /\ wire[i].task # final'
        BY <2>2, <2>3, <2>4 DEF FlushLast
    <3> QED BY <2>2, <2>3, <2>4, <3>1, <3>2 DEF FlushLast
  <2>9. EndLast' BY <2>3 DEF EndLast
  <2> QED BY <2>5, <2>6, <2>7, <2>8, <2>9
<1>7. ASSUME SendEnd PROVE Inv2'
  <2>1. /\ UNCHANGED <<client, app, pc, created, final, finalJson, buffer, nextSend>>
        /\ hpc = "endlock" /\ hpc' \in {"endsend", "fatal"}
        /\ wire' # wire => hpc' = "endsend" /\ Write("end", finalJson)
      BY <1>7 DEF SendEnd, taskVars, orderVars
  <2>2. \A t \in Tasks : ~Live(t) /\ ~Live(t)' BY <2>1 DEF EndLast, Live
  <2>3. \A i \in 1 .. Len(wire) : wire[i].kind # "end" BY <2>1 DEF EndLast
  <2>4. Buffered' BY <2>1 DEF Buffered
  <2>5. CASE wire' = wire
    <3>1. Below' BY <2>1, <2>5 DEF Below, Results, Sending
    <3>2. FlushLast' BY <2>1, <2>5 DEF FlushLast, Results
    <3>3. EndLast' BY <2>2, <2>3, <2>5 DEF EndLast
    <3>4. SpokenOrder' BY <2>5 DEF SpokenOrder
    <3> QED BY <2>4, <3>1, <3>2, <3>3, <3>4
  <2>6. CASE wire' # wire
    <3>1. /\ Len(wire') = Len(wire) + 1
          /\ \A i \in 1 .. Len(wire) : wire'[i] = wire[i]
          /\ wire'[Len(wire) + 1] = [kind |-> "end", task |-> finalJson]
        BY <2>1, <2>6, WriteWire DEF Kinds, TypeOK
    <3>2. Len(wire) \in Nat BY WireType
    <3>3. Results' = Results /\ \A i \in Results : wire'[i] = wire[i]
        BY <3>1, <3>2 DEF Results
    <3>4. Below' BY <2>1, <3>3 DEF Below, Sending
    <3>5. FlushLast' BY <2>1, <3>3 DEF FlushLast
    <3>6. EndLast'
      <4>1. hpc' = "endsend" BY <2>1, <2>6
      <4>2. \A i \in 1 .. Len(wire') : wire'[i].kind = "end" => i = Len(wire')
          BY <2>3, <3>1, <3>2
      <4> QED BY <2>2, <4>1, <4>2 DEF EndLast
    <3>7. SpokenOrder'
      <4>1. \A i \in 1 .. Len(wire) : Carries(wire'[i]) => i \in Results /\ Carries(wire[i])
          BY <2>3, <3>1 DEF Carries, Results
      <4> SUFFICES ASSUME NEW i \in 1 .. Len(wire'), NEW j \in 1 .. Len(wire'), i < j,
                          Carries(wire'[i]), Carries(wire'[j])
                   PROVE  wire'[i].task < wire'[j].task
          BY DEF SpokenOrder
      <4>2. i \in 1 .. Len(wire) /\ i \in Results BY <3>1, <3>2, <4>1
      <4>3. CASE j = Len(wire) + 1
        <5>1. wire'[j].task = finalJson /\ finalJson # None BY <3>1, <4>3 DEF Carries
        <5>2. wire'[j].task = created - 1 /\ created - 1 = final BY <5>1 DEF FlushLast
        <5>3. wire'[i].task \in Tasks /\ wire'[i].task < created /\ wire'[i].task # final
            BY <3>1, <4>2 DEF FlushLast
        <5> QED BY <5>2, <5>3, SMTT(30) DEF TypeOK
      <4>4. CASE j # Len(wire) + 1
        <5>1. j \in 1 .. Len(wire) BY <3>1, <3>2, <4>4
        <5> QED BY <3>1, <4>1, <4>2, <5>1 DEF SpokenOrder
      <4> QED BY <4>3, <4>4
    <3> QED BY <2>4, <3>4, <3>5, <3>6, <3>7
  <2> QED BY <2>5, <2>6
<1>8. ASSUME Hello \/ SendFatal PROVE Inv2'
  <2>1. /\ UNCHANGED <<client, app, pc, created, final, finalJson, buffer, nextSend>>
        /\ hpc \in {"hello", "fatal"} /\ hpc' \in {"hellosend", "fatalsend", "close"}
        /\ hpc = "hello" => hpc' = "hellosend"
        /\ Write("hello", None) \/ Write("fatal", None) \/ wire' = wire
        /\ hpc = "fatal" => hpc' \in {"fatalsend", "close"}
      BY <1>8 DEF Hello, SendFatal, taskVars, orderVars
  <2>2. \A i \in 1 .. Len(wire) : wire[i].kind # "end" BY <2>1 DEF EndLast
  <2>3. /\ SpokenOrder' /\ Results' = Results /\ \A i \in Results : wire'[i] = wire[i]
        /\ \A i \in 1 .. Len(wire') : wire'[i].kind # "end"
    <3>1. CASE wire' = wire BY <2>2, <3>1 DEF SpokenOrder, Results
    <3>2. CASE Write("hello", None) BY <2>2, <3>2, PlainFrame
    <3>3. CASE Write("fatal", None) BY <2>2, <3>3, PlainFrame
    <3> QED BY <2>1, <3>1, <3>2, <3>3
  <2>4. Buffered' BY <2>1 DEF Buffered
  <2>5. Below' BY <2>1, <2>3 DEF Below, Sending
  <2>6. FlushLast' BY <2>1, <2>3 DEF FlushLast
  <2>7. EndLast' BY <2>1, <2>3 DEF EndLast
  <2> QED BY <2>3, <2>4, <2>5, <2>6, <2>7
<1>9. ASSUME UNCHANGED <<pc, created, final, finalJson, buffer, nextSend, wire>>,
             app' = app \/ app' = "disconnected", hpc # "done",
             hpc \in {"hello", "hellosend", "recv", "feed"}
               \/ hpc' \notin {"hello", "hellosend", "recv", "feed"},
             hpc \in {"endsend", "close", "closing", "cleanup"}
               => hpc' \in {"close", "closing", "cleanup"},
             hpc' \in {"endlock", "endsend"} => \A t \in Tasks : ~Live(t)
      PROVE  Inv2'
  <2>1. Buffered' /\ SpokenOrder' BY <1>9 DEF Buffered, SpokenOrder
  <2>2. Below' BY <1>9 DEF Below, Results, Sending
  <2>3. FlushLast' BY <1>9 DEF FlushLast, Results
  <2>4. EndLast' BY <1>9 DEF EndLast, Live
  <2> QED BY <2>1, <2>2, <2>3, <2>4
<1>10. ASSUME HelloSent \/ ReceiveAudio \/ HandlerRaises \/ EndSent \/ FatalSent
              \/ HandlerSendFails \/ ReceiveDisconnect \/ CloseBegins \/ CloseEnds
       PROVE  Inv2'
  BY <1>9, <1>10 DEF HelloSent, BackToReceive, ReceiveAudio, HandlerRaises, EndSent, FatalSent,
                     HandlerSendFails, ReceiveDisconnect, CloseBegins, CloseEnds, taskVars,
                     orderVars
<1>11. ASSUME GatherReturns PROVE Inv2'
  <2>1. \A t \in Tasks : ~Live(t) BY <1>11 DEF GatherReturns, Tracking
  <2> QED BY <1>9, <1>11, <2>1 DEF GatherReturns, orderVars
<1>12. ASSUME Cleanup PROVE Inv2'
  <2>1. /\ UNCHANGED <<created, final, finalJson, buffer, nextSend, wire>>
        /\ hpc = "cleanup" /\ hpc' = "done"
        /\ \A t \in Tasks : Live(t)' => Live(t)
      BY <1>12 DEF Cleanup, Live, orderVars
  <2>2. Buffered' /\ SpokenOrder' BY <2>1 DEF Buffered, SpokenOrder
  <2>3. Below' BY <2>1 DEF Below
  <2>4. FlushLast' BY <2>1 DEF FlushLast, Results
  <2>5. EndLast' BY <2>1 DEF EndLast
  <2> QED BY <2>2, <2>3, <2>4, <2>5
<1>13. ASSUME ClientGone \/ UNCHANGED vars PROVE Inv2'
  <2>1. UNCHANGED <<app, hpc, pc, created, final, finalJson, buffer, nextSend, wire>>
      BY <1>13 DEF ClientGone, vars, hVars, taskVars, orderVars
  <2> QED BY <2>1 DEF Buffered, SpokenOrder, Below, FlushLast, EndLast, Results, Sending, Live
<1> QED BY <1>1, <1>2, <1>3, <1>4, <1>5, <1>6, <1>7, <1>8, <1>10, <1>11, <1>12, <1>13
        DEF Next, TaskStep, HandlerStep, Finished

\* The texts reach the client in the order in which the segments were spoken.
THEOREM TextsInSpokenOrder == Spec => []SpokenOrder
<1>1. Inv2 => SpokenOrder BY DEF Inv2
<1> QED BY InitInv1, StepInv1, InitLock, StepLock, InitInv2, StepInv2, <1>1, PTL DEF Spec
==============================================================================
