-------------------------- MODULE SessionOrderProofs --------------------------
(***************************************************************************)
(* The promises a session makes to its client about texts that are missing, *)
(* proved for every number of segments and of audio frames: no text         *)
(* overtakes an earlier one, nothing stays in the reorder buffer, and the   *)
(* answer to the client's end frame is complete.                            *)
(*                                                                         *)
(* SessionProofs shows what is sent, and under which lock.  Here a third   *)
(* part of the invariant accounts for every number handed out: until its   *)
(* task has pushed it, it is neither behind nextSend nor in the buffer;    *)
(* afterwards it is one or the other, and a number behind nextSend has been *)
(* sent, has failed, or is that of the flush segment.                      *)
(***************************************************************************)
EXTENDS SessionProofs

USE DEF Tasks, SegIds, None, Empty, HandlerId

Open == app = "connected" /\ hpc # "done"

Shown(k, t) == \E j \in 1 .. Len(wire) : wire[j] = [kind |-> k, task |-> t]

\* What a task awaits tells how its recognition has ended.
Verdicts ==
    /\ \A t \in Tasks :
          /\ pc[t] \in {"none", "ready", "work"} => verdict[t] = "pending"
          /\ pc[t] \in {"push", "send"} => verdict[t] = "ok"
          /\ pc[t] \in {"epush", "esend", "elock", "report"} =>
               verdict[t] # "pending" /\ (Open => verdict[t] = "failed")
          /\ hpc # "done" /\ pc[t] = "done" => verdict[t] # "pending"
    /\ final # None => (finalJson = final <=> verdict[final] = "ok")

Unpushed(t) == pc[t] \in {"none", "ready", "work", "push", "epush"}
Pushed(t) == t < nextSend \/ buffer[t] # None \/ (t = nextSend /\ Sending)

\* The numbers handed out are those pushed and those whose task is on its way.
Queue ==
    Open =>
        /\ nextSend <= seg_id
        /\ Sending => nextSend < seg_id
        /\ \A k \in SegIds : buffer[k] # None => nextSend < k /\ k < seg_id
        /\ \A k \in Tasks : buffer[k] = Empty => verdict[k] = "failed" \/ k = final
        /\ \A k \in Tasks : buffer[k] \in Tasks => verdict[k] = "ok"
        /\ \A t \in Tasks : t < seg_id => (Pushed(t) <=> ~Unpushed(t))

\* As long as the client can be written to, it has seen what was passed.
Passed ==
    Open /\ client = "up" =>
        /\ \A u \in Tasks : u < nextSend =>
              verdict[u] = "failed" \/ u = final \/ Shown("result", u)
        /\ Sending => Shown("result", nextSend)
        /\ \A t \in Tasks :
              verdict[t] = "failed" /\ pc[t] \in {"report", "done"} => Shown("segerr", t)

Inv3 == Verdicts /\ Queue /\ Passed

\* Everything shown before.
Known == Inv1 /\ SendLockSound /\ Inv2

-----------------------------------------------------------------------------
(* The wire *)

\* Frames are only added at the end of the wire.
Grows == Len(wire') \in Nat /\ Len(wire) <= Len(wire') /\ \A i \in 1 .. Len(wire) : wire'[i] = wire[i]

\* A frame the client has been sent stays on the wire.
LEMMA ShownStays ==
    ASSUME TypeOK, Grows, NEW k, NEW t, Shown(k, t)
    PROVE  Shown(k, t)'
<1>1. PICK j \in 1 .. Len(wire) : wire[j] = [kind |-> k, task |-> t] BY DEF Shown
<1>2. Len(wire) \in Nat /\ j <= Len(wire) /\ Len(wire) <= Len(wire') BY WireType DEF Grows
<1>3. wire'[j] = wire[j] BY DEF Grows
<1>4. j \in 1 .. Len(wire') BY <1>2 DEF Grows
<1> QED BY <1>1, <1>3, <1>4 DEF Shown

\* A write adds the frame at the end of the wire of a client that is there.
LEMMA WriteShows ==
    ASSUME TypeOK, NEW k \in Kinds, NEW t \in Tasks \cup {None}, Write(k, t)
    PROVE  Grows /\ (client = "up" => Shown(k, t)')
<1>1. Len(wire) \in Nat BY WireType
<1>2. CASE wire' = wire /\ client # "up" BY <1>1, <1>2 DEF Grows
<1>3. CASE client = "up"
  <2>1. wire' = Append(wire, [kind |-> k, task |-> t]) BY <1>3 DEF Write
  <2>2. wire \in Seq(Frame) /\ [kind |-> k, task |-> t] \in Frame BY DEF TypeOK, Frame
  <2>3. /\ Len(wire') = Len(wire) + 1
        /\ \A i \in 1 .. Len(wire) : wire'[i] = wire[i]
        /\ wire'[Len(wire) + 1] = [kind |-> k, task |-> t]
    <3> DEFINE f == [kind |-> k, task |-> t]
    <3>1. wire' = Append(wire, f) /\ f \in Frame BY <2>1, <2>2
    <3> HIDE DEF f
    <3>2. /\ Len(wire') = Len(wire) + 1 /\ wire'[Len(wire) + 1] = f
          /\ \A i \in 1 .. Len(wire) : wire'[i] = wire[i]
        BY <2>2, <3>1
    <3> QED BY <3>2 DEF f
  <2>4. Len(wire) + 1 \in 1 .. Len(wire') BY <1>1, <2>3
  <2> QED BY <1>1, <2>3, <2>4 DEF Grows, Shown
<1> QED BY <1>2, <1>3 DEF Write

-----------------------------------------------------------------------------
(* The invariant *)

\* The invariant holds before the first frame.
LEMMA InitOrder == Init => Inv3
BY SegsAssumption DEF Init, Inv3, Verdicts, Queue, Passed, Open, Unpushed, Pushed, Sending

\* What the reorder loop may be entered with: n is the number to send next, buf
\* the buffer, and task t the one that enters it.
Enters(t, buf, n) ==
    /\ n <= seg_id
    /\ \A k \in SegIds : buf[k] # None => n <= k /\ k < seg_id
    /\ \A k \in Tasks : buf[k] = Empty => verdict[k] = "failed" \/ k = final
    /\ \A k \in Tasks : buf[k] \in Tasks => buf[k] = k /\ k # final /\ verdict[k] = "ok"
    /\ \A u \in Tasks : u < seg_id /\ u # t => ((u < n \/ buf[u] # None) <=> ~Unpushed(u))
    /\ t < seg_id /\ (t < n \/ buf[t] # None)
    /\ client = "up" => \A u \in Tasks : u < n =>
          verdict[u] = "failed" \/ u = final \/ Shown("result", u)

\* The loop, run to its next await, keeps the invariant.
LEMMA DrainOrder ==
    ASSUME Known, Inv3, NEW t \in Tasks, pc[t] \in {"push", "epush", "send", "esend"},
           lock \in {None, t}, UNCHANGED <<client, app, hVars, taskVars>>,
           NEW buf \in [SegIds -> Tasks \cup {None, Empty}], NEW n \in Nat,
           Open => Enters(t, buf, n),
           Drain(t, buf, n)
    PROVE  Inv3'
<1> USE SegsAssumption
<1> PICK m \in n .. MaxSegs :
        /\ \A k \in n .. m - 1 : buf[k] = Empty
        /\ nextSend' = m
        /\ buffer' = Popped(buf, n, m)
        /\ DrainStops(t, buf, n, m) \/ DrainSends(t, buf, n, m) \/ DrainRaises(t, buf, n, m)
    BY DEF Drain
<1>1. TypeOK /\ m \in SegIds /\ m \in Int /\ n \in Int /\ n <= m /\ seg_id \in Int
      /\ seg_id <= MaxSegs /\ MaxSegs \in Nat
    BY DEF Known, Inv1, TypeOK
<1>2. UNCHANGED <<client, app, hpc, created, seg_id, final, finalJson, verdict>>
    BY DEF hVars, taskVars
<1>3. \A u \in Tasks : u # t => pc'[u] = pc[u] /\ pc[u] \notin {"send", "esend"}
    BY <1>1 DEF Known, SendLockSound, DrainStops, DrainSends, DrainRaises, TypeOK
<1>4. \/ MainPath(t) /\ pc'[t] \in {"done", "send", "epush"}
      \/ ~MainPath(t) /\ pc'[t] \in {"elock", "esend", "done"}
    BY <1>1 DEF DrainStops, DrainSends, DrainRaises, TypeOK
<1>5. Open => pc'[t] # "epush" /\ (~MainPath(t) => pc'[t] # "done")
    BY <1>1 DEF DrainStops, DrainSends, DrainRaises, TypeOK, Open
<1>6. Verdicts'
  <2>1. verdict[t] # "pending" /\ (MainPath(t) => verdict[t] = "ok")
        /\ (Open /\ ~MainPath(t) => verdict[t] = "failed")
      BY DEF Inv3, Verdicts, MainPath
  <2> QED BY <1>2, <1>3, <1>4, <1>5, <2>1 DEF Inv3, Verdicts, Open
<1>7. ASSUME Open PROVE Queue' /\ Passed'
  <2>1. Enters(t, buf, n) BY <1>7
  <2>2. \/ /\ DrainStops(t, buf, n, m) /\ buf[m] = None /\ wire' = wire
           /\ pc'[t] \in {"done", "elock"}
        \/ /\ DrainSends(t, buf, n, m) /\ buf[m] \in Tasks /\ Write("result", buf[m])
           /\ pc'[t] \in {"send", "esend"}
      BY <1>1, <1>7 DEF DrainStops, DrainSends, DrainRaises, Open, TypeOK
  <2>3. Sending' <=> DrainSends(t, buf, n, m)
    <3>1. CASE DrainSends(t, buf, n, m) /\ pc'[t] \in {"send", "esend"} BY <3>1 DEF Sending
    <3>2. CASE DrainStops(t, buf, n, m) /\ buf[m] = None /\ pc'[t] \in {"done", "elock"}
      <4>1. ~DrainSends(t, buf, n, m) BY <3>2 DEF DrainSends
      <4> QED BY <1>3, <3>2, <4>1 DEF Sending
    <3> QED BY <2>2, <3>1, <3>2
  <2>4. \A k \in SegIds : buffer'[k] = IF k \in n .. m THEN None ELSE buf[k]
      BY DEF Popped
  <2>5. Sending' => buf[m] = m /\ m \in Tasks /\ m < seg_id
    <3> SUFFICES ASSUME Sending' PROVE buf[m] = m /\ m \in Tasks /\ m < seg_id
        OBVIOUS
    <3>1. buf[m] \in Tasks BY <2>3 DEF DrainSends
    <3>2. m < seg_id BY <1>1, <2>1, <3>1 DEF Enters
    <3>3. m \in Tasks BY <1>1, <3>2
    <3> QED BY <2>1, <3>1, <3>2, <3>3 DEF Enters
  <2>6. m <= seg_id
    <3>1. CASE m = n BY <2>1, <3>1 DEF Enters
    <3>2. CASE m # n
      <4>1. m - 1 \in n .. m - 1 /\ m - 1 \in SegIds BY <1>1, <3>2
      <4>2. buf[m - 1] # None BY <4>1
      <4>3. m - 1 < seg_id BY <2>1, <4>1, <4>2 DEF Enters
      <4> QED BY <1>1, <4>3
    <3> QED BY <3>1, <3>2
  <2>7. \A k \in SegIds : buffer'[k] # None => m < k /\ k < seg_id
      BY <1>1, <2>1, <2>4 DEF Enters
  <2>8. \A k \in Tasks : buffer'[k] = Empty => verdict[k] = "failed" \/ k = final
      BY <2>1, <2>4 DEF Enters
  <2>9. \A u \in Tasks : u < seg_id => (Pushed(u)' <=> ~Unpushed(u)')
    <3> SUFFICES ASSUME NEW u \in Tasks, u < seg_id PROVE Pushed(u)' <=> ~Unpushed(u)'
        OBVIOUS
    <3>1. Pushed(u)' <=> u < m \/ buffer'[u] # None \/ (u = m /\ Sending')
        BY DEF Pushed
    <3>2. (u < n \/ buf[u] # None) <=> ~Unpushed(u)'
      <4>1. CASE u = t BY <1>4, <1>5, <1>7, <2>1, <4>1 DEF Enters, Unpushed
      <4>2. CASE u # t BY <1>3, <2>1, <4>2 DEF Enters, Unpushed
      <4> QED BY <4>1, <4>2
    <3>3. (u < n \/ buf[u] # None) <=> (u < m \/ buffer'[u] # None \/ (u = m /\ Sending'))
      <4>1. buf[u] # None => n <= u BY <2>1 DEF Enters
      <4>2. n <= u /\ u < m => buf[u] = Empty BY <1>1
      <4>3. u = m => (Sending' <=> buf[u] # None) BY <2>2, <2>3, <2>5 DEF DrainStops, DrainSends
      <4> QED BY <1>1, <2>4, <4>1, <4>2, <4>3
    <3> QED BY <3>1, <3>2, <3>3
  <2>10. \A k \in Tasks : buffer'[k] \in Tasks => verdict[k] = "ok"
      BY <2>1, <2>4 DEF Enters
  <2>11. Queue' BY <1>2, <2>5, <2>6, <2>7, <2>8, <2>9, <2>10 DEF Queue
  <2>12. ASSUME client = "up" PROVE Passed'
    <3>1. Grows /\ (Sending' => Shown("result", m)')
      <4>1. CASE wire' = wire /\ ~Sending' BY <1>1, <4>1, WireType DEF Grows
      <4>2. CASE Write("result", buf[m]) /\ Sending'
          BY <1>1, <2>5, <2>12, <4>2, WriteShows DEF Kinds
      <4> QED BY <2>2, <2>3, <4>1, <4>2 DEF DrainStops, DrainSends
    <3>2. ASSUME NEW u \in Tasks, u < m
          PROVE  verdict[u] = "failed" \/ u = final \/ Shown("result", u)'
      <4>1. CASE u < n
        <5>1. verdict[u] = "failed" \/ u = final \/ Shown("result", u)
            BY <2>1, <2>12, <4>1 DEF Enters
        <5> QED BY <1>1, <3>1, <5>1, ShownStays
      <4>2. CASE n <= u BY <1>1, <2>1, <3>2, <4>2 DEF Enters
      <4> QED BY <1>1, <4>1, <4>2
    <3>3. ASSUME NEW u \in Tasks, verdict[u] = "failed", pc'[u] \in {"report", "done"}
          PROVE  Shown("segerr", u)'
      <4>1. u # t BY <1>4, <1>5, <1>7, <3>3 DEF Inv3, Verdicts, MainPath
      <4>2. Shown("segerr", u) BY <1>3, <1>7, <2>12, <3>3, <4>1 DEF Inv3, Passed
      <4> QED BY <1>1, <3>1, <4>2, ShownStays
    <3> QED BY <1>2, <3>1, <3>2, <3>3 DEF Passed
  <2> QED BY <1>2, <2>11, <2>12 DEF Passed
<1>8. CASE ~Open BY <1>2, <1>6, <1>8 DEF Inv3, Queue, Passed, Open
<1> QED BY <1>6, <1>7, <1>8 DEF Inv3

\* A step of the handler: the tasks and what they share stay as they are.
LEMMA HandlerOrder ==
    ASSUME Known, Inv3, hpc # "done", app = "connected" \/ app' # "connected",
           client = "up" \/ client' # "up", Grows,
           UNCHANGED <<pc, seg_id, final, finalJson, verdict, buffer, nextSend>>
    PROVE  Inv3'
<1>1. TypeOK /\ nextSend \in Int /\ seg_id \in Int BY DEF Known, Inv1, TypeOK
<1>2. Verdicts' BY DEF Inv3, Verdicts, Open
<1>3. Open' => Open BY DEF Open
<1>4. Queue' BY <1>3 DEF Inv3, Queue, Pushed, Unpushed, Sending
<1>5. ASSUME Open', client' = "up" PROVE Passed'
  <2>1. Passed /\ Open /\ client = "up" BY <1>3, <1>5 DEF Inv3
  <2>2. Sending' <=> Sending BY DEF Sending
  <2>3. Sending' => Shown("result", nextSend)' BY <1>1, <2>1, <2>2, ShownStays DEF Passed
  <2>4. \A u \in Tasks : u < nextSend =>
            verdict[u] = "failed" \/ u = final \/ Shown("result", u)'
      BY <1>1, <2>1, ShownStays DEF Passed
  <2>5. \A u \in Tasks : verdict[u] = "failed" /\ pc[u] \in {"report", "done"} =>
            Shown("segerr", u)'
      BY <1>1, <2>1, ShownStays DEF Passed
  <2> QED BY <2>3, <2>4, <2>5 DEF Passed
<1> QED BY <1>2, <1>4, <1>5 DEF Inv3, Passed

\* A task that leaves recognition, or ends, without touching the buffer.
LEMMA TaskOrder ==
    ASSUME Known, Inv3, NEW t \in Tasks, UNCHANGED <<client, app, hpc, seg_id, final, buffer, nextSend>>,
           Grows, pc' = [pc EXCEPT ![t] = pc'[t]],
           pc[t] \notin {"send", "esend"}, pc'[t] \notin {"send", "esend"},
           Unpushed(t) <=> Unpushed(t)',
           \A u \in Tasks : u # t => verdict'[u] = verdict[u],
           verdict[t] = "failed" => verdict'[t] = "failed",
           verdict[t] = "ok" => verdict'[t] = "ok",
           Open /\ client = "up" /\ verdict'[t] = "failed" /\ pc'[t] \in {"report", "done"} =>
               Shown("segerr", t)',
           Verdicts'
    PROVE  Inv3'
<1>1. TypeOK /\ pc \in [Tasks -> TaskPc] /\ nextSend \in Int BY DEF Known, Inv1, TypeOK
<1>2. \A u \in Tasks : u # t => pc'[u] = pc[u] BY <1>1
<1>3. Sending' <=> Sending BY <1>1, <1>2 DEF Sending
<1>4. \A u \in Tasks : /\ verdict[u] = "failed" => verdict'[u] = "failed"
                       /\ verdict[u] = "ok" => verdict'[u] = "ok"
    OBVIOUS
<1>5. \A u \in Tasks : (Pushed(u)' <=> Pushed(u)) /\ (Unpushed(u)' <=> Unpushed(u))
    BY <1>2, <1>3 DEF Pushed, Unpushed
<1>6. Queue' BY <1>3, <1>4, <1>5 DEF Inv3, Queue, Open
<1>7. ASSUME Open, client = "up" PROVE Passed'
  <2>1. Passed BY DEF Inv3
  <2>2. Sending' => Shown("result", nextSend)' BY <1>1, <1>3, <1>7, <2>1, ShownStays DEF Passed
  <2>3. \A u \in Tasks : u < nextSend =>
            verdict'[u] = "failed" \/ u = final \/ Shown("result", u)'
      BY <1>1, <1>4, <1>7, <2>1, ShownStays DEF Passed
  <2>4. ASSUME NEW u \in Tasks, verdict'[u] = "failed", pc'[u] \in {"report", "done"}
        PROVE  Shown("segerr", u)'
    <3>1. CASE u = t BY <1>7, <2>4, <3>1
    <3>2. CASE u # t BY <1>1, <1>2, <1>7, <2>1, <2>4, <3>2, ShownStays DEF Passed
    <3> QED BY <3>1, <3>2
  <2> QED BY <2>2, <2>3, <2>4 DEF Passed
<1> QED BY <1>6, <1>7 DEF Inv3, Passed, Open

\* A task that pushes enters the loop with its own number in the buffer.
LEMMA PushEnters ==
    ASSUME Known, Inv3, NEW t \in Tasks, TaskPush(t)
    PROVE  \E buf \in [SegIds -> Tasks \cup {None, Empty}] :
               Drain(t, buf, nextSend) /\ (Open => Enters(t, buf, nextSend))
<1> USE SegsAssumption
<1> DEFINE buf == [buffer EXCEPT ![segId[t]] = Stored(t)]
<1>0. TypeOK /\ Numbering /\ SendLockSound /\ Verdicts /\ Buffered
    BY DEF Known, Inv1, Inv2, Inv3
<1>1. t < seg_id /\ segId[t] = t BY <1>0 DEF TaskPush, Numbering, Active
<1>2. buf \in [SegIds -> Tasks \cup {None, Empty}] BY <1>0 DEF TypeOK, Stored
<1>3. /\ nextSend \in Nat /\ Drain(t, buf, nextSend) /\ pc[t] \in {"push", "epush"}
      /\ lock = None
    BY <1>0 DEF TypeOK, TaskPush
<1>4. /\ buf[t] = Stored(t) /\ \A k \in SegIds : k # t => buf[k] = buffer[k]
      /\ t \in SegIds /\ seg_id \in Int
    BY <1>0, <1>1 DEF TypeOK
<1>5. /\ Stored(t) \in {t, Empty} /\ (Stored(t) = t => t # final /\ verdict[t] = "ok")
      /\ Open /\ Stored(t) = Empty => verdict[t] = "failed" \/ t = final
    BY <1>0, <1>3 DEF Stored, Verdicts
<1> HIDE DEF buf
<1>6. ASSUME Open PROVE Enters(t, buf, nextSend)
  <2>1. Queue /\ Passed /\ ~Sending BY <1>0, <1>3 DEF Inv3, SendLockSound, Sending
  <2>2. ~Pushed(t) BY <1>1, <1>3, <1>6, <2>1 DEF Queue, Unpushed
  <2>3. nextSend <= t BY <1>3, <2>2 DEF Pushed
  <2>4. \A k \in SegIds : buf[k] # None => nextSend <= k /\ k < seg_id
      BY <1>1, <1>3, <1>4, <1>6, <2>1, <2>3 DEF Queue
  <2>5. \A k \in Tasks : buf[k] = Empty => verdict[k] = "failed" \/ k = final
      BY <1>4, <1>5, <1>6, <2>1 DEF Queue
  <2>6. \A k \in Tasks : buf[k] \in Tasks => buf[k] = k /\ k # final /\ verdict[k] = "ok"
      BY <1>0, <1>4, <1>5, <1>6, <2>1 DEF Buffered, Queue
  <2>7. \A u \in Tasks : u < seg_id /\ u # t => ((u < nextSend \/ buf[u] # None) <=> ~Unpushed(u))
      BY <1>4, <1>6, <2>1 DEF Queue, Pushed
  <2>8. buf[t] # None BY <1>4, <1>5
  <2>9. client = "up" => \A u \in Tasks : u < nextSend =>
            verdict[u] = "failed" \/ u = final \/ Shown("result", u)
      BY <1>6, <2>1 DEF Passed
  <2> QED BY <1>1, <1>6, <2>1, <2>4, <2>5, <2>6, <2>7, <2>8, <2>9 DEF Enters, Queue
<1> QED BY <1>2, <1>3, <1>6

\* A task whose send has returned enters it again behind the number it sent.
LEMMA SentEnters ==
    ASSUME Known, Inv3, NEW t \in Tasks, TaskSent(t), Open
    PROVE  Enters(t, buffer, nextSend + 1)
<1> USE SegsAssumption
<1>0. TypeOK /\ Numbering /\ Queue /\ Passed /\ Buffered BY DEF Known, Inv1, Inv2, Inv3
<1>1. /\ nextSend \in Nat /\ seg_id \in Int /\ pc[t] \in {"send", "esend"} /\ Sending
      /\ buffer \in [SegIds -> Tasks \cup {None, Empty}]
    BY <1>0 DEF TypeOK, TaskSent, Sending
<1>2. t < seg_id BY <1>0, <1>1 DEF Numbering, Active
<1>3. Pushed(t) BY <1>0, <1>1, <1>2 DEF Queue, Unpushed
<1>4. \A u \in Tasks : u < nextSend + 1 <=> u < nextSend \/ u = nextSend BY <1>1
<1>5. \A u \in Tasks : (u < nextSend + 1 \/ buffer[u] # None) <=> Pushed(u)
    BY <1>1, <1>4 DEF Pushed
<1>6. \A k \in SegIds : buffer[k] # None => nextSend + 1 <= k /\ k < seg_id
    BY <1>0, <1>1 DEF Queue
<1>7. client = "up" => \A u \in Tasks : u < nextSend + 1 =>
          verdict[u] = "failed" \/ u = final \/ Shown("result", u)
    BY <1>0, <1>1, <1>4 DEF Passed
<1> QED BY <1>0, <1>1, <1>2, <1>3, <1>5, <1>6, <1>7 DEF Enters, Queue, Buffered

\* Every step keeps the invariant.
LEMMA StepOrder == Known /\ Inv3 /\ [Next]_vars => Inv3'
<1> SUFFICES ASSUME Known, Inv3, [Next]_vars PROVE Inv3'
    OBVIOUS
<1> USE SegsAssumption
<1>0. TypeOK /\ Numbering /\ Tracking /\ SendLockSound /\ Verdicts /\ FlushLast /\ Buffered
    BY DEF Known, Inv1, Inv2, Inv3
<1>a. wire' = wire => Grows BY <1>0, WireType DEF Grows
<1>1. ASSUME NEW t \in Tasks, TaskStart(t) PROVE Inv3'
  <2>1. hpc # "done" BY <1>0, <1>1 DEF TaskStart, Tracking, Live
  <2>2. t = seg_id /\ seg_id < created
    <3>1. t >= seg_id /\ t < created BY <1>0, <1>1 DEF TaskStart, Numbering, TypeOK
    <3>2. seg_id \in Tasks BY <1>0, <3>1 DEF TypeOK
    <3>3. pc[seg_id] = "ready" BY <1>0, <2>1, <3>1, <3>2 DEF Numbering, TypeOK
    <3>4. ~(seg_id < t) BY <1>1, <3>2, <3>3 DEF TaskStart
    <3> QED BY <1>0, <3>1, <3>4 DEF TypeOK
  <2>3. /\ UNCHANGED <<client, app, hpc, final, finalJson, verdict, buffer, nextSend, wire>>
        /\ seg_id' = seg_id + 1 /\ pc'[t] = "work" /\ pc[t] = "ready"
        /\ \A u \in Tasks : u # t => pc'[u] = pc[u]
      BY <1>0, <1>1 DEF TaskStart, hVars, orderVars, TypeOK
  <2>4. Sending' <=> Sending BY <2>3 DEF Sending
  <2>5. Verdicts' BY <1>0, <2>3 DEF Verdicts, Open
  <2>6. Queue'
    <3> SUFFICES ASSUME Open PROVE Queue'
        BY <2>3 DEF Queue, Open
    <3>1. Queue /\ nextSend \in Int /\ seg_id \in Int BY <1>0 DEF Inv3, TypeOK
    <3>2. ~Pushed(t) BY <2>2, <3>1, SegsAssumption DEF Queue, Pushed
    <3>3. \A u \in Tasks : u < seg_id' => (Pushed(u)' <=> ~Unpushed(u)')
      <4>1. \A u \in Tasks : Pushed(u)' <=> Pushed(u) BY <2>3, <2>4 DEF Pushed
      <4> QED BY <2>2, <2>3, <3>1, <3>2, <4>1 DEF Queue, Unpushed
    <3> QED BY <2>3, <2>4, <3>1, <3>3 DEF Queue
  <2>7. Passed' BY <2>3, <2>4 DEF Inv3, Passed, Open, Shown
  <2> QED BY <2>5, <2>6, <2>7 DEF Inv3
<1>2. ASSUME NEW t \in Tasks, TaskSucceeds(t) \/ TaskFails(t) PROVE Inv3'
  <2>1. /\ UNCHANGED <<client, app, hpc, seg_id, final, buffer, nextSend, wire>>
        /\ pc[t] = "work" /\ verdict[t] = "pending"
        /\ pc' = [pc EXCEPT ![t] = pc'[t]]
        /\ \A u \in Tasks : u # t => pc'[u] = pc[u] /\ verdict'[u] = verdict[u]
        /\ \/ pc'[t] = "push" /\ verdict'[t] = "ok"
                /\ finalJson' = IF t = final THEN t ELSE finalJson
           \/ pc'[t] = "epush" /\ verdict'[t] = "failed" /\ finalJson' = finalJson
      BY <1>0, <1>2 DEF TaskSucceeds, TaskFails, hVars, orderVars, TypeOK, Verdicts
  <2>2. Verdicts' BY <1>0, <2>1 DEF Verdicts, Open, TypeOK
  <2> QED BY <1>a, <2>1, <2>2, TaskOrder DEF Unpushed
<1>3. ASSUME NEW t \in Tasks, TaskPush(t) PROVE Inv3'
  <2>1. PICK buf \in [SegIds -> Tasks \cup {None, Empty}] :
            Drain(t, buf, nextSend) /\ (Open => Enters(t, buf, nextSend))
      BY <1>3, PushEnters
  <2>2. /\ nextSend \in Nat /\ pc[t] \in {"push", "epush", "send", "esend"}
        /\ lock \in {None, t} /\ UNCHANGED <<client, app, hVars, taskVars>>
      BY <1>0, <1>3 DEF TypeOK, TaskPush
  <2> QED BY <2>1, <2>2, DrainOrder
<1>4. ASSUME NEW t \in Tasks, TaskSent(t) PROVE Inv3'
  <2>1. /\ nextSend + 1 \in Nat /\ pc[t] \in {"push", "epush", "send", "esend"}
        /\ lock \in {None, t} /\ UNCHANGED <<client, app, hVars, taskVars>>
        /\ buffer \in [SegIds -> Tasks \cup {None, Empty}] /\ Drain(t, buffer, nextSend + 1)
      BY <1>0, <1>4 DEF TypeOK, TaskSent, SendLockSound
  <2>2. Open => Enters(t, buffer, nextSend + 1) BY <1>4, SentEnters
  <2> QED BY <2>1, <2>2, DrainOrder
<1>5. ASSUME NEW t \in Tasks, TaskReport(t) PROVE Inv3'
  <2>1. /\ UNCHANGED <<client, app, hpc, seg_id, final, finalJson, verdict, buffer, nextSend>>
        /\ pc[t] = "elock" /\ pc' = [pc EXCEPT ![t] = pc'[t]]
        /\ \A u \in Tasks : u # t => pc'[u] = pc[u]
        /\ \/ app = "connected" /\ pc'[t] = "report" /\ Write("segerr", t)
           \/ app # "connected" /\ pc'[t] = "done" /\ wire' = wire
      BY <1>0, <1>5 DEF TaskReport, hVars, taskVars, orderVars, TypeOK
  <2>2. Grows /\ (Open /\ client = "up" => Shown("segerr", t)')
      BY <1>0, <1>a, <2>1, WriteShows DEF Kinds, Open
  <2>3. Verdicts' BY <1>0, <2>1 DEF Verdicts, Open
  <2> QED BY <2>1, <2>2, <2>3, TaskOrder DEF Unpushed
<1>6. ASSUME NEW t \in Tasks, TaskReported(t) PROVE Inv3'
  <2>1. /\ UNCHANGED <<client, app, hpc, seg_id, final, finalJson, verdict, buffer, nextSend, wire>>
        /\ pc[t] = "report" /\ pc' = [pc EXCEPT ![t] = pc'[t]] /\ pc'[t] = "done"
        /\ \A u \in Tasks : u # t => pc'[u] = pc[u]
      BY <1>0, <1>6 DEF TaskReported, hVars, taskVars, orderVars, TypeOK
  <2>2. Open /\ client = "up" /\ verdict[t] = "failed" => Shown("segerr", t)'
      BY <2>1 DEF Inv3, Passed, Shown
  <2>3. Verdicts' BY <1>0, <2>1 DEF Verdicts, Open
  <2> QED BY <1>a, <2>1, <2>2, <2>3, TaskOrder DEF Unpushed
<1>7. ASSUME NEW t \in Tasks, TaskSendFails(t) \/ TaskCancelled(t) PROVE Inv3'
  <2>1. /\ UNCHANGED <<hpc, final, finalJson, verdict>>
        /\ pc[t] \in {"send", "esend", "report", "cancelled"} /\ pc'[t] = "done"
        /\ \A u \in Tasks : u # t => pc'[u] = pc[u]
        /\ pc[t] = "cancelled" <=> TaskCancelled(t)
      BY <1>0, <1>7 DEF TaskSendFails, TaskCancelled, hVars, taskVars, TypeOK
  <2>2. TaskCancelled(t) => hpc = "done" BY <1>0, <2>1 DEF Tracking, Live
  <2>3. ~Open' BY <1>7, <2>1, <2>2 DEF TaskSendFails, Open
  <2>4. Verdicts' BY <1>0, <2>1, <2>2, <2>3 DEF Verdicts
  <2> QED BY <2>3, <2>4 DEF Inv3, Queue, Passed
<1>8. ASSUME FeedReturns \/ ReceiveEnd PROVE Inv3'
  <2>1. PICK k \in 0 .. MaxSegs : Spawn(k)
    <3>1. 0 \in 0 .. MaxSegs /\ 1 \in 0 .. MaxSegs BY SegsAssumption
    <3> QED BY <1>8, <3>1 DEF FeedReturns, ReceiveEnd
  <2>2. /\ UNCHANGED <<client, app, seg_id, finalJson, verdict, buffer, nextSend, wire>>
        /\ hpc \in {"recv", "feed"} /\ hpc' # "done"
        /\ final' = final \/ (final' = created /\ created' = created + 1)
      BY <1>8 DEF FeedReturns, ReceiveEnd, BackToReceive, Spawn, orderVars
  <2>3. final = None /\ finalJson = None /\ created \in Nat BY <1>0, <2>2 DEF FlushLast, TypeOK
  <2>4. \A u \in Tasks : pc'[u] = pc[u] \/ (pc[u] = "none" /\ pc'[u] = "ready")
    <3>1. \A u \in Tasks : u \in created .. created + k - 1 => pc[u] = "none"
        BY <1>0, <2>3 DEF Numbering
    <3> QED BY <2>1, <3>1 DEF Spawn
  <2>5. final' # None => verdict[final'] = "pending"
    <3>1. CASE final' = created /\ created' = created + 1
      <4>1. created \in Tasks /\ pc[created] = "none"
        <5>1. created + k <= MaxSegs /\ created' = created + k BY <2>1 DEF Spawn
        <5>2. created \in Tasks BY <2>3, <3>1, <5>1, SegsAssumption
        <5> QED BY <1>0, <2>3, <5>2 DEF Numbering
      <4> QED BY <1>0, <3>1, <4>1 DEF Verdicts
    <3> QED BY <2>2, <2>3, <3>1
  <2>6. Verdicts'
    <3>1. final' # None => final' # finalJson' BY <2>2, <2>3
    <3> QED BY <1>0, <2>2, <2>4, <2>5, <3>1 DEF Verdicts, Open
  <2>7. Sending' <=> Sending BY <2>4 DEF Sending
  <2>8. \A u \in Tasks : (Pushed(u)' <=> Pushed(u)) /\ (Unpushed(u)' <=> Unpushed(u))
      BY <2>2, <2>4, <2>7 DEF Pushed, Unpushed
  <2>9. (Open' => Open) /\ \A u \in Tasks : u # final BY <2>2, <2>3 DEF Open
  <2>10. Queue' BY <2>2, <2>7, <2>8, <2>9 DEF Inv3, Queue
  <2>11. Passed' BY <2>2, <2>4, <2>7, <2>9 DEF Inv3, Passed, Shown
  <2> QED BY <2>6, <2>10, <2>11 DEF Inv3
<1>9. ASSUME Hello \/ SendEnd \/ SendFatal PROVE Inv3'
  <2>1. /\ UNCHANGED <<client, app, pc, seg_id, final, finalJson, verdict, buffer, nextSend>>
        /\ hpc # "done"
        /\ wire' = wire \/ \E k \in Kinds, t \in Tasks \cup {None} : Write(k, t)
      BY <1>0, <1>9 DEF Hello, SendEnd, SendFatal, taskVars, orderVars, Kinds, TypeOK
  <2>2. Grows BY <1>0, <1>a, <2>1, WriteShows
  <2> QED BY <2>1, <2>2, HandlerOrder
<1>10. ASSUME HelloSent \/ ReceiveAudio \/ HandlerRaises \/ GatherReturns \/ EndSent \/ FatalSent
              \/ HandlerSendFails \/ ReceiveDisconnect \/ CloseBegins \/ CloseEnds
       PROVE  Inv3'
  <2>1. /\ UNCHANGED <<client, pc, seg_id, final, finalJson, verdict, buffer, nextSend, wire>>
        /\ hpc # "done" /\ (app' = app \/ app' = "disconnected")
      BY <1>10 DEF HelloSent, ReceiveAudio, HandlerRaises, GatherReturns, EndSent, FatalSent,
                   HandlerSendFails, ReceiveDisconnect, CloseBegins, CloseEnds, taskVars,
                   orderVars
  <2> QED BY <1>a, <2>1, HandlerOrder
<1>11. ASSUME Cleanup PROVE Inv3'
  <2>1. /\ UNCHANGED <<final, finalJson, verdict>> /\ hpc' = "done"
        /\ \A u \in Tasks : pc'[u] \in {pc[u], "cancelled"}
      BY <1>0, <1>11 DEF Cleanup, TypeOK
  <2>2. Verdicts' BY <1>0, <2>1 DEF Verdicts, Open
  <2> QED BY <2>1, <2>2 DEF Inv3, Queue, Passed, Open
<1>12. ASSUME ClientGone PROVE Inv3'
  <2>1. /\ UNCHANGED <<app, hpc, pc, seg_id, final, finalJson, verdict, buffer, nextSend>>
        /\ client' # "up"
      BY <1>12 DEF ClientGone, hVars, taskVars, orderVars
  <2>2. Sending' <=> Sending BY <2>1 DEF Sending
  <2>3. Verdicts' /\ Queue'
      BY <1>0, <2>1, <2>2 DEF Inv3, Verdicts, Queue, Open, Pushed, Unpushed
  <2> QED BY <2>1, <2>3 DEF Inv3, Passed
<1>13. ASSUME UNCHANGED vars PROVE Inv3'
  BY <1>13 DEF vars, hVars, taskVars, orderVars, Inv3, Verdicts, Queue, Passed, Open, Pushed,
              Unpushed, Sending, Shown
<1> QED BY <1>1, <1>2, <1>3, <1>4, <1>5, <1>6, <1>7, <1>8, <1>9, <1>10, <1>11, <1>12, <1>13
        DEF Next, TaskStep, HandlerStep, Finished

-----------------------------------------------------------------------------
(* Nothing stays behind *)

\* When all tasks are over and the socket works, every number has been passed.
LEMMA AllPassed ==
    ASSUME Known, Inv3, Open, \A t \in 0 .. created - 1 : pc[t] = "done"
    PROVE  seg_id = created /\ nextSend = seg_id /\ buffer = [n \in SegIds |-> None]
<1>1. TypeOK /\ Numbering /\ Queue BY DEF Known, Inv1, Inv3
<1>2. /\ nextSend \in Int /\ seg_id \in Int /\ created \in Int /\ seg_id <= created
      /\ seg_id >= 0 /\ nextSend >= 0 /\ created <= MaxSegs /\ MaxSegs \in Nat
      /\ buffer \in [SegIds -> Tasks \cup {None, Empty}]
    BY <1>1, SegsAssumption DEF TypeOK, Numbering
<1>3. seg_id = created
  <2> SUFFICES ASSUME seg_id # created PROVE FALSE
      OBVIOUS
  <2>1. seg_id \in Tasks /\ seg_id \in 0 .. created - 1 BY <1>2
  <2> QED BY <1>1, <1>2, <2>1 DEF Numbering, Open
<1>4. ~Sending
  <2>1. \A t \in Tasks : pc[t] \in {"none", "done"}
      BY <1>1, <1>2 DEF Numbering
  <2> QED BY <2>1 DEF Sending
<1>5. nextSend = seg_id
  <2> SUFFICES ASSUME nextSend < seg_id PROVE FALSE
      BY <1>1, <1>2 DEF Queue
  <2>1. nextSend \in Tasks /\ nextSend \in 0 .. created - 1 BY <1>2
  <2>2. Pushed(nextSend) BY <1>1, <2>1 DEF Queue, Unpushed
  <2>3. buffer[nextSend] # None BY <1>2, <1>4, <2>2 DEF Pushed
  <2>4. nextSend \in SegIds BY <1>2
  <2> QED BY <1>1, <1>2, <2>3, <2>4 DEF Queue
<1>6. \A k \in SegIds : buffer[k] = None BY <1>1, <1>2, <1>5 DEF Queue
<1> QED BY <1>2, <1>3, <1>5, <1>6

\* When every task is over and the socket works, no result is left behind in
\* the reorder buffer, however the recognitions ended and overtook each other.
THEOREM NothingLeftBehind == Spec => []NothingStuck
<1>1. Known /\ Inv3 => NothingStuck
  <2> SUFFICES ASSUME Known, Inv3, app = "connected", hpc # "done",
                      \A t \in 0 .. created - 1 : pc[t] = "done"
               PROVE  nextSend = seg_id /\ buffer = [n \in SegIds |-> None]
      BY DEF NothingStuck
  <2> QED BY AllPassed DEF Open
<1>2. Init => Known BY InitInv1, InitLock, InitInv2 DEF Known
<1>3. Known /\ [Next]_vars => Known' BY StepInv1, StepLock, StepInv2 DEF Known
<1> QED BY <1>1, <1>2, <1>3, InitOrder, StepOrder, PTL DEF Spec

-----------------------------------------------------------------------------
(* No text overtakes another *)

\* Segment m has a text, and every one before it has failed or been sent.
InTurn(m) ==
    /\ m \in Tasks /\ verdict[m] = "ok"
    /\ \A u \in 0 .. m - 1 : verdict[u] = "failed" \/ Shown("result", u)

\* The loop sends a result in its turn.
LEMMA DrainInOrder ==
    ASSUME Known, NEW t \in Tasks, pc[t] \in {"push", "epush", "send", "esend"},
           NEW buf \in [SegIds -> Tasks \cup {None, Empty}], NEW n \in Nat,
           Open => Enters(t, buf, n), Drain(t, buf, n)
    PROVE  \/ wire' = wire
           \/ client = "up" /\ \E m \in Tasks : Write("result", m) /\ InTurn(m)
<1> USE SegsAssumption
<1> PICK m \in n .. MaxSegs :
        /\ \A k \in n .. m - 1 : buf[k] = Empty
        /\ DrainStops(t, buf, n, m) \/ DrainSends(t, buf, n, m) \/ DrainRaises(t, buf, n, m)
    BY DEF Drain
<1>0. TypeOK /\ FlushLast /\ Numbering /\ Tracking BY DEF Known, Inv1, Inv2
<1> SUFFICES ASSUME wire' # wire
             PROVE  client = "up" /\ \E k \in Tasks : Write("result", k) /\ InTurn(k)
    OBVIOUS
<1>1. DrainSends(t, buf, n, m) BY DEF DrainStops, DrainRaises
<1>2. client = "up" /\ buf[m] \in Tasks /\ app = "connected" /\ Write("result", buf[m])
    BY <1>1 DEF DrainSends, Write
<1>3. Enters(t, buf, n)
  <2>1. hpc # "done" BY <1>0 DEF Tracking, Live
  <2> QED BY <1>2, <2>1 DEF Open
<1>4. m \in SegIds /\ m < seg_id /\ seg_id <= created /\ created <= MaxSegs /\ m \in Nat
      /\ seg_id \in Int /\ created \in Int /\ MaxSegs \in Nat
    BY <1>0, <1>2, <1>3 DEF Enters, TypeOK, Numbering
<1>5. m \in Tasks /\ buf[m] = m /\ m # final /\ verdict[m] = "ok" BY <1>2, <1>3, <1>4 DEF Enters
<1>6. \A u \in 0 .. m - 1 : u \in Tasks /\ u # final /\ (u < n \/ buf[u] = Empty)
    BY <1>0, <1>4, <1>5 DEF FlushLast
<1>7. InTurn(m) BY <1>2, <1>3, <1>5, <1>6 DEF InTurn, Enters
<1> QED BY <1>2, <1>5, <1>7

\* What a step writes, if it carries a text, is written in its turn.
LEMMA WritesInOrder ==
    ASSUME Known, Inv3, Next
    PROVE  \/ wire' = wire
           \/ \E k \in Kinds, t \in Tasks \cup {None} :
                 Write(k, t) /\ (Carries([kind |-> k, task |-> t]) => InTurn(t))
<1> USE SegsAssumption
<1>0. TypeOK /\ FlushLast /\ EndLast /\ Numbering /\ SendLockSound /\ Verdicts /\ Passed
    BY DEF Known, Inv1, Inv2, Inv3
<1>1. ASSUME NEW t \in Tasks, TaskPush(t) \/ TaskSent(t)
      PROVE  wire' = wire \/ \E m \in Tasks : Write("result", m) /\ InTurn(m)
  <2>1. CASE TaskPush(t)
    <3>1. PICK buf \in [SegIds -> Tasks \cup {None, Empty}] :
              Drain(t, buf, nextSend) /\ (Open => Enters(t, buf, nextSend))
        BY <2>1, PushEnters
    <3>2. nextSend \in Nat /\ pc[t] \in {"push", "epush"} BY <1>0, <2>1 DEF TypeOK, TaskPush
    <3> QED BY <3>1, <3>2, DrainInOrder
  <2>2. CASE TaskSent(t)
    <3>1. /\ nextSend + 1 \in Nat /\ pc[t] \in {"send", "esend"}
          /\ buffer \in [SegIds -> Tasks \cup {None, Empty}] /\ Drain(t, buffer, nextSend + 1)
        BY <1>0, <2>2 DEF TypeOK, TaskSent
    <3>2. Open => Enters(t, buffer, nextSend + 1) BY <2>2, SentEnters
    <3> QED BY <3>1, <3>2, DrainInOrder
  <2> QED BY <1>1, <2>1, <2>2
<1>2. ASSUME NEW t \in Tasks, TaskReport(t) PROVE wire' = wire \/ Write("segerr", t)
  BY <1>2 DEF TaskReport
<1>3. ASSUME NEW t \in Tasks,
             \/ TaskStart(t) \/ TaskSucceeds(t) \/ TaskFails(t)
             \/ TaskReported(t) \/ TaskSendFails(t) \/ TaskCancelled(t)
      PROVE  wire' = wire
  BY <1>3 DEF TaskStart, TaskSucceeds, TaskFails, TaskReported, TaskSendFails, TaskCancelled
<1>4. ASSUME Hello \/ SendFatal PROVE wire' = wire \/ Write("hello", None) \/ Write("fatal", None)
  BY <1>4 DEF Hello, SendFatal
<1>5. ASSUME SendEnd, wire' # wire
      PROVE  Write("end", finalJson) /\ (finalJson # None => InTurn(finalJson))
  <2>1. hpc = "endlock" /\ app = "connected" /\ client = "up" /\ Write("end", finalJson)
      BY <1>5 DEF SendEnd, Write
  <2>2. Open BY <2>1 DEF Open
  <2>3. \A u \in 0 .. created - 1 : pc[u] = "done"
    <3>1. \A u \in 0 .. created - 1 : u \in Tasks /\ ~(u >= created) BY <1>0 DEF TypeOK
    <3>2. \A u \in 0 .. created - 1 : pc[u] # "none" BY <1>0, <3>1 DEF Numbering
    <3>3. \A u \in Tasks : ~Live(u) BY <1>0, <2>1 DEF EndLast
    <3> QED BY <3>1, <3>2, <3>3 DEF Live
  <2>4. nextSend = created BY <2>2, <2>3, AllPassed
  <2>5. ASSUME finalJson # None PROVE InTurn(finalJson)
    <3>1. /\ finalJson = created - 1 /\ final = created - 1 /\ finalJson \in Tasks
          /\ verdict[finalJson] = "ok"
        BY <1>0, <2>5 DEF FlushLast, Verdicts, TypeOK
    <3>2. \A u \in 0 .. finalJson - 1 : u \in Tasks /\ u # final /\ u < nextSend
        BY <1>0, <2>4, <3>1 DEF TypeOK
    <3> QED BY <1>0, <2>1, <2>2, <3>1, <3>2 DEF Passed, InTurn
  <2> QED BY <2>1, <2>5
<1>6. ASSUME \/ HelloSent \/ FeedReturns \/ GatherReturns \/ EndSent \/ FatalSent
             \/ HandlerSendFails \/ ReceiveDisconnect \/ CloseBegins \/ CloseEnds \/ Cleanup
             \/ ReceiveAudio \/ ReceiveEnd \/ HandlerRaises \/ ClientGone \/ Finished
      PROVE  wire' = wire
  BY <1>6 DEF HelloSent, FeedReturns, GatherReturns, EndSent, FatalSent, HandlerSendFails,
              ReceiveDisconnect, CloseBegins, CloseEnds, Cleanup, ReceiveAudio, ReceiveEnd,
              HandlerRaises, ClientGone, Finished, vars
<1>7. ASSUME NEW t \in Tasks, TaskStep(t)
      PROVE  \/ wire' = wire
             \/ \E k \in Kinds, u \in Tasks \cup {None} :
                   Write(k, u) /\ (Carries([kind |-> k, task |-> u]) => InTurn(u))
  BY <1>1, <1>2, <1>3, <1>7 DEF TaskStep, Kinds, Carries
<1>8. CASE Hello \/ SendFatal \/ SendEnd
  BY <1>0, <1>4, <1>5, <1>8 DEF Kinds, Carries, TypeOK
<1> QED BY <1>6, <1>7, <1>8 DEF Next, HandlerStep

\* A recognition that has failed stays so.
LEMMA FailedStays ==
    ASSUME Known, Inv3, Next, NEW u \in Tasks, verdict[u] = "failed"
    PROVE  verdict'[u] = "failed"
<1>1. TypeOK /\ Verdicts BY DEF Known, Inv1, Inv3
<1>2. ASSUME NEW t \in Tasks, TaskSucceeds(t) \/ TaskFails(t) PROVE verdict'[u] = "failed"
  <2>1. u # t BY <1>1, <1>2 DEF Verdicts, TaskSucceeds, TaskFails
  <2> QED BY <1>1, <1>2, <2>1 DEF TaskSucceeds, TaskFails, TypeOK
<1>3. ASSUME NEW t \in Tasks, TaskStep(t), ~TaskSucceeds(t), ~TaskFails(t)
      PROVE  verdict' = verdict
  BY <1>3 DEF TaskStep, TaskStart, TaskPush, TaskSent, TaskReport, TaskReported, TaskSendFails,
              TaskCancelled, taskVars
<1>4. ASSUME HandlerStep \/ ReceiveAudio \/ ReceiveEnd \/ HandlerRaises \/ ClientGone \/ Finished
      PROVE  verdict' = verdict
  BY <1>4 DEF HandlerStep, Hello, HelloSent, FeedReturns, GatherReturns, SendEnd, EndSent,
              SendFatal, FatalSent, HandlerSendFails, ReceiveDisconnect, CloseBegins, CloseEnds,
              Cleanup, ReceiveAudio, ReceiveEnd, HandlerRaises, ClientGone, Finished, vars, taskVars
<1> QED BY <1>2, <1>3, <1>4 DEF Next

\* Every step keeps the texts from overtaking each other.
LEMMA StepOvertaking == Known /\ Inv3 /\ NoOvertaking /\ [Next]_vars => NoOvertaking'
<1> SUFFICES ASSUME Known, Inv3, NoOvertaking, [Next]_vars PROVE NoOvertaking'
    OBVIOUS
<1>0. TypeOK BY DEF Known, Inv1
<1>1. CASE UNCHANGED vars BY <1>1 DEF vars, taskVars, NoOvertaking
<1>2. ASSUME Next PROVE NoOvertaking'
  <2>1. \A i \in 1 .. Len(wire) : Carries(wire[i]) =>
            wire[i].task \in Int /\ \A u \in 0 .. wire[i].task - 1 : u \in Tasks
      BY <1>0, WireType, SegsAssumption DEF Carries
  <2>2. \A i \in 1 .. Len(wire) : Carries(wire[i]) =>
            \A u \in 0 .. wire[i].task - 1 :
                verdict'[u] = "failed" \/ \E j \in 1 .. i - 1 : Carries(wire[j]) /\ wire[j].task = u
      BY <1>2, <2>1, FailedStays DEF NoOvertaking
  <2>3. CASE wire' = wire BY <2>2, <2>3 DEF NoOvertaking
  <2>4. CASE wire' # wire
    <3>1. PICK k \in Kinds, t \in Tasks \cup {None} :
              Write(k, t) /\ (Carries([kind |-> k, task |-> t]) => InTurn(t))
        BY <1>2, <2>4, WritesInOrder
    <3>2. /\ Len(wire') = Len(wire) + 1 /\ Len(wire) \in Nat
          /\ \A i \in 1 .. Len(wire) : wire'[i] = wire[i]
          /\ wire'[Len(wire) + 1] = [kind |-> k, task |-> t]
        BY <1>0, <2>4, <3>1, WriteWire, WireType
    <3> SUFFICES ASSUME NEW i \in 1 .. Len(wire'), Carries(wire'[i]),
                        NEW u \in 0 .. wire'[i].task - 1
                 PROVE  \/ verdict'[u] = "failed"
                        \/ \E j \in 1 .. i - 1 : Carries(wire'[j]) /\ wire'[j].task = u
        BY DEF NoOvertaking
    <3>3. CASE i \in 1 .. Len(wire)
      <4>1. wire'[i] = wire[i] BY <3>2, <3>3
      <4>2. \A j \in 1 .. i - 1 : wire'[j] = wire[j] BY <3>2, <3>3
      <4> QED BY <2>2, <3>3, <4>1, <4>2
    <3>4. CASE i = Len(wire) + 1
      <4>1. InTurn(t) /\ wire'[i].task = t BY <3>1, <3>2, <3>4
      <4>2. t \in Int /\ u \in Tasks BY <4>1, SegsAssumption
      <4>3. CASE verdict[u] = "failed" BY <1>2, <4>2, <4>3, FailedStays
      <4>4. CASE Shown("result", u)
        <5>1. PICK j \in 1 .. Len(wire) : wire[j] = [kind |-> "result", task |-> u]
            BY <4>4 DEF Shown
        <5>2. j \in 1 .. i - 1 /\ wire'[j] = wire[j] BY <3>2, <3>4
        <5> QED BY <5>1, <5>2 DEF Carries
      <4> QED BY <4>1, <4>3, <4>4 DEF InTurn
    <3> QED BY <3>2, <3>3, <3>4
  <2> QED BY <2>3, <2>4
<1> QED BY <1>1, <1>2

\* No text is sent before the text of an earlier segment that was recognised.
THEOREM NoTextOvertakes == Spec => []NoOvertaking
<1>1. Init => Known /\ NoOvertaking
    BY InitInv1, InitLock, InitInv2 DEF Known, Init, NoOvertaking
<1>2. Known /\ [Next]_vars => Known' BY StepInv1, StepLock, StepInv2 DEF Known
<1> QED BY <1>1, <1>2, InitOrder, StepOrder, StepOvertaking, PTL DEF Spec

-----------------------------------------------------------------------------
(* The answer to the client's end frame *)

\* When the end frame goes out, every segment has been answered.
LEMMA EndAnswersAll ==
    ASSUME Known, Inv3, SendEnd, wire' # wire, NEW t \in 0 .. created - 1
    PROVE  \/ verdict[t] = "ok" /\ (Shown("result", t) \/ finalJson = t)
           \/ verdict[t] = "failed" /\ Shown("segerr", t)
<1>0. TypeOK /\ Numbering /\ FlushLast /\ EndLast /\ Verdicts /\ Passed
    BY DEF Known, Inv1, Inv2, Inv3
<1>1. hpc = "endlock" /\ app = "connected" /\ client = "up" /\ Open
    BY DEF SendEnd, Write, Open
<1>2. \A u \in 0 .. created - 1 : u \in Tasks /\ pc[u] = "done"
  <2>1. \A u \in 0 .. created - 1 : u \in Tasks /\ ~(u >= created)
      BY <1>0, SegsAssumption DEF TypeOK
  <2>2. \A u \in 0 .. created - 1 : pc[u] # "none" BY <1>0, <2>1 DEF Numbering
  <2>3. \A u \in Tasks : ~Live(u) BY <1>0, <1>1 DEF EndLast
  <2> QED BY <2>1, <2>2, <2>3 DEF Live
<1>3. nextSend = created /\ t < nextSend BY <1>0, <1>1, <1>2, AllPassed DEF TypeOK
<1>4. t \in Tasks /\ verdict[t] \in {"ok", "failed"} BY <1>0, <1>1, <1>2 DEF Verdicts, TypeOK
<1>5. CASE verdict[t] = "failed" BY <1>0, <1>1, <1>2, <1>4, <1>5 DEF Passed
<1>6. CASE verdict[t] = "ok"
  <2>1. t = final => finalJson = t BY <1>0, <1>4, <1>6 DEF Verdicts
  <2> QED BY <1>0, <1>1, <1>3, <1>4, <1>6, <2>1 DEF Passed
<1> QED BY <1>4, <1>5, <1>6

\* Once no task is left and the handler reads no more, verdicts are final.
LEMMA NoMoreSegments ==
    ASSUME Known, Next, \A t \in Tasks : ~Live(t), hpc \notin {"recv", "feed"}
    PROVE  created' = created /\ verdict' = verdict
<1>1. \A t \in Tasks : pc[t] \in {"none", "done"} BY DEF Live
<1>2. \A t \in Tasks : ~TaskStep(t)
    BY <1>1 DEF TaskStep, TaskStart, TaskSucceeds, TaskFails, TaskPush, TaskSent, TaskReport,
                TaskReported, TaskSendFails, TaskCancelled
<1>3. ~FeedReturns /\ ~ReceiveEnd BY DEF FeedReturns, ReceiveEnd
<1> QED BY <1>2, <1>3
    DEF Next, HandlerStep, Hello, HelloSent, GatherReturns, SendEnd, EndSent, SendFatal, FatalSent,
        HandlerSendFails, ReceiveDisconnect, CloseBegins, CloseEnds, Cleanup, ReceiveAudio,
        HandlerRaises, ClientGone, Finished, vars, taskVars

\* An end frame is written by the handler only.
LEMMA EndIsWritten ==
    ASSUME Known, Inv3, Next, NEW i \in 1 .. Len(wire'), wire'[i].kind = "end",
           i \notin 1 .. Len(wire)
    PROVE  SendEnd /\ wire' # wire /\ wire'[i] = [kind |-> "end", task |-> finalJson]
           /\ i = Len(wire) + 1 /\ Grows
<1>0. TypeOK /\ Len(wire) \in Nat BY WireType DEF Known, Inv1
<1>1. wire' # wire OBVIOUS
<1>2. \A k \in Kinds, t \in Tasks \cup {None} :
          Write(k, t) => Grows /\ i = Len(wire) + 1 /\ wire'[i] = [kind |-> k, task |-> t]
    BY <1>0, <1>1, WriteWire DEF Grows
<1>3. \A k \in Kinds \ {"end"}, t \in Tasks \cup {None} : ~Write(k, t)
  <2> SUFFICES ASSUME NEW k \in Kinds \ {"end"}, NEW t \in Tasks \cup {None}, Write(k, t)
               PROVE  FALSE
      OBVIOUS
  <2>1. wire'[i] = [kind |-> k, task |-> t] BY <1>2
  <2> QED BY <2>1
<1>4. ASSUME NEW t \in Tasks, TaskStep(t) PROVE FALSE
  <2>1. CASE TaskPush(t) \/ TaskSent(t)
    <3>1. PICK m \in Tasks : Write("result", m) \/ wire' = wire
        BY <2>1, SegsAssumption DEF TaskPush, TaskSent, Drain, DrainStops, DrainSends, DrainRaises
    <3>2. ~Write("result", m) BY <1>3 DEF Kinds
    <3> QED BY <1>1, <3>1, <3>2
  <2>2. CASE TaskReport(t)
    <3>1. Write("segerr", t) BY <1>1, <2>2 DEF TaskReport
    <3>2. ~Write("segerr", t) BY <1>3 DEF Kinds
    <3> QED BY <3>1, <3>2
  <2> QED BY <1>1, <1>4, <2>1, <2>2
      DEF TaskStep, TaskStart, TaskSucceeds, TaskFails, TaskReported, TaskSendFails, TaskCancelled
<1>5. ASSUME Hello \/ SendFatal PROVE FALSE
  <2>1. Write("hello", None) \/ Write("fatal", None) BY <1>1, <1>5 DEF Hello, SendFatal
  <2>2. ~Write("hello", None) /\ ~Write("fatal", None) BY <1>3 DEF Kinds
  <2> QED BY <2>1, <2>2
<1>6. SendEnd
    BY <1>1, <1>4, <1>5
    DEF Next, HandlerStep, HelloSent, FeedReturns, GatherReturns, EndSent, FatalSent,
        HandlerSendFails, ReceiveDisconnect, CloseBegins, CloseEnds, Cleanup, ReceiveAudio,
        ReceiveEnd, HandlerRaises, ClientGone, Finished, vars
<1>7. Write("end", finalJson) BY <1>1, <1>6 DEF SendEnd
<1> QED BY <1>0, <1>1, <1>2, <1>6, <1>7 DEF Kinds, TypeOK

\* Every step keeps the end frame the last one, and complete.
LEMMA StepEnd == Known /\ Inv3 /\ EndIsComplete /\ [Next]_vars => EndIsComplete'
<1> SUFFICES ASSUME Known, Inv3, EndIsComplete, [Next]_vars PROVE EndIsComplete'
    OBVIOUS
<1>0. TypeOK /\ EndLast /\ Len(wire) \in Nat BY WireType DEF Known, Inv1, Inv2
<1>1. CASE UNCHANGED vars BY <1>1 DEF vars, taskVars, EndIsComplete
<1>2. ASSUME Next PROVE EndIsComplete'
  <2>1. EndLast' BY StepInv2 DEF Known, Inv2
  <2> SUFFICES ASSUME NEW i \in 1 .. Len(wire'), wire'[i].kind = "end"
               PROVE  /\ i = Len(wire')
                      /\ \A t \in 0 .. created' - 1 :
                            \/ verdict'[t] = "ok" /\ \E j \in 1 .. i : Carries(wire'[j]) /\ wire'[j].task = t
                            \/ verdict'[t] = "failed" /\ \E j \in 1 .. i : wire'[j] = [kind |-> "segerr", task |-> t]
      BY DEF EndIsComplete
  <2>2. i = Len(wire') BY <2>1 DEF EndLast
  <2>3. CASE i \in 1 .. Len(wire)
    <3>1. wire' = wire \/ \E k \in Kinds, t \in Tasks \cup {None} : Write(k, t)
        BY <1>2, WritesInOrder
    <3>2. wire' = wire
      <4> SUFFICES ASSUME NEW k \in Kinds, NEW t \in Tasks \cup {None}, Write(k, t), wire' # wire
                   PROVE  FALSE
          BY <3>1
      <4>1. Len(wire') = Len(wire) + 1 BY <1>0, WriteWire
      <4> QED BY <1>0, <2>2, <2>3, <4>1
    <3>3. (\A t \in Tasks : ~Live(t)) /\ hpc \notin {"recv", "feed"}
        BY <1>0, <2>3, <3>2 DEF EndLast
    <3>4. created' = created /\ verdict' = verdict BY <1>2, <3>3, NoMoreSegments
    <3> QED BY <2>2, <2>3, <3>2, <3>4 DEF EndIsComplete
  <2>4. CASE i \notin 1 .. Len(wire)
    <3>1. /\ SendEnd /\ wire' # wire /\ wire'[i] = [kind |-> "end", task |-> finalJson]
          /\ i = Len(wire) + 1 /\ Grows
        BY <1>2, <2>4, EndIsWritten
    <3>2. created' = created /\ verdict' = verdict BY <3>1 DEF SendEnd, taskVars
    <3> SUFFICES ASSUME NEW t \in 0 .. created - 1
                 PROVE  \/ verdict[t] = "ok" /\ \E j \in 1 .. i : Carries(wire'[j]) /\ wire'[j].task = t
                        \/ verdict[t] = "failed" /\ \E j \in 1 .. i : wire'[j] = [kind |-> "segerr", task |-> t]
        BY <2>2, <3>2
    <3>3. \/ verdict[t] = "ok" /\ (Shown("result", t) \/ finalJson = t)
          \/ verdict[t] = "failed" /\ Shown("segerr", t)
        BY <3>1, EndAnswersAll
    <3>4. \A k : Shown(k, t) => \E j \in 1 .. i : wire'[j] = [kind |-> k, task |-> t]
        BY <1>0, <3>1 DEF Shown, Grows
    <3>5. t # None /\ i \in 1 .. i BY <1>0, <3>1
    <3>6. CASE verdict[t] = "ok" /\ Shown("result", t)
      <4>1. PICK j \in 1 .. i : wire'[j] = [kind |-> "result", task |-> t] BY <3>4, <3>6
      <4> QED BY <3>6, <4>1 DEF Carries
    <3>7. CASE verdict[t] = "ok" /\ finalJson = t
      <4>1. Carries(wire'[i]) /\ wire'[i].task = t BY <3>1, <3>5, <3>7 DEF Carries
      <4> QED BY <3>5, <3>7, <4>1
    <3>8. CASE verdict[t] = "failed" /\ Shown("segerr", t) BY <3>4, <3>8
    <3> QED BY <3>3, <3>6, <3>7, <3>8
  <2> QED BY <2>3, <2>4
<1> QED BY <1>1, <1>2

\* The frame that answers the client's end frame is the last one, and by then
\* every segment has been answered, by its text or by an error.
THEOREM EndFrameIsComplete == Spec => []EndIsComplete
<1>1. Init => Known /\ EndIsComplete
    BY InitInv1, InitLock, InitInv2 DEF Known, Init, EndIsComplete
<1>2. Known /\ [Next]_vars => Known' BY StepInv1, StepLock, StepInv2 DEF Known
<1> QED BY <1>1, <1>2, InitOrder, StepOrder, StepEnd, PTL DEF Spec

-----------------------------------------------------------------------------
(* The session implements OrderedDelivery *)

\* A session starts as OrderedDelivery does.
LEMMA InitDelivers == Init => Abs!AbsInit
BY DEF Init, Sent, Abs!AbsInit, Abs!Segments

\* A written frame is one more frame for the client.
LEMMA WriteDelivers ==
    ASSUME TypeOK, NEW k \in Kinds, NEW t \in Tasks \cup {None}, Write(k, t), wire' # wire
    PROVE  Sent' = Append(Sent, IF Carries([kind |-> k, task |-> t]) THEN t ELSE None)
<1> DEFINE x == IF Carries([kind |-> k, task |-> t]) THEN t ELSE None
<1>1. /\ Len(wire') = Len(wire) + 1 /\ Len(wire) \in Nat
      /\ \A i \in 1 .. Len(wire) : wire'[i] = wire[i]
      /\ wire'[Len(wire) + 1] = [kind |-> k, task |-> t]
    BY WriteWire, WireType
<1>2. Sent \in Seq(Tasks \cup {None}) /\ Len(Sent) = Len(wire)
      /\ \A i \in 1 .. Len(wire) : Sent[i] = IF Carries(wire[i]) THEN wire[i].task ELSE None
  <2>1. \A i \in 1 .. Len(wire) : (IF Carries(wire[i]) THEN wire[i].task ELSE None) \in Tasks \cup {None}
      BY WireType
  <2> QED BY <1>1, <2>1 DEF Sent
<1>3. x \in Tasks \cup {None} OBVIOUS
<1>4. /\ Sent' = [i \in 1 .. Len(wire) + 1 |-> IF Carries(wire'[i]) THEN wire'[i].task ELSE None]
      /\ \A i \in 1 .. Len(wire) : Sent'[i] = Sent[i]
      /\ Sent'[Len(wire) + 1] = x
    BY <1>1, <1>2 DEF Sent, Carries
<1> HIDE DEF x
<1>5. Append(Sent, x) = [i \in 1 .. Len(wire) + 1 |-> IF i = Len(wire) + 1 THEN x ELSE Sent[i]]
  <2> DEFINE s == Sent
             e == Append(s, x)
  <2>1. s \in Seq(Tasks \cup {None}) /\ Len(s) = Len(wire) BY <1>2
  <2> HIDE DEF s
  <2>2. /\ e \in Seq(Tasks \cup {None}) /\ Len(e) = Len(wire) + 1
        /\ \A i \in 1 .. Len(wire) : e[i] = s[i]
        /\ e[Len(wire) + 1] = x
      BY <1>1, <1>3, <2>1
  <2> HIDE DEF e
  <2>3. e = [i \in 1 .. Len(e) |-> e[i]] BY <2>2
  <2>4. e = [i \in 1 .. Len(wire) + 1 |-> IF i = Len(wire) + 1 THEN x ELSE s[i]]
      BY <1>1, <2>2, <2>3
  <2> QED BY <2>4 DEF e, s
<1>6. \A i \in 1 .. Len(wire) + 1 : i \in 1 .. Len(wire) \/ i = Len(wire) + 1 BY <1>1
<1>7. Sent' = Append(Sent, x) BY <1>4, <1>5, <1>6
<1> QED BY <1>7 DEF x

\* What a frame with a text does for the client: the text is delivered in turn.
LEMMA DeliversText ==
    ASSUME TypeOK, SpokenOrder', NEW k \in Kinds, NEW t \in Tasks \cup {None}, Write(k, t),
           wire' # wire, Carries([kind |-> k, task |-> t]), InTurn(t),
           UNCHANGED <<created, verdict>>
    PROVE  Abs!AbsNext
<1>1. /\ Len(wire') = Len(wire) + 1 /\ Len(wire) \in Nat
      /\ \A i \in 1 .. Len(wire) : wire'[i] = wire[i]
      /\ wire'[Len(wire) + 1] = [kind |-> k, task |-> t]
      /\ \A i \in 1 .. Len(wire) : wire[i].task \in Tasks \cup {None}
    BY WriteWire, WireType
<1>2. Len(Sent) = Len(wire)
      /\ \A i \in 1 .. Len(wire) : Sent[i] = IF Carries(wire[i]) THEN wire[i].task ELSE None
    BY <1>1 DEF Sent
<1>3. t \in Tasks BY DEF InTurn
<1>4. \A i \in 1 .. Len(Sent) : Sent[i] < t
  <2> SUFFICES ASSUME NEW i \in 1 .. Len(wire) PROVE Sent[i] < t
      BY <1>2
  <2>1. CASE Carries(wire[i])
    <3>1. i < Len(wire) + 1 /\ Len(wire) + 1 \in 1 .. Len(wire') /\ i \in 1 .. Len(wire')
        BY <1>1
    <3>2. wire'[i].task < wire'[Len(wire) + 1].task BY <1>1, <2>1, <3>1 DEF SpokenOrder
    <3> QED BY <1>1, <1>2, <2>1, <3>2
  <2>2. CASE ~Carries(wire[i]) BY <1>2, <1>3, <2>2
  <2> QED BY <2>1, <2>2
<1>5. \A u \in Tasks : u < t => verdict[u] = "failed" \/ Abs!Delivered(u)
  <2> SUFFICES ASSUME NEW u \in Tasks, u < t, verdict[u] # "failed" PROVE Abs!Delivered(u)
      OBVIOUS
  <2>1. Shown("result", u) BY <1>3 DEF InTurn
  <2>2. PICK j \in 1 .. Len(wire) : wire[j] = [kind |-> "result", task |-> u] BY <2>1 DEF Shown
  <2>3. Sent[j] = u /\ j \in 1 .. Len(Sent) BY <1>2, <2>2 DEF Carries
  <2> QED BY <2>3 DEF Abs!Delivered
<1>6. Sent' = Append(Sent, t) BY WriteDelivers
<1>7. Abs!Deliver(t) BY <1>4, <1>5, <1>6 DEF Abs!Deliver, Abs!Segments, InTurn
<1> QED BY <1>3, <1>7 DEF Abs!AbsNext, Abs!Segments

\* A frame and a verdict, or a frame and new segments, never come in one step.
LEMMA WritesAlone ==
    ASSUME Next, wire' # wire
    PROVE  UNCHANGED <<created, verdict>>
<1>1. ASSUME NEW t \in Tasks, TaskStep(t) PROVE UNCHANGED <<created, verdict>>
  <2>1. TaskPush(t) \/ TaskSent(t) \/ TaskReport(t)
      BY <1>1 DEF TaskStep, TaskStart, TaskSucceeds, TaskFails, TaskReported, TaskSendFails,
                  TaskCancelled
  <2> QED BY <2>1 DEF TaskPush, TaskSent, TaskReport, taskVars
<1> QED BY <1>1 DEF Next, HandlerStep, Hello, HelloSent, FeedReturns, GatherReturns, SendEnd,
    EndSent, SendFatal, FatalSent, HandlerSendFails, ReceiveDisconnect, CloseBegins, CloseEnds,
    Cleanup, ReceiveAudio, ReceiveEnd, HandlerRaises, ClientGone, Finished, vars, taskVars

\* New segments are cut: a step of OrderedDelivery, or none when there are none.
LEMMA SpawnDelivers ==
    ASSUME TypeOK, NEW k \in 0 .. MaxSegs, Spawn(k), UNCHANGED <<verdict, Sent>>
    PROVE  Abs!AbsNext \/ UNCHANGED Abs!absVars
<1>1. created' = created + k /\ created + k <= MaxSegs /\ created \in Nat
    BY DEF Spawn, TypeOK
<1>2. CASE k = 0 BY <1>1, <1>2 DEF Abs!absVars
<1>3. CASE k # 0
  <2>1. created' \in created + 1 .. MaxSegs BY <1>1, <1>3, SegsAssumption
  <2> QED BY <2>1 DEF Abs!AbsNext, Abs!Cut
<1> QED BY <1>2, <1>3

\* Every step of a session is one of OrderedDelivery or leaves it alone.
LEMMA StepDelivers ==
    Known /\ Inv3 /\ SpokenOrder' /\ [Next]_vars => [Abs!AbsNext]_(Abs!absVars)
<1> SUFFICES ASSUME Known, Inv3, SpokenOrder', [Next]_vars
             PROVE  Abs!AbsNext \/ UNCHANGED Abs!absVars
    OBVIOUS
<1>0. TypeOK /\ Verdicts /\ Numbering BY DEF Known, Inv1, Inv3
<1>1. CASE UNCHANGED vars BY <1>1 DEF vars, taskVars, Abs!absVars, Sent
<1>2. ASSUME Next, wire' # wire PROVE Abs!AbsNext
  <2>1. UNCHANGED <<created, verdict>> BY <1>2, WritesAlone
  <2>2. PICK k \in Kinds, t \in Tasks \cup {None} :
            Write(k, t) /\ (Carries([kind |-> k, task |-> t]) => InTurn(t))
      BY <1>2, WritesInOrder
  <2>3. CASE Carries([kind |-> k, task |-> t])
      BY <1>0, <1>2, <2>1, <2>2, <2>3, DeliversText
  <2>4. CASE ~Carries([kind |-> k, task |-> t])
    <3>1. Sent' = Append(Sent, None) BY <1>0, <1>2, <2>2, <2>4, WriteDelivers
    <3> QED BY <2>1, <3>1 DEF Abs!AbsNext, Abs!Notice, Abs!NoText
  <2> QED BY <2>3, <2>4
<1>3. ASSUME Next, wire' = wire PROVE Abs!AbsNext \/ UNCHANGED Abs!absVars
  <2>1. Sent' = Sent BY <1>3 DEF Sent
  <2>2. ASSUME NEW t \in Tasks, TaskSucceeds(t) \/ TaskFails(t) PROVE Abs!AbsNext
    <3>1. t < created
      <4>1. pc[t] = "work" BY <2>2 DEF TaskSucceeds, TaskFails
      <4> QED BY <1>0, <4>1 DEF Numbering, TypeOK
    <3>2. /\ verdict[t] = "pending" /\ created' = created
          /\ \E o \in {"ok", "failed"} : verdict' = [verdict EXCEPT ![t] = o]
        BY <1>0, <2>2 DEF TaskSucceeds, TaskFails, Verdicts
    <3> QED BY <2>1, <3>1, <3>2 DEF Abs!AbsNext, Abs!Recognise, Abs!Segments
  <2>3. CASE FeedReturns \/ ReceiveEnd
    <3>1. 0 \in 0 .. MaxSegs /\ 1 \in 0 .. MaxSegs /\ verdict' = verdict
        BY <2>3, SegsAssumption DEF FeedReturns, ReceiveEnd
    <3>2. PICK k \in 0 .. MaxSegs : Spawn(k) BY <2>3, <3>1 DEF FeedReturns, ReceiveEnd
    <3> QED BY <1>0, <2>1, <3>1, <3>2, SpawnDelivers
  <2>4. ASSUME NEW t \in Tasks, TaskStep(t), ~TaskSucceeds(t), ~TaskFails(t)
        PROVE  UNCHANGED Abs!absVars
    BY <2>1, <2>4 DEF TaskStep, TaskStart, TaskPush, TaskSent, TaskReport, TaskReported,
                      TaskSendFails, TaskCancelled, taskVars, Abs!absVars
  <2>5. CASE \/ Hello \/ HelloSent \/ GatherReturns \/ SendEnd \/ EndSent \/ SendFatal \/ FatalSent
             \/ HandlerSendFails \/ ReceiveDisconnect \/ CloseBegins \/ CloseEnds \/ Cleanup
             \/ ReceiveAudio \/ HandlerRaises \/ ClientGone \/ Finished
    BY <2>1, <2>5 DEF Hello, HelloSent, GatherReturns, SendEnd, EndSent, SendFatal, FatalSent,
        HandlerSendFails, ReceiveDisconnect, CloseBegins, CloseEnds, Cleanup, ReceiveAudio,
        HandlerRaises, ClientGone, Finished, vars, taskVars, Abs!absVars
  <2> QED BY <1>3, <2>2, <2>3, <2>4, <2>5 DEF Next, HandlerStep
<1> QED BY <1>1, <1>2, <1>3

\* What a session shows its client is what OrderedDelivery promises, with any
\* number of segments, however their recognitions end and overtake each other.
THEOREM SessionDeliversInOrder == Spec => DeliversInOrder
<1>1. Init => Known BY InitInv1, InitLock, InitInv2 DEF Known
<1>2. Known /\ [Next]_vars => Known' BY StepInv1, StepLock, StepInv2 DEF Known
<1>3. Known => SpokenOrder BY DEF Known, Inv2
<1> QED BY <1>1, <1>2, <1>3, InitOrder, StepOrder, InitDelivers, StepDelivers, PTL
        DEF Spec, DeliversInOrder, Abs!AbsSpec
==============================================================================
