------------------------------- MODULE Session -------------------------------
(***************************************************************************)
(* One WebSocket connection of the streaming ASR service, from the moment  *)
(* the handshake has been accepted to the release of its resources         *)
(* (src/src/api/websocket.py and src/src/api/session.py).                  *)
(*                                                                         *)
(* Everything runs on one asyncio loop.  The actors are the coroutine of   *)
(* the endpoint (the handler) and one background task per speech segment;  *)
(* an action is what one of them does between two points where it awaits.  *)
(* They share send_lock, the reorder buffer and the socket.  Task t is the *)
(* task of the t-th segment the VAD cut, so the order of tasks is the      *)
(* order in which the segments were spoken.                                *)
(***************************************************************************)
EXTENDS Integers, Sequences, FiniteSets

CONSTANTS
    MaxSegs,    \* bound: segments the VAD cuts in one connection
    MaxFrames   \* bound: audio frames the client sends

ASSUME SegsAssumption == MaxSegs \in Nat \ {0}
ASSUME FramesAssumption == MaxFrames \in Nat

Tasks == 0 .. MaxSegs - 1
SegIds == 0 .. MaxSegs          \* the last one is never handed out

\* Values of an integer variable that stand for the absence of a task.
None == -1                      \* no key in _result_buffer, no task
Empty == -2                     \* the empty string pushed for a segment without a text
HandlerId == MaxSegs            \* send_lock held by the endpoint coroutine

VARIABLES
    client,     \* "up", or "gone" once the peer or the network has closed
    app,        \* application_state of the socket: "connected" or "disconnected"
    hpc,        \* what the endpoint coroutine awaits
    frames,     \* audio frames received so far
    created,    \* segment tasks created so far
    tracked,    \* _pending_asr_tasks
    pc,         \* what each segment task awaits
    segId,      \* the seg_id each task took
    seg_id,     \* ASRSession.seg_id, the next number to hand out
    final,      \* the is_final task, or None
    finalJson,  \* _final_result_json, the task that stored it, or None
    verdict,    \* how ASR and ITN ended for each segment
    lock,       \* holder of send_lock, or None
    buffer,     \* _result_buffer
    nextSend,   \* _next_send_seg_id
    wire        \* frames handed to the client, in order

hVars == <<hpc, frames>>
taskVars == <<created, tracked, segId, seg_id, final, finalJson, verdict>>
orderVars == <<buffer, nextSend>>
vars == <<client, app, hVars, pc, taskVars, lock, orderVars, wire>>

-----------------------------------------------------------------------------
(* The frames the server sends, the task they are about, and their status. *)

Kinds == {"hello", "result", "segerr", "end", "fatal"}
Frame == [kind: Kinds, task: Tasks \cup {None}]
Terminal(f) == f.kind \in {"end", "fatal"}      \* header.status = 2

HandlerPc == {"hello", "hellosend", "recv", "feed", "gather", "endlock", "endsend",
              "fatal", "fatalsend", "close", "closing", "cleanup", "done"}
TaskPc == {"none", "ready", "work", "push", "send", "epush", "esend", "elock",
           "report", "cancelled", "done"}

Live(t) == pc[t] \notin {"none", "done"}

TypeOK ==
    /\ client \in {"up", "gone"}
    /\ app \in {"connected", "disconnected"}
    /\ hpc \in HandlerPc
    /\ frames \in 0 .. MaxFrames
    /\ created \in 0 .. MaxSegs
    /\ tracked \in SUBSET Tasks
    /\ pc \in [Tasks -> TaskPc]
    /\ segId \in [Tasks -> Tasks \cup {None}]
    /\ seg_id \in 0 .. MaxSegs
    /\ final \in Tasks \cup {None}
    /\ finalJson \in Tasks \cup {None}
    /\ verdict \in [Tasks -> {"pending", "ok", "failed"}]
    /\ lock \in Tasks \cup {None, HandlerId}
    /\ buffer \in [SegIds -> Tasks \cup {None, Empty}]
    /\ nextSend \in SegIds
    /\ wire \in Seq(Frame)

Init ==
    /\ client = "up" /\ app = "connected"
    /\ hpc = "hello" /\ frames = 0
    /\ created = 0 /\ tracked = {}
    /\ pc = [t \in Tasks |-> "none"]
    /\ segId = [t \in Tasks |-> None] /\ seg_id = 0
    /\ final = None /\ finalJson = None
    /\ verdict = [t \in Tasks |-> "pending"]
    /\ lock = None
    /\ buffer = [n \in SegIds |-> None] /\ nextSend = 0
    /\ wire = <<>>

-----------------------------------------------------------------------------
(* The socket.  A frame is on the wire as soon as send() has been called;  *)
(* the call itself may then wait for the transport to drain.  send() on a  *)
(* socket the server has closed, or that has reported a lost peer once,    *)
(* raises RuntimeError at once; on a lost peer it raises WebSocketDisconnect*)
(* and marks the socket disconnected.                                      *)

Write(kind, t) ==
    wire' = IF client = "up" THEN Append(wire, [kind |-> kind, task |-> t]) ELSE wire

ClientGone ==
    /\ client = "up" /\ client' = "gone"
    /\ UNCHANGED <<app, hVars, pc, taskVars, lock, orderVars, wire>>

-----------------------------------------------------------------------------
(* push_result_in_order: the holder t of send_lock hands out what is ready. *)
(* buf is the buffer and n the number to send next when the loop is entered; *)
(* m is the first number that is not an empty string: the loop stops there  *)
(* because nothing is stored under m, or because it has a result to send.   *)

MainPath(t) == pc[t] \in {"push", "send"}

\* the keys n .. m are popped
Popped(buf, n, m) == [k \in SegIds |-> IF k \in n .. m THEN None ELSE buf[k]]

DrainStops(t, buf, n, m) ==         \* the loop ends and the lock is released
    /\ buf[m] = None
    /\ lock' = None
    /\ pc' = [pc EXCEPT ![t] = IF MainPath(t) THEN "done" ELSE "elock"]
    /\ UNCHANGED wire

DrainSends(t, buf, n, m) ==         \* send_text is awaited, the lock held
    /\ buf[m] \in Tasks
    /\ app = "connected"
    /\ Write("result", buf[m])
    /\ lock' = t
    /\ pc' = [pc EXCEPT ![t] = IF MainPath(t) THEN "send" ELSE "esend"]

DrainRaises(t, buf, n, m) ==        \* send_text raises RuntimeError: the message is lost
    /\ buf[m] \in Tasks
    /\ app = "disconnected"
    /\ lock' = None
    /\ pc' = [pc EXCEPT ![t] = IF MainPath(t) THEN "epush" ELSE "done"]
    /\ UNCHANGED wire

Drain(t, buf, n) ==
    \E m \in n .. MaxSegs :
        /\ \A k \in n .. m - 1 : buf[k] = Empty
        /\ nextSend' = m
        /\ buffer' = Popped(buf, n, m)
        /\ \/ DrainStops(t, buf, n, m)
           \/ DrainSends(t, buf, n, m)
           \/ DrainRaises(t, buf, n, m)

-----------------------------------------------------------------------------
(* Segment tasks (_process_segment). *)

\* Mutant of TaskStart: next_seg_id is called twice.
TaskStartTwice(t) ==
    /\ pc[t] = "ready"
    /\ \A u \in Tasks : u < t => pc[u] # "ready"
    /\ segId' = [segId EXCEPT ![t] = seg_id]
    /\ seg_id' = seg_id + 2
    /\ pc' = [pc EXCEPT ![t] = "work"]
    /\ UNCHANGED <<client, app, hVars, created, tracked, final, finalJson, verdict,
                   lock, orderVars, wire>>

\* Callbacks of the loop run in the order they were scheduled, so tasks start
\* in the order they were created; seg_id is taken by the task when it starts.
TaskStart(t) ==
    /\ pc[t] = "ready"
    /\ \A u \in Tasks : u < t => pc[u] # "ready"
    /\ segId' = [segId EXCEPT ![t] = seg_id]
    /\ seg_id' = seg_id + 1
    /\ pc' = [pc EXCEPT ![t] = "work"]
    /\ UNCHANGED <<client, app, hVars, created, tracked, final, finalJson, verdict,
                   lock, orderVars, wire>>

\* recognize() and normalize() have returned; the flush segment is kept for
\* the end frame and only its number will be pushed.
TaskSucceeds(t) ==
    /\ pc[t] = "work"
    /\ verdict' = [verdict EXCEPT ![t] = "ok"]
    /\ finalJson' = IF t = final THEN t ELSE finalJson
    /\ pc' = [pc EXCEPT ![t] = "push"]
    /\ UNCHANGED <<client, app, hVars, created, tracked, segId, seg_id, final,
                   lock, orderVars, wire>>

\* Mutant of TaskFails: a failed segment is reported and its number never pushed.
TaskFailsUnpushed(t) ==
    /\ pc[t] = "work"
    /\ verdict' = [verdict EXCEPT ![t] = "failed"]
    /\ pc' = [pc EXCEPT ![t] = "elock"]
    /\ UNCHANGED <<client, app, hVars, created, tracked, segId, seg_id, final, finalJson,
                   lock, orderVars, wire>>

\* recognize() or normalize() has raised: the segment is pushed empty.
TaskFails(t) ==
    /\ pc[t] = "work"
    /\ verdict' = [verdict EXCEPT ![t] = "failed"]
    /\ pc' = [pc EXCEPT ![t] = "epush"]
    /\ UNCHANGED <<client, app, hVars, created, tracked, segId, seg_id, final, finalJson,
                   lock, orderVars, wire>>

\* Mutant of Stored: every segment is treated as the flush segment once there is one.
StoredWhileClosing(t) == IF pc[t] = "push" /\ final = None THEN t ELSE Empty

\* What task t stores in the buffer: its text, or the empty string.
Stored(t) == IF pc[t] = "push" /\ t # final THEN t ELSE Empty

\* Mutant of TaskPush: a result is sent as soon as it is there.
TaskPushNow(t) ==
    /\ pc[t] \in {"push", "epush"}
    /\ lock = None
    /\ Drain(t, [buffer EXCEPT ![segId[t]] = Stored(t)], segId[t])
    /\ UNCHANGED <<client, app, hVars, taskVars>>

TaskPush(t) ==
    /\ pc[t] \in {"push", "epush"}
    /\ lock = None
    /\ Drain(t, [buffer EXCEPT ![segId[t]] = Stored(t)], nextSend)
    /\ UNCHANGED <<client, app, hVars, taskVars>>

\* Mutant of TaskSent: the number to send next is not advanced.
TaskSentNoAdvance(t) ==
    /\ pc[t] \in {"send", "esend"}
    /\ Drain(t, buffer, nextSend)
    /\ UNCHANGED <<client, app, hVars, taskVars>>

\* send_text returns inside the loop.
TaskSent(t) ==
    /\ pc[t] \in {"send", "esend"}
    /\ Drain(t, buffer, nextSend + 1)
    /\ UNCHANGED <<client, app, hVars, taskVars>>

\* The segment's error frame, after its number has been pushed.
TaskReport(t) ==
    /\ pc[t] = "elock"
    /\ lock = None
    /\ IF app = "connected"
         THEN /\ Write("segerr", t)
              /\ lock' = t
              /\ pc' = [pc EXCEPT ![t] = "report"]
         ELSE /\ pc' = [pc EXCEPT ![t] = "done"]
              /\ UNCHANGED <<lock, wire>>
    /\ UNCHANGED <<client, app, hVars, taskVars, orderVars>>

\* Mutant of TaskReported: the lock is kept.
TaskReportedLocked(t) ==
    /\ pc[t] = "report"
    /\ pc' = [pc EXCEPT ![t] = "done"]
    /\ UNCHANGED <<client, app, hVars, taskVars, lock, orderVars, wire>>

TaskReported(t) ==
    /\ pc[t] = "report"
    /\ lock' = None
    /\ pc' = [pc EXCEPT ![t] = "done"]
    /\ UNCHANGED <<client, app, hVars, taskVars, orderVars, wire>>

\* A send fails because the peer is gone: WebSocketDisconnect ends the task,
\* on the error path too, where it is swallowed.
TaskSendFails(t) ==
    /\ pc[t] \in {"send", "esend", "report"}
    /\ client = "gone"
    /\ app' = "disconnected"
    /\ lock' = None
    /\ pc' = [pc EXCEPT ![t] = "done"]
    /\ UNCHANGED <<client, hVars, taskVars, orderVars, wire>>

\* Mutant of TaskCancelled: the cancelled task keeps the lock.
TaskCancelledLocked(t) ==
    /\ pc[t] = "cancelled"
    /\ pc' = [pc EXCEPT ![t] = "done"]
    /\ UNCHANGED <<client, app, hVars, taskVars, lock, orderVars, wire>>

\* The cancellation asked for by session.close() reaches the task.
TaskCancelled(t) ==
    /\ pc[t] = "cancelled"
    /\ lock' = IF lock = t THEN None ELSE lock
    /\ pc' = [pc EXCEPT ![t] = "done"]
    /\ UNCHANGED <<client, app, hVars, taskVars, orderVars, wire>>

TaskStep(t) ==
    \/ TaskStart(t) \/ TaskSucceeds(t) \/ TaskFails(t) \/ TaskPush(t) \/ TaskSent(t)
    \/ TaskReport(t) \/ TaskReported(t) \/ TaskSendFails(t) \/ TaskCancelled(t)

-----------------------------------------------------------------------------
(* The endpoint coroutine. *)

\* Mutant of Spawn: only the newest tasks are remembered.
SpawnForgets(k) ==
    /\ created + k <= MaxSegs
    /\ created' = created + k
    /\ pc' = [t \in Tasks |-> IF t \in created .. created + k - 1 THEN "ready" ELSE pc[t]]
    /\ tracked' = IF k = 0 THEN tracked ELSE created .. created + k - 1

\* k segment tasks are created and tracked; tasks that are done are pruned.
Spawn(k) ==
    /\ created + k <= MaxSegs
    /\ created' = created + k
    /\ pc' = [t \in Tasks |-> IF t \in created .. created + k - 1 THEN "ready" ELSE pc[t]]
    /\ tracked' = IF k = 0 THEN tracked
                  ELSE {t \in tracked : Live(t)} \cup (created .. created + k - 1)

\* The status=0 response that opens the stream.
Hello ==
    /\ hpc = "hello"
    /\ Write("hello", None)
    /\ hpc' = "hellosend"
    /\ UNCHANGED <<client, app, frames, pc, taskVars, lock, orderVars>>

\* receive_text raises RuntimeError on a socket already marked disconnected.
BackToReceive == IF app = "connected" THEN "recv" ELSE "fatal"

\* The handshake frame may carry the first audio.
HelloSent ==
    /\ hpc = "hellosend"
    /\ \/ hpc' = BackToReceive /\ UNCHANGED frames
       \/ frames < MaxFrames /\ frames' = frames + 1 /\ hpc' = "feed"
    /\ UNCHANGED <<client, app, pc, taskVars, lock, orderVars, wire>>

\* An audio frame is received and handed to the VAD.  Frames that arrived
\* before the peer went are still delivered.
ReceiveAudio ==
    /\ hpc = "recv"
    /\ frames < MaxFrames
    /\ frames' = frames + 1
    /\ hpc' = "feed"
    /\ UNCHANGED <<client, app, pc, taskVars, lock, orderVars, wire>>

\* feed_audio returns: one background task for each segment it cut.
FeedReturns ==
    /\ hpc = "feed"
    /\ \E k \in 0 .. MaxSegs : Spawn(k)
    /\ hpc' = BackToReceive
    /\ UNCHANGED <<client, app, frames, segId, seg_id, final, finalJson, verdict,
                   lock, orderVars, wire>>

\* A malformed message, audio that does not decode, a VAD error.
HandlerRaises ==
    /\ hpc \in {"recv", "feed"}
    /\ hpc' = "fatal"
    /\ UNCHANGED <<client, app, frames, pc, taskVars, lock, orderVars, wire>>

\* status=2: the VAD is flushed, its last segment (if any) becomes a task,
\* and the handler waits for the tracked tasks.
ReceiveEnd ==
    /\ hpc = "recv"
    /\ hpc' = "gather"
    /\ \/ Spawn(0) /\ UNCHANGED final
       \/ Spawn(1) /\ final' = created
    /\ UNCHANGED <<client, app, frames, segId, seg_id, finalJson, verdict,
                   lock, orderVars, wire>>

\* Mutant of GatherReturns: the tasks are not waited for.
GatherSkipped ==
    /\ hpc = "gather"
    /\ tracked' = {}
    /\ hpc' = "endlock"
    /\ UNCHANGED <<client, app, frames, pc, created, segId, seg_id, final, finalJson,
                   verdict, lock, orderVars, wire>>

\* wait_pending_asr returns.
GatherReturns ==
    /\ hpc = "gather"
    /\ \A t \in tracked : ~Live(t)
    /\ tracked' = {}
    /\ hpc' = "endlock"
    /\ UNCHANGED <<client, app, frames, pc, created, segId, seg_id, final, finalJson,
                   verdict, lock, orderVars, wire>>

\* The status=2 frame, with the flush segment's text when there is one.
SendEnd ==
    /\ hpc = "endlock"
    /\ lock = None
    /\ IF app = "connected"
         THEN /\ Write("end", finalJson)
              /\ lock' = HandlerId
              /\ hpc' = "endsend"
         ELSE /\ hpc' = "fatal"
              /\ UNCHANGED <<lock, wire>>
    /\ UNCHANGED <<client, app, frames, pc, taskVars, orderVars>>

EndSent ==
    /\ hpc = "endsend"
    /\ lock' = None
    /\ hpc' = "close"
    /\ UNCHANGED <<client, app, frames, pc, taskVars, orderVars, wire>>

\* except Exception: the status=2 error frame, sent without send_lock and
\* without waiting for the tasks; if the send raises, that is swallowed.
SendFatal ==
    /\ hpc = "fatal"
    /\ IF app = "connected"
         THEN Write("fatal", None) /\ hpc' = "fatalsend"
         ELSE hpc' = "close" /\ UNCHANGED wire
    /\ UNCHANGED <<client, app, frames, pc, taskVars, lock, orderVars>>

FatalSent ==
    /\ hpc = "fatalsend"
    /\ hpc' = "close"
    /\ UNCHANGED <<client, app, frames, pc, taskVars, lock, orderVars, wire>>

\* A send of the handler fails because the peer is gone.
HandlerSendFails ==
    /\ hpc \in {"hellosend", "endsend", "fatalsend"}
    /\ client = "gone"
    /\ app' = "disconnected"
    /\ lock' = IF hpc = "endsend" THEN None ELSE lock
    /\ hpc' = IF hpc = "fatalsend" THEN "close" ELSE "cleanup"
    /\ UNCHANGED <<client, frames, pc, taskVars, orderVars, wire>>

\* The wire closes while the handler waits for a message.
ReceiveDisconnect ==
    /\ hpc = "recv"
    /\ client = "gone"
    /\ hpc' = "cleanup"
    /\ UNCHANGED <<client, app, frames, pc, taskVars, lock, orderVars, wire>>

\* _close_connection: wait_for runs websocket.close() in a task of its own, so
\* other coroutines may run between the call and the state change.
CloseBegins ==
    /\ hpc = "close"
    /\ app' = "disconnected"
    /\ hpc' = "closing"
    /\ UNCHANGED <<client, frames, pc, taskVars, lock, orderVars, wire>>

\* The close handshake ends, fails, or is given up after three seconds.
CloseEnds ==
    /\ hpc = "closing"
    /\ hpc' = "cleanup"
    /\ UNCHANGED <<client, app, frames, pc, taskVars, lock, orderVars, wire>>

\* finally: session.close() cancels the tracked tasks; then the slot is freed.
Cleanup ==
    /\ hpc = "cleanup"
    /\ pc' = [t \in Tasks |-> IF t \in tracked /\ Live(t) THEN "cancelled" ELSE pc[t]]
    /\ tracked' = {}
    /\ hpc' = "done"
    /\ UNCHANGED <<client, app, frames, created, segId, seg_id, final, finalJson, verdict,
                   lock, orderVars, wire>>

\* Steps the handler takes without the client doing anything.
HandlerStep ==
    \/ Hello \/ HelloSent \/ FeedReturns \/ GatherReturns \/ SendEnd \/ EndSent
    \/ SendFatal \/ FatalSent \/ HandlerSendFails \/ ReceiveDisconnect
    \/ CloseBegins \/ CloseEnds \/ Cleanup

\* Everything is over: the coroutine has returned and no task is left.
Finished ==
    /\ hpc = "done"
    /\ \A t \in Tasks : ~Live(t)
    /\ UNCHANGED vars

Next ==
    \/ ClientGone
    \/ \E t \in Tasks : TaskStep(t)
    \/ HandlerStep
    \/ ReceiveAudio \/ ReceiveEnd \/ HandlerRaises
    \/ Finished

Spec == Init /\ [][Next]_vars

\* The loop runs every callback that is ready; recognition, normalisation and
\* the VAD return or time out; a send ends because the peer reads or because
\* the keep-alive ping gives it up.
Fairness ==
    /\ WF_vars(HandlerStep)
    /\ \A t \in Tasks : WF_vars(TaskStep(t))

LiveSpec == Spec /\ Fairness

-----------------------------------------------------------------------------
(* Safety *)

\* The frames that carry the text of a segment.
Carries(f) == f.kind = "result" \/ (f.kind = "end" /\ f.task # None)

\* Texts reach the client in the order in which the segments were spoken,
\* however the recognitions overtake each other, and none is sent twice.
SpokenOrder ==
    \A i, j \in 1 .. Len(wire) :
        i < j /\ Carries(wire[i]) /\ Carries(wire[j]) => wire[i].task < wire[j].task

\* A text is sent only after the text of every earlier segment, unless the
\* recognition of that one failed.
NoOvertaking ==
    \A i \in 1 .. Len(wire) : Carries(wire[i]) =>
        \A u \in 0 .. wire[i].task - 1 :
            \/ verdict[u] = "failed"
            \/ \E j \in 1 .. i - 1 : Carries(wire[j]) /\ wire[j].task = u

\* The status=2 frame that answers the client's end frame is the last frame,
\* and by then every segment has been answered: by its text or by an error.
EndIsComplete ==
    \A i \in 1 .. Len(wire) : wire[i].kind = "end" =>
        /\ i = Len(wire)
        /\ \A t \in 0 .. created - 1 :
              \/ verdict[t] = "ok" /\ \E j \in 1 .. i : Carries(wire[j]) /\ wire[j].task = t
              \/ verdict[t] = "failed" /\ \E j \in 1 .. i : wire[j] = [kind |-> "segerr", task |-> t]

\* A segment task writes to the socket only while it holds send_lock, as does
\* the end frame; and the lock is never left with a coroutine that is over.
SendLockSound ==
    /\ \A t \in Tasks : pc[t] \in {"send", "esend", "report"} => lock = t
    /\ hpc = "endsend" => lock = HandlerId
    /\ lock \in Tasks => pc[lock] \in {"send", "esend", "report", "cancelled"}
    /\ lock = HandlerId => hpc = "endsend"

\* When every task is over, none cancelled, and the socket still works, no result
\* is left behind in the reorder buffer: every number handed out has been passed.
NothingStuck ==
    app = "connected" /\ hpc # "done" /\ (\A t \in 0 .. created - 1 : pc[t] = "done")
        => nextSend = seg_id /\ buffer = [n \in SegIds |-> None]

\* Once the connection's resources have been released no task sends anything,
\* and the only thing left for a task is to be cancelled.
SilentAfterCleanup ==
    [][hpc = "done" => wire' = wire /\ \A t \in Tasks : pc'[t] # pc[t] => pc[t] = "cancelled"]_vars

(* Liveness *)

\* A session whose client has gone, has asked for the end, or has caused an
\* error is cleaned up, and its tasks end.
EndsForGood ==
    (client = "gone" \/ hpc \in {"gather", "fatal"})
        ~> (hpc = "done" /\ \A t \in Tasks : ~Live(t))

\* A recognised text is sent, unless the connection breaks or is being ended
\* by an error first; the flush segment's text leaves with the end frame.
RecognisedIsSent ==
    \A t \in Tasks :
        verdict[t] = "ok"
            ~> \/ \E i \in 1 .. Len(wire) : Carries(wire[i]) /\ wire[i].task = t
               \/ client = "gone" \/ app = "disconnected"

(* The client's view of this module is OrderedDelivery. *)

Sent == [i \in 1 .. Len(wire) |-> IF Carries(wire[i]) THEN wire[i].task ELSE None]

Abs == INSTANCE OrderedDelivery WITH cut <- created, outcome <- verdict, delivered <- Sent

\* Every step of the session is a step of OrderedDelivery or leaves it alone.
DeliversInOrder == Abs!AbsSpec

(* What the documentation says of the error path, which the code does not keep. *)

\* A status=2 frame is the final state: no frame follows it.
TerminalIsLast ==
    \A i \in 1 .. Len(wire) : Terminal(wire[i]) => i = Len(wire)
==============================================================================
