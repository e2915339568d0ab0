------------------------------ MODULE LogStream ------------------------------
(***************************************************************************)
(* The log that clients may follow: InMemoryLogHandler                     *)
(* (src/src/core/logging.py) and the event stream of logs_stream           *)
(* (src/src/api/health.py).  A line is named after its place in the log.   *)
(*                                                                         *)
(* A line may be logged by any thread.  The logging package lets one       *)
(* thread at a time into emit, but readers, which are coroutines of the    *)
(* event loop, run between any two of its steps: the ring buffer has a     *)
(* lock, the set of subscribers and their queues have none.                *)
(***************************************************************************)
EXTENDS Integers, Sequences

CONSTANTS
    Readers,    \* streams, each opened once
    Capacity,   \* capacity of the ring buffer
    QueueSize,  \* maxsize of a subscriber's queue
    MaxLines    \* bound: lines logged

ASSUME CapacityAssumption == Capacity \in Nat \ {0}
ASSUME QueueAssumption == QueueSize \in Nat \ {0}
ASSUME LinesAssumption == MaxLines \in Nat

VARIABLES
    buffer,     \* _buffer
    count,      \* lines logged so far
    emitting,   \* what emit does next: "append", "copy" or "put"
    todo,       \* subscribers the line has still to be put to
    subs,       \* _subscribers
    pc,         \* where each stream is
    rest,       \* what get_recent returned and is not sent yet
    queue,      \* the subscriber's queue
    got,        \* lines the client of the stream was sent
    replayed,   \* history: how many of them were replayed
    since,      \* history: the first line that was put to subscribers after subscribe()
    dropped     \* history: lines dropped because the queue was full

emitVars == <<buffer, count, emitting, todo>>
histories == <<got, replayed, since, dropped>>
vars == <<emitVars, subs, pc, rest, queue, histories>>

Lines == 1 .. MaxLines

TypeOK ==
    /\ buffer \in Seq(Lines) /\ Len(buffer) <= Capacity
    /\ count \in 0 .. MaxLines
    /\ emitting \in {"append", "copy", "put"}
    /\ todo \in SUBSET Readers /\ subs \in SUBSET Readers
    /\ pc \in [Readers -> {"away", "replay", "get", "empty", "wait", "send", "left", "over"}]
    /\ rest \in [Readers -> Seq(Lines)]
    /\ queue \in [Readers -> Seq(Lines)]
    /\ \A r \in Readers : Len(queue[r]) <= QueueSize
    /\ got \in [Readers -> Seq(Lines)]
    /\ replayed \in [Readers -> Nat]
    /\ since \in [Readers -> 0 .. MaxLines + 1]
    /\ dropped \in [Readers -> SUBSET Lines]

Init ==
    /\ buffer = <<>> /\ count = 0 /\ emitting = "append" /\ todo = {}
    /\ subs = {}
    /\ pc = [r \in Readers |-> "away"]
    /\ rest = [r \in Readers |-> <<>>]
    /\ queue = [r \in Readers |-> <<>>]
    /\ got = [r \in Readers |-> <<>>]
    /\ replayed = [r \in Readers |-> 0]
    /\ since = [r \in Readers |-> 0]
    /\ dropped = [r \in Readers |-> {}]

Goto(r, p) == pc' = [pc EXCEPT ![r] = p]

\* items[-n:], which is the whole list when n is 0.
LastOf(items, n) ==
    IF n = 0 \/ n > Len(items) THEN items
    ELSE SubSeq(items, Len(items) - n + 1, Len(items))

-----------------------------------------------------------------------------
(* emit, in any thread *)

\* Under the buffer's lock; the deque drops its first line when it is full.
EmitAppend ==
    /\ emitting = "append" /\ count < MaxLines
    /\ count' = count + 1
    /\ buffer' = LET all == Append(buffer, count')
                 IN  IF Len(all) > Capacity THEN Tail(all) ELSE all
    /\ emitting' = "copy"
    /\ UNCHANGED <<todo, subs, pc, rest, queue, histories>>

\* The queues left to serve; without any emit returns.
PutTo(queues) == todo' = queues /\ emitting' = IF queues = {} THEN "append" ELSE "put"

\* list(self._subscribers)
EmitCopy ==
    /\ emitting = "copy"
    /\ PutTo(subs)
    /\ UNCHANGED <<buffer, count, subs, pc, rest, queue, histories>>

\* put_nowait wakes a reader that waits for the queue.
Woken(r) == pc' = IF pc[r] = "wait" THEN [pc EXCEPT ![r] = "get"] ELSE pc

\* Mutant of EmitPut: the queue has no maxsize.
EmitPutUnbounded(r) ==
    /\ emitting = "put" /\ r \in todo
    /\ PutTo(todo \ {r})
    /\ queue' = [queue EXCEPT ![r] = Append(@, count)] /\ Woken(r)
    /\ UNCHANGED <<buffer, count, subs, rest, histories>>

\* Mutant of EmitPut: QueueFull ends the loop over the subscribers.
EmitPutBreaks(r) ==
    /\ emitting = "put" /\ r \in todo
    /\ IF Len(queue[r]) < QueueSize
         THEN /\ queue' = [queue EXCEPT ![r] = Append(@, count)] /\ Woken(r)
              /\ PutTo(todo \ {r})
              /\ UNCHANGED dropped
         ELSE /\ dropped' = [dropped EXCEPT ![r] = @ \cup {count}]
              /\ PutTo({})
              /\ UNCHANGED <<queue, pc>>
    /\ UNCHANGED <<buffer, count, subs, rest, got, replayed, since>>

\* put_nowait, or QueueFull.
EmitPut(r) ==
    /\ emitting = "put" /\ r \in todo
    /\ PutTo(todo \ {r})
    /\ IF Len(queue[r]) < QueueSize
         THEN queue' = [queue EXCEPT ![r] = Append(@, count)] /\ Woken(r) /\ UNCHANGED dropped
         ELSE dropped' = [dropped EXCEPT ![r] = @ \cup {count}] /\ UNCHANGED <<queue, pc>>
    /\ UNCHANGED <<buffer, count, subs, rest, got, replayed, since>>

Emit == EmitAppend \/ EmitCopy \/ \E r \in Readers : EmitPut(r)

-----------------------------------------------------------------------------
(* event_generator *)

\* get_recent(backlog)
Open(r) ==
    /\ pc[r] = "away"
    /\ \E n \in 0 .. Capacity : rest' = [rest EXCEPT ![r] = LastOf(buffer, n)]
    /\ Goto(r, "replay")
    /\ UNCHANGED <<emitVars, subs, queue, histories>>

Replay(r) ==
    /\ pc[r] = "replay" /\ rest[r] # <<>>
    /\ got' = [got EXCEPT ![r] = Append(@, Head(rest[r]))]
    /\ replayed' = [replayed EXCEPT ![r] = @ + 1]
    /\ rest' = [rest EXCEPT ![r] = Tail(@)]
    /\ UNCHANGED <<emitVars, subs, pc, queue, since, dropped>>

Subscribes(r) ==
    /\ subs' = subs \cup {r}
    /\ since' = [since EXCEPT ![r] = IF emitting = "copy" THEN count ELSE count + 1]

\* Mutant of Subscribe: recent lines are queued to close the gap.
SubscribeRefills(r) ==
    /\ pc[r] = "replay" /\ rest[r] = <<>>
    /\ Subscribes(r)
    /\ queue' = [queue EXCEPT ![r] = LastOf(buffer, QueueSize)]
    /\ Goto(r, "get")
    /\ UNCHANGED <<emitVars, rest, got, replayed, dropped>>

\* What was logged since the replay was read is in neither.
Subscribe(r) ==
    /\ pc[r] = "replay" /\ rest[r] = <<>>
    /\ Subscribes(r)
    /\ Goto(r, "get")
    /\ UNCHANGED <<emitVars, rest, queue, got, replayed, dropped>>

\* queue.get finds a line, which is sent.
Take(r) ==
    /\ pc[r] = "get" /\ queue[r] # <<>>
    /\ queue' = [queue EXCEPT ![r] = Tail(@)]
    /\ got' = [got EXCEPT ![r] = Append(@, Head(queue[r]))]
    /\ Goto(r, "send")
    /\ UNCHANGED <<emitVars, subs, rest, replayed, since, dropped>>

\* queue.get finds nothing; a line put by another thread before the getter is
\* registered wakes nobody.
FindEmpty(r) ==
    /\ pc[r] = "get" /\ queue[r] = <<>>
    /\ Goto(r, "empty")
    /\ UNCHANGED <<emitVars, subs, rest, queue, histories>>

Wait(r) ==
    /\ pc[r] = "empty"
    /\ Goto(r, "wait")
    /\ UNCHANGED <<emitVars, subs, rest, queue, histories>>

\* Mutant of Timeout: the queue is awaited without a limit.
TimeoutNever(r) == FALSE

\* 30 seconds without a line: a keepalive is sent.
Timeout(r) ==
    /\ pc[r] = "wait"
    /\ Goto(r, "send")
    /\ UNCHANGED <<emitVars, subs, rest, queue, histories>>

Sent(r) ==
    /\ pc[r] = "send"
    /\ Goto(r, "get")
    /\ UNCHANGED <<emitVars, subs, rest, queue, histories>>

\* The client leaves.  A stream that waits, or has just been woken, is cancelled
\* and unsubscribes; one that is sending leaves its generator behind, which is
\* closed when it is collected.
Leave(r) ==
    /\ \/ pc[r] = "replay" /\ Goto(r, "over") /\ UNCHANGED subs
       \/ pc[r] \in {"wait", "get"} /\ Goto(r, "over") /\ subs' = subs \ {r}
       \/ pc[r] = "send" /\ Goto(r, "left") /\ UNCHANGED subs
    /\ UNCHANGED <<emitVars, rest, queue, histories>>

Collected(r) ==
    /\ pc[r] = "left"
    /\ Goto(r, "over") /\ subs' = subs \ {r}
    /\ UNCHANGED <<emitVars, rest, queue, histories>>

StreamStep(r) ==
    \/ Replay(r) \/ Subscribe(r) \/ Take(r) \/ FindEmpty(r) \/ Wait(r) \/ Timeout(r)
    \/ Sent(r) \/ Collected(r)

\* The bound is reached and the streams are over.
Finished ==
    /\ count = MaxLines /\ emitting = "append" /\ \A r \in Readers : pc[r] = "over"
    /\ UNCHANGED vars

Next ==
    \/ Emit
    \/ \E r \in Readers : Open(r) \/ StreamStep(r) \/ Leave(r)
    \/ Finished

Spec == Init /\ [][Next]_vars

\* The event loop runs the streams; threads log when they like.
LiveSpec == Spec /\ \A r \in Readers : WF_vars(StreamStep(r))

-----------------------------------------------------------------------------
(* Properties *)

Holds(s, l) == \E i \in 1 .. Len(s) : s[i] = l

\* A client reads the lines in the order of the log.  None comes twice, except
\* that the last replayed line may be the first one streamed, when it was being
\* emitted as the stream subscribed.
InOrder ==
    \A r \in Readers : \A i \in 1 .. Len(got[r]) - 1 :
        \/ got[r][i] < got[r][i + 1]
        \/ got[r][i] = got[r][i + 1] /\ i = replayed[r]

\* From its subscription on, a stream misses no line but those its full queue
\* has refused: every other one has been sent, is queued or is about to be put,
\* whatever other streams do.
NoLineLost ==
    \A r \in Readers : pc[r] \in {"get", "empty", "wait", "send"} =>
        \A l \in since[r] .. count :
            \/ Holds(got[r], l) \/ Holds(queue[r], l) \/ l \in dropped[r]
            \/ l = count /\ (emitting = "copy" \/ r \in todo)

\* A queued line is sent unless the client leaves, though its put may have
\* woken nobody and no other line may follow.
LinesArrive ==
    \A r \in Readers : \A l \in Lines :
        Holds(queue[r], l) ~> (Holds(got[r], l) \/ pc[r] \in {"left", "over"})
==============================================================================
