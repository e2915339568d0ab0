------------------------------- MODULE ItnPool -------------------------------
(***************************************************************************)
(* The inverse text normalisation pool (src/src/services/itn_pool.py):     *)
(* calls run _submit in threads of the pool's executor, worker processes   *)
(* take their tasks and put answers on one queue, a dispatcher thread      *)
(* hands each answer to the call that waits for it, and shutdown() may run *)
(* at any time.  A call is named after its task_id; an answer is named     *)
(* after the task it belongs to.                                           *)
(***************************************************************************)
EXTENDS Integers, Sequences, FiniteSets

CONSTANTS
    Calls,      \* calls of normalize() that reach the executor
    Workers,    \* worker processes
    Threads,    \* threads of the executor
    NoCall      \* a worker or the dispatcher with nothing in hand

ASSUME ThreadsAssumption == Threads \in Nat \ {0}
ASSUME NoCallAssumption == NoCall \notin Calls

VARIABLES
    runtime,    \* self._runtime is not None
    running,    \* runtime.running is set
    pool,       \* the process pool: "run", "closed" or "terminated"
    stop,       \* what shutdown() does next
    pending,    \* keys of runtime.pending
    taskQueue,  \* tasks given to apply_async that no worker has taken
    worker,     \* the task each worker runs
    results,    \* result_queue
    dispatcher, \* what the dispatcher thread does: "look", "get", "put" or "over"
    handing,    \* the answer the dispatcher has taken its waiter out for
    waiter,     \* calls whose waiter queue holds an answer
    pc          \* where each call is

shared == <<runtime, running, pool, stop>>
queues == <<taskQueue, worker, results>>
dispatch == <<dispatcher, handing>>
vars == <<shared, pending, queues, dispatch, waiter, pc>>

Pcs == {"idle", "register", "apply", "wait", "expired", "answered", "failed", "timeout", "raised"}
Over == {"answered", "failed", "timeout", "raised"}
InThread(c) == pc[c] \in {"register", "apply", "wait", "expired"}

Answers == Calls \X {"ok", "error"}
NoAnswer == <<NoCall, "none">>

TypeOK ==
    /\ runtime \in BOOLEAN /\ running \in BOOLEAN
    /\ pool \in {"run", "closed", "terminated"}
    /\ stop \in {"no", "close", "terminate", "manager", "drop", "done"}
    /\ pending \in SUBSET Calls
    /\ taskQueue \in Seq(Calls)
    /\ worker \in [Workers -> Calls \cup {NoCall}]
    /\ results \in Seq(Answers)
    /\ dispatcher \in {"look", "get", "put", "over"}
    /\ handing \in Answers \cup {NoAnswer}
    /\ waiter \in [Calls -> {"none", "ok", "error"}]
    /\ pc \in [Calls -> Pcs]

\* start() has returned.
Init ==
    /\ runtime = TRUE /\ running = TRUE /\ pool = "run" /\ stop = "no"
    /\ pending = {}
    /\ taskQueue = <<>> /\ worker = [w \in Workers |-> NoCall] /\ results = <<>>
    /\ dispatcher = "look" /\ handing = NoAnswer
    /\ waiter = [c \in Calls |-> "none"]
    /\ pc = [c \in Calls |-> "idle"]

Goto(c, p) == pc' = [pc EXCEPT ![c] = p]

-----------------------------------------------------------------------------
(* _submit, in a thread of the executor *)

\* The executor runs the call as soon as a thread is free; the assertion on
\* _runtime fails after shutdown.
Begin(c) ==
    /\ pc[c] = "idle"
    /\ Cardinality({d \in Calls : InThread(d)}) < Threads
    /\ Goto(c, IF runtime THEN "register" ELSE "raised")
    /\ UNCHANGED <<shared, pending, queues, dispatch, waiter>>

\* pending[task_id] = waiter; self._runtime is read again and may be None now.
Register(c) ==
    /\ pc[c] = "register"
    /\ IF runtime
         THEN pending' = pending \cup {c} /\ Goto(c, "apply")
         ELSE UNCHANGED pending /\ Goto(c, "raised")
    /\ UNCHANGED <<shared, queues, dispatch, waiter>>

\* apply_async: raises when _runtime is None or the pool has been closed.
Apply(c) ==
    /\ pc[c] = "apply"
    /\ IF runtime /\ pool = "run"
         THEN taskQueue' = Append(taskQueue, c) /\ Goto(c, "wait")
         ELSE UNCHANGED taskQueue /\ Goto(c, "raised")
    /\ UNCHANGED <<shared, pending, worker, results, dispatch, waiter>>

\* Mutant of Receive: the flag of the answer is not looked at.
ReceiveUnchecked(c) ==
    /\ pc[c] = "wait"
    /\ waiter[c] # "none"
    /\ waiter' = [waiter EXCEPT ![c] = "none"]
    /\ Goto(c, "answered")
    /\ UNCHANGED <<shared, pending, queues, dispatch>>

\* waiter.get returns the answer.
Receive(c) ==
    /\ pc[c] = "wait"
    /\ waiter[c] # "none"
    /\ waiter' = [waiter EXCEPT ![c] = "none"]
    /\ Goto(c, IF waiter[c] = "ok" THEN "answered" ELSE "failed")
    /\ UNCHANGED <<shared, pending, queues, dispatch>>

\* Mutant of Expire: waiter.get is called without a timeout.
ExpireNever(c) == FALSE

\* waiter.get gives up after timeout_sec.
Expire(c) ==
    /\ pc[c] = "wait"
    /\ waiter[c] = "none"
    /\ Goto(c, "expired")
    /\ UNCHANGED <<shared, pending, queues, dispatch, waiter>>

\* Mutant of Forget: the entry of a call that has timed out stays.
ForgetNothing(c) ==
    /\ pc[c] = "expired"
    /\ Goto(c, IF runtime THEN "timeout" ELSE "raised")
    /\ UNCHANGED <<shared, pending, queues, dispatch, waiter>>

\* The entry is removed and TimeoutError raised; without a runtime the removal
\* itself raises.
Forget(c) ==
    /\ pc[c] = "expired"
    /\ IF runtime
         THEN pending' = pending \ {c} /\ Goto(c, "timeout")
         ELSE UNCHANGED pending /\ Goto(c, "raised")
    /\ UNCHANGED <<shared, queues, dispatch, waiter>>

CallStep(c) ==
    Begin(c) \/ Register(c) \/ Apply(c) \/ Receive(c) \/ Expire(c) \/ Forget(c)

-----------------------------------------------------------------------------
(* Worker processes (_itn_worker_task) *)

Take(w) ==
    /\ pool # "terminated"
    /\ worker[w] = NoCall /\ taskQueue # <<>>
    /\ worker' = [worker EXCEPT ![w] = Head(taskQueue)]
    /\ taskQueue' = Tail(taskQueue)
    /\ UNCHANGED <<shared, pending, results, dispatch, waiter, pc>>

\* Mutant of Answer: an error is put on the queue after the text was.
AnswerTwice(w) ==
    /\ worker[w] # NoCall
    /\ results' = results \o <<<<worker[w], "ok">>, <<worker[w], "error">>>>
    /\ worker' = [worker EXCEPT ![w] = NoCall]
    /\ UNCHANGED <<shared, pending, taskQueue, dispatch, waiter, pc>>

\* Mutant of Answer: the answer to a task that failed does not name the task.
AnswerUnnamed(w) ==
    /\ worker[w] # NoCall
    /\ \E a \in {<<worker[w], "ok">>, <<NoCall, "error">>} : results' = Append(results, a)
    /\ worker' = [worker EXCEPT ![w] = NoCall]
    /\ UNCHANGED <<shared, pending, taskQueue, dispatch, waiter, pc>>

\* The text, or the error that process() raised, is put on the result queue.
Answer(w) ==
    /\ worker[w] # NoCall
    /\ \E o \in {"ok", "error"} : results' = Append(results, <<worker[w], o>>)
    /\ worker' = [worker EXCEPT ![w] = NoCall]
    /\ UNCHANGED <<shared, pending, taskQueue, dispatch, waiter, pc>>

\* A worker process dies and is replaced; nobody answers its task.
Crash(w) ==
    /\ worker[w] # NoCall
    /\ worker' = [worker EXCEPT ![w] = NoCall]
    /\ UNCHANGED <<shared, pending, taskQueue, results, dispatch, waiter, pc>>

-----------------------------------------------------------------------------
(* The dispatcher thread (_dispatch_results_loop) *)

\* running is looked at between two answers only.
Look ==
    /\ dispatcher = "look"
    /\ dispatcher' = IF running THEN "get" ELSE "over"
    /\ UNCHANGED <<shared, pending, queues, handing, waiter, pc>>

\* get finds nothing for 0.2 seconds, or raises because the manager is gone.
NothingToGet ==
    /\ dispatcher = "get" /\ results = <<>>
    /\ dispatcher' = "look"
    /\ UNCHANGED <<shared, pending, queues, handing, waiter, pc>>

\* An answer is taken and the waiter of its call removed from the table; an
\* answer nobody waits for any more is dropped.
Dispatch ==
    /\ dispatcher = "get" /\ results # <<>>
    /\ pending' = pending \ {Head(results)[1]}
    /\ results' = Tail(results)
    /\ IF Head(results)[1] \in pending
         THEN dispatcher' = "put" /\ handing' = Head(results)
         ELSE dispatcher' = "look" /\ UNCHANGED handing
    /\ UNCHANGED <<shared, taskQueue, worker, waiter, pc>>

\* waiter.put: the queue has room for one answer; on a full one the dispatcher
\* would block.
Hand ==
    /\ dispatcher = "put"
    /\ waiter[handing[1]] = "none"
    /\ dispatcher' = "look" /\ handing' = NoAnswer
    /\ waiter' = [waiter EXCEPT ![handing[1]] = handing[2]]
    /\ UNCHANGED <<shared, pending, queues, pc>>

-----------------------------------------------------------------------------
(* shutdown() *)

StopRunning ==
    /\ stop = "no"
    /\ running' = FALSE /\ stop' = "close"
    /\ UNCHANGED <<runtime, pool, pending, queues, dispatch, waiter, pc>>

\* pool.close(); join(timeout=5) raises TypeError at once, which is swallowed.
ClosePool ==
    /\ stop = "close"
    /\ pool' = "closed" /\ stop' = "terminate"
    /\ UNCHANGED <<runtime, running, pending, queues, dispatch, waiter, pc>>

\* pool.terminate() and join: the tasks in the workers' hands are lost.
TerminatePool ==
    /\ stop = "terminate"
    /\ pool' = "terminated" /\ stop' = "manager"
    /\ taskQueue' = <<>> /\ worker' = [w \in Workers |-> NoCall]
    /\ UNCHANGED <<runtime, running, pending, results, dispatch, waiter, pc>>

\* The manager's process ends and the result queue with it.
ShutManager ==
    /\ stop = "manager"
    /\ results' = <<>> /\ stop' = "drop"
    /\ UNCHANGED <<runtime, running, pool, pending, taskQueue, worker, dispatch, waiter, pc>>

DropRuntime ==
    /\ stop = "drop"
    /\ runtime' = FALSE /\ stop' = "done"
    /\ UNCHANGED <<running, pool, pending, queues, dispatch, waiter, pc>>

Shutdown == StopRunning \/ ClosePool \/ TerminatePool \/ ShutManager \/ DropRuntime

Finished == (\A c \in Calls : pc[c] \in Over) /\ UNCHANGED vars

Next ==
    \/ \E c \in Calls : CallStep(c)
    \/ \E w \in Workers : Take(w) \/ Answer(w) \/ Crash(w)
    \/ Look \/ NothingToGet \/ Dispatch \/ Hand
    \/ Shutdown
    \/ Finished

Spec == Init /\ [][Next]_vars

\* Threads run and their waits end; nothing is asked of the workers, of the
\* dispatcher or of shutdown.
LiveSpec == Spec /\ \A c \in Calls : WF_vars(CallStep(c))

-----------------------------------------------------------------------------
(* Properties *)

\* Where the answer to a call can still be.
OnItsWay(c) ==
    \/ \E i \in 1 .. Len(taskQueue) : taskQueue[i] = c
    \/ \E w \in Workers : worker[w] = c
    \/ \E i \in 1 .. Len(results) : results[i][1] = c
    \/ handing[1] = c

\* A task, its answer and what its waiter holds exist at most once between
\* them, and not at all for a call that has not asked or has been answered: no
\* call gets a second answer, and the dispatcher never blocks on a full waiter,
\* in whatever order timeouts, late answers and shutdown come.
OneAnswerEach ==
    \A c \in Calls :
        /\ Cardinality({i \in 1 .. Len(taskQueue) : taskQueue[i] = c})
             + Cardinality({w \in Workers : worker[w] = c})
             + Cardinality({i \in 1 .. Len(results) : results[i][1] = c})
             + (IF handing[1] = c THEN 1 ELSE 0)
             + (IF waiter[c] # "none" THEN 1 ELSE 0) <= 1
        /\ pc[c] \in {"idle", "register", "apply", "answered", "failed"} =>
             ~OnItsWay(c) /\ waiter[c] = "none"

\* The pool as RemoteCalls has it: a call waits from its submission to the end of
\* its wait, its answer is on the way from the worker to its waiter.
StatusOf(c) ==
    CASE pc[c] \in {"idle", "register", "apply"} -> "idle"
      [] pc[c] = "wait" -> "waiting"
      [] pc[c] = "answered" -> "ok"
      [] pc[c] = "failed" -> "error"
      [] OTHER -> "over"

Status == [c \in Calls |-> StatusOf(c)]
Todo ==
    {c \in Calls : (\E i \in 1 .. Len(taskQueue) : taskQueue[i] = c) \/ \E w \in Workers : worker[w] = c}
OnTheWay ==
    {a \in Answers : \/ \E i \in 1 .. Len(results) : results[i] = a
                     \/ handing = a
                     \/ waiter[a[1]] = a[2]}

Remote == INSTANCE RemoteCalls WITH status <- Status, todo <- Todo, answers <- OnTheWay

\* Through the queues, the table and the dispatcher, whatever times out, crashes
\* or is shut down: a call is worked on at most once, and what it returns is what
\* a worker made of it.
CallsAsPromised == Remote!Spec

\* While the pool is open the table holds only calls that have not ended, so
\* timeouts, crashed workers and late answers leave nothing behind in it.
NothingLeftPending ==
    pool = "run" => \A c \in pending : pc[c] \in {"apply", "wait", "expired"}

\* Every call of the executor ends, even when its worker died or the pool was
\* shut down under it: the thread is never lost.
CallsEnd == \A c \in Calls : pc[c] = "register" ~> pc[c] \in Over
==============================================================================
