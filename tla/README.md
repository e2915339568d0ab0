# A verification project for the streaming ASR service

This directory holds TLA+ models of the service in `src/` — a FastAPI program that
receives audio over WebSockets, cuts it into speech segments with a voice activity
detector, has each segment recognised by a vLLM server and normalised by a pool of
processes, and sends the texts back in the order in which they were spoken — and of the
translation proxy beside it, with the TLC configurations that check them and the TLAPS
proofs about them.

Checked with `tlc -config <run>.cfg <Module>.tla` and `tlapm <Module>Proofs.tla`;
`PROJECT.json` lists the runs, the source lines behind every definition, the
mutants each property detects, the hazards, and the findings.

## 1. The system

### Components, their state and operations

| Component | Source | State | Operations |
|---|---|---|---|
| WebSocket session | `src/api/websocket.py`, `src/api/session.py` | segment counter, tracked tasks, reorder buffer, next number to send, send lock, kept flush result | handshake, audio frame, end frame, one background task per segment, error path, cleanup |
| Connection manager | `src/api/connection_manager.py` | slot counter, registry of sessions | acquire, register, unregister, release |
| VAD segmentation | `src/services/vad_service.py` | sample buffer, pre-roll window, open segment, counters | feed, flush, close |
| ITN pool | `src/services/itn_pool.py` | table of waiting calls, process pool, result queue, dispatcher thread | start, submit, dispatch, shutdown |
| vLLM lifecycle | `main.py` | subprocess handle, shutdown event, failure count | start, stop, health monitor, shutdown watcher, lifespan |
| ASR client | `src/services/asr_service.py` | HTTP client, attempt of each call | startup, recognize (three attempts on lost connections), shutdown |
| Log buffer and SSE stream | `src/core/logging.py`, `src/api/health.py` | ring buffer, set of subscribers, their bounded queues | emit, replay, subscribe, stream, keepalive, unsubscribe |
| Translation proxy | `src/translation_proxy.py` | clients, own vLLM subprocess, results of a request's sentences | start, split, translate in parallel, reassemble, answer, stop |
| Audio, messages, configuration, metrics | `src/utils/audio.py`, `src/models/schemas.py`, `src/core/config.py`, `src/api/metrics.py` | — | conversions, validation, counters |
| Wrappers, vendored code, tests | `weights/`, `3rd-party/`, `test/`, `src/connections.py` | — | bindings, headers, benchmark clients, an HTTP helper nothing imports |

### How they interact

`lifespan` starts vLLM, the monitor, the ITN pool and the ASR client, and stops them
in reverse. Each WebSocket runs one endpoint coroutine on the asyncio loop. It takes
a slot from the connection manager, reads the handshake, and then feeds audio to its
own VAD session; the VAD calls the detector in a thread and hands back the segments it
has cut. Every segment becomes an asyncio task that awaits the ASR client and
the ITN pool and then enters `push_result_in_order` under the session's `send_lock`.
The end frame flushes the VAD, waits for all tasks, and sends the final frame. Errors
of the endpoint, the client's departure and cleanup can come between any two awaits.
The ITN pool has its own threads and processes; the monitor runs as another task
and ends the service with a SIGTERM to itself. uvicorn then closes the WebSockets,
waits without a limit for the HTTP requests it has — log streams among them — and lets
`lifespan` go on past its `yield`, where the HTTP client is closed and vLLM stopped.
Lines of the log are emitted by whatever thread logs, into a ring buffer and the queues
of the streams, which are coroutines of the event loop. The translation proxy is a
process of its own with its own vLLM.

### What is hard, and what makes each part correct

* **Session.** Recognitions overtake each other and fail; sends suspend inside the
  lock; cleanup cancels tasks wherever they are. Correct: texts in spoken order,
  never twice, none skipped unless it failed; the end frame is complete and last; the
  lock never leaks; nothing is sent after cleanup; every session ends.
* **Gateway.** Seven ways out of the endpoint share one release in `finally`. Correct:
  the counter equals the slots in use, the registry equals the open sessions, and
  a client is turned away only when the service is full.
* **VAD.** Counters, a sliding window and two end rules with different comparisons.
  Correct: a segment's audio is the stretch of the stream it announces, segments
  advance, speech is kept, length is bounded, and chunking loses nothing.
* **ITN pool.** Threads, processes, timeouts, late answers, crashes, shutdown. Correct:
  one answer per call, an empty table when nobody waits, no thread lost.
* **vLLM lifecycle.** A subprocess that dies or hangs in any phase, pids that disappear
  once polled. Correct: shutdown for cause only, always after a death, no
  leader left behind, and (what the code does not keep) no process of its group.
* **ASR client.** The shared client is read again after every sleep; a connection breaks
  before or after vLLM has done the work; a session that breaks cancels its calls and does
  not wait for them. Correct: only lost connections are retried, a call ends within its
  attempts, and shutdown takes client and vLLM only from calls that have been cancelled.
* **Log stream.** Threads put lines between any two steps of a coroutine; a queue is full;
  the replay and the subscription are two steps. Correct: lines in order, nothing lost
  after the subscription but what the stream's own full queue refused, no line stuck.
* **Translation proxy.** Sentences fail and overtake each other; their texts are put
  together by counts. Correct: every text consists of its own sentences, every request is
  answered, the proxy's vLLM process does not outlive it, and its group is told to end.

## 2. The modules

| Module | Models | Composes or refines |
|---|---|---|
| `Session` | one connection after the handshake | implements `OrderedDelivery` |
| `OrderedDelivery` | the client's view: cut segments, outcomes, frames in order | abstract |
| `SessionProofs` | theorems about `Session`: lock, cleanup, order | extends `Session` |
| `SessionOrderProofs` | no text missing, the end frame, the refinement | extends `SessionProofs` |
| `Gateway` | all connections, as the connection manager sees them | implements `Admission` |
| `Admission` | a semaphore that refuses only when it is exhausted | abstract |
| `GatewayProofs` | theorems about `Gateway` | extends `Gateway` |
| `VadSegmenter` | one `TenVADSession` | implements `Segmentation` |
| `Segmentation` | the speaker's view: frames of speech wait and are decided together | abstract |
| `VadProofs` | theorems about `VadSegmenter` | extends `VadSegmenter` |
| `ItnPool` | the ITN pool from `start()` to after `shutdown()` | implements `RemoteCalls` |
| `RemoteCalls` | the callers' view: work done elsewhere, at most once | abstract |
| `ItnProofs` | theorems about `ItnPool` | extends `ItnPool` |
| `VllmLifecycle` | `VLLMManager`, the monitor and `lifespan` | |
| `AsrClient` | calls of `recognize()` over one HTTP client | |
| `Serving` | the service from start to end | composes `VllmLifecycle`, `AsrClient`, sessions and log readers |
| `ServingProofs` | theorems about `Serving` and its two parts | extends `Serving` |
| `LogStream` | ring buffer, subscribers and event streams | |
| `LogProofs` | theorems about `LogStream` | extends `LogStream` |
| `TranslationProxy` | the proxy: its life, its vLLM, its requests | |
| `TranslationProofs` | theorems about `TranslationProxy` | extends `TranslationProxy` |

The mutants (operators whose names say how they differ from the definition that follows
them) stand next to the definitions they replace; no action uses them.

### Session

*Actors.* The endpoint coroutine (`hpc`: the await it is in) and one task per segment
(`pc[t]`). An action is what a coroutine does between two awaits, so interleavings are
exactly those of the asyncio loop. Task `t` belongs to the `t`-th segment the VAD cut.

*Correspondence.* `seg_id`, `segId`, `buffer`, `nextSend`, `lock`, `tracked` and
`finalJson` are `ASRSession`'s `seg_id`, each task's local `seg_id`, `_result_buffer`,
`_next_send_seg_id`, `_send_lock`, `_pending_asr_tasks` and `_final_result_json`;
`app` is Starlette's `application_state`. The loop of `push_result_in_order` is `Drain`:
it passes the empty strings, and stops where nothing is stored or where it has to
await a send. `TaskStart`, `TaskSucceeds`, `TaskFails`, `TaskPush`, `TaskSent`,
`TaskReport`, `TaskReported`, `TaskSendFails` and `TaskCancelled` are the stretches of
`_process_segment`; the handler's actions are named after what the endpoint awaits.

*Decisions.*
* `send_text` puts the frame on the transport and may then wait for it to drain. After the
  server has closed, or after a send has once failed, it raises `RuntimeError`; on a
  lost peer it raises `WebSocketDisconnect` and marks the socket disconnected.
* asyncio starts tasks in the order of their creation (`TaskStart`'s guard), which is what
  makes the late `next_seg_id()` right. The lock's queue is not modelled: any waiter may
  get the lock, which includes every order a FIFO lock can give.
* The awaits of recognition and normalisation are one (`"work"`): nothing happens
  between them.
* On the Python version in use `wait_for` runs `websocket.close()` in a task of its own, so
  other coroutines run before the state changes (`CloseBegins`).
* Left out: the session's state name and timing numbers (only logged), and cancellation
  of the endpoint itself at server shutdown. Segments cut in a message whose later
  frame raises are lost (`HandlerRaises` from `"feed"`), as in the code.

*The abstract view.* `OrderedDelivery` keeps one entry per frame the client is sent: the
segment whose text it carries, or `NoText` (the opening of the stream, an error). The
refinement maps the whole of `wire` to it, so that a step of the session delivers, notices
or leaves the client's view alone, and nothing that was sent may change.

### Gateway

`active_count`, `active` and `gauge` are the manager's counter, its registry and the
Prometheus gauge; `session`, `released` and `pc` are the endpoint's locals and
position. A connection is its own sid. After `Finally` a connection is `idle`
and may come back. `websocket.accept()` is taken not to raise: the server library hands
the frame over without waiting for the peer.

### VadSegmenter

Time is counted in frames, and a frame is its number in the stream, so that audio can
be compared with the stretch its timestamps announce. The flag of each frame is chosen
freely: nothing is assumed of the detector. `FeedAudio(n)` is the entry of `feed_audio`,
`ProcessFrame` one turn of its loop. The linear pause threshold is compared after
multiplying by `DynamicRange`, in integers; the floating point of the code gives the
same answers for the comparisons with the limits (750 frames of 0.04 s are exactly
30.0). `_should_transcribe` is not called by anything and is not modelled.

*The abstract view.* `Segmentation` knows no window, no counters and no open segment, only
`waiting`, the set of speech frames that are not decided yet, and `stretches`, what was made
of those that are. All that wait are decided together: returned in one stretch that
holds every one of them and at most `Pad` frames more at each side, or given up, when
they are fewer than `MinSpeech`. In silence they may be decided once the pause has
`MinPause` frames or at least `MaxSpeech` frames wait, and must be once it has `MaxPause`
frames; in speech they may wait until there are `MaxSpeech`, and for at most `Slack` frames
more; at the end of the stream they all are decided. The documents have no slack (speech is
cut as soon as it reaches the limit), the code has one frame: `VadSegmenter` takes the module
with `Slack <- 1`, and `SpeechWithinLimit` states the documented limit, which `vad_limit`
finds violated. In between the module leaves open what the code computes from
the length of the segment. The mapping takes `waiting` from the history of
the detector's flags (the speech frames since the open segment's onset) and `stretches` from the
segments returned.

### ItnPool

A call is its `task_id` and runs through the stretches of `_submit`; `self._runtime` is read
anew at each of them, as in the code, and may have become `None`. Workers may take a task,
answer with a text or an error, or die with it. A coroutine cancelled while it awaits
`normalize` leaves its call running in the thread; the pool does not notice. The dispatcher
is a thread that looks at `running` between answers. `shutdown()` is five steps. Its
`join(timeout=5)` raises `TypeError` at once (`Pool.join` takes no timeout) and is
swallowed, so the model goes straight on to `terminate`.

*The abstract view.* `RemoteCalls` has calls, work that is still to be done and what has been
made of it. Work happens once for each time it is asked for, `Return` gives a caller what was
made of its own call, and `Lose`, `Refuse` and `GiveUp` are all that may go wrong. The
mapping: a call waits from its submission to the end of its wait (`Status`), its task is to be
done while it is in the task queue or in a worker's hands (`Todo`), and its answer is on its
way in the result queue, in the dispatcher's hand and in the waiter (`OnTheWay`). What is
between — queues, table, dispatcher, `shutdown()` — disappears into stutters and losses.

### VllmLifecycle

The leader (the `vllm serve` process) is `up`, `dead` (exited, not waited for) or
`reaped`; its `workers` are the rest of the process group. `StartPolls` and
`MonitorLooks` reap it, as `Popen.poll()` does, and `StopFindsGroup` fails on a reaped one,
as `os.getpgid` does. The monitor's task is created before the pool starts but first
runs when lifespan yields. `"aborted"` is a lifespan that raises because the pool
cannot start: nothing stops vLLM then.

### AsrClient

`open` is `self._client is not None`; `call[c]` is the await a call of `recognize()` is in:
encoding in a thread (`encode`), the post (`post`) or the sleep between attempts
(`sleep`); `attempt` is the loop variable. `Serves` puts vLLM's answer on its way, and a
connection can still break (`Lost`) or time out (`TimesOut`) before it is read
(`Replied`): vLLM may have done the work of a post that is then repeated. The loop sleeps
after the last attempt too, as in the code. `Wakes` reads `self._client` again, and
a client that has gone raises. `posts` is a history of how the posts of a call ended.

### Serving

All variables of `VllmLifecycle` and `AsrClient`; for each session (a set of the calls it may
make) where its `endpoint` coroutine is; the calls whose task has been `cancelled`; and the
set of clients that are `reading` a log stream. `StartServices` joins the start of the pool to
that of the HTTP client, `CloseServices` the first step of lifespan's end to the closing of the
client: both coroutines go from one to the other without a step of vLLM or of a call that
matters in between. An answer needs a vLLM that is up (`VllmServes`).

*What keeps calls and server together.* A recognition runs in a task of its own, and nothing
but its session waits for it. `EndFrame` is the endpoint that gathers its tasks, and `Gathered`
ends it when they have ended; `Breaks` ends a streaming one at any moment. `CloseSession` is
`finally`: `close()` calls `cancel()` on the tasks that have not ended and goes on
(`session.py:112-125`), so a cancelled recognition is still in its post or its sleep when the
endpoint is over, and meets its cancellation later (`TaskRuns`). uvicorn's drain is external
code, the guards of `CloseServices`: it waits for endpoints and requests, and for no task. That
a call that has not been cancelled nevertheless keeps its client and its vLLM
(`CallsHaveServer`) is the work of the gather and of the cancellation, and the mutant in which
`close()` forgets the tasks violates it. A recognition may still start while the drain goes on,
as long as its endpoint is there. In this module a session is no more than that; `Session` has
it in detail.

### LogStream

A line is its place in the log. `emit` is three kinds of steps — append under the buffer's
lock, copy the set of subscribers, put to one queue — because coroutines of the event loop
run between them; the logging package holds the handler's lock around all three, so there
is one emit at a time. A stream replays `rest` (what `get_recent` returned),
subscribes, and then takes from its queue: `get` finds a line or finds the queue empty
(`empty`), and only then registers to be woken (`wait`). A put between these two wakes
nobody, and only the 30-second timeout that sends a keepalive finds the line (`Timeout`).
The order in which a put serves the subscribers is free, as that of a Python set is.

What the code does and the model shows, though nothing promises otherwise:
* lines logged between `get_recent` and `subscribe` are in neither and are never sent;
* a line that is being emitted at the subscription may be sent twice, by the replay and by
  the queue: the one repetition `InOrder` allows;
* `get_recent(0)` returns the whole buffer (`items[-0:]`, `logging.py:73`): `LastOf`.

### TranslationProxy

The proxy's life (`life`, `process`, `leader`, `workers`, `clients`) is modelled like that of
the service, from its own code: `WaitVllm` and `Health` poll, `StopTerminates` sends SIGTERM to
the group (`termed`) or fails to find that of a collected process, `StopWaits` waits for the
leader only, `StopKills` is the SIGKILL to the group after ten seconds. A request is the number
of sentences of each of its texts; a sentence is a pair of the text and its place there, and
`results` holds how its translation ended. The two loops of `translate` are recursive functions:
`AllSegs` is `all_segs`, the sentences of all texts in one list, and `Idx` the running `idx` of
the reassembly. A translation is named after its sentence, so `Joined` — the cutting of
`all_trans` by `seg_counts` — shows which sentences a text was made of; the translation of a
sentence that failed is empty. `FirstError` looks for the code in the order of the list. The
OpenAI client's own retries are inside one step; `Refuse` is a request that cannot be read or lacks a field.

Left out: the counters of `/stats`, which are only reported; the pass-through routes;
the mode without splitting; and `parse_lang_type`, a conversion (whose last line,
`translation_proxy.py:219`, returns a pair inside a pair for short codes because the
conditional expression binds more tightly than the comma).

## 3. Runs

| Run | Instance | Distinct states | Shows |
|---|---|---|---|
| `session` | 3 segments, 2 audio frames | 200 057 | the safety of the session, its refinement of `OrderedDelivery`, sessions end, recognised texts are sent |
| `session_terminal` | 2 segments, 1 frame | violation | results follow a status=2 error frame |
| `gateway_slots` | 3 connections, 2 slots | 19 935 | slots, registry, admission, slots come back |
| `vad_segments` | 27 samples, frames of 2 | 98 270 | what segments are made of, the refinement of `Segmentation` |
| `vad_short` | 12 samples | violation | short speech is thrown away, not kept waiting |
| `vad_limit` | 12 samples | violation | speech that goes on is cut one frame after its limit |
| `itn_pool` | 3 calls, 2 threads, 2 workers | 262 458 | one answer each, its refinement of `RemoteCalls`, the table, calls end |
| `serving` | 1 session of 2 calls, 1 reader, 2 failures, 2 attempts | 369 481 | shutdown for cause and after every death, no leader left, calls that are not cancelled keep their server, all end, retries for cause |
| `serving_reader` | 1 session of 1 call, 1 reader | violation | a log reader that stays keeps the service from going down |
| `vllm_group` | limit of 3 failures | violation | the group is not signalled after a death |
| `log_stream` | 2 readers, 3 lines, capacity 2, queues of 2 | 246 943 | order, losses and arrival of lines |
| `translation` | 1 request, 3 texts, 4 sentences | 359 662 | texts of their own sentences, answers, vLLM stopped |

*Bounds.* `MaxSegs` and `MaxFrames` bound what the client says, not what tasks do. With
three segments one can be missing while another waits in the buffer and a third is
being sent, and the flush segment can be any of them. Three connections for two slots give
a refused client. 13 frames with a limit of 4, a padding of 2 and a pause of 1 to 3 hold
several segments, overlapping windows, forced cuts, discarded segments and
chunks that end inside frames. Three calls on two threads and two workers let a
timeout, a late answer and a crash meet; a third call waits for a thread. In `serving` a
limit of two lets failures flap and be reset, two attempts give a retry and a last failure,
and two calls of one session let one be in its sleep, or in a post after its cancellation,
while the other ends or starts. In `log_stream`
three lines overrun both the buffer and a queue of two, with a second stream that the
first may not disturb. In `translation` three texts may be empty, or share four
sentences unevenly, with failures of two kinds and timeouts. The proofs remove the bounds
for every safety property, the four refinements of abstract specifications included.

*Fairness.* `Session`: weak fairness of the handler and of each task — the loop runs
what is ready, recognition and normalisation have timeouts (60 s and 30 s), a send
ends because the peer reads or the keep-alive ping gives up. The client is never
fair: it need not send anything or leave. `Gateway`: timers, closes, and the ping that finds
lost peers. `ItnPool`: only the calls' own threads; `CallsEnd` holds with dead workers
and a dead dispatcher. `Serving`: the loop, which runs lifespan (`Lifespan`: at any moment at most one of
its steps can be taken), the monitor and the tasks, cancelled ones included; the start thread;
each call, whose posts have a timeout (httpx counts it for each read and write: an
answer comes whole, so this is a bound on the post); the gather, and uvicorn, which closes the
WebSockets once it has been told to end. That the drain ends is not assumed but follows. The startup
deadline is strongly fair because the loop that tests it passes the test again and again.
`ServingLive` adds that a reader of the log leaves some day, which no code makes it do:
`serving_reader` checks the same service without it and finds that it may never go down.
Nothing is assumed of vLLM or of the operator. `LogStream`: the event loop runs the streams
(a keepalive timer included), and their clients read, so that a `yield` returns; threads need
not log. `TranslationProxy`: lifespan's
steps and the requests', whose translations have a timeout; not vLLM's.

*Deadlock* is checked in every run; `Finished` (`Over` in `Serving`) is the step of a system
that is over.

## 4. Findings

1. **A final frame that is not final** (`session_terminal`, `websocket.py:147`): the endpoint's
   error frame has status 2, and results of running tasks can follow it.
2. **Speech beyond its limit** (`vad_limit`, `vad_service.py:177`): in uninterrupted speech the
   only test that is reached is a `>`, so a segment of exactly 30 seconds goes on for a
   frame, where `README.md:43` of the repository and the docstring at `vad_service.py:239` say `>=`.
3. **Short speech does not wait** (`vad_short`, `vad_service.py:194`): it is discarded at the
   next pause, where the README says it goes on waiting.
4. **The process group survives the death of its leader** (`vllm_group`, `main.py:105`).
5. **A log reader holds up the shutdown** (`serving_reader`, `health.py:55`): the stream never
   ends by itself and uvicorn is given no limit for its drain, so the service the monitor
   has told to end may stay up without vLLM.

Seen without a run of its own:
* the endpoint's error path sends its frame without `send_lock` (`websocket.py:147`) while a
  task may be inside a send under it, where `README.md:32` of the repository says that the lock
  makes concurrent writes safe. `Session` has this interleaving (`hpc = "fatalsend"` with a task
  in `"send"`); what a client can notice of it is finding 1;
* the proxy stops its vLLM as finding 4 has it (`translation_proxy.py:151`): for a leader that
  a health check has collected, `os.getpgid` raises, line 156 swallows it, and workers
  that outlive the leader get no signal. `VllmStopped` names this exception and allows no
  other. After a SIGTERM the proxy, too, waits for the leader only.

## 5. Proofs

TLC checks small instances; the following hold for every value of the constants that
satisfies the named assumptions of the modules.

* `SessionProofs`. `TypeCorrect`; `LockDiscipline` (`[]SendLockSound`); `SilenceAfterCleanup`
  (`SilentAfterCleanup`); `TextsInSpokenOrder` (`[]SpokenOrder`).
  *Argument.* `Inv1` adds to the types that started tasks have the numbers of their order
  (`Numbering`: `segId[t] = t`, from the start order) and that a task that
  is not over is tracked while the handler can still cancel it (`Tracking`).
  `SilentAfterCleanup` follows from `Tracking` at the cleanup step. `Inv2` says what the
  buffer may hold under a number (`Buffered`), that what was sent lies below `nextSend`
  (`Below`), that the flush segment is the last and never leaves as a result (`FlushLast`), and
  that the end frame is written when no task is left, as the last frame (`EndLast`).
  `SpokenOrder` alone is not inductive: that a text is appended in order needs all four.
* `SessionOrderProofs`. `NothingLeftBehind` (`[]NothingStuck`), `NoTextOvertakes`
  (`[]NoOvertaking`), `EndFrameIsComplete` (`[]EndIsComplete`) and `SessionDeliversInOrder`
  (`Spec => DeliversInOrder`, the refinement). *Argument.* `Inv3` accounts for every number
  handed out: what a task awaits tells how its recognition ended (`Verdicts`); a number is
  behind `nextSend`, in the buffer or under way exactly when its task has pushed it
  (`Queue`); and a number behind `nextSend` was shown to the client, failed, or is the flush
  segment's (`Passed`). When all tasks are over every number is pushed, so the buffer cannot
  hold one back — that is `NothingStuck`, and with the order of writes it gives the other two.
  The refinement takes each action to `Cut`, `Recognise`, `Deliver`, `Notice` or a stutter;
  only the two sends of a text need `Inv3`.
* `GatewayProofs`. `GatewayTypes`, `SlotsNeverLost`, `RegistryAgrees`, and
  `AdmissionImplemented`: initial states map to initial states and every step to a step of
  `Admission` or a stutter. The invariant is `SlotsExact` and `RegistryExact` together
  with the flags a connection can have at each place.
* `VadProofs`. `VadTypes`, `SamplesKept` (`[]NoSampleLost`), `SegmentsAreStretches`
  (`[]AudioIsStretch`) and `SegmentsBounded` (`[]SpeechBounded`), for every frame length,
  padding and limit and every answer of the detector. `AudioIsStretch` only speaks of
  segments that were returned; `VadInv` adds where their frames come from: the window holds
  the frames before the next one (`WindowLast`), and the open segment reaches without a gap
  from its start to the last processed frame, with its last speech frame inside it
  (`OpenSegment`). `NoSampleLost` is what keeps the frame numbers within the stream.
  `SpeechIsKept` (`[]SpeechKept`) for all constants: a speech frame is in a
  segment that was returned or discarded, or in the open one before its last speech frame has
  ended (`Unsettled`). `SegmentsInOrder` (`[]SegmentsAdvance`) under `ShortPad`: the padding is
  not longer than the minimal and the maximal speech (the defaults are 5 frames against 13
  and 750). Its invariant is that the window is as full as the stream allows (`WindowFull`)
  and that the last returned segment lies before the next onset (`LastBefore`).
  `SegmenterKeepsPromise` (`Spec => SegmentsAsPromised`, the refinement of `Segmentation`) needs one
  invariant more, proved beside it (`Counted`): the code's counters count frames. `speechCount` is
  the cardinality of the waiting set, `lastEnd` is behind its last frame and `silenceCount`
  frames of silence have come since. `OneMoreWaits` and `StretchAdded` say what one more frame of
  speech and one more segment do to the mapped variables; `FinalizeDecides` then gives every
  ending of a segment. With `Slack <- 1` it says no more of the upper limit than the
  code keeps; so does `SpeechBounded`, `MaxSpeech + 1`.
* `ItnProofs`. `ItnTypes`, `ItnOneAnswer` (`[]OneAnswerEach`), `ItnTableClean`
  (`[]NothingLeftPending`). *Argument.* Follow a call through the queue of tasks, a worker,
  the queue of results, the dispatcher's hand and its waiter: it is in at most one of these
  places (`Apart`), in each at most once (`Single`), and in none before it was submitted and
  after it was answered (`Asked`). Neither property is inductive without that.
  `PoolKeepsPromise` (`Spec => CallsAsPromised`) is the refinement of `RemoteCalls`, step by
  step: submitting is `Ask`, an answer `Work`, reading the waiter `Return`, a timeout `GiveUp`; a
  crash, `terminate`, the manager's end and an answer nobody waits for are `Lose`. `Apart` is what
  makes `Return` remove all there was: an answer that has been read is nowhere else.
* `ServingProofs`. Two step refinements, `LifeImplemented` and `ClientImplemented`: every
  step of the composed service is a step of `VllmLifecycle`, and of `AsrClient`, or leaves it
  alone. The invariants of the parts (`LifeInv`: the failure count agrees with the checks and the
  flags with the phase; `AsrInv`: the attempts agree with the posts) therefore hold in
  the service: `ServingHasTypes`, `ServingLeavesNoLeader`, `ServingDownForCause`,
  `ServingRetriesForCause`. `ServingKeepsCalls`
  (`[]CallsHaveServer`) belongs to neither part. A call says nothing of its session,
  nor a session of the service, so it needs `InsideLife`: the client is open
  exactly while the service is up, endpoints are there only then, and a call that runs and has
  not been cancelled has its endpoint. The last part is what `Gathered` and `Breaks` have to
  keep (`SessionKeepsInside`): the one leaves when nothing runs, the other cancels what does.
* `LogProofs`. `LogTypes`, `LogInOrder` (`[]InOrder`), `LogNoLineLost` (`[]NoLineLost`), for any
  readers, capacity and queue size. `LogInv` adds that the buffer holds the last lines of the
  log (`BufferRecent`), that a queue is in order and older than what is still to come
  (`QueueInOrder`), that what was sent comes before all of it, up to the one repetition
  (`SentBefore`), and that from the subscription on a missing line was refused or is coming
  (`NoGap`, which is `NoLineLost` of one reader).
* `TranslationProofs`. `ProxyStopsVllm` (`[]VllmStopped`), for any requests and statuses:
  requests wait only while the proxy serves, it has a process from the start to the end
  of `stop_vllm`, which has signalled the group when it waits for the leader, and nothing comes
  up once it was stopped (`ProxyInv`).
  `AnswersOwnSentences` (`[]OwnSentences`), for requests of any shape. *Argument.* The step
  that answers needs to know what the two loops compute. The library's induction theorem takes
  an operator and cannot be used, so the induction is over sets of numbers: `LeastNumber`
  comes from the well-foundedness of `<`, and `UpTo` says that a set with 0 and the successor
  of each member has all numbers. With `UpTo`, `LoopRuns` shows that a loop has values, hence
  that the recursive functions satisfy their equations (`IdxRuns`, `AllSegsRuns`); and again
  with `UpTo`, that sentence `k` of text `j` stands at `Idx[j - 1] + k` (`AllSegsPlaces`), that
  every place of the list holds such a sentence (`AllSegsCovered`), and that the list is in
  the order of the sentences (`AllSegsListed`). `JoinedOwn` and `CodeOfFirst` follow: the
  texts, and the code of the answer.

*Only model-checked:* liveness, which is out of the proof system's reach (`EndsForGood`,
`RecognisedIsSent`, `SlotsComeBack`, `CallsEnd` of pool and client, `DeathBringsDown`,
`LinesArrive`, `AllAnswered`); that no reachable state but the final ones is stuck, since ENABLED
is out of its reach too; and the five violations of section 4, which are counterexamples. Every
safety property a passing run checks, invariant or action, is a theorem for all constants that
satisfy the modules' assumptions (`SegmentsAdvance` under `ShortPad` besides). The invariants used
in the proofs were checked by TLC before they were proved.

## 6. Order of work, and what is left

The modules were written in the order in which a failure would be noticed by a client:
session, gateway, segmentation, ITN pool, vLLM's life, then the ASR client, its
composition with vLLM's life, the log and the translation proxy; each was checked before it
was proved. What could follow:

1. `Session` with the ITN pool and the ASR client composed into its `"work"`, instead of the
   one await they are now; the interfaces are there: `CallsEnd` shows of both that a call ends, and
   `RemoteCalls` is what the pool promises of it;
2. signals that reach the process while vLLM is still starting.

### Not modelled

* Audio decoding, message validation, configuration, the detector and the FST grammar:
  conversions or native code without a protocol of their own. Their failures are
  (`HandlerRaises`, the flags of `VadSegmenter`, the workers' errors).
* The vendored headers under `3rd-party/`: third-party C++ that the Docker image compiles into
  the wheel of the text normaliser. The service is the Python around it; nothing in the
  repository is written against these headers, and a model of them would say nothing of it.
* Counters of the metrics and of the proxy's `/stats`, which are only incremented and reported.
* The HTTP helper that nothing imports, tests and benchmark clients.
