# CyNativePlayer: specification, model checking and proofs

CyNativePlayer is a native media player for Android: a C API
(`src/nativeplayer/NativePlayer.c`) over a fork of ijkplayer, itself built on
ffplay. This directory holds TLA+ modules of its concurrent core, TLC
configurations that check them on small instances, and theorems about them that
TLAPS checks for all instances. Paths below are under
`src/nativeplayer/src/ijkplayer/ijkplayer/` unless they begin with `src/`.

## 1. Inventory

### Components, their state and operations

| component | code | state | operations | module |
|---|---|---|---|---|
| Public API | `src/nativeplayer/NativePlayer.c` | `sync_interface_lock`, `mp`, four fences (prepare, start, pause, stop), `has_reported_error` | prepare(Sync/Async), start, pause, seekTo, stop, reset, release, setCallback, setVideoSurface, getters and setters | PlayerControl, CallbackDispatch |
| Fences | `src/nativeplayer/src/utils/ncfence` | `signaled`, mutex, condition | signal, reset, wait | PlayerControl |
| Player state machine | `ijkplayer.c` | `IjkMediaPlayer`: `mp_state`, `restart`, `restart_from_beginning`, `mutex` | `ijkmp_*`, `ijkmp_get_msg` | PlayerControl |
| Message queue | `ff_ffmsg_queue.h` | list of messages, `abort_request` | put, remove, get, start, abort, flush | MsgQueue |
| Message loop | `NativePlayer.c` `message_loop_n` | message in hand | gets messages, moves fences, posts callbacks | PlayerControl, CallbackDispatch |
| Callback dispatch | `NativePlayer.c` | callback queue and thread, `callback_lock`, `user_callback_sync_fence` | post, dispatch, setCallback, reset, release | CallbackDispatch |
| Stream | `ff_ffplay.c` `VideoState` | flags (`pause_req`, `seek_req`, `step`, `abort_request`), `completed` of `read_thread` | `stream_open`, `read_thread`, `stream_seek`, `stream_close` | PlayerControl (what it tells the control plane), DecoderPipeline (what it does with packets) |
| Packet queues | `ff_ffplay.c` 152-372 | list of packets, `serial`, `abort_request` | put, get, flush, abort, start | DecoderPipeline |
| Decoders | `ff_ffplay.c` 374-386, 575-668, 877 | `finished`, `pkt_serial` | `decoder_decode_frame`, `decoder_abort` | DecoderPipeline |
| Frame queues | `ff_ffplay.c` 685-863 | ring of frames, `rindex`, `windex`, `size`, `rindex_shown` | peek, push, next, signal | FrameQueue, FrameFifo |
| Video refresh | `ff_ffplay.c` 1545, 4648 | clocks, frame timer | shows or drops frames | DecoderPipeline (which frame is next), not its timing |
| Surface changes | `android/ijkplayer_android.c`, `android/pipeline/ffpipeline_android.c` | window, `is_surface_need_reconfigure`, `surface_cond` | `ijkmp_android_set_surface` | MediaCodecNode; DecoderPipeline (the packet alone) |
| Seek control | `ff_ffplay.c`, `ijkplayer.c`, `ff_ffseek_mode.h` | `mp->seek_req`, `seek_req`, `seek_pos`, `step`, `pause_req`, seek mode, AB range | request, skip, flush, resume, loop, complete | SeekControl, without the AB range |
| Buffering | `ff_ffplay.c` 5543-5730 | water marks, `buffering_on` | `ffp_check_buffering_l`, toggle | SeekControl (the toggle) |
| MediaCodec decoder node | `android/pipeline/ffpipenode_android_mediacodec_vdec.c` | codec, `acodec_mutex`, flush and reconfigure requests | feed, drain, reconfigure, flush, stop | MediaCodecNode |
| Video output | `ijksdl/android/ijksdl_vout_android_nativewindow.c` | buffer proxies, window, codec | obtain, invalidate, release, display | MediaCodecNode |
| Audio output | `ff_ffplay.c` 2741-3025, `ijksdl/android/ijksdl_aout_android_audiotrack.c` | pause, flush and abort requests, the track; `sampq` | writing thread, callback, pause, flush, close | AudioOutput |
| Thread pool, async and cached I/O | `ijkavutil`, `ijkavformat` | - | built, but the protocols that use them are not registered (`ijkavformat/allformats.c` 82-83) | thread pool planned last |
| Clocks, resampling, rendering, MediaCodec bindings, protocols, options, vendored code, example | | | | not modelled, see section 8 |

`PROJECT.json` lists every component with its files and status.

### How they interact

- The application calls the API from any thread; `sync_interface_lock` lets one
  call run at a time. Playback calls post *requests* (REQ_START, REQ_PAUSE,
  REQ_SEEK) into the message queue and, in their synchronous forms, wait on a
  fence for the state change to be reported.
- `stream_open` starts `read_thread` and the refresh thread; decoders start when
  the file is open. They post *events* (PREPARED, COMPLETED, SEEK_COMPLETE,
  ERROR) into the same queue.
- The message thread takes one message after another. `ijkmp_get_msg` carries out
  requests and events on `mp_state`, announcing each change with another
  message; `message_loop_n` then moves the fences and posts to the callback queue.
- The callback thread dispatches these to the application, which may call the
  API again from there.
- Inside the stream, `read_thread`, the decoder and the refresh thread are
  coupled by a packet queue and a frame queue. A seek stops none of them: it
  changes the queue's *serial*, and each drops what carries another serial.
- With MediaCodec two threads drive the codec, and its output buffers reach the
  screen as proxies. A new surface makes the proxies invalid, is handed to the feeding
  thread through a flag and a packet, and is followed by a seek that flushes the codec.
- The audio track has a thread of its own, which calls back into `ff_ffplay.c` for samples.
- `stop` closes the stream, joins the message thread and waits on the stop
  fence; `reset` and `release` also wait for the callback thread.

### What is hard

Interleavings of the application, message, callback, read, decoder and refresh
threads; messages of a stream that are handled after it was closed; waits whose
wake-up must come from a thread that is being joined; requests that overtake or
undo one another; serials that move while a packet is in hand; a queue at its
limit while everything is to be closed. `hazards` in `PROJECT.json` lists each
at its line, with the properties that watch it or the reason why none does yet.

### What makes each component correct

- *Player state machine*: the state reported to the application converges to the
  state of the player; a player that says STARTED plays; a new session finds
  nothing of the old one.
- *API and fences*: stop, reset and release return; start, pause and prepareSync
  return when what they wait for happens.
- *Message queue*: it is never shut under a running reader; the message that ends
  the reader is not lost.
- *Callback dispatch*: no callback crosses a reset; no callback runs after
  release; callbacks are not replaced while one runs; one error per session; no
  call hangs other than by waiting for itself.
- *Stream*: no picture from before a seek is shown after it; completion is
  announced at the end and only there; closing always ends.
- *Frame queue*: whatever the order of its unlocked steps, a first-in first-out queue
  whose shown frame stays; nobody waits for ever.
- *Seek control*: the newest target is served and is where playback goes on; a paused
  player stands still; the position reported follows.
- *MediaCodec node*: a buffer is released only while it is lent out; buffers come back; a flush
  lets no more than one old picture through; the codec draws on the surface asked for last.
- *Audio output*: the track plays and pauses as asked; samples from before a seek do not
  stay ahead of those after it; closing returns.

## 2. Plan

| step | module | state |
|---|---|---|
| 1 | MsgQueue, PlayerControl | done |
| 2 | PlayerControl_proofs: types, the session invariant, the view invariant | done |
| 3 | CallbackDispatch | done |
| 4 | DecoderPipeline (video, software decoder) | done |
| 5 | FrameQueue, FrameFifo, FrameQueue_proofs: the ring refines a bounded FIFO, with its proof | done |
| 6 | SeekControl: targets, modes, skipping, pausing and stepping around a seek | done, without AB range and accurate-seek wait |
| 7 | MediaCodecNode: the hardware decoder, the proxies and the surface handshake | done |
| 8 | AudioOutput: the writing thread, its callback and `sampq` | done |
| 9 | SeekControl_proofs, MediaCodecNode_proofs, CallbackDispatch_proofs, DecoderPipeline_proofs, AudioOutput_proofs | done |
| 10 | proofs of StopRequestSurvives and StartedPlays (PlayerControl), NewestServed, StateTold and LandsWhereAsked (SeekControl, SeekLanding_proofs), BuffersComeBack (MediaCodecNode), ErrorOnce and NoOtherEmbrace (CallbackDispatch) | done |
| 11 | when buffering begins and ends; audio beside video, with completion of both | to do |
| 12 | the AB range and the accurate-seek handshake of audio and video | to do |
| 13 | the thread pool | to do |

PlayerControl EXTENDS MsgQueue. An abstract specification worth stating
over PlayerControl is the state diagram of `ijkplayer.h`; the violation runs below show
where the code leaves it. FrameFifo is one for the frame queue: the FIFO that
DecoderPipeline takes for granted when it writes `frames` as a sequence.
PlayerControl and DecoderPipeline model the same threads at two levels: what
PlayerControl allows without condition (SeekBegin, CompleteBegin at any time
in the loop) DecoderPipeline restricts by the packets and frames there are.

## 3. Modules and their code

### MsgQueue
The contents of `AVMessageQueue` as a sequence: Put drops what comes after
abort, Remove deletes all messages of a kind (`msg_queue_remove`). The mutex of
the queue makes each one step.

### PlayerControl
| variable | code |
|---|---|
| `mp` | `mp_state`, `restart`, `restart_from_beginning` |
| `msgs`, `aborted` | `ffp->msg_queue` |
| `is` | `ffp->is`: where `read_thread` is, and the flags other threads read; NoStream for NULL |
| `auto_resume`, `seek_at_start` | the same of `FFPlayer` |
| `msgThread`, `hand` | message thread: in `msg_queue_get`, in `ijkmp_get_msg`, in `message_loop_n`; the message it holds |
| `fences` | `signaled` of the four fences |
| `api` | the call under way and where it waits |
| `seen` | last state put into the callback queue |
| `crashed` | a NULL `ffp->is` was used |

*AppNext* has one action per API call that changes state, *AppWait* the later
steps of calls that wait (the fence's check and sleep, `ffp_wait_stop_l`, the
join, the end of stop, reset and release), *MsgNext* one action per case of
`ijkmp_get_msg` and per kind of message in `message_loop_n`, *StreamNext* the
steps of the stream's threads. `mp->mutex` is held inside each step; only stop
holds it across steps (MutexFree). A fence's wait is two steps, so that a signal
and a reset may fall between its check and its sleep.

### CallbackDispatch
`op` and `pc` tell what each thread calls and where it is; `lock` and `cbLock` are
the two mutexes; `queue`, `cbThread`, `hand` the callback queue and thread;
`callbacks` names the session in which the callbacks were set; `session` counts
resets. `session`, `told`, `called` and `errors` exist for the properties. Most API calls are
represented by prepare and stop, which start and end the message thread while
holding the interface lock; setCallback, reset and release are step by step.

### DecoderPipeline
| variable | code |
|---|---|
| `queue`, `serial`, `aborted` | `is->videoq` |
| `reader` | where `read_thread` is: head of the loop, inside the seek, the checks, the wait before completion, reading |
| `left`, `place` | what the demuxer has still to deliver, and where it began |
| `eof`, `completed`, `seek_req` | the same of `VideoState` and `read_thread` |
| `dec`, `asleep` | the decoder thread: receive, get, check the serial, push; whether it waits there on the queue's condition |
| `pkt`, `pkt_serial`, `finished` | packet in hand, fields of `Decoder` |
| `codec`, `draining` | what libavcodec holds (external, as its interface promises) |
| `frames`, `rindex_shown` | `is->pictq` |
| `closing` | how far `stream_close` is: waits for the reader, for the decoder, done |
| `overtaken` | for the properties: kinds of packets a set-surface packet has made stale since the last flush packet |

A *place* is where reading began. It stands for the time stamps by which a
viewer would tell a picture from before a seek from one after it. The code itself never
compares it: frames carry only the serial.

### FrameFifo, FrameQueue
FrameFifo says what a frame queue promises: frames leave in the order they came in, never more
than `Capacity` are held, and with `keep_last` the frame on the screen stays. FrameQueue is
the code, `frame_queue_*`: `slots`, `rindex`, `windex`, `size`, `rindex_shown` are the fields of
the struct. Only `size` is changed under the mutex, so a push is three steps
(Write, PushIndex, PushSize) and so is what `frame_queue_next` does when it drops a frame. `writer`
and `reader` say how far each thread is; `waiting` holds the threads inside `SDL_CondWait`.
The refinement mapping reads the ring from `rindex` on; between the increment of `rindex` and the
decrement of `size` one slot less counts (Held).

### MediaCodecNode
| variable | code |
|---|---|
| `app`, `wanted`, `window`, `need` | the setter in `ijkmp_android_set_surface`; `native_window`, `is_surface_need_reconfigure` of the pipeline |
| `voutCodec` | whether the vout has `acodec` |
| `queue`, `serial`, `aborted`, `seekReq`, `reader` | `videoq`, and `read_thread` as far as it seeks |
| `feeder`, `packet`, `pktSerial`, `target`, `recreate` | the feeding thread and what it holds |
| `pending` | the serial `pkt_temp` was taken with while `packet_pending` is set, 0 otherwise |
| `flushReq`, `reconfReq`, `first`, `lock` | `acodec_flush_request`, `acodec_reconfigure_request`, `acodec_first_dequeue_output_request`, `acodec_mutex` |
| `started`, `codecWindow`, `inside`, `fed`, `lent` | the codec (external): whether it runs, its window, its inputs, what each output buffer holds |
| `drain`, `frame`, `failed`, `pictq` | the draining thread, the frame it holds, `opaque->abort`, the pictures queued |
| `late`, `overlap`, `lost` | for the properties: the setter gave up waiting; a request met another; a seek was overtaken or failed |
| `flushed`, `revived` | for TrueAfterFlush: the serial of the flush packet taken last; a packet from before it was fed since |
| `calls` | a bound: changes of window and of picture size, and the application's own seeks |

A proxy is the buffer it stands for, the serial of the packet decoded into it, and the serial it
was queued with; invalidating it forgets the buffer.

Three paths deserve a word. `packet_queue_put_private` starts a new serial for a set-surface packet as
it does for a flush packet (`ff_ffplay.c` 181-183), and so does SendSurface. A set-surface packet sends
`feed_input_buffer` back to its caller (931) with `packet_pending` as it was: a packet taken before a seek is
still pending when the flush packet and then a set-surface packet have been taken, and is then fed to the flushed
codec, under the serial of the set-surface packet. `pending` keeps the packet's own serial, so that the codec's inputs
and outputs carry what they were decoded from. And when `avformat_seek_file` fails (4178) neither the node nor
the queue is flushed, while `seek_req` is cleared: SeekFails.

Where `CodecFails`, a new format, a new window, a new codec, an input or an output may fail: each ends
in the disjunct of its action that the code's `fail` label describes. A codec that could not be
started again takes nothing and lends nothing until the next change of format succeeds.

### SeekControl
One player and one stream, from `ijkmp_seek_to` to the frame on the screen. `seek_req` is
`mp->seek_req`; `is_seek_req`, `is_seek_pos` are the request in `VideoState`; `target`, `failed`,
`completed`, `loop` are locals of `read_thread`; `play` holds the flags `pause_req`, `step`,
`buffering_on`, `paused`, `auto_resume` which `stream_update_pause_l` combines. Positions count frames;
`packets`, `decoding`, `pictq` are the frames on their way, marked old by a seek as their serial would
tell. `newest`, `answered`, `overtaken`, `left`, `landing`, `raced` and `play.crossed` follow
what became of each request.

### AudioOutput
`pause_on`, `need_flush`, `abort_request` are the opaque's; `at` is where the writing thread is, also
inside the callback; `track` and `inTrack` are the AudioTrack (external) and what was written to it;
`audio_buf`, `sampq`, `hand` the samples on their way, new or old (Aged: a seek makes what was new
old); `behind` says that the decoder has not come to the newest serial; `aborted` and `closing` how far
`stream_component_close` is. `noticed`, `missed`, `crossed` exist for the properties.

### The modules named *_proofs*
Lemmas, inductive invariants and theorems, see section 5.

### MCPlayerControl, MCMediaCodecNode
MCPlayerControl names a constraint-free instance for TLC. MCMediaCodecNode adds, for the runs of
invariants, the symmetry of buffers and windows and a VIEW, by which TLC takes two states for one if they differ only in
what neither a step nor an invariant looks at:

- the label of a picture, which only the skipping of a seek reads (kept where `ExactSeeks`);
- which of `late` and `lost` was set, since BuffersComeBack excuses both alike;
- `first`, but where the feeding thread waits for it: whoever comes there has just set it;
- once the queue is aborted, its contents, the requests for a seek and for `acodec_mutex`, and where the setter and
  `read_thread` are but for the steps that still change something else: SetPipeline, and FlushQueue as far as the
  serial may cease to be the feeding thread's.

LiveSpec is FairSpec from one of the two windows; liveness is checked without symmetry, and
exchanging the windows' names turns one half of the behaviours into the other. The other modules need no
instance of their own.

Operators whose comment begins with "Mutant of" are deliberately wrong versions
of a definition. They are in no specification; each is put in place of its
original to see that the named property notices.

## 4. Runs

| run | module, configuration | properties | result | distinct states |
|---|---|---|---|---|
| sessions | MCPlayerControl, MCPlayerControl.cfg | TypeOK, AbortOnlyAfterExit, ViewConverges, PrepareFindsNothing, StopRequestSurvives, StartedPlays | hold | 1.9 million |
| waits_return | MCPlayerControl, MCPlayerControlLive.cfg | StopReturns, FenceReturns | hold | 129 thousand |
| dispatch | CallbackDispatch | ToldOwnSession, ErrorOnce, ReleasedQuiet, CallbacksStable, NoOtherEmbrace, CallsReturn | hold | 391 thousand |
| pipeline | DecoderPipeline | TypeOK, LabelsHonest, CompletedAtEnd, NothingSkipped, CloseReturns, PlaybackCompletes | hold | 677 thousand |
| frame_queue | FrameQueue | WritesApart, ShownIsHeld, OneWaits, ImplementsFifo, WaitsEnd | hold | 9,760 |
| mediacodec | MCMediaCodecNode, MCMediaCodecNode.cfg | ReleasesOnlyLent, TrueAfterFlush, SettledUnlessOverlap, BuffersComeBack | hold | 3.6 million |
| mediacodec_live | MCMediaCodecNode, MediaCodecLive.cfg | RequestHandled, CloseReturns | hold | 595 thousand |
| seek_control | SeekControl | TypeOK, NewestServed, PauseHolds, StateTold, LandsWhereAsked, PositionReleased | hold | 1.4 million |
| audio_output | AudioOutput | OldCleared, TrackFollows, CloseReturns | hold | 323 thousand |
| prepared_expected | MCPlayerControl, MCPreparedExpected.cfg | PreparedExpected | violated | - |
| joined_is_stopped | MCPlayerControl, MCJoinedIsStopped.cfg | JoinedIsStopped | violated | - |
| exact_seek | MCMediaCodecNode, MCExactSeek.cfg | BuffersComeBack | violated | - |

### What they show

- **sessions.** Callbacks converge to the state of the player
  whatever is requested, whatever the stream reports and however spuriously the fences wake.
  A STARTED player plays, or what makes it play is under way, also when a start
  meets a completion or a seek. StartedPlays is stated for the first session: a PREPARED that
  the video refresh thread posts behind REQ_STOP survives into the next session
  (`msg_queue_start` does not drop it) and prepares a stream that is still opening. It leaves out videos
  that start by themselves: the PREPARED of such a video waits for its first frame, and one that completes or
  fails before shows STARTED while it is paused (`ijkplayer.c` 881). Sound alone is prepared at once:
  the theorem PlayerPlays covers it, with every other setting.
- **waits_return.** stop, reset and release return, unless the process died. start
  and pause return if they sleep before their request is taken and no error comes.
  The condition is needed: a COMPLETED change between the signal and the check of a late
  waiter clears its fence again; a PAUSED change behind an error clears what the error
  signaled; a REQ_START that `read_thread` posts for an earlier start overtakes the
  pause it follows; and a stream that completes before PREPARED leaves prepareSync waiting.
- **dispatch.** A callback sees only messages of the session
  its callbacks were set in, at most one error each, none after release, and nobody
  replaces callbacks that run. Every call returns, or
  a callback waits for the interface lock that a reset or release holds while it
  waits for the callback thread. That is the only way to hang: in every state who waits for a lock, the fence or the
  end of the callback thread waits for a thread that goes on (NoOtherEmbrace).
- **pipeline.** With serials alone, and with a codec that still
  holds frames of earlier packets, no old picture passes for a new one, completion is not
  announced early, and no packet is skipped, as long as no set-surface packet
  overtakes a flush packet. If one does, the decoder drops the flush, does not flush
  the codec and labels old frames with the new serial: the hazard at
  `ff_ffplay.c` 6090. Left alone, playback completes, except that a
  set-surface packet may have overtaken the null packet at the end of the file.
  The code repairs both with a seek, which a completed player does not make.
  `stream_close` returns from every state.
- **frame_queue.** Two threads that move indices without the lock, and a condition that is signalled
  rather than broadcast, are enough for a FIFO: neither touches a slot of the other, and they
  never wait both.
- **mediacodec, mediacodec_live.** No buffer goes back to a codec that does not have it lent out,
  in any order of flush, new surface, new picture size, failing seek and stop. Once the codec is flushed for a seek, at most
  one picture of before it is still to come: that of the packet left pending when a set-surface
  packet followed the flush packet, as described in section 3. It does come, in a few steps, and is then labelled as
  new: a weakness of the code, listed under `hazards`. No property says that labels are true, for they are not.
  Buffers made invalid by a new surface
  come back with the seek that follows, unless the setter gave up after its 50 ms (it then makes no
  seek: `late`), or a seek was forgotten because another was just ending, or failed (`lost`). A codec that failed keeps
  them (`failed`). The codec draws on
  the surface asked for last unless a request arrives while the one before is applied (`overlap`):
  the request flag is then withdrawn for both. Every request is answered, and closing lets both threads go.
- **seek_control.** The newest seek is served, unless it arrives after the seek before it has read
  its target and before it ends, when the file loops just then, or when a COMPLETED still in the
  queue makes a start begin again (`overtaken`). A seek, skipped or not, goes on at its target unless the
  stream ran on while it was decided (`raced`): frames were dropped in between, or a pause had met a step, after
  which the stream is not held for the seek. A player asked to pause stands still or makes one
  step; `toggle_pause_l` clears `step` only after it was used, so a pause that meets a step may miss
  (`crossed`). The reported position lets go of a seek's target, except that `stop` leaves it
  (`left`).
- **audio_output.** The track ends up playing or paused as last told, unless the resumption fell
  between the thread's unlocked question and its wait, at its start or after a track was made anew
  (`crossed`); a flush reaches the track after a seek, unless the callback did not look between the
  flush of the queue and the decoder's taking the flush packet (`missed`). Closing returns
  since the decoder's queue is aborted first.
- **The three violations** are disagreements between the code and what it says of itself.
  `findings` in `PROJECT.json` quotes the lines. Two more were met on the way and have no run of
  their own: a STOPPED player moves to ERROR when its opening stream fails on the abort, which the
  state diagram (`ijkplayer.h` 123) does not have; and a spurious wake-up ends `ncfence_wait`
  without a signal, against its comment (`ncfence.c` 79).

An excuse such as `overtaken` is a variable no guard reads; it is set exactly where the named race
happens, and each property fails without it. It marks a weakness of the code, listed under `hazards`.

### Bounds, and why they are enough

- PlayerControl: `MaxCalls` 4 calls and `MaxStreams` 2 sessions (1 for liveness). Four
  calls include prepare, two that race, and one that ends the session; a session affects
  the next only through what is left in the queue and in `mp`, so two show it. The
  queue is not bounded: a session posts finitely many events apart from those of
  seeks and completions, which calls bound. `StartOnPrepared`, `PrepareCanFail`,
  `DecodersCanFail`, `SpuriousWakeups` switch on parts of the behaviour and are spread over the runs.
- CallbackDispatch: two application threads, so that two calls contend for the
  lock while the callback thread makes a third; 4 calls, 3 messages. A hang needs one
  reset or release and one callback.
- DecoderPipeline: 2 packets per place, one seek, one surface change,
  a packet queue of size 1 and a frame queue of size 2, so that either is full while the
  other runs dry and the decoder sleeps at each of them. `FrameQueueSize` must be 2 or more because
  one frame stays on the screen; the code's least value is 3. Larger instances (2 seeks,
  `MaxQueue` 2; 9.8 million states) have been checked for safety.
- FrameQueue: 3 slots and 3 frames, the least in use; the proofs cover every size.
- MediaCodecNode: 2 buffers, so that one is on the screen and one in the codec or in hand;
  2 windows; 1 data packet, 1 input and 1 picture waiting, so that each queue is at its limit at once
  (flush and set-surface packets come on top). `MaxCalls` counts changes of window and of picture size and
  the application's own seeks; the seek after a change of window is not counted. The run mediacodec has two
  of them, so that a request meets another, and a surface packet meets the flush packets of up to two
  seeks, which may fail. The liveness run has 1 buffer, 1 change with the seek that follows it or 1 seek, and a codec that
  may fail; a second call makes it too large, so that no second request overlaps the first there. The same
  instance as mediacodec with `CodecFails` (10 million states) has been checked too; SettledUnlessOverlap is stated for a
  codec that does not fail. The proofs cover every number of each, and a failing codec, for the invariants.
- SeekControl: 3 frames, key frames at 0 and 2, so that a target is a key frame, lies between two, or is
  behind the end; 2 calls after prepare, one loop, and both a packet and a picture waiting. A race of
  two requests needs two calls.
- AudioOutput: 2 frames in `sampq`; seeks, pauses and the failing track are not bounded.

`CHECK_DEADLOCK FALSE` is set throughout: the application may stop calling, a
closed or released player does nothing more, and some waits may last for ever, as described.

### Fairness

- PlayerControl: each thread that can take a step takes one (weak fairness per
  thread and per kind of wait); `read_thread` leaves opening, seeking and
  completing, since its input is interruptible; a frame of a video is
  rendered unless a decoder gave up, as the stream is stepped until then. Nothing obliges the
  application to call, a stream to end, or anything to fail.
- CallbackDispatch: each thread's own steps; new calls and posts are not fair.
  A mutex need not be granted in order.
- DecoderPipeline: the reader, the decoder, the refresh thread and `stream_close`
  each run. Fairness of the refresh thread states that the player plays: a
  paused one shows nothing and need not complete. Seeks, surfaces and closing are not fair.
- FrameQueue: each step of a push or a next that has begun. Giving a slot up, polling and aborting
  are not fair: WaitsEnd says that a waiter is woken once the other side moves.
- MediaCodecNode: weak fairness for the draining thread, the display, the setter's steps and
  `read_thread`'s seek; *strong* fairness for the feeding thread, which takes `acodec_mutex` again and
  again from the draining thread. The code justifies it: the draining thread does not take the
  mutex while a request is pending but waits on a condition for up to 100 ms
  (`ffpipenode_android_mediacodec_vdec.c` 1584-1595).
- SeekControl: the message thread, and `read_thread` in a seek and in its delay before
  completion. The refresh thread and the decoder are not fair.
- AudioOutput: the writing thread and a close that has begun. The decoder and the player are not fair,
  so a callback may wait for a sample for ever; it then does not obey a pause, as TrackFollows says.

Elsewhere weak fairness is what an operating system's scheduler gives.

## 5. What is proved

TLAPS checks eight modules. Each theorem holds for every value of the constants that
satisfies the assumption named here, the only facts about constants its proofs use:

- `PlayerControl_proofs`: every number of calls and sessions and every setting of the
  options; `ConfigAssumption`.
- `FrameQueue_proofs`: every size of the ring of at least two; `QueueAssumption`.
- `SeekControl_proofs`, `SeekLanding_proofs`: any file with a key frame at its start, any number of calls, loops
  and places in the queues; `SeekAssumption`. PausesHold needs no assumption.
- `MediaCodecNode_proofs`: any number of buffers, windows, packets and calls;
  `NodeAssumption`, `NoneAssumption`.
- `CallbackDispatch_proofs`: any number of threads, messages and calls; `CallsAssumption`.
- `DecoderPipeline_proofs`: any length of the file, size of the queues and number of seeks and
  surfaces; `SizeAssumption`.
- `AudioOutput_proofs`: any size of `sampq`, and a track that may be refused; no assumption.

| module | theorem | statement |
|---|---|---|
| PlayerControl_proofs | TypeCorrect | `Spec => []TypeOK` |
| | QueueOpen | `Spec => []AbortOnlyAfterExit` |
| | CleanPrepare | `Spec => []PrepareFindsNothing` |
| | CallbacksConverge | `Spec => []ViewConverges` |
| | StopSurvives | `Spec => []StopRequestSurvives` |
| | PlayerPlays | `Spec => []StartedPlays` |
| FrameQueue_proofs | TypeCorrect | `Spec => []TypeOK` |
| | DecoderWritesApart | `Spec => []WritesApart` |
| | ScreenIsHeld | `Spec => []ShownIsHeld` |
| | NeverBothWait | `Spec => []OneWaits` |
| | RingImplementsFifo | `Spec => ImplementsFifo`, that is `Fifo!Spec` under the mapping |
| SeekControl_proofs | PausesHold | `Spec => []PauseHolds` |
| | TypeCorrect | `Spec => []TypeOK` |
| | NewestIsServed | `Spec => []NewestServed` |
| | StateIsTold | `Spec => []StateTold` |
| SeekLanding_proofs | SeeksLand | `Spec => LandsWhereAsked`, an action property |
| MediaCodecNode_proofs | BuffersReleasedOnce | `Spec => []ReleasesOnlyLent` |
| | OneOldPictureAfterFlush | `Spec => []TrueAfterFlush` |
| | RequestsSettle | `Spec => []SettledUnlessOverlap` |
| | ChangedWindowsReturnBuffers | `ASSUME ~ExactSeeks PROVE Spec => []BuffersComeBack` |
| CallbackDispatch_proofs | SessionsApart | `Spec => []ToldOwnSession` |
| | ReleaseIsLast | `Spec => []ReleasedQuiet` |
| | CallbacksStandStill | `Spec => CallbacksStable`, an action property |
| | ErrorsToldOnce | `Spec => []ErrorOnce` |
| | NobodyElseEmbraced | `Spec => []NoOtherEmbrace` |
| DecoderPipeline_proofs | TypeCorrect | `Spec => []TypeOK` |
| | PicturesOfNow | `Spec => []LabelsHonest` |
| | CompletionIsEnd | `Spec => []CompletedAtEnd` |
| | AllDecoded | `Spec => NothingSkipped`, an action property |
| AudioOutput_proofs | OldIsCleared | `Spec => []OldCleared` |

The argument for PlayerControl:

1. *Types.* The queue operators map queues to queues (PutType, RemoveType,
   RestType), record updates keep their record sets, and each action keeps TypeOK.
2. *Sessions.* AbortOnlyAfterExit and PrepareFindsNothing are not inductive: that the queue
   is open depends on when the message thread runs, and that prepare finds nothing on
   how far a stop came. SessionInv joins them: a running message thread has an
   open queue; IDLE and INITIALIZED mean neither stream nor thread is there; STOPPED
   means the same or a stop is still under way; a join happens only after the stream is
   closed; a call at its end has joined. SessionInductive has one step per
   action; the two theorems follow from it.
3. *Callbacks.* ViewConverges speaks of the newest of the state changes in a queue,
   which each Put, Remove and Get may alter. `Tracks(q, s, d)` restates it: s is the argument of the
   last change in q, or d if there is none. Lemmas say how each
   operator moves it (appending a change, appending another message, removing another kind, taking
   the head). ViewInv, `~aborted => Tracks(msgs, mp.state, Delivered(mp.state))`, is inductive with them.
4. *Stopping.* StopRequestSurvives is inductive beside SessionInv. While a close is under way no call can
   remove REQ_STOP, the other threads only append, and the message thread takes it only to end; `Closing` leaves
   out the moment in which stop has posted nothing yet.
5. *Playing.* StartedPlays depends on how messages of one stream are ordered. PlayInv joins it with
   FirstStream (the first session finds an empty queue, which stays open), Opening (no event of a stream
   that is still opening is under way) and SoundPrepared (a waiting PREPARED of sound is ahead of every other
   event, and nothing has paused the stream meanwhile). COMPLETED behind it is what makes the paused
   player say so.

For FrameQueue:

1. *Arithmetic of the ring.* `(i + k) % n` for `i, k < n` is decided by one comparison (RingOnce);
   from it follow that different offsets are different slots (SlotsDiffer) and that Advance
   moves each slot by one (AdvanceMoves).
2. *The invariant.* None of the properties is inductive. IInv joins the types; IndicesAgree, that
   `windex` is `size` slots after `rindex` up to what either thread is in the middle of;
   RoomFound and FrameFound, that what a thread saw before it left the mutex still holds for it;
   ShownKept; Filled, that every held slot has a frame in it; and WaitsRightly, that
   a thread waits only if the other has work to do or the queue is about to be signalled.
3. *The refinement.* Each step of the ring is a step of the FIFO (PushSize is Put, NextShows is Show,
   NextIndex is Take) or leaves it as it is; that a slot beyond those held may change without the
   FIFO noticing is SameItems.

For SeekControl:

1. *Pausing.* PauseHolds depends on the flags of `play` alone. `Holds` restates it for one value of
   them; each operator on the flags (Update, the toggles, Stepped) either renews it or keeps it, and the
   invariant says from which moment on it holds: from Prepare for a stream that starts by itself, from Open
   for any other, since before that nothing has applied `pause_req` yet.
2. *The queue.* What `msg_queue_remove` leaves is a recursive function (`Kept`). KeptExists shows that it
   is defined, and WithoutKeeps what it holds, each by looking at the least length at which it would fail.
3. *Phases.* Control ties together what the player, its message thread and `read_thread` can be doing.
   Unprepared and StillAhead say that a stream which has shown nothing prepares, and has its last
   frame ahead: so it cannot complete, and Ordered follows, that PREPARED comes before COMPLETED.
4. *What is told.* Told is StateTold with what is under way: a STARTED player whose stream is to pause has a
   COMPLETED in its queue or a seek that will resume it. It needs 3, since a PREPARED behind a COMPLETED would
   make the player PAUSED or STARTED again.
5. *What is served.* Served says where the newest seek is: in the queue, with the stream, kept for the start, in the hands
   of `read_thread`, or answered; Ids, that a request in the queue or with the stream is not newer than it.

For SeekLanding: the frames on their way are taken together (`Coming`), from `pictq` over the decoder and the
packets to `read_pos`. InLine and Gapless say that they are consecutive, so a position lies among them or ahead of them
once it is not before the first (SkipAhead). Decided carries that from the moment
`read_thread` decides to skip to the moment it sets the target: nothing is chosen meanwhile, as the stream is held
(HeldPlay, with PauseHolds). Landing then follows the frame until it is shown: it is not dropped, since what
is dropped lies before the target, and what is chosen is the least of those that are coming.

For MediaCodecNode:

1. *Buffers.* ReleasesOnlyLent needs three facts beside it. Locked: `acodec_mutex` is held from the
   first step of a change or a flush to its last, and by the draining thread while it dequeues. InHand: the
   draining thread holds a frame between Dequeue and the queue only. Emptied: no proxy counts when the codec takes its
   buffers back, which is where a buffer could be released twice.
2. *Serials.* TrueAfterFlush needs FInv. A codec that was fed nothing since its flush, or does not run, holds
   nothing (Unfed). Serials never fall along the packet queue, and what the feeding thread takes follows the
   last flush (Sorted). The flush packet is not lost on its way (FlushKept), and a thread on its way to feed
   has a packet pending (Armed). What the codec and the proxies hold from before the flush is then one thing at most:
   an input, or a picture, and none of either while the old packet is still pending (Lone). A flush sets
   it back to none; the old packet is the only way for one to come, since what is taken later is not older than the flush.
3. *Windows.* Requested says how far a request has come when none met another.
4. *Buffers come back.* Either every buffer that is out has a valid proxy (Accounted), or something under way will bring
   all of them back (Returning): a request that will be followed by a seek (SetterWaits), a seek or a flush packet
   (FlushComes), the flush itself; or they were given up, by a setter (`late`) or with a forgotten or failed seek (`lost`). A flush takes all of them, and a codec that was fed
   nothing since, or does not run, has none out (UnfedBack). `~ExactSeeks` is needed: with exact seeks the seek may be skipped, which the
   run exact_seek shows.

For CallbackDispatch: Locked ties each program counter to `sync_interface_lock`; Roles says who
may be where, above all that the callback thread enters calls only from inside a callback and never waits for
itself; Sessions, that the queue holds messages of the present session only and is empty behind WAIT_SYNC;
Ending, that END and STOP are the last messages. CallbacksStable, an action property, follows from
CallbackLocked: who runs a callback holds the lock. For ErrorOnce, OnePlace says that the error of a session is in one place only, in the
queue, in the callback thread's hand or told, and Reported that `has_reported_error` is set exactly when it is in one
of them, but for a reset that is clearing both. NoOtherEmbrace needs WInv beside these: a lock is held by a thread,
`callback_lock` by the callback thread alone, and while a reset waits for its fence WAIT_SYNC is in the queue. So a reset or release
that waits for the callback thread leaves it something to take, unless that thread is in a callback that waits for the
interface lock itself; and a reset that clears the callbacks finds `callback_lock` free, since it has waited for the callback thread.

For DecoderPipeline, in two rounds:

1. *Serials.* Serials in the queue never fall, and each begins with its own flush or
   surface packet (Sorted). Data of the queue's serial comes from the reader's place (DataHere). What the decoder holds comes from
   there too once it has taken a packet of that serial, or no flush packet is on its way
   (DecoderPure). LabelsHonest is inductive with these; without Sorted a flush packet could hide behind
   a later packet and DecoderPure would break.
2. *The end.* EInv builds on the first round. A null packet lies behind all data of its serial (Nulls). A packet in hand
   is of no finished serial (InHand). A decoder that drains or has finished has been given everything, unless a
   flush packet is before it (Ended). So the reader completes when all is shown
   (Completing), and the decoder's test of `finished` throws away only what is of no use (AllDecoded).

For AudioOutput: until the decoder takes the flush packet nothing is new (Behind); once the callback has seen the
seek, old samples are in the track alone and it is to be flushed (Noticed); and where no seek was, nothing is old
(Unsought). The buffer being filled when the seek comes counts for neither, as OldCleared says.
Out of the prover's reach, and therefore only model-checked: the liveness
properties (StopReturns, CloseReturns, PositionReleased and the like), since neither fairness nor ENABLED
is supported there. No module declares a RECURSIVE operator. The library's induction theorems take an operator as
a parameter and cannot be used; where induction over numbers is needed (`Kept`, KeyBefore) the proofs use
that every non-empty set of numbers has a least one (LeastNat), which follows from the well-foundedness of `<`.

Every invariant and action property that a passing run checks is stated by a theorem; what is left to TLC alone is
the liveness properties. Modules without a TypeOK have their types in the inductive invariant (Types).

## 6. Abstractions

- Messages without effect on the control plane (FLUSH, BUFFERING_*, sizes,
  rotation) are left out; the arguments of seeks and the reported position too.
- Application calls of PlayerControl come one at a time, as the interface lock
  enforces; the calls that bypass it (setStreamSelected unlocks a lock it did not
  take, `src/nativeplayer/NativePlayer.c` 801) are not modelled.
- SeekControl leaves out errors and calls made while the player prepares (PlayerControl has them), a
  change of the seek mode while playing, the AB range, the accurate-seek handshake between audio and
  video, and audio. Requests before prepare lie before the end of the file.
- MediaCodecNode leaves out the synchronous variant of the node, fake frames, the reordering by
  `n_buf_out`, null packets at the end, and the retry of `dequeueInputBuffer`. A packet goes into the codec in
  one piece. `create_codec_l` succeeds when the codec is made anew: the code would go on to use a codec that is NULL.
- AudioOutput compares samples only as old and new, and leaves out volume, speed, sample counts and the
  latency estimator. The track takes what is written to it.
- CallbackDispatch leaves out memory that runs out, and spurious wake-ups, which
  PlayerControl has.
- DecoderPipeline has one stream, the software decoder, no read or decoder errors, no loop or
  autoexit, no accurate-seek wait and no pause. The refresh thread may show or drop any frame. The
  codec may return a frame early or late, but in order, and none are lost inside it.
  The seek that follows a new surface is one of the application's seeks.

## 7. Running it

    tlc -workers 2 -config MCPlayerControl.cfg MCPlayerControl
    tlc -workers 2 -config SeekControl.cfg SeekControl
    tlc -workers 2 -config MCMediaCodecNode.cfg MCMediaCodecNode
    tlapm PlayerControl_proofs.tla
    tlapm FrameQueue_proofs.tla
    tlapm SeekControl_proofs.tla
    tlapm SeekLanding_proofs.tla
    tlapm MediaCodecNode_proofs.tla
    tlapm CallbackDispatch_proofs.tla
    tlapm DecoderPipeline_proofs.tla
    tlapm AudioOutput_proofs.tla

`runs` in `PROJECT.json` names the module and configuration of each run.

## 8. What is not modelled, and why

- *Clocks and A/V synchronisation, resampling, soundtouch*: floating-point time and
  samples; TLC has neither, and their correctness is numeric.
- *Rendering, native windows, MediaCodec bindings*: calls to the platform.
- *Protocol hooks, segment and live demuxers, options, JSON, dictionaries*: sequential
  parsing and I/O without shared state.
- *ijkasync, ijkio, ijkiocache*: built, but their protocols are not registered
  (`ijkavformat/allformats.c` 82-83), so none of their threads runs.
- *`src/nativeplayer/src/cypress_nc_player.c`, `android/ijkplayer_jni.c`,
  `ijkmediadatasource.c`, `ijkioandroidio.c`*: not part of the build, or a stub.
- *Vendored code and the example application*: ijkyuv (some 50 thousand lines of pixel loops), soundtouch,
  cJSON, the FFmpeg headers. They are most of the lines of the repository and keep no
  state between calls that a concurrent step could disturb.
- *OpenSL ES output*: the protocol of AudioOutput a second time.
- *When buffering begins and ends, subtitles, the AB range, the accurate-seek handshake and the thread pool* are
  left to the end of the plan (section 2).
