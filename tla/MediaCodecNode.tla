---------------------------- MODULE MediaCodecNode ----------------------------
(* Decoding by MediaCodec onto a window the application may replace.  Two   *)
(* threads drive the codec, one feeding it and one draining it, under       *)
(* acodec_mutex; the buffers it lends out travel to the screen as proxies,  *)
(* which a change of window, a flush or a stop make invalid, under the      *)
(* mutex of the vout.  The codec itself is the system's: it takes inputs,   *)
(* lends outputs, and takes every output back when flushed or stopped.      *)
EXTENDS Naturals, Sequences, FiniteSets

CONSTANTS
    Buffers,      \* output buffers of the codec
    Windows,      \* native windows
    Spent,        \* a proxy that was made invalid
    None,
    MaxQueue, MaxInside, MaxPictures,   \* packets waiting, inputs in the codec, pictures
    MaxCalls,     \* changes of window and of picture size, and seeks of the application's own
    CodecFails,   \* may calls of the codec fail
    ExactSeeks    \* is the seek mode exact, so that near seeks are skipped

ASSUME NodeAssumption ==
    /\ {MaxQueue, MaxInside, MaxPictures, MaxCalls} \subseteq Nat
    /\ Spent \notin Buffers /\ None \notin Buffers \cup Windows
    /\ CodecFails \in BOOLEAN /\ ExactSeeks \in BOOLEAN

\* A proxy: the buffer it stands for, the serial of the packet decoded into it, and the
\* serial it was queued with.
Proxy == [buf : Buffers \cup {Spent}, of : Nat, label : Nat]

ASSUME NoneAssumption == None \notin Nat /\ None \notin Proxy

VARIABLES
    app, wanted, window, need,   \* the setter; native_window and is_surface_need_reconfigure of the pipeline
    voutCodec,                   \* does the vout know the codec
    queue, serial, aborted,      \* videoq
    seekReq, reader,
    feeder, packet, pktSerial, target, recreate,
    pending,                     \* serial of the packet still to be fed, 0 if there is none
    flushReq, reconfReq, first,  \* acodec_flush_request and so on
    lock,                        \* who holds acodec_mutex
    started, codecWindow, inside, fed,   \* fed: input_packet_count > 0
    lent,                        \* what is in each output buffer, or None if the codec has it
    drain, frame, failed,        \* failed: opaque->abort
    pictq,
    calls,
    late, overlap, lost,  \* a setter gave up; a request met another; a seek was overtaken or failed
    flushed, revived      \* serial of the flush packet taken last; an older packet was fed since

appVars    == <<app, wanted, window, need, calls, late, overlap>>
queueVars  == <<queue, serial, aborted, seekReq, reader, lost>>
seenVars   == <<flushed, revived>>
feedVars   == <<feeder, packet, pktSerial, pending, target, recreate, seenVars>>
drainVars  == <<drain, frame, failed>>
codecVars  == <<started, codecWindow, inside, fed, lent>>
reqVars    == <<flushReq, reconfReq, first>>
vars == <<appVars, queueVars, feedVars, drainVars, codecVars, reqVars, voutCodec, lock, pictq>>

FlushPacket == [kind |-> "flush", serial |-> 1]

Init ==
    /\ app = "idle" /\ wanted = None /\ need = FALSE /\ calls = 0
    /\ late = FALSE /\ overlap = FALSE
    /\ window \in Windows /\ codecWindow = window /\ voutCodec = TRUE /\ started = TRUE
    /\ queue = <<FlushPacket>> /\ serial = 1 /\ aborted = FALSE
    /\ seekReq = FALSE /\ reader = "reading" /\ lost = FALSE
    /\ feeder = "loop" /\ packet = "none" /\ pktSerial = 0 /\ pending = 0
    /\ target = None /\ recreate = FALSE /\ flushed = 0 /\ revived = FALSE
    /\ flushReq = FALSE /\ reconfReq = FALSE /\ first = TRUE
    /\ lock = "free" /\ inside = <<>> /\ fed = FALSE
    /\ lent = [b \in Buffers |-> None]
    /\ drain = "lock" /\ frame = None /\ failed = FALSE
    /\ pictq = <<>>

-----------------------------------------------------------------------------
(* Proxies.                                                                 *)

Invalid(p) == IF p = None THEN None ELSE [p EXCEPT !.buf = Spent, !.of = 0]

\* SDL_VoutAndroid_invalidateAllBuffers
InvalidateAll ==
    /\ frame' = Invalid(frame)
    /\ pictq' = [i \in DOMAIN pictq |-> Invalid(pictq[i])]

\* SDL_VoutAndroid_setAMediaCodec: a change makes every proxy invalid.
SetCodec(known) ==
    /\ voutCodec' = known
    /\ IF known # voutCodec THEN InvalidateAll ELSE UNCHANGED <<frame, pictq>>

\* SDL_VoutAndroid_releaseBufferProxy: the buffers out of the codec afterwards.
Returned(p) == [b \in Buffers |-> IF voutCodec /\ p.buf = b THEN None ELSE lent[b]]

-----------------------------------------------------------------------------
(* The application replaces the window.                                     *)

\* SDL_VoutAndroid_SetNativeWindow
SetWindow ==
    /\ app = "idle" /\ calls < MaxCalls /\ ~aborted
    /\ \E w \in Windows :
         /\ wanted' = w
         /\ IF w # window THEN InvalidateAll ELSE UNCHANGED <<frame, pictq>>
    /\ app' = "pipeline" /\ calls' = calls + 1
    /\ UNCHANGED <<window, need, late, overlap, queueVars, feedVars, drain, failed, codecVars,
                   reqVars, voutCodec, lock>>

\* The feeding thread is busy with a request.
InSetup == feeder \in {"change", "apply", "reconfigure", "applied", "changed"}

\* ffpipeline_set_surface
SetPipeline ==
    /\ app = "pipeline"
    /\ IF wanted = window THEN UNCHANGED <<window, need, voutCodec, frame, pictq>>
       ELSE SetCodec(FALSE) /\ window' = wanted /\ need' = TRUE
    /\ overlap' = (overlap \/ need \/ InSetup)
    /\ app' = "send" /\ wanted' = None
    /\ UNCHANGED <<calls, late, queueVars, feedVars, drain, failed, codecVars, reqVars, lock>>

\* Mutant of SendSurface: no packet is sent.
SendSurfaceNot ==
    /\ app = "send"
    /\ app' = IF need THEN "wait" ELSE "seek"
    /\ UNCHANGED <<wanted, window, need, calls, late, overlap, queueVars, feedVars, drainVars,
                   codecVars, reqVars, voutCodec, lock, pictq>>

\* ffp_send_set_surface_pkt, which starts a new serial, and whether there is anything to wait for.
SendSurface ==
    /\ app = "send"
    /\ IF aborted THEN app' = "idle" /\ UNCHANGED <<queue, serial>>
       ELSE /\ serial' = serial + 1
            /\ queue' = Append(queue, [kind |-> "surface", serial |-> serial + 1])
            /\ app' = IF need THEN "wait" ELSE "seek"
    /\ UNCHANGED <<wanted, window, need, calls, late, overlap, aborted, seekReq, reader, lost,
                   feedVars, drainVars, codecVars, reqVars, voutCodec, lock, pictq>>

\* The wait on surface_cond ends well ...
Answered ==
    /\ app = "wait" /\ ~need
    /\ app' = "seek"
    /\ UNCHANGED <<wanted, window, need, calls, late, overlap, queueVars, feedVars, drainVars, codecVars,
                   reqVars, voutCodec, lock, pictq>>

\* ... or after 50 ms, and then without a seek.
GiveUp ==
    /\ app = "wait"
    /\ app' = "idle" /\ late' = TRUE
    /\ UNCHANGED <<wanted, window, need, calls, overlap, queueVars, feedVars, drainVars, codecVars,
                   reqVars, voutCodec, lock, pictq>>

\* stream_seek while read_thread serves another seek is forgotten with it.
AskSeek ==
    /\ seekReq' = TRUE
    /\ lost' = (lost \/ reader # "reading")

\* The seek that flushes the codec after a change of window.
SeekAfter ==
    /\ app = "seek" /\ AskSeek
    /\ app' = "idle"
    /\ UNCHANGED <<wanted, window, need, calls, late, overlap, queue, serial, aborted, reader,
                   feedVars, drainVars, codecVars, reqVars, voutCodec, lock, pictq>>

\* A seek of the application's own.
SeekTo ==
    /\ calls < MaxCalls /\ ~aborted /\ AskSeek
    /\ calls' = calls + 1
    /\ UNCHANGED <<app, wanted, window, need, late, overlap, queue, serial, aborted, reader,
                   feedVars, drainVars, codecVars, reqVars, voutCodec, lock, pictq>>

\* packet_queue_abort, when the stream is closed.
Abort ==
    /\ ~aborted /\ aborted' = TRUE
    /\ UNCHANGED <<appVars, queue, serial, seekReq, reader, lost,
                   feedVars, drainVars, codecVars, reqVars, voutCodec, lock, pictq>>

-----------------------------------------------------------------------------
(* read_thread.                                                             *)

ReadPacket ==
    /\ reader = "reading" /\ ~aborted /\ ~seekReq /\ Len(queue) < MaxQueue
    /\ queue' = Append(queue, [kind |-> "data", serial |-> serial])
    /\ UNCHANGED <<appVars, serial, aborted, seekReq, reader, lost,
                   feedVars, drainVars, codecVars, reqVars, voutCodec, lock, pictq>>

\* A seek begins: ffpipenode_flush.
SeekBegins ==
    /\ reader = "reading" /\ ~aborted /\ seekReq
    /\ flushReq' = TRUE /\ reader' = "flushing"
    /\ UNCHANGED <<appVars, queue, serial, aborted, seekReq, lost,
                   feedVars, drainVars, codecVars, reconfReq, first, voutCodec, lock, pictq>>

\* avformat_seek_file fails: nothing is flushed, and the request is cleared like any other.
SeekFails ==
    /\ reader = "reading" /\ ~aborted /\ seekReq
    /\ reader' = "clearing" /\ lost' = TRUE
    /\ UNCHANGED <<appVars, queue, serial, aborted, seekReq,
                   feedVars, drainVars, codecVars, reqVars, voutCodec, lock, pictq>>

\* packet_queue_flush and the flush packet, which starts a new serial.
FlushQueue ==
    /\ reader = "flushing"
    /\ serial' = serial + 1
    /\ queue' = <<[kind |-> "flush", serial |-> serial + 1]>>
    /\ reader' = "clearing"
    /\ UNCHANGED <<appVars, aborted, seekReq, lost,
                   feedVars, drainVars, codecVars, reqVars, voutCodec, lock, pictq>>

\* In the exact mode a seek to what the picture queue holds moves nothing.
SeekSkipped ==
    /\ ExactSeeks /\ reader = "reading" /\ ~aborted /\ seekReq
    /\ pictq # <<>> /\ pictq[Len(pictq)].label = serial
    /\ reader' = "clearing"
    /\ UNCHANGED <<appVars, queue, serial, aborted, seekReq, lost,
                   feedVars, drainVars, codecVars, reqVars, voutCodec, lock, pictq>>

\* seek_req = 0, whoever has asked since.
SeekEnds ==
    /\ reader = "clearing"
    /\ seekReq' = FALSE /\ reader' = "reading"
    /\ UNCHANGED <<appVars, queue, serial, aborted, lost,
                   feedVars, drainVars, codecVars, reqVars, voutCodec, lock, pictq>>
-----------------------------------------------------------------------------
(* enqueue_thread_func: the feeding thread.                                 *)

\* feed_input_buffer: is there a packet left to feed.
FeedLoop ==
    /\ feeder = "loop"
    /\ feeder' = IF aborted \/ failed THEN "ended"
                 ELSE IF pending # 0 /\ serial = pktSerial THEN "setup" ELSE "take"
    /\ packet' = "none"
    /\ UNCHANGED <<pktSerial, pending, target, recreate, seenVars, appVars, queueVars, drainVars, codecVars,
                   reqVars, voutCodec, lock, pictq>>

\* packet_queue_get blocks until there is a packet or the queue is aborted.
TakePacket ==
    /\ feeder = "take"
    /\ IF aborted
       THEN feeder' = "ended" /\ UNCHANGED <<packet, pktSerial, flushed, queue>>
       ELSE /\ queue # <<>>
            /\ packet' = Head(queue).kind /\ pktSerial' = Head(queue).serial
            /\ flushed' = IF packet' = "flush" THEN pktSerial' ELSE flushed
            /\ queue' = Tail(queue)
            /\ feeder' = "setup"
    /\ UNCHANGED <<pending, target, recreate, revived, appVars, serial, aborted, seekReq, reader, lost,
                   drainVars, codecVars, reqVars, voutCodec, lock, pictq>>

\* setup_surface_if_need is called with a packet just taken, and before the input.  A
\* new format may fail to be made: the feeding thread then ends.
AfterSetup == IF packet # "none" THEN "packet" ELSE "input"

SetupSurface ==
    /\ feeder = "setup"
    /\ \/ ~need /\ feeder' = AfterSetup /\ UNCHANGED <<target, reconfReq, need>>
       \/ /\ need /\ ~recreate /\ window = codecWindow
          /\ feeder' = "applied" /\ UNCHANGED <<target, reconfReq, need>>
       \/ /\ need /\ (recreate \/ window # codecWindow)
          /\ feeder' = "change" /\ target' = window /\ reconfReq' = TRUE /\ UNCHANGED need
       \/ /\ need /\ recreate /\ CodecFails
          /\ feeder' = "ended" /\ need' = FALSE /\ UNCHANGED <<target, reconfReq>>
    /\ UNCHANGED <<packet, pktSerial, pending, recreate, seenVars, app, wanted, window, calls, late, overlap,
                   queueVars, drainVars, codecVars, flushReq, first, voutCodec, lock, pictq>>

\* Under acodec_mutex: first every proxy is made invalid ...
ChangeBegins ==
    /\ feeder = "change" /\ lock = "free"
    /\ lock' = "feeder" /\ InvalidateAll
    /\ feeder' = IF recreate THEN "reconfigure" ELSE "apply"
    /\ UNCHANGED <<packet, pktSerial, pending, target, recreate, seenVars, appVars, queueVars, drain, failed,
                   codecVars, reqVars, voutCodec>>

\* Mutant of ApplySurface: the vout is not told.
ApplySurfaceOnly ==
    /\ feeder = "apply"
    /\ codecWindow' = target /\ first' = TRUE /\ feeder' = "changed"
    /\ reconfReq' = FALSE /\ lock' = "free" /\ target' = None
    /\ UNCHANGED <<packet, pktSerial, pending, recreate, seenVars, appVars, queueVars, drainVars,
                   pictq, voutCodec, started, inside, fed, lent, flushReq>>

\* ... then apply_surface_to_codec_l.
ApplySurface ==
    /\ feeder = "apply"
    /\ \/ /\ started /\ codecWindow' = target /\ first' = TRUE
          /\ SetCodec(TRUE) /\ feeder' = "changed"
       \/ /\ CodecFails /\ feeder' = "applied"
          /\ UNCHANGED <<codecWindow, first, voutCodec, frame, pictq>>
    /\ reconfReq' = FALSE /\ lock' = "free" /\ target' = None
    /\ UNCHANGED <<packet, pktSerial, pending, recreate, seenVars, appVars, queueVars, drain, failed,
                   started, inside, fed, lent, flushReq>>

\* Or reconfigure_codec_l: the codec is stopped, and another one started, unless that fails.
Reconfigure ==
    /\ feeder = "reconfigure"
    /\ codecWindow' = target /\ recreate' = FALSE
    /\ inside' = <<>> /\ lent' = [b \in Buffers |-> None]
    /\ \/ /\ first' = TRUE /\ feeder' = "changed"
          /\ voutCodec' = TRUE /\ started' = TRUE
       \/ /\ CodecFails /\ feeder' = "applied" /\ UNCHANGED first
          /\ voutCodec' = FALSE /\ started' = FALSE
    /\ reconfReq' = FALSE /\ lock' = "free" /\ target' = None
    /\ UNCHANGED <<packet, pktSerial, pending, seenVars, appVars, queueVars, drainVars,
                   fed, flushReq, pictq>>

\* The request is withdrawn, whatever it has become, and the setter is told.
Applied ==
    /\ feeder \in {"applied", "changed"}
    /\ need' = FALSE
    /\ feeder' = IF feeder = "changed" THEN "first" ELSE AfterSetup
    /\ UNCHANGED <<packet, pktSerial, pending, target, recreate, seenVars, app, wanted, window, calls, late, overlap,
                   queueVars, drainVars, codecVars, reqVars, voutCodec, lock, pictq>>

\* Mutant of AwaitFirst: without the question whether the queue is aborted.
AwaitFirstForever ==
    /\ feeder = "first" /\ (flushReq \/ ~first)
    /\ feeder' = AfterSetup
    /\ UNCHANGED <<packet, pktSerial, pending, target, recreate, seenVars, appVars, queueVars, drainVars,
                   codecVars, reqVars, voutCodec, lock, pictq>>

\* The first output is awaited, in slices of 100 ms.
AwaitFirst ==
    /\ feeder = "first" /\ (aborted \/ flushReq \/ ~first)
    /\ feeder' = AfterSetup
    /\ UNCHANGED <<packet, pktSerial, pending, target, recreate, seenVars, appVars, queueVars, drainVars,
                   codecVars, reqVars, voutCodec, lock, pictq>>

\* What was taken: a note about the window, a flush, or data, which may change the format.
SortPacket ==
    /\ feeder = "packet"
    /\ \/ /\ packet = "surface"
          /\ feeder' = "loop" /\ UNCHANGED <<packet, pending, recreate, need, flushReq>>
       \/ /\ packet = "flush" \/ (packet = "data" /\ flushReq)
          /\ flushReq' = TRUE /\ feeder' = "flush"
          /\ UNCHANGED <<packet, pending, recreate, need>>
       \/ /\ packet = "data" /\ ~flushReq /\ serial # pktSerial
          /\ feeder' = "take" /\ UNCHANGED <<packet, pending, recreate, need, flushReq>>
       \/ /\ packet = "data" /\ ~flushReq /\ serial = pktSerial
          /\ packet' = "none" /\ pending' = pktSerial /\ feeder' = "setup"
          /\ UNCHANGED <<recreate, need, flushReq>>
    /\ UNCHANGED <<pktSerial, target, seenVars, app, wanted, window, calls, late, overlap, queueVars, drainVars,
                   codecVars, reconfReq, first, voutCodec, lock, pictq>>

\* An H264 packet brings another picture size.
NewSize ==
    /\ feeder = "setup" /\ packet = "none" /\ pending # 0 /\ fed /\ ~recreate /\ calls < MaxCalls
    /\ recreate' = TRUE /\ need' = TRUE /\ calls' = calls + 1
    /\ UNCHANGED <<feeder, packet, pktSerial, pending, target, seenVars, app, wanted, window, late, overlap, queueVars,
                   drainVars, codecVars, reqVars, voutCodec, lock, pictq>>

\* Mutant of FlushBegins: the proxies stay as they are.
FlushBeginsLazily ==
    /\ feeder = "flush" /\ lock = "free"
    /\ lock' = "feeder"
    /\ feeder' = IF fed /\ started THEN "flushCodec" ELSE "flushed"
    /\ UNCHANGED <<packet, pktSerial, pending, target, recreate, seenVars, appVars, queueVars, drainVars,
                   pictq, codecVars, reqVars, voutCodec>>

\* A flush, under acodec_mutex: the proxies ...
FlushBegins ==
    /\ feeder = "flush" /\ lock = "free"
    /\ lock' = "feeder"
    /\ IF fed /\ started THEN InvalidateAll /\ feeder' = "flushCodec"
       ELSE feeder' = "flushed" /\ UNCHANGED <<frame, pictq>>
    /\ UNCHANGED <<packet, pktSerial, pending, target, recreate, seenVars, appVars, queueVars, drain, failed,
                   codecVars, reqVars, voutCodec>>

\* Mutant of FlushCodec: the codec is not flushed.
FlushCodecNot ==
    /\ feeder = "flushCodec"
    /\ fed' = FALSE
    /\ feeder' = "flushed"
    /\ UNCHANGED <<packet, pktSerial, pending, target, recreate, seenVars, appVars, queueVars, drainVars,
                   started, inside, lent, codecWindow, reqVars, voutCodec, lock, pictq>>

\* ... the codec ...
FlushCodec ==
    /\ feeder = "flushCodec"
    /\ lent' = [b \in Buffers |-> None] /\ inside' = <<>> /\ fed' = FALSE
    /\ revived' = FALSE
    /\ feeder' = "flushed"
    /\ UNCHANGED <<packet, pktSerial, pending, target, recreate, flushed, appVars, queueVars, drainVars,
                   started, codecWindow, reqVars, voutCodec, lock, pictq>>

\* ... and the end of the request.
Flushed ==
    /\ feeder = "flushed"
    /\ flushReq' = FALSE /\ lock' = "free"
    /\ IF packet = "flush" \/ serial # pktSerial
       THEN feeder' = "take" /\ UNCHANGED <<packet, pending>>
       ELSE feeder' = "setup" /\ packet' = "none" /\ pending' = pktSerial
    /\ UNCHANGED <<pktSerial, target, recreate, seenVars, appVars, queueVars, drainVars, codecVars,
                   reconfReq, first, voutCodec, pictq>>

\* dequeueInputBuffer and queueInputBuffer, with the packet that is pending: it may be older
\* than the one taken last, if that was a set-surface packet.  Or there is no buffer in time.
Feed ==
    /\ feeder = "input"
    /\ \/ /\ started /\ Len(inside) < MaxInside
          /\ inside' = Append(inside, pending) /\ fed' = TRUE /\ pending' = 0
          /\ revived' = (revived \/ pending < flushed)
          /\ feeder' = "loop"
       \/ feeder' = "loop" /\ UNCHANGED <<inside, fed, pending, revived>>
       \/ /\ CodecFails
          /\ feeder' = "ended" /\ UNCHANGED <<inside, fed, pending, revived>>
    /\ UNCHANGED <<packet, pktSerial, target, recreate, flushed, appVars, queueVars, drainVars,
                   started, codecWindow, lent, reqVars, voutCodec, lock, pictq>>

-----------------------------------------------------------------------------
(* func_run_sync: the draining thread.                                      *)

\* It lets the feeding thread have the mutex if that asks for it ...
DrainLock ==
    /\ drain = "lock" /\ lock = "free" /\ ~aborted
    /\ IF flushReq \/ reconfReq THEN drain' = "cond" /\ UNCHANGED lock
       ELSE drain' = "dequeue" /\ lock' = "drain"
    /\ UNCHANGED <<frame, failed, appVars, queueVars, feedVars, codecVars, reqVars, voutCodec, pictq>>

\* ... until it is signalled, or for 100 ms.
DrainWake ==
    /\ drain = "cond" /\ lock = "free"
    /\ drain' = "dequeue" /\ lock' = "drain"
    /\ UNCHANGED <<frame, failed, appVars, queueVars, feedVars, codecVars, reqVars, voutCodec, pictq>>

\* drain_output_buffer_l: a frame, nothing yet, or an error.
Dequeue ==
    /\ drain = "dequeue"
    /\ \/ /\ started /\ inside # <<>>
          /\ \E b \in Buffers :
               /\ lent[b] = None
               /\ lent' = [lent EXCEPT ![b] = Head(inside)]
               /\ frame' = [buf |-> b, of |-> Head(inside), label |-> 0]
          /\ inside' = Tail(inside)
          /\ drain' = "clear"
       \/ /\ started /\ drain' = "clear" /\ UNCHANGED <<frame, inside, lent>>
       \/ /\ CodecFails /\ drain' = "failed" /\ UNCHANGED <<frame, inside, lent>>
    /\ lock' = "free"
    /\ UNCHANGED <<failed, appVars, queueVars, feedVars, started, codecWindow, fed, reqVars, voutCodec, pictq>>

\* Whatever came, the feeding thread is told.
ClearFirst ==
    /\ drain \in {"clear", "failed"}
    /\ first' = FALSE
    /\ frame' = (IF aborted THEN None ELSE frame)
    /\ lent' = (IF aborted /\ frame # None THEN Returned(frame) ELSE lent)
    /\ drain' = IF aborted \/ drain = "failed" THEN "leave"
                ELSE IF frame = None THEN "lock" ELSE "frame"
    /\ UNCHANGED <<failed, appVars, queueVars, feedVars, started, codecWindow, inside, fed,
                   flushReq, reconfReq, voutCodec, lock, pictq>>

\* A late frame is dropped.
DropEarly ==
    /\ drain = "frame"
    /\ lent' = Returned(frame) /\ frame' = None /\ drain' = "lock"
    /\ UNCHANGED <<failed, appVars, queueVars, feedVars, started, codecWindow, inside, fed,
                   reqVars, voutCodec, lock, pictq>>

\* ffp_queue_picture is called with the serial of the packet fed last.
Offer ==
    /\ drain = "frame"
    /\ frame' = [frame EXCEPT !.label = pktSerial] /\ drain' = "push"
    /\ UNCHANGED <<failed, appVars, queueVars, feedVars, codecVars, reqVars, voutCodec, lock, pictq>>

\* It waits for room, and leaves the frame to the caller if the queue is aborted.
QueuePicture ==
    /\ drain = "push"
    /\ IF aborted THEN lent' = Returned(frame) /\ UNCHANGED pictq
       ELSE /\ Len(pictq) < MaxPictures
            /\ pictq' = Append(pictq, frame) /\ UNCHANGED lent
    /\ frame' = None /\ drain' = "lock"
    /\ UNCHANGED <<failed, appVars, queueVars, feedVars, started, codecWindow, inside, fed,
                   reqVars, voutCodec, lock>>

\* The loop ends; the feeding thread is asked to end ...
Leave ==
    /\ drain = "leave" \/ (drain = "lock" /\ aborted)
    /\ failed' = TRUE /\ drain' = "join"
    /\ UNCHANGED <<frame, appVars, queueVars, feedVars, codecVars, reqVars, voutCodec, lock, pictq>>

\* Mutant of Join: the proxies are left alone.
JoinOnly ==
    /\ drain = "join" /\ feeder = "ended"
    /\ drain' = "stop"
    /\ UNCHANGED <<frame, failed, appVars, queueVars, feedVars, codecVars, reqVars, voutCodec, lock, pictq>>

\* ... and waited for, before the proxies are made invalid ...
Join ==
    /\ drain = "join" /\ feeder = "ended"
    /\ InvalidateAll /\ drain' = "stop"
    /\ UNCHANGED <<failed, appVars, queueVars, feedVars, codecVars, reqVars, voutCodec, lock>>

\* ... and the codec is stopped.
Stop ==
    /\ drain = "stop"
    /\ started' = FALSE /\ lent' = [b \in Buffers |-> None] /\ inside' = <<>>
    /\ drain' = "ended"
    /\ UNCHANGED <<frame, failed, appVars, queueVars, feedVars, codecWindow, fed, reqVars, voutCodec,
                   lock, pictq>>

\* The refresh thread renders a frame, or passes over it, and the buffer goes back.
Show ==
    /\ pictq # <<>>
    /\ lent' = Returned(Head(pictq)) /\ pictq' = Tail(pictq)
    /\ UNCHANGED <<appVars, queueVars, feedVars, drainVars, started, codecWindow, inside, fed,
                   reqVars, voutCodec, lock>>

-----------------------------------------------------------------------------
AppNext    == SetWindow \/ SetPipeline \/ SendSurface \/ Answered \/ GiveUp \/ SeekAfter \/ SeekTo \/ Abort
ReaderNext == ReadPacket \/ SeekBegins \/ SeekFails \/ FlushQueue \/ SeekSkipped \/ SeekEnds
SetupNext  == SetupSurface \/ ChangeBegins \/ ApplySurface \/ Reconfigure \/ Applied \/ AwaitFirst
FeederNext == FeedLoop \/ TakePacket \/ SetupNext \/ SortPacket \/ NewSize
                \/ FlushBegins \/ FlushCodec \/ Flushed \/ Feed
DrainNext  == DrainLock \/ DrainWake \/ Dequeue \/ ClearFirst \/ DropEarly \/ Offer \/ QueuePicture
                \/ Leave \/ Join \/ Stop

Next == AppNext \/ ReaderNext \/ FeederNext \/ DrainNext \/ Show

Spec == Init /\ [][Next]_vars

\* The threads go on while pictures are shown.  The feeding thread gets acodec_mutex again
\* and again free, since the draining thread waits for it when asked.
Fairness ==
    /\ SF_vars(FeederNext) /\ WF_vars(DrainNext) /\ WF_vars(Show)
    /\ WF_vars(SetPipeline \/ SendSurface \/ SeekAfter)
    /\ WF_vars(SeekBegins \/ SeekFails \/ FlushQueue \/ SeekEnds)

FairSpec == Spec /\ Fairness

-----------------------------------------------------------------------------
Proxies == {frame} \cup {pictq[i] : i \in DOMAIN pictq}
Valid   == {p \in Proxies \ {None} : p.buf # Spent}

\* A buffer is given back to the codec only while the codec has it lent out, and by one
\* proxy: a flush, a stop or a new codec never meets a proxy that still counts.
ReleasesOnlyLent ==
    /\ \A p \in Valid : lent[p.buf] = p.of
    /\ \A i, j \in DOMAIN pictq : i # j => pictq[i].buf # pictq[j].buf \/ pictq[i].buf = Spent
    /\ \A i \in DOMAIN pictq : frame # None => pictq[i].buf # frame.buf \/ frame.buf = Spent

\* The flush packet has been taken, and what was decoded before it is still there.
FlushDue == packet = "flush" /\ feeder \notin {"flushCodec", "flushed", "take"}

\* Once the codec is flushed for a seek, what it decodes and what waits for the screen comes
\* from after the seek, whatever its label: but for one picture at most, of the packet that
\* was pending when a set-surface packet followed the flush packet.
TrueAfterFlush ==
    ~FlushDue => \A p, q \in Valid :
        p.of < flushed /\ q.of < flushed => revived /\ p.buf = q.buf

\* Unless a request was made while another was under way, the codec draws on the window
\* asked for last once the request is withdrawn, and the vout knows the codec.
SettledUnlessOverlap ==
    ~overlap /\ ~CodecFails /\ ~need /\ ~InSetup => codecWindow = window /\ voutCodec

\* Nobody asks for another window, or for a seek, and no flush is on its way.
Quiet ==
    /\ app = "idle" /\ ~need /\ ~InSetup /\ feeder # "first"
    /\ ~seekReq /\ ~flushReq /\ ~FlushDue /\ feeder # "flushCodec"
    /\ \A i \in DOMAIN queue : queue[i].kind # "flush"
    /\ ~aborted /\ ~failed

\* A change of window makes the queued buffers invalid; the seek that follows it brings
\* them back to the codec, unless it was never asked for (late), was forgotten or has failed
\* (lost), or the vout has no codec to give them to.
BuffersComeBack ==
    Quiet /\ ~late /\ ~lost /\ voutCodec =>
        {b \in Buffers : lent[b] # None} \subseteq {p.buf : p \in Valid}

\* A request for another window is answered, and a closed stream lets both threads go.
RequestHandled == need ~> (~need \/ failed \/ feeder = "ended")
CloseReturns == aborted ~> (feeder = "ended" /\ drain = "ended")
=============================================================================
