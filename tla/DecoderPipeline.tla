-------------------------- MODULE DecoderPipeline --------------------------
(* The way of a video stream through ff_ffplay.c: read_thread puts packets  *)
(* into a PacketQueue, the decoder thread (ffplay_video_thread) turns them  *)
(* into frames of a FrameQueue, and the refresh thread takes those out.     *)
(* Nobody is stopped for a seek or a new surface: the queue's serial        *)
(* changes, and each thread drops what carries another one.  stream_close   *)
(* must get every thread out of whatever it waits for.                      *)
(*                                                                          *)
(* A place is where reading began: the start, or the target of a seek.      *)
(* Packets and frames are known by their place; the frame itself, its time  *)
(* and the clocks are left out, so the refresh thread may show a frame or   *)
(* drop it at any time.  The player plays, once, a stream without errors    *)
(* that the software decoder decodes.                                       *)
EXTENDS Naturals, Sequences

CONSTANTS
    Packets,          \* packets between a place and the end of the file
    MaxQueue,         \* packets after which the queue is full
    FrameQueueSize,   \* FrameQueue.max_size
    MaxSeeks,         \* bound: seeks requested
    MaxSurfaces       \* bound: surfaces set

\* VIDEO_PICTURE_QUEUE_SIZE_MIN is 3; one frame is kept on the screen.
ASSUME SizeAssumption ==
    /\ FrameQueueSize \in Nat /\ FrameQueueSize >= 2
    /\ MaxQueue \in Nat /\ MaxQueue >= 1
    /\ Packets \in Nat /\ MaxSeeks \in Nat /\ MaxSurfaces \in Nat

VARIABLES
    \* PacketQueue
    queue, serial, aborted,
    \* read_thread
    reader,       \* where it is
    left,         \* packets still to be read
    place,        \* where it reads from
    eof, completed, seek_req,
    \* Decoder
    dec, asleep,  \* where the decoder thread is; whether it waits there
    pkt,          \* the packet it has taken
    pkt_serial, finished,
    codec,        \* the places of the frames inside the codec
    draining,     \* the codec has been given the null packet
    frame,        \* the place of the frame it has received
    \* FrameQueue
    frames, rindex_shown,
    \* the application
    closing,      \* how far stream_close is
    seeks, surfaces,
    \* for the properties
    overtaken     \* what a surface change has passed since the last flush packet

queueVars  == <<queue, serial, aborted>>
readVars   == <<reader, left, place, eof, completed, seek_req>>
codecVars  == <<finished, codec, draining>>
decVars    == <<dec, asleep, pkt, pkt_serial, codecVars, frame>>
frameVars  == <<frames, rindex_shown>>
appVars    == <<closing, seeks, surfaces>>
vars == <<queueVars, readVars, decVars, frameVars, appVars, overtaken>>

Kinds == {"data", "null", "flush", "surface"}
PacketSet == [what : Kinds, serial : Nat, place : Nat]

Packet(what, s, p) == [what |-> what, serial |-> s, place |-> p]

\* What is left in hand of a packet or a frame that was given on.
NoPacket == Packet("null", 0, 0)
NoFrame == 0

\* packet_queue_start has put the first flush packet.
Init ==
    /\ queue = <<Packet("flush", 1, 0)>> /\ serial = 1 /\ aborted = FALSE
    /\ reader = "loop" /\ left = Packets /\ place = 0
    /\ eof = FALSE /\ completed = FALSE /\ seek_req = FALSE
    /\ dec = "receive" /\ asleep = FALSE /\ pkt = NoPacket /\ pkt_serial = 0 /\ finished = 0
    /\ codec = <<>> /\ draining = FALSE /\ frame = NoFrame
    /\ frames = <<>> /\ rindex_shown = 0
    /\ closing = "no" /\ seeks = 0 /\ surfaces = 0
    /\ overtaken = {}

-----------------------------------------------------------------------------
(* Operations of the queues.                                                *)

\* SDL_CondSignal of a queue wakes the decoder thread if it waits there.
Signal(where) == asleep' = (asleep /\ dec # where)

\* packet_queue_put; the serial changes with a flush or surface packet.
Put(what) ==
    IF aborted
    THEN UNCHANGED <<queue, serial, asleep>>
    ELSE /\ serial' = IF what \in {"flush", "surface"} THEN serial + 1 ELSE serial
         /\ queue' = Append(queue, Packet(what, serial', IF what = "data" THEN place ELSE 0))
         /\ Signal("get")

\* Mutant of FrameNext: it counts the shown frame again and again.
FrameNextShown == rindex_shown' = rindex_shown + 1 /\ UNCHANGED <<frames, asleep>>

\* frame_queue_next: the first frame shown stays in the queue until the next one is.
FrameNext ==
    IF rindex_shown = 0
    THEN rindex_shown' = 1 /\ UNCHANGED <<frames, asleep>>
    ELSE frames' = Tail(frames) /\ Signal("push") /\ UNCHANGED rindex_shown

\* frame_queue_nb_remaining
Remaining == Len(frames) - rindex_shown

-----------------------------------------------------------------------------
(* read_thread.                                                             *)

ReaderAt(where) == reader = where /\ UNCHANGED <<aborted, dec, pkt, pkt_serial, codecVars, frame, frameVars, appVars>>

ReaderGoes(where) == reader' = where /\ UNCHANGED <<queue, serial, asleep, left, place, overtaken>>

\* The head of the loop.
ReaderExits ==
    /\ ReaderAt("loop") /\ closing # "no"
    /\ ReaderGoes("exited") /\ UNCHANGED <<eof, completed, seek_req>>

NoSeek ==
    /\ ReaderAt("loop") /\ closing = "no" /\ ~seek_req
    /\ ReaderGoes("check") /\ UNCHANGED <<eof, completed, seek_req>>

\* The demuxer seeks; before that nothing is flushed.  It fails, or is skipped if the
\* newest frame shows that the target is close: then nothing is flushed at all.
SeekBegin ==
    /\ ReaderAt("loop") /\ closing = "no" /\ seek_req
    /\ \/ reader' = "flushed" /\ queue' = <<>> /\ left' = Packets
       \/ reader' = "failed" /\ UNCHANGED <<queue, left>>
       \/ /\ ~completed /\ Remaining > 0 /\ frames[Len(frames)].serial = serial
          /\ reader' = "skipped" /\ UNCHANGED <<queue, left>>
    /\ UNCHANGED <<serial, asleep, place, eof, completed, seek_req, overtaken>>

\* The flush packet: what is decoded from here on comes from the new place.
SeekPut ==
    /\ ReaderAt("flushed")
    /\ Put("flush")
    /\ place' = place + 1
    /\ reader' = "sought" /\ overtaken' = {}
    /\ UNCHANGED <<left, eof, completed, seek_req>>

SeekEnd ==
    /\ \E r \in {"sought", "failed", "skipped"} : ReaderAt(r)
    /\ eof' = (eof /\ reader = "skipped")
    /\ seek_req' = FALSE /\ completed' = FALSE
    /\ ReaderGoes("check")

\* Mutant of AtEnd: frames that wait to be shown are forgotten.
AtEndOfDecoding == finished = serial

AtEnd == finished = serial /\ Remaining = 0

\* The queue is full: wait 10 ms, unless there is a seek.
Full == Len(queue) >= MaxQueue /\ ~seek_req

ReaderWaits ==
    /\ ReaderAt("check")
    /\ \/ Full
       \/ AtEnd /\ completed /\ seek_req
    /\ ReaderGoes("loop") /\ UNCHANGED <<eof, completed, seek_req>>

\* Playback is over; what the audio output still holds is waited for ...
CompleteBegin ==
    /\ ReaderAt("check") /\ ~Full /\ AtEnd /\ ~completed
    /\ ReaderGoes("completing") /\ UNCHANGED <<eof, completed, seek_req>>

\* ... unless there is a seek or the stream is closed.
CompleteEnd ==
    /\ ReaderAt("completing")
    /\ IF closing # "no" \/ seek_req
       THEN ReaderGoes("loop") /\ UNCHANGED completed
       ELSE ReaderGoes("read") /\ completed' = TRUE
    /\ UNCHANGED <<eof, seek_req>>

GoesOnReading ==
    /\ ReaderAt("check") /\ ~Full
    /\ ~AtEnd \/ (completed /\ closing # "no")
    /\ ReaderGoes("read") /\ UNCHANGED <<eof, completed, seek_req>>

\* A discontinuity brings a flush packet ahead of the packet that was read.
Discontinuity ==
    /\ ReaderAt("read") /\ left > 0
    /\ Put("flush")
    /\ reader' = "reading" /\ overtaken' = {} /\ eof' = FALSE
    /\ UNCHANGED <<left, place, completed, seek_req>>

ReadPacket ==
    /\ ReaderAt("read") \/ ReaderAt("reading")
    /\ left > 0
    /\ Put("data")
    /\ left' = left - 1 /\ eof' = FALSE
    /\ reader' = "loop"
    /\ UNCHANGED <<place, completed, seek_req, overtaken>>

\* At the end of the file a null packet tells the decoder to give all it has.
ReadEnd ==
    /\ ReaderAt("read") /\ left = 0
    /\ IF eof THEN UNCHANGED <<queue, serial, asleep>> ELSE Put("null")
    /\ eof' = TRUE /\ reader' = "loop"
    /\ UNCHANGED <<left, place, completed, seek_req, overtaken>>

ReaderNext ==
    \/ ReaderExits \/ NoSeek \/ SeekBegin \/ SeekPut \/ SeekEnd
    \/ ReaderWaits \/ CompleteBegin \/ CompleteEnd \/ GoesOnReading
    \/ Discontinuity \/ ReadPacket \/ ReadEnd

-----------------------------------------------------------------------------
(* The decoder thread: ffplay_video_thread and decoder_decode_frame.        *)

DecoderAt(where) ==
    /\ dec = where /\ ~asleep
    /\ UNCHANGED <<serial, aborted, readVars, rindex_shown, appVars, overtaken>>

\* The serial of the queue has moved on: no more frames of this one.
ReceiveNothing ==
    /\ DecoderAt("receive") /\ serial # pkt_serial
    /\ dec' = "get"
    /\ UNCHANGED <<queue, asleep, pkt, pkt_serial, codecVars, frame, frames>>

\* A frame, or the codec wants a packet.  A late frame may be dropped at once.
Receive ==
    /\ DecoderAt("receive") /\ serial = pkt_serial /\ ~aborted
    /\ \/ /\ codec # <<>>
          /\ codec' = Tail(codec)
          /\ \/ dec' = "push" /\ frame' = Head(codec)
             \/ queue # <<>> /\ UNCHANGED <<dec, frame>>
       \/ ~draining /\ dec' = "get" /\ UNCHANGED <<codec, frame>>
    /\ UNCHANGED <<queue, asleep, pkt, pkt_serial, finished, draining, frames>>

\* Mutant of ReceiveEnd: the decoder does not say that it has finished.
ReceiveEndSilently ==
    /\ DecoderAt("receive") /\ serial = pkt_serial /\ ~aborted
    /\ draining /\ codec = <<>>
    /\ draining' = FALSE
    /\ UNCHANGED <<queue, dec, asleep, pkt, pkt_serial, finished, codec, frame, frames>>

\* AVERROR_EOF
ReceiveEnd ==
    /\ DecoderAt("receive") /\ serial = pkt_serial /\ ~aborted
    /\ draining /\ codec = <<>>
    /\ finished' = pkt_serial /\ draining' = FALSE
    /\ UNCHANGED <<queue, dec, asleep, pkt, pkt_serial, codec, frame, frames>>

\* Mutant of IsFinished: a flag instead of the serial.
IsFinishedEver(s) == finished # 0

IsFinished(s) == finished = s

\* packet_queue_get_or_buffering waits for a packet; those behind the end are dropped.
Get ==
    /\ DecoderAt("get") /\ ~aborted
    /\ IF queue = <<>>
       THEN asleep' = TRUE /\ UNCHANGED <<queue, dec, pkt, pkt_serial>>
       ELSE /\ queue' = Tail(queue) /\ pkt_serial' = Head(queue).serial
            /\ IF IsFinished(pkt_serial')
               THEN UNCHANGED <<dec, pkt>>
               ELSE dec' = "check" /\ pkt' = Head(queue)
            /\ UNCHANGED asleep
    /\ UNCHANGED <<codecVars, frame, frames>>

\* Mutant of Consume: the codec is not flushed.
ConsumeUnflushed ==
    CASE pkt.what = "flush"   -> finished' = 0 /\ UNCHANGED <<codec, draining>>
      [] pkt.what = "surface" -> /\ finished' = IF finished # 0 THEN pkt_serial ELSE 0
                                 /\ UNCHANGED <<codec, draining>>
      [] pkt.what = "null"    -> draining' = TRUE /\ UNCHANGED <<finished, codec>>
      [] OTHER                -> codec' = Append(codec, pkt.place) /\ UNCHANGED <<finished, draining>>

\* What the decoder does with a packet.
Consume ==
    CASE pkt.what = "flush"   -> finished' = 0 /\ codec' = <<>> /\ draining' = FALSE
      [] pkt.what = "surface" -> /\ finished' = IF finished # 0 THEN pkt_serial ELSE 0
                                 /\ UNCHANGED <<codec, draining>>
      [] pkt.what = "null"    -> draining' = TRUE /\ UNCHANGED <<finished, codec>>
      [] OTHER                -> codec' = Append(codec, pkt.place) /\ UNCHANGED <<finished, draining>>

\* A packet whose serial is not the queue's any more is dropped, whatever it is.
Check ==
    /\ DecoderAt("check")
    /\ IF serial # pkt_serial
       THEN dec' = "get" /\ UNCHANGED codecVars
       ELSE dec' = "receive" /\ Consume
    /\ pkt' = NoPacket
    /\ UNCHANGED <<queue, asleep, pkt_serial, frame, frames>>

\* queue_picture waits for a place in the frame queue.
Push ==
    /\ DecoderAt("push") /\ ~aborted
    /\ IF Len(frames) >= FrameQueueSize
       THEN asleep' = TRUE /\ UNCHANGED <<dec, frame, frames>>
       ELSE /\ frames' = Append(frames, [serial |-> pkt_serial, place |-> frame])
            /\ dec' = "receive" /\ frame' = NoFrame /\ UNCHANGED asleep
    /\ UNCHANGED <<queue, pkt, pkt_serial, codecVars>>

\* An aborted packet queue ends the thread, wherever it looks at the queue.
DecoderExits ==
    /\ aborted
    /\ \/ DecoderAt("receive") /\ serial = pkt_serial
       \/ DecoderAt("get") \/ DecoderAt("push")
    /\ dec' = "exited"
    /\ UNCHANGED <<queue, asleep, pkt, pkt_serial, codecVars, frame, frames>>

DecoderNext ==
    \/ ReceiveNothing \/ Receive \/ ReceiveEnd \/ Get \/ Check \/ Push \/ DecoderExits

-----------------------------------------------------------------------------
(* The refresh thread, the application and stream_close.                    *)

\* video_refresh goes on to the next frame: to show it, because it is late, or because
\* it has another serial.
Refresh ==
    /\ ~aborted /\ Remaining > 0
    /\ FrameNext
    /\ UNCHANGED <<queueVars, readVars, dec, pkt, pkt_serial, codecVars, frame, appVars, overtaken>>

\* stream_seek, for the application or to follow a new surface.
SeekTo ==
    /\ closing = "no" /\ seeks < MaxSeeks
    /\ seeks' = seeks + 1
    /\ seek_req' = TRUE
    /\ UNCHANGED <<queueVars, reader, left, place, eof, completed, decVars, frameVars,
                   closing, surfaces, overtaken>>

\* What the decoder has not looked at yet; in a seek, a flush packet may just have been
\* thrown away with the queue.
Underway == {queue[i].what : i \in DOMAIN queue}
            \cup (IF dec = "check" /\ serial = pkt_serial THEN {pkt.what} ELSE {})
            \cup (IF reader = "flushed" THEN {"flush"} ELSE {})

\* ffp_send_set_surface_pkt puts its packet from the application's thread.  A seek
\* may follow, later and through the message queue, or not: a completed player does
\* not seek.
SetSurface ==
    /\ closing = "no" /\ surfaces < MaxSurfaces
    /\ Put("surface")
    /\ overtaken' = overtaken \cup Underway
    /\ surfaces' = surfaces + 1
    /\ UNCHANGED <<aborted, readVars, dec, pkt, pkt_serial, codecVars, frame, frameVars, closing, seeks>>

\* stream_close: the packet queue is aborted, read_thread is joined ...
CloseBegin ==
    /\ closing = "no"
    /\ closing' = "reader"
    /\ aborted' = TRUE /\ Signal("get")
    /\ UNCHANGED <<queue, serial, readVars, dec, pkt, pkt_serial, codecVars, frame, frameVars,
                   seeks, surfaces, overtaken>>

\* Mutant of DecoderAbort: without frame_queue_signal.
DecoderAbortQuietly == aborted' = TRUE /\ Signal("get")

\* decoder_abort wakes the decoder at the packet queue and at the frame queue.
DecoderAbort == aborted' = TRUE /\ asleep' = FALSE

\* ... and then the decoder.
CloseDecoder ==
    /\ closing = "reader" /\ reader = "exited"
    /\ closing' = "decoder"
    /\ DecoderAbort
    /\ UNCHANGED <<queue, serial, readVars, dec, pkt, pkt_serial, codecVars, frame, frameVars,
                   seeks, surfaces, overtaken>>

CloseEnd ==
    /\ closing = "decoder" /\ dec = "exited"
    /\ closing' = "closed" /\ queue' = <<>>
    /\ UNCHANGED <<serial, aborted, readVars, decVars, frameVars, seeks, surfaces, overtaken>>

CloseNext == CloseBegin \/ CloseDecoder \/ CloseEnd

AppNext == SeekTo \/ SetSurface

-----------------------------------------------------------------------------
Next == ReaderNext \/ DecoderNext \/ Refresh \/ AppNext \/ CloseNext

Spec == Init /\ [][Next]_vars

\* Every thread is scheduled; the player plays, so the refresh thread shows frames.
Fairness ==
    /\ WF_vars(ReaderNext) /\ WF_vars(DecoderNext) /\ WF_vars(Refresh)
    /\ WF_vars(CloseDecoder \/ CloseEnd)

FairSpec == Spec /\ Fairness

-----------------------------------------------------------------------------
\* Only what carries the queue's serial is of any use.
Current(x) == x.serial = serial

Queued(what) == \E i \in DOMAIN queue : queue[i].what = what /\ Current(queue[i])

\* A surface change has hidden the flush packet of a seek from the decoder.
FlushLost == "flush" \in overtaken

\* The domains of the variables, and the counters of the frame queue: never more
\* frames than it has room for, at most one of them shown (ff_ffplay.c 802-863).
TypeOK ==
    /\ queue \in Seq(PacketSet) /\ serial \in Nat /\ aborted \in BOOLEAN
    /\ reader \in {"loop", "flushed", "failed", "skipped", "sought", "check", "completing",
                  "read", "reading", "exited"}
    /\ left \in 0..Packets /\ place \in Nat
    /\ {eof, completed, seek_req, asleep, draining} \subseteq BOOLEAN
    /\ dec \in {"receive", "get", "check", "push", "exited"}
    /\ pkt \in PacketSet /\ pkt_serial \in 0..serial /\ finished \in 0..serial
    /\ codec \in Seq(0..place) /\ frame \in 0..place
    /\ frames \in Seq([serial : 1..serial, place : 0..place]) /\ Len(frames) <= FrameQueueSize
    /\ rindex_shown \in 0..1 /\ Remaining >= 0
    /\ closing \in {"no", "reader", "decoder", "closed"}
    /\ seeks \in 0..MaxSeeks /\ surfaces \in 0..MaxSurfaces /\ overtaken \subseteq Kinds

\* A frame that carries the serial of the packet queue comes from where the reader
\* reads now: no picture from before a seek is shown after it.  The thread that shows
\* frames compares nothing but the serials (ff_ffplay.c 1596), which the decoder
\* copies from the last packet it took, while the codec holds frames of earlier ones.
LabelsHonest ==
    ~FlushLost /\ ~aborted => \A i \in DOMAIN frames : Current(frames[i]) => frames[i].place = place

\* Playback completes only at its end: everything has been read, no packet of the
\* queue's serial is unread, the codec is empty and every frame has been shown, as
\* long as no surface change has hidden a flush packet from the decoder (4297).
CompletedAtEnd ==
    reader = "completing" /\ ~FlushLost /\ ~seek_req /\ ~aborted
    => /\ left = 0 /\ codec = <<>> /\ Remaining = 0
       /\ ~Queued("data")
       /\ dec = "check" => ~(pkt.what = "data" /\ Current(pkt))

\* The decoder throws no packet of the queue's serial away (363): a decoder that has
\* finished decodes again after a seek.
NothingSkipped ==
    [][/\ dec = "get" /\ dec' = "get" /\ UNCHANGED reader
       /\ queue # <<>> /\ queue' = Tail(queue) /\ ~FlushLost
       => ~(Head(queue).what = "data" /\ Current(Head(queue)))]_vars

\* stream_close gets every thread out of its waits and returns (1218-1280).
CloseReturns == closing # "no" ~> closing = "closed"

\* Once all is read, playback completes, unless there is a seek, the stream is closed,
\* or a surface change has hidden the flush or the null packet from the decoder.
PlaybackCompletes ==
    left = 0 ~> (completed \/ seek_req \/ closing # "no" \/ overtaken \cap {"null", "flush"} # {})
=============================================================================
