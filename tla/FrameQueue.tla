------------------------------ MODULE FrameQueue ------------------------------
(* The ring of frames between a decoder thread and the thread that shows    *)
(* them (frame_queue_ in ff_ffplay.c).  Only size is changed under the mutex *)
(* of the queue: windex belongs to the writer, rindex and rindex_shown to   *)
(* the reader, and the frames themselves are written and read unlocked.     *)
(* One condition variable serves both threads, and is signalled, never      *)
(* broadcast.                                                               *)
EXTENDS Naturals, Sequences

CONSTANTS
    Frames, NoFrame,
    MaxSize   \* max_size: 3 to 16 pictures, 16 subtitles, 9 blocks of samples

ASSUME QueueAssumption == MaxSize \in Nat /\ MaxSize >= 2 /\ NoFrame \notin Frames

VARIABLES
    slots,          \* queue[]
    rindex, windex, size,
    keep_last, rindex_shown,
    aborted,        \* pktq->abort_request
    waiting,        \* the threads inside SDL_CondWait
    writer, reader  \* how far each is in the operation it makes

indexVars == <<rindex, windex, size, rindex_shown>>
vars == <<slots, indexVars, keep_last, aborted, waiting, writer, reader>>

Init ==
    /\ slots = [i \in 0..MaxSize - 1 |-> NoFrame]
    /\ rindex = 0 /\ windex = 0 /\ size = 0
    /\ keep_last \in BOOLEAN /\ rindex_shown = 0
    /\ aborted = FALSE /\ waiting = {}
    /\ writer = "out" /\ reader = "out"

\* ++index, and round at the end.
Advance(i) == IF i + 1 = MaxSize THEN 0 ELSE i + 1

\* The slot k places behind the read index.
Slot(k) == (rindex + k) % MaxSize

\* frame_queue_nb_remaining
Remaining == size - rindex_shown

\* SDL_CondSignal wakes one of those that wait.
Signal ==
    IF waiting = {} THEN UNCHANGED waiting
    ELSE \E t \in waiting : waiting' = waiting \ {t}

-----------------------------------------------------------------------------
(* The decoder thread.                                                      *)

\* Mutant of Full: room is looked for among the frames that remain to be shown.
FullOfUnshown == Remaining >= MaxSize

Full == size >= MaxSize

\* frame_queue_peek_writable
PeekWritable ==
    /\ writer = "out" /\ "writer" \notin waiting
    /\ IF Full /\ ~aborted
       THEN waiting' = waiting \cup {"writer"} /\ UNCHANGED writer
       ELSE writer' = (IF aborted THEN "left" ELSE "writing") /\ UNCHANGED waiting
    /\ UNCHANGED <<slots, indexVars, keep_last, aborted, reader>>

\* The frame is filled in, unlocked.
Write ==
    /\ writer = "writing"
    /\ \E x \in Frames : slots' = [slots EXCEPT ![windex] = x]
    /\ writer' = "written"
    /\ UNCHANGED <<indexVars, keep_last, aborted, waiting, reader>>

\* Without a picture to fill, or on abort, the slot is not pushed.
GiveUp ==
    /\ writer \in {"writing", "written"}
    /\ writer' = "out"
    /\ UNCHANGED <<slots, indexVars, keep_last, aborted, waiting, reader>>

\* frame_queue_push: the index, before the lock ...
PushIndex ==
    /\ writer = "written"
    /\ windex' = Advance(windex)
    /\ writer' = "pushing"
    /\ UNCHANGED <<slots, rindex, size, rindex_shown, keep_last, aborted, waiting, reader>>

\* ... and the size, under it.
PushSize ==
    /\ writer = "pushing"
    /\ size' = size + 1 /\ Signal
    /\ writer' = "out"
    /\ UNCHANGED <<slots, rindex, windex, rindex_shown, keep_last, aborted, reader>>

-----------------------------------------------------------------------------
(* The thread that shows the frames.                                        *)

\* Mutant of Poll: a reader that does not ask whether anything remains.
PollAnyway ==
    /\ reader = "out" /\ "reader" \notin waiting
    /\ reader' = "reading"
    /\ UNCHANGED <<slots, indexVars, keep_last, aborted, waiting, writer>>

\* video_refresh and subtitles look for a frame and never wait.
Poll ==
    /\ reader = "out" /\ "reader" \notin waiting /\ Remaining > 0
    /\ reader' = "reading"
    /\ UNCHANGED <<slots, indexVars, keep_last, aborted, waiting, writer>>

\* frame_queue_peek_readable, for the audio callback.
PeekReadable ==
    /\ reader = "out" /\ "reader" \notin waiting
    /\ IF Remaining <= 0 /\ ~aborted
       THEN waiting' = waiting \cup {"reader"} /\ UNCHANGED reader
       ELSE reader' = (IF aborted THEN "left" ELSE "reading") /\ UNCHANGED waiting
    /\ UNCHANGED <<slots, indexVars, keep_last, aborted, writer>>

\* frame_queue_next of the first frame, if it is to be kept.
NextShows ==
    /\ reader = "reading" /\ keep_last /\ rindex_shown = 0
    /\ rindex_shown' = 1 /\ reader' = "out"
    /\ UNCHANGED <<slots, rindex, windex, size, keep_last, aborted, waiting, writer>>

\* Mutant of NextIndex: the first frame is dropped once it is shown.
NextIndexEager ==
    /\ reader = "reading"
    /\ slots' = [slots EXCEPT ![rindex] = NoFrame]
    /\ rindex' = Advance(rindex)
    /\ reader' = "dropping"
    /\ UNCHANGED <<windex, size, rindex_shown, keep_last, aborted, waiting, writer>>

\* frame_queue_next: the frame and the index, before the lock ...
NextIndex ==
    /\ reader = "reading" /\ (keep_last => rindex_shown = 1)
    /\ slots' = [slots EXCEPT ![rindex] = NoFrame]
    /\ rindex' = Advance(rindex)
    /\ reader' = "dropping"
    /\ UNCHANGED <<windex, size, rindex_shown, keep_last, aborted, waiting, writer>>

\* Mutant of NextSize: nobody is told that there is room.
NextSizeSilent ==
    /\ reader = "dropping"
    /\ size' = size - 1
    /\ reader' = "out"
    /\ UNCHANGED <<slots, rindex, windex, rindex_shown, keep_last, aborted, waiting, writer>>

\* ... and the size, under it.
NextSize ==
    /\ reader = "dropping"
    /\ size' = size - 1 /\ Signal
    /\ reader' = "out"
    /\ UNCHANGED <<slots, rindex, windex, rindex_shown, keep_last, aborted, writer>>

\* Mutant of Abort: without frame_queue_signal.
AbortQuietly ==
    /\ ~aborted
    /\ aborted' = TRUE
    /\ UNCHANGED <<slots, indexVars, keep_last, waiting, writer, reader>>

\* packet_queue_abort, then frame_queue_signal (decoder_abort).
Abort ==
    /\ ~aborted
    /\ aborted' = TRUE /\ Signal
    /\ UNCHANGED <<slots, indexVars, keep_last, writer, reader>>

WriterNext == PeekWritable \/ Write \/ GiveUp \/ PushIndex \/ PushSize
ReaderNext == Poll \/ PeekReadable \/ NextShows \/ NextIndex \/ NextSize

Next == WriterNext \/ ReaderNext \/ Abort

Spec == Init /\ [][Next]_vars

\* The threads go on; whether a slot is given up, and when the queue is aborted, is
\* nobody's duty.
FairSpec ==
    /\ Spec
    /\ WF_vars(PeekWritable) /\ WF_vars(Write) /\ WF_vars(PushIndex) /\ WF_vars(PushSize)
    /\ WF_vars(PeekReadable) /\ WF_vars(NextShows) /\ WF_vars(NextIndex) /\ WF_vars(NextSize)
-----------------------------------------------------------------------------
(* How the ring implements the queue: a frame is in it from the increment   *)
(* of size until the read index has moved past it.                          *)

Held == IF reader = "dropping" THEN size - 1 ELSE size

Items == [k \in 1..Held |-> slots[Slot(k - 1)]]

Fifo == INSTANCE FrameFifo WITH
    Capacity <- MaxSize, items <- Items, keep <- keep_last, shown <- rindex_shown

\* The ring is a first-in first-out queue of MaxSize frames whose shown frame stays.
ImplementsFifo == Fifo!Spec

TypeOK ==
    /\ slots \in [0..MaxSize - 1 -> Frames \cup {NoFrame}]
    /\ rindex \in 0..MaxSize - 1 /\ windex \in 0..MaxSize - 1 /\ size \in 0..MaxSize
    /\ keep_last \in BOOLEAN /\ rindex_shown \in 0..1
    /\ aborted \in BOOLEAN
    /\ waiting \subseteq {"writer", "reader"}
    /\ writer \in {"out", "writing", "written", "pushing", "left"}
    /\ reader \in {"out", "reading", "dropping", "left"}

\* The slot the decoder writes to, with no lock held, holds no frame that is still queued,
\* and is not the one whose picture is on the screen (frame_queue_peek_last).
WritesApart ==
    writer \in {"writing", "written"} =>
        /\ \A k \in 0..Held - 1 : Slot(k) # windex
        /\ rindex_shown = 1 => rindex # windex

\* The frame on the screen, kept by rindex_shown, is there as long as it is shown.
ShownIsHeld ==
    rindex_shown = 1 => Held >= 1 /\ slots[rindex] \in Frames

\* One condition variable and a signal that wakes one thread are enough, on abort too:
\* the two threads never wait at the same time.
OneWaits == waiting # {"writer", "reader"}

\* A decoder that waits for room goes on, and after an abort nobody waits any more.
WaitsEnd ==
    /\ "writer" \in waiting ~> "writer" \notin waiting
    /\ aborted ~> waiting = {}
=============================================================================
