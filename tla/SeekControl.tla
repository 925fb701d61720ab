------------------------------ MODULE SeekControl ------------------------------
(* A seek from the call to the screen: ijkmp_seek_to and the message thread *)
(* (ijkplayer.c), read_thread, which serves it, and the refresh thread,     *)
(* which drops what comes before the target (ff_ffplay.c).  Pausing,        *)
(* buffering, completion, restart and looping are here because they use the *)
(* same request.  Positions count frames; the codec is a buffer of one.     *)
(* Errors and calls made while the player prepares are PlayerControl's.     *)
EXTENDS Naturals, Sequences

CONSTANTS
    End,          \* the number of frames: positions 0..End - 1
    KeyFrames,    \* positions avformat can seek to
    MaxCalls,     \* calls of the application after prepare
    MaxLoops,     \* ffp->loop - 1
    MaxInside,    \* packets waiting for the decoder
    MaxPictures,  \* frames of pictq
    SeekFails,    \* whether avformat_seek_file may fail
    None

ASSUME SeekAssumption ==
    /\ End \in Nat /\ 0 \in KeyFrames /\ KeyFrames \subseteq 0..End - 1
    /\ MaxCalls \in Nat /\ MaxLoops \in Nat /\ MaxInside \in Nat \ {0} /\ MaxPictures \in Nat \ {0}
    /\ SeekFails \in BOOLEAN
    /\ None \notin Nat \cup [pos : Nat, old : BOOLEAN] \cup [to : Nat, id : Nat]

VARIABLES
    calls, state, seek_req, from_beginning, seek_at_start,   \* IjkMediaPlayer and FFPlayer
    msgs, listening,                    \* the message queue and its thread
    reader, is_seek_req, is_seek_pos,   \* read_thread, seek_req and seek_pos of VideoState
    target, failed, seek_pos, completed, loop,  \* locals of read_thread, seek_info.seek_pos
    play,                               \* pause_req, step, buffering_on, paused, auto_resume
    read_pos, packets, decoding, pictq, \* frames on their way
    exact, start_on_prepared,           \* the seek mode and an option
    chosen, shown, prepared,            \* the refresh thread
    newest, answered, overtaken, left, landing, raced  \* what became of the seeks

appVars == <<calls, state, seek_req, from_beginning, seek_at_start, listening>>
seekVars == <<is_seek_req, is_seek_pos>>
readVars == <<target, failed, seek_pos, completed, loop>>
frameVars == <<read_pos, packets, decoding, pictq>>
modeVars == <<exact, start_on_prepared>>
showVars == <<modeVars, chosen, shown, prepared>>
ghostVars == <<newest, answered, overtaken, left, landing, raced>>
vars == <<appVars, msgs, reader, seekVars, readVars, play, frameVars, showVars, ghostVars>>

\* A request knows which call it comes from: 0 is the player itself.
Requests == [to : 0..End, id : 0..MaxCalls]
ToStart == [to |-> 0, id |-> 0]

Init ==
    /\ calls = 0 /\ state = "INITIALIZED" /\ seek_req = FALSE /\ from_beginning = FALSE
    /\ seek_at_start = None /\ msgs = <<>> /\ listening = FALSE
    /\ reader = "none" /\ is_seek_req = FALSE /\ is_seek_pos = ToStart
    /\ target = ToStart /\ failed = FALSE /\ seek_pos = 0 /\ completed = FALSE /\ loop = MaxLoops
    /\ play = [pause_req |-> TRUE, step |-> FALSE, buffering |-> FALSE, paused |-> FALSE,
               auto_resume |-> FALSE, crossed |-> FALSE]
    /\ read_pos = 0 /\ packets = <<>> /\ decoding = None /\ pictq = <<>>
    /\ exact \in BOOLEAN /\ start_on_prepared \in BOOLEAN
    /\ chosen = "none" /\ shown = None /\ prepared = FALSE
    /\ newest = 0 /\ answered = FALSE /\ overtaken = FALSE /\ left = FALSE /\ landing = None /\ raced = FALSE

-----------------------------------------------------------------------------
(* Pausing: each takes and returns the value of play.                       *)

\* stream_update_pause_l
Update(p) == [p EXCEPT !.paused = ~p.step /\ (p.pause_req \/ p.buffering), !.crossed = FALSE]

\* Mutant of TogglePause: a pause does not take back the resumption to come.
TogglePauseOnly(p, on) ==
    [Update([p EXCEPT !.pause_req = on, !.auto_resume = ~on \/ p.auto_resume])
        EXCEPT !.step = FALSE, !.crossed = p.step /\ (on \/ p.buffering)]

\* toggle_pause_l: step is cleared after the update, which still sees it.
TogglePause(p, on) ==
    [Update([p EXCEPT !.pause_req = on, !.auto_resume = ~on])
        EXCEPT !.step = FALSE, !.crossed = p.step /\ (on \/ p.buffering)]

\* ffp_toggle_buffering_l
ToggleBuffering(p, on) == IF p.buffering = on THEN p ELSE Update([p EXCEPT !.buffering = on])

\* step_to_next_frame_l
StepToNext(p) == [p EXCEPT !.step = TRUE, !.paused = FALSE]

\* Mutant of Stepped: the stream is not paused again after the step.
SteppedOn(p) == [p EXCEPT !.step = FALSE]

\* The end of a step in video_refresh.
Stepped(p) ==
    IF ~p.step THEN p
    ELSE IF p.paused THEN [p EXCEPT !.step = FALSE] ELSE Update([p EXCEPT !.step = FALSE])

-----------------------------------------------------------------------------
(* The application.                                                         *)

Kinds == {"PREPARED", "COMPLETED", "SEEK_COMPLETE", "REQ_START", "REQ_PAUSE", "REQ_SEEK", "REQ_STOP"}
Messages == [what : Kinds, req : Requests]
Message(what, req) == [what |-> what, req |-> req]

\* msg_queue_remove: what it leaves of the first n messages.
Kept[n \in 0..Len(msgs)] ==
    [whats \in SUBSET Kinds |->
        IF n = 0 THEN <<>>
        ELSE IF msgs[n].what \in whats THEN Kept[n - 1][whats] ELSE Append(Kept[n - 1][whats], msgs[n])]

Without(whats) == Kept[Len(msgs)][whats]
Has(what) == \E i \in 1..Len(msgs) : msgs[i].what = what

\* A call returns before the next is made: stop waits for the message thread.
Calling ==
    /\ calls < MaxCalls /\ calls' = calls + 1
    /\ ~(listening /\ reader = "none")
    /\ state # "ASYNC_PREPARING"

\* ijkmp_seek_to_l: before there is a stream the target is kept for its start
\* (here one of its positions: past the end it would complete unprepared).
SeekTo(t) ==
    /\ Calling /\ state # "STOPPED"
    /\ seek_req' = TRUE
    /\ LET req == [to |-> t, id |-> calls + 1] IN
       IF state = "INITIALIZED" THEN t < End /\ seek_at_start' = req /\ UNCHANGED msgs
       ELSE /\ msgs' = IF listening THEN Append(Without({"REQ_SEEK"}), Message("REQ_SEEK", req)) ELSE msgs
            /\ UNCHANGED seek_at_start
    /\ newest' = calls + 1 /\ answered' = FALSE /\ overtaken' = FALSE /\ left' = FALSE
    /\ UNCHANGED <<state, from_beginning, listening, reader, seekVars, readVars, play, frameVars, showVars, landing, raced>>

\* ijkmp_start_l and ijkmp_pause_l
StartOrPause(what) ==
    /\ Calling /\ state \notin {"INITIALIZED", "STOPPED"} /\ listening
    /\ msgs' = Append(Without({"REQ_START", "REQ_PAUSE"}), Message(what, ToStart))
    /\ UNCHANGED <<state, seek_req, from_beginning, seek_at_start, listening, reader, seekVars, readVars, play, frameVars, showVars, ghostVars>>

\* ijkmp_stop: read_thread is joined, and the requests are taken from the queue.
Stop ==
    /\ Calling /\ state # "INITIALIZED" /\ listening
    /\ state' = "STOPPED" /\ reader' = "none"
    /\ msgs' = Append(Without({"REQ_START", "REQ_PAUSE", "REQ_SEEK"}), Message("REQ_STOP", ToStart))
    /\ newest' = 0 /\ answered' = FALSE /\ overtaken' = FALSE /\ landing' = None
    /\ left' = seek_req /\ play' = TogglePause(play, TRUE)
    /\ UNCHANGED <<seek_req, from_beginning, seek_at_start, listening, seekVars, readVars, frameVars, showVars, raced>>

\* ijkmp_prepare_async: a new stream and a new message thread, after stop too.
Prepare ==
    /\ state \in {"INITIALIZED", "STOPPED"} /\ ~listening
    /\ state' = "ASYNC_PREPARING" /\ listening' = TRUE /\ msgs' = <<>>
    /\ reader' = "opening" /\ is_seek_req' = FALSE
    /\ seek_pos' = 0 /\ completed' = FALSE
    /\ play' = [play EXCEPT !.pause_req = ~start_on_prepared, !.step = FALSE, !.buffering = FALSE, !.paused = FALSE, !.crossed = FALSE]
    /\ read_pos' = 0 /\ packets' = <<>> /\ decoding' = None /\ pictq' = <<>>
    /\ chosen' = "none" /\ shown' = None /\ prepared' = FALSE
    /\ UNCHANGED <<calls, seek_req, from_beginning, seek_at_start, is_seek_pos, target, failed, loop, modeVars, ghostVars>>

-----------------------------------------------------------------------------
(* The message thread.                                                      *)

\* Mutant of StreamSeek: the target is only taken with a new request.
StreamSeekOnce(req) ==
    /\ is_seek_pos' = IF is_seek_req THEN is_seek_pos ELSE req
    /\ is_seek_req' = TRUE
    /\ overtaken' = (overtaken \/ reader \in {"seeking", "sought"})

\* stream_seek.  Between its reading seek_pos and its clearing seek_req
\* read_thread does not see a request.
StreamSeek(req) ==
    /\ is_seek_pos' = req
    /\ is_seek_req' = TRUE
    /\ overtaken' = (overtaken \/ reader \in {"seeking", "sought"})

Handling(what) ==
    /\ msgs # <<>> /\ Head(msgs).what = what
    /\ msgs' = Tail(msgs)

Playable == state \notin {"INITIALIZED", "ASYNC_PREPARING", "STOPPED"} /\ reader # "none"

HandlePrepared ==
    /\ Handling("PREPARED")
    /\ state' = IF start_on_prepared THEN "STARTED" ELSE "PAUSED"
    /\ UNCHANGED <<calls, seek_req, from_beginning, seek_at_start, listening, reader, seekVars, readVars, play, frameVars, showVars, ghostVars>>

HandleCompleted ==
    /\ Handling("COMPLETED")
    /\ state' = "COMPLETED" /\ from_beginning' = TRUE
    /\ UNCHANGED <<calls, seek_req, seek_at_start, listening, reader, seekVars, readVars, play, frameVars, showVars, ghostVars>>

\* Whichever seek it was that completed.
HandleSeekComplete ==
    /\ Handling("SEEK_COMPLETE")
    /\ seek_req' = FALSE /\ left' = FALSE
    /\ UNCHANGED <<calls, state, from_beginning, seek_at_start, listening, reader, seekVars, readVars, play, frameVars, showVars, newest, answered, overtaken, landing, raced>>

\* FFP_REQ_START: after completion the stream restarts with a seek.
HandleStart ==
    /\ Handling("REQ_START") /\ Playable
    /\ state' = "STARTED" /\ from_beginning' = FALSE
    /\ IF from_beginning
       THEN /\ play' = ToggleBuffering([play EXCEPT !.auto_resume = TRUE], TRUE)
            /\ is_seek_pos' = ToStart /\ is_seek_req' = TRUE
            /\ overtaken' = (overtaken \/ is_seek_req \/ reader \in {"seeking", "sought"})
       ELSE /\ play' = TogglePause(play, FALSE)
            /\ UNCHANGED <<seekVars, overtaken>>
    /\ UNCHANGED <<calls, seek_req, seek_at_start, listening, reader, readVars, frameVars, showVars, newest, answered, left, landing, raced>>

HandlePause ==
    /\ Handling("REQ_PAUSE") /\ Playable
    /\ state' = "PAUSED" /\ play' = TogglePause(play, TRUE)
    /\ UNCHANGED <<calls, seek_req, from_beginning, seek_at_start, listening, reader, seekVars, readVars, frameVars, showVars, ghostVars>>

HandleSeek ==
    /\ Handling("REQ_SEEK") /\ Playable
    /\ from_beginning' = FALSE
    /\ StreamSeek(Head(msgs).req)
    /\ UNCHANGED <<calls, state, seek_req, seek_at_start, listening, reader, readVars, play, frameVars, showVars, newest, answered, left, landing, raced>>

\* FFP_REQ_STOP ends the thread, and msg_queue_abort the queue.
HandleStop ==
    /\ msgs # <<>> /\ Head(msgs).what = "REQ_STOP"
    /\ msgs' = <<>> /\ listening' = FALSE
    /\ UNCHANGED <<calls, state, seek_req, from_beginning, seek_at_start, reader, seekVars, readVars, play, frameVars, showVars, ghostVars>>

MessageNext ==
    \/ HandlePrepared \/ HandleCompleted \/ HandleSeekComplete
    \/ HandleStart \/ HandlePause \/ HandleSeek \/ HandleStop

-----------------------------------------------------------------------------
(* read_thread.                                                             *)

Remaining == {i \in DOMAIN pictq : ~pictq[i].old}

\* Whether the target can be reached with the frames and packets that are
\* there: it is between the first and the last frame of the serial, or near.
CanSkip ==
    /\ exact /\ ~completed
    /\ Len(pictq) \in Remaining
    /\ \E first \in Remaining :
          /\ \A i \in Remaining : first <= i
          /\ is_seek_pos.to >= pictq[first].pos

MustSkip == CanSkip /\ is_seek_pos.to <= pictq[Len(pictq)].pos

KeyBefore(t) == CHOOSE k \in KeyFrames : k <= t /\ \A l \in KeyFrames : l <= t => l <= k

\* Where a seek to t shows its first frame; past the end it shows none.
LandsAt(t) == IF ~exact THEN KeyBefore(t) ELSE IF t < End THEN t ELSE None

\* Posted messages reach the queue while its thread listens.
Post(what) == msgs' = IF listening THEN Append(msgs, Message(what, ToStart)) ELSE msgs

\* The streams are open, as a rule paused with a step to the first frame, and
\* the target from before prepare is sought, in whichever session it is.
Open ==
    /\ reader = "opening" /\ reader' = "read"
    /\ play' = IF start_on_prepared THEN play ELSE StepToNext(TogglePause(play, TRUE))
    /\ IF seek_at_start = None THEN UNCHANGED <<seekVars, overtaken>> ELSE StreamSeek(seek_at_start)
    /\ UNCHANGED <<appVars, msgs, readVars, frameVars, showVars, newest, answered, left, landing, raced>>

\* Mutant of SeekBegins: the stream is not held while the seek is decided.
SeekBeginsPlaying ==
    /\ reader \in {"read", "delaying"} /\ is_seek_req
    /\ target' = is_seek_pos /\ failed' = FALSE
    /\ \E skip \in {b \in BOOLEAN : (b => CanSkip) /\ (MustSkip => b)} :
          reader' = IF skip THEN "sought" ELSE "seeking"
    /\ landing' = None /\ raced' = FALSE
    /\ UNCHANGED <<appVars, msgs, seekVars, seek_pos, completed, loop, play, frameVars, showVars, newest, answered, overtaken, left>>

\* The target is read, the stream held, and the skip decided.
SeekBegins ==
    /\ reader \in {"read", "delaying"} /\ is_seek_req
    /\ target' = is_seek_pos /\ failed' = FALSE
    /\ play' = ToggleBuffering(play, TRUE)
    /\ \E skip \in {b \in BOOLEAN : (b => CanSkip) /\ (MustSkip => b)} :
          reader' = IF skip THEN "sought" ELSE "seeking"
    /\ landing' = None /\ raced' = FALSE
    /\ UNCHANGED <<appVars, msgs, seekVars, seek_pos, completed, loop, frameVars, showVars, newest, answered, overtaken, left>>

Outdated(f) == [f EXCEPT !.old = TRUE]

\* avformat_seek_file and the flush of the queues.
Flush ==
    /\ reader = "seeking" /\ reader' = "sought"
    /\ read_pos' = KeyBefore(target.to) /\ packets' = <<>>
    /\ decoding' = (IF decoding = None THEN None ELSE Outdated(decoding))
    /\ pictq' = [i \in 1..Len(pictq) |-> Outdated(pictq[i])]
    /\ UNCHANGED <<appVars, msgs, seekVars, readVars, play, showVars, ghostVars>>

\* It fails: nothing is flushed, and the seek goes on.
FlushFails ==
    /\ SeekFails /\ reader = "seeking" /\ reader' = "sought"
    /\ failed' = TRUE
    /\ UNCHANGED <<appVars, msgs, seekVars, target, seek_pos, completed, loop, play, frameVars, showVars, ghostVars>>

\* seek_info.seek_pos, and the request is done.
SetTarget ==
    /\ reader = "sought" /\ reader' = "ended"
    /\ seek_pos' = target.to /\ is_seek_req' = FALSE /\ completed' = FALSE
    /\ chosen' = (IF chosen = "none" THEN "none" ELSE "before")
    /\ landing' = (IF failed \/ raced THEN None ELSE LandsAt(target.to))
    /\ answered' = (target.id = newest \/ (target.id = 0 /\ answered))
    /\ UNCHANGED <<appVars, msgs, is_seek_pos, target, failed, loop, play, frameVars, modeVars, shown, prepared, newest, overtaken, left, raced>>

\* Mutant of SeekEnds: a seek that failed is not told.
SeekEndsSilently ==
    /\ reader = "ended" /\ reader' = "read"
    /\ LET p1 == IF play.auto_resume
                 THEN Update([play EXCEPT !.pause_req = FALSE, !.buffering = TRUE, !.auto_resume = FALSE])
                 ELSE play
           p2 == IF p1.pause_req THEN StepToNext(p1) ELSE p1
       IN play' = ToggleBuffering(p2, TRUE)
    /\ IF failed THEN UNCHANGED msgs ELSE Post("SEEK_COMPLETE")
    /\ UNCHANGED <<appVars, seekVars, readVars, frameVars, showVars, ghostVars>>

\* The stream is let go, or stepped if it is to stay paused.
SeekEnds ==
    /\ reader = "ended" /\ reader' = "read"
    /\ LET p1 == IF play.auto_resume
                 THEN Update([play EXCEPT !.pause_req = FALSE, !.buffering = TRUE, !.auto_resume = FALSE])
                 ELSE play
           p2 == IF p1.pause_req THEN StepToNext(p1) ELSE p1
       IN play' = ToggleBuffering(p2, TRUE)
    /\ Post("SEEK_COMPLETE")
    /\ UNCHANGED <<appVars, seekVars, readVars, frameVars, showVars, ghostVars>>

\* Everything read has been decoded and shown.
AtEnd ==
    /\ ~play.paused \/ completed
    /\ read_pos = End /\ packets = <<>> /\ decoding = None /\ pictq = <<>>

\* The loop goes back to the start, with a request of its own that replaces
\* one made since the thread looked.
LoopAround ==
    /\ reader = "read" /\ AtEnd /\ loop > 0
    /\ loop' = loop - 1 /\ seek_pos' = 0
    /\ is_seek_pos' = ToStart /\ is_seek_req' = TRUE
    /\ overtaken' = (overtaken \/ is_seek_req)
    /\ UNCHANGED <<appVars, msgs, reader, target, failed, completed, play, frameVars, showVars, newest, answered, left, landing, raced>>

\* What the devices still hold is waited for, unless a seek comes.
EndReached ==
    /\ reader = "read" /\ AtEnd /\ loop = 0 /\ ~completed
    /\ reader' = "delaying"
    /\ UNCHANGED <<appVars, msgs, seekVars, readVars, play, frameVars, showVars, ghostVars>>

\* Only now, with no seek to serve, is the end told.
DelayOver ==
    /\ reader = "delaying" /\ ~is_seek_req
    /\ reader' = "completing"
    /\ UNCHANGED <<appVars, msgs, seekVars, readVars, play, frameVars, showVars, ghostVars>>

\* The end is told, and the stream paused.
Complete ==
    /\ reader = "completing" /\ reader' = "read"
    /\ completed' = TRUE
    /\ play' = TogglePause(ToggleBuffering(play, FALSE), TRUE)
    /\ Post("COMPLETED")
    /\ UNCHANGED <<appVars, seekVars, target, failed, seek_pos, loop, frameVars, showVars, ghostVars>>

\* Mutant of ReadPacket: a full queue does not stop the reading.
ReadPacketAnyway ==
    /\ reader = "read" /\ read_pos < End
    /\ packets' = Append(packets, [pos |-> read_pos, old |-> FALSE])
    /\ read_pos' = read_pos + 1
    /\ UNCHANGED <<appVars, msgs, reader, seekVars, readVars, play, decoding, pictq, showVars, ghostVars>>

\* A frame is read while the queue has room for it.
ReadPacket ==
    /\ reader = "read" /\ read_pos < End /\ Len(packets) < MaxInside
    /\ packets' = Append(packets, [pos |-> read_pos, old |-> FALSE])
    /\ read_pos' = read_pos + 1
    /\ UNCHANGED <<appVars, msgs, reader, seekVars, readVars, play, decoding, pictq, showVars, ghostVars>>

\* Enough has been read.
BufferingEnds ==
    /\ reader = "read" /\ play.buffering
    /\ play' = ToggleBuffering(play, FALSE)
    /\ UNCHANGED <<appVars, msgs, reader, seekVars, readVars, frameVars, showVars, ghostVars>>

SeekNext == Open \/ SeekBegins \/ Flush \/ FlushFails \/ SetTarget \/ SeekEnds

ReaderNext ==
    SeekNext \/ LoopAround \/ EndReached \/ DelayOver \/ Complete \/ ReadPacket \/ BufferingEnds

-----------------------------------------------------------------------------
(* The decoder and the refresh thread.                                      *)

Streaming == reader # "none"

\* The decoder finds the queue empty.
BufferingStarts ==
    /\ Streaming /\ packets = <<>> /\ read_pos < End /\ ~play.buffering
    /\ play' = ToggleBuffering(play, TRUE)
    /\ UNCHANGED <<appVars, msgs, reader, seekVars, readVars, frameVars, showVars, ghostVars>>

Decode ==
    /\ Streaming /\ decoding = None /\ packets # <<>>
    /\ decoding' = Head(packets) /\ packets' = Tail(packets)
    /\ UNCHANGED <<appVars, msgs, reader, seekVars, readVars, play, read_pos, pictq, showVars, ghostVars>>

QueuePicture ==
    /\ Streaming /\ decoding # None /\ Len(pictq) < MaxPictures
    /\ pictq' = Append(pictq, decoding) /\ decoding' = None
    /\ UNCHANGED <<appVars, msgs, reader, seekVars, readVars, play, read_pos, packets, showVars, ghostVars>>

\* What video_refresh throws away unseen.
Dropped(f) == f.old \/ (exact /\ f.pos < seek_pos)

DropFrame ==
    /\ Streaming /\ chosen = "none" /\ pictq # <<>> /\ Dropped(Head(pictq))
    /\ pictq' = Tail(pictq)
    /\ raced' = (raced \/ (reader = "sought" /\ ~Head(pictq).old))
    /\ UNCHANGED <<appVars, msgs, reader, seekVars, readVars, play, read_pos, packets, decoding, showVars, newest, answered, overtaken, left, landing>>

\* The frame is due, and the stream not paused ...
ChooseFrame ==
    /\ Streaming /\ chosen = "none" /\ pictq # <<>> /\ ~Dropped(Head(pictq))
    /\ ~play.paused
    /\ chosen' = "head"
    /\ raced' = (raced \/ (reader = "sought" /\ play.crossed))
    /\ UNCHANGED <<appVars, msgs, reader, seekVars, readVars, play, frameVars, modeVars, shown, prepared,
                   newest, answered, overtaken, left, landing>>

\* ... and becomes the one on the screen.  The first makes the player prepared.
ShowFrame ==
    /\ Streaming /\ chosen # "none"
    /\ pictq' = Tail(pictq) /\ shown' = Head(pictq).pos
    /\ chosen' = "none" /\ prepared' = TRUE
    /\ IF prepared THEN UNCHANGED msgs ELSE Post("PREPARED")
    /\ play' = Stepped(play)
    /\ landing' = (IF chosen = "head" THEN None ELSE landing)
    /\ UNCHANGED <<appVars, reader, seekVars, readVars, read_pos, packets, decoding, modeVars, newest, answered, overtaken, left, raced>>

FrameNext ==
    BufferingStarts \/ Decode \/ QueuePicture \/ DropFrame \/ ChooseFrame \/ ShowFrame

-----------------------------------------------------------------------------

AppNext ==
    \/ \E t \in 0..End : SeekTo(t)
    \/ \E what \in {"REQ_START", "REQ_PAUSE"} : StartOrPause(what)
    \/ Stop \/ Prepare

Next == AppNext \/ MessageNext \/ ReaderNext \/ FrameNext

Spec == Init /\ [][Next]_vars

\* read_thread looks at seek_req first of all in each round, and av_read_frame
\* returns; the message thread waits for nothing but mp->mutex.
FairSpec ==
    /\ Spec
    /\ WF_vars(MessageNext)
    /\ WF_vars(SeekNext) /\ WF_vars(DelayOver \/ Complete)

-----------------------------------------------------------------------------

Positions == 0..End - 1
FramesAt == [pos : Positions, old : BOOLEAN]

\* Every variable keeps its type, and no queue passes its bound.
TypeOK ==
    /\ calls \in 0..MaxCalls /\ state \in {"INITIALIZED", "ASYNC_PREPARING", "STARTED", "PAUSED", "COMPLETED", "STOPPED"}
    /\ seek_at_start \in Requests \cup {None} /\ is_seek_pos \in Requests /\ target \in Requests
    /\ msgs \in Seq(Messages)
    /\ reader \in {"none", "opening", "read", "seeking", "sought", "ended", "delaying", "completing"}
    /\ seek_pos \in 0..End /\ read_pos \in 0..End /\ loop \in 0..MaxLoops
    /\ packets \in Seq(FramesAt) /\ Len(packets) <= MaxInside
    /\ pictq \in Seq(FramesAt) /\ Len(pictq) <= MaxPictures
    /\ decoding \in FramesAt \cup {None} /\ shown \in Positions \cup {None}
    /\ chosen \in {"none", "head", "before"} /\ landing \in Positions \cup {None}
    /\ DOMAIN play = {"pause_req", "step", "buffering", "paused", "auto_resume", "crossed"}
    /\ \A f \in DOMAIN play : play[f] \in BOOLEAN

\* Nothing is under way.
AtRest == reader = "read" /\ msgs = <<>> /\ ~is_seek_req

\* The newest target the application asked for is served, however many
\* requests were made and whichever seek was under way, unless the request
\* came after that seek had read seek_pos, or just before the file looped.
NewestServed == AtRest /\ newest > 0 /\ ~overtaken => answered

\* A stream asked to pause is paused, or steps to one frame, in every order of
\* pauses, seeks, buffering and completion, unless the pause itself crossed a
\* step that had not been made (toggle_pause_l, see crossed).
PauseHolds ==
    Streaming /\ reader # "opening" /\ (play.pause_req \/ play.buffering)
        => play.paused \/ play.step \/ play.crossed

\* What the application is told of the player agrees with its stream.
StateTold ==
    AtRest => /\ state = "STARTED" => ~play.pause_req
              /\ state = "PAUSED" => play.pause_req

\* The first frame chosen after a seek is the one asked for (the key frame
\* before it if seeks are not exact), whether read_thread sought or took the
\* target to be in the frame queue, unless that frame is on the screen already,
\* or the stream ran on while the seek was decided: a frame was dropped, or a
\* pause had met a step (see raced).
LandsWhereAsked ==
    [][chosen = "head" /\ chosen' = "none" /\ reader' # "opening" /\ landing # None
        => landing \in {Head(pictq).pos, shown}]_vars

\* mp->seek_req, and with it the target told as the position, is released once
\* the stream has served the seek; what was left by stop is not.
PositionReleased ==
    (seek_req /\ Streaming /\ ~left) ~> (~seek_req \/ ~Streaming)

=============================================================================
