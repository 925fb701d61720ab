---------------------------- MODULE PlayerControl ----------------------------
(* The control plane of the player: the blocking API of NativePlayer.c, the *)
(* state machine of ijkplayer.c, the message queue between them and the     *)
(* threads of one stream of ff_ffplay.c, as far as they post messages.      *)
(*                                                                          *)
(* Three parties run concurrently.  The application thread makes one API    *)
(* call at a time (sync_interface_lock) and may wait on a fence.  The       *)
(* message thread runs ijkmp_get_msg, which changes mp_state, and then      *)
(* message_loop_n, which moves the fences.  The stream (read_thread, the    *)
(* decoders and the video refresh thread) posts PREPARED, COMPLETED,        *)
(* SEEK_COMPLETE and ERROR until stream_close has joined all of them.       *)
(* Messages without effect on this state (FLUSH, BUFFERING_xxx, ...), the   *)
(* arguments of a seek and what only the reported position depends on       *)
(* (seek_req and has_seek_after_complete of IjkMediaPlayer) are left out,   *)
(* and so is the thread that runs the application's callbacks.              *)
EXTENDS MsgQueue

CONSTANTS
    StartOnPrepared,   \* option start-on-prepared
    PrepareCanFail,    \* ffp_prepare_async_l may return an error
    DecodersCanFail,   \* an audio or video decoder may give up
    Media,             \* what a stream may have: "audio" alone, or "video"
    SpuriousWakeups,   \* pthread_cond_wait may return without a signal
    MaxCalls,          \* bound: API calls made by the application
    MaxStreams         \* bound: calls of prepare

ASSUME ConfigAssumption ==
    /\ StartOnPrepared \in BOOLEAN
    /\ PrepareCanFail \in BOOLEAN
    /\ DecodersCanFail \in BOOLEAN
    /\ Media \in SUBSET {"audio", "video"}
    /\ SpuriousWakeups \in BOOLEAN
    /\ MaxCalls \in Nat
    /\ MaxStreams \in Nat

VARIABLES
    mp,           \* the IjkMediaPlayer fields that control playback
    msgs,         \* ffp->msg_queue
    aborted,      \* its abort_request
    is,           \* ffp->is, NoStream when it is NULL
    auto_resume,  \* ffp->auto_resume
    seek_at_start,\* ffp->seek_at_start is set
    msgThread,    \* where the message thread is
    hand,         \* the message it has taken out of the queue
    fences,       \* the signaled flags of the four fences
    api,          \* where the application thread is
    seen,         \* last state change put into the callback queue
    crashed,      \* a NULL ffp->is was dereferenced: the process is gone
    calls,        \* API calls made so far
    streams       \* prepares made so far

vars == <<mp, msgs, aborted, is, auto_resume, seek_at_start, msgThread, hand,
          fences, api, seen, crashed, calls, streams>>

States == {"IDLE", "INITIALIZED", "ASYNC_PREPARING", "PREPARED", "STARTED",
           "PAUSED", "COMPLETED", "STOPPED", "ERROR"}
Fences == {"prepare", "start", "pause", "stop"}

Requests == {"REQ_START", "REQ_PAUSE", "REQ_SEEK"}
Events   == {"PREPARED", "COMPLETED", "SEEK_COMPLETE", "ERROR"}

\* The messages that reach the queue, by kind.
Simple(what)   == Msg(what, "-")
Changed(state) == Msg("STATE_CHANGED", state)
Messages == {Simple(w) : w \in Requests \cup Events \cup {"REQ_STOP", "BLANK"}}
            \cup {Changed(s) : s \in States}

Phases == {"null", "opening", "opened", "running", "seeking", "completing", "exited"}

\* VideoState, reduced to what its threads tell the control plane.
Streams == [phase : Phases, av : {"none", "audio", "video"}, prepared : BOOLEAN,
            single_play : BOOLEAN, pause_req : BOOLEAN, seek_req : BOOLEAN,
            completed : BOOLEAN, step : BOOLEAN, abort : BOOLEAN, failed : BOOLEAN]

NoStream == [phase |-> "null", av |-> "none", prepared |-> FALSE,
             single_play |-> FALSE, pause_req |-> FALSE, seek_req |-> FALSE,
             completed |-> FALSE, step |-> FALSE, abort |-> FALSE, failed |-> FALSE]

\* stream_open: pause_req = !start_on_prepared, read_thread begins to open the file.
NewStream == [NoStream EXCEPT !.phase = "opening", !.pause_req = ~StartOnPrepared]

\* The IjkMediaPlayer fields that control playback.
Players == [state : States, restart : BOOLEAN, from_beginning : BOOLEAN]

NewPlayer == [state |-> "IDLE", restart |-> FALSE, from_beginning |-> FALSE]

\* Where the application thread is: in a call of its own, or in stop, reset
\* or release, and on which fence it waits.
ApiPcs == {"idle", "check", "asleep", "stop_l", "closing", "joining", "unstopped", "finish", "gone"}
Apis   == [op : {"call", "stop", "reset", "release"}, pc : ApiPcs,
           fence : Fences, woken : BOOLEAN]
IdleApi == [op |-> "call", pc |-> "idle", fence |-> "stop", woken |-> FALSE]

NoSignal == [f \in Fences |-> FALSE]

Init ==
    /\ mp = NewPlayer
    /\ msgs = <<>> /\ aborted = TRUE
    /\ is = NoStream /\ auto_resume = FALSE /\ seek_at_start = FALSE
    /\ msgThread = "none" /\ hand = Blank
    /\ fences = NoSignal /\ api = IdleApi
    /\ seen = "IDLE" /\ crashed = FALSE
    /\ calls = 0 /\ streams = 0

-----------------------------------------------------------------------------
(* Shared helpers.                                                          *)

\* ijkmp_change_state_l announces a change, and nothing when there is none.
Announce(q, old, new) == IF old = new THEN q ELSE Put(q, aborted, Changed(new))

\* mp->mutex is held across steps only by ijkmp_stop, around ffp_wait_stop_l.
MutexFree == ~(api.op = "stop" /\ api.pc \in {"stop_l", "closing"})

\* toggle_pause, without the clocks.
Paused(i, on) == [i EXCEPT !.pause_req = on, !.step = FALSE]

Startable == {"ASYNC_PREPARING", "PREPARED", "STARTED", "PAUSED", "COMPLETED"}
Pausable  == Startable \ {"ASYNC_PREPARING"}
Seekable  == Pausable \cup {"IDLE", "INITIALIZED"}
Stoppable == Startable \cup {"STOPPED"}
Preparable == {"INITIALIZED", "STOPPED"}

streamVars == <<is, auto_resume, seek_at_start>>
threadVars == <<msgThread, hand>>
clientVars == <<fences, seen>>
bounds     == <<calls, streams>>

\* Where the application thread is; it does nothing any more after a crash.
At(pc) == api.pc = pc /\ ~crashed

\* A new API call of the application thread.
Call ==
    /\ At("idle")
    /\ calls < MaxCalls
    /\ calls' = calls + 1

\* The call that waits on a fence.
WaitOn(fence) == [op |-> "call", pc |-> "check", fence |-> fence, woken |-> FALSE]

-----------------------------------------------------------------------------
(* The application thread: requests.                                        *)

SetDataSource ==
    /\ Call
    /\ mp.state = "IDLE"
    /\ mp' = [mp EXCEPT !.state = "INITIALIZED"]
    /\ msgs' = Announce(msgs, mp.state, "INITIALIZED")
    /\ UNCHANGED <<aborted, streamVars, threadVars, clientVars, api, crashed, streams>>

\* CypressPlayer_prepareAsync (sync = FALSE) and prepareSync up to its wait.
Prepare(sync) ==
    /\ Call
    /\ streams < MaxStreams
    /\ streams' = streams + 1
    /\ mp.state \in Preparable
    /\ mp' = [mp EXCEPT !.state = "ASYNC_PREPARING"]
    /\ aborted' = FALSE
    /\ msgs' = Append(msgs, Changed("ASYNC_PREPARING"))
    /\ msgThread' = "get"
    /\ is' = NewStream
    /\ api' = IF sync THEN WaitOn("prepare") ELSE api
    /\ UNCHANGED <<auto_resume, seek_at_start, hand, clientVars, crashed>>

\* ffp_prepare_async_l fails: the message thread runs, there is no stream.
PrepareFails ==
    /\ PrepareCanFail
    /\ Call
    /\ streams < MaxStreams
    /\ streams' = streams + 1
    /\ mp.state \in Preparable
    /\ mp' = [mp EXCEPT !.state = "ASYNC_PREPARING"]
    /\ aborted' = FALSE
    /\ msgs' = msgs \o <<Changed("ASYNC_PREPARING"), Simple("ERROR")>>
    /\ msgThread' = "get"
    /\ UNCHANGED <<streamVars, hand, clientVars, api, crashed>>

\* ijkmp_start_l and ijkmp_pause_l: the newest request replaces the others.
Replace(q, what) ==
    Put(Remove(Remove(q, aborted, "REQ_START"), aborted, "REQ_PAUSE"), aborted, Simple(what))

Start ==
    /\ Call
    /\ mp.state \in Startable
    /\ msgs' = Replace(msgs, "REQ_START")
    /\ api' = WaitOn("start")
    /\ UNCHANGED <<mp, aborted, streamVars, threadVars, clientVars, crashed, streams>>

Pause ==
    /\ Call
    /\ mp.state \in Pausable
    /\ msgs' = Replace(msgs, "REQ_PAUSE")
    /\ api' = WaitOn("pause")
    /\ UNCHANGED <<mp, aborted, streamVars, threadVars, clientVars, crashed, streams>>

\* seekTo returns at once; before prepare it only sets seek_at_start.
SeekTo ==
    /\ Call
    /\ mp.state \in Seekable
    /\ \/ /\ mp.state \in {"IDLE", "INITIALIZED"}
          /\ seek_at_start' = TRUE
          /\ UNCHANGED msgs
       \/ /\ mp.state \notin {"IDLE", "INITIALIZED"}
          /\ msgs' = Put(Remove(msgs, aborted, "REQ_SEEK"), aborted, Simple("REQ_SEEK"))
          /\ UNCHANGED seek_at_start
    /\ UNCHANGED <<mp, aborted, is, auto_resume, threadVars, clientVars, api, crashed, streams>>

-----------------------------------------------------------------------------
(* The application thread: fences.                                          *)

\* ncfence_wait tests the flag once, under the fence's mutex.
WaitCheck ==
    /\ At("check")
    /\ api' = IF fences[api.fence] THEN IdleApi ELSE [api EXCEPT !.pc = "asleep"]
    /\ UNCHANGED <<mp, msgs, aborted, streamVars, threadVars, clientVars, crashed, bounds>>

\* It returns from SDL_CondWait without testing the flag again.
WaitReturn ==
    /\ At("asleep")
    /\ api.woken \/ SpuriousWakeups
    /\ api' = IdleApi
    /\ UNCHANGED <<mp, msgs, aborted, streamVars, threadVars, clientVars, crashed, bounds>>

-----------------------------------------------------------------------------
(* The application thread: stop, reset and release.                         *)

\* ijkmp_stop_l up to ffp_wait_stop_l; mp->mutex stays locked.
Stop ==
    /\ Call
    /\ mp.state \in Stoppable
    /\ mp' = [mp EXCEPT !.state = "STOPPED"]
    /\ msgs' = Announce(Remove(Remove(msgs, aborted, "REQ_START"), aborted, "REQ_PAUSE"),
                        mp.state, "STOPPED")
    /\ api' = [IdleApi EXCEPT !.op = "stop", !.pc = "stop_l"]
    /\ UNCHANGED <<aborted, streamVars, threadVars, clientVars, crashed, streams>>

\* CypressPlayer_reset and CypressPlayer_release enter ijkmp_shutdown in any
\* state, without mp->mutex.
Shutdown(op) ==
    /\ Call
    /\ api' = [IdleApi EXCEPT !.op = op, !.pc = "stop_l"]
    /\ UNCHANGED <<mp, msgs, aborted, streamVars, threadVars, clientVars, crashed, streams>>

\* Mutant of PostStop: REQ_STOP is posted first and removed with the others.
PostStopRemoved(q) ==
    Remove(Put(q, aborted, Simple("REQ_STOP")), aborted, "REQ_STOP")

\* ffp_remove_user_req and the REQ_STOP of ffp_stop_l.
PostStop(q) ==
    Put(Remove(Remove(Remove(Remove(q, aborted, "REQ_START"), aborted, "REQ_PAUSE"),
                      aborted, "REQ_SEEK"), aborted, "REQ_STOP"),
        aborted, Simple("REQ_STOP"))

\* Mutant of StopStream: msg_queue_abort instead of REQ_STOP.
StopStreamAborts ==
    /\ At("stop_l")
    /\ is.phase # "null"
    /\ is' = [Paused(is, TRUE) EXCEPT !.abort = TRUE]
    /\ auto_resume' = FALSE
    /\ aborted' = TRUE
    /\ api' = [api EXCEPT !.pc = "closing"]
    /\ UNCHANGED <<mp, msgs, seek_at_start, threadVars, clientVars, crashed, bounds>>

\* ffp_wait_stop_l with a stream: ffp_stop_l, then stream_close begins.
StopStream ==
    /\ At("stop_l")
    /\ is.phase # "null"
    /\ is' = [Paused(is, TRUE) EXCEPT !.abort = TRUE]
    /\ auto_resume' = FALSE
    /\ msgs' = PostStop(msgs)
    /\ api' = [api EXCEPT !.pc = "closing"]
    /\ UNCHANGED <<mp, aborted, seek_at_start, threadVars, clientVars, crashed, bounds>>

\* ffp_wait_stop_l without a stream does nothing: nobody tells the message
\* thread to end.
StopNothing ==
    /\ At("stop_l")
    /\ is.phase = "null"
    /\ api' = [api EXCEPT !.pc = "unstopped"]
    /\ UNCHANGED <<mp, msgs, aborted, streamVars, threadVars, clientVars, crashed, bounds>>

\* stream_close has joined every thread of the stream and frees it.
CloseStream ==
    /\ At("closing")
    /\ is.phase = "exited"
    /\ is' = NoStream
    /\ api' = [api EXCEPT !.pc = "joining"]
    /\ UNCHANGED <<mp, msgs, aborted, auto_resume, seek_at_start, threadVars, clientVars,
                   crashed, bounds>>

\* Mutant of JoinMsgThread: the message thread is detached, not joined.
JoinNothing ==
    /\ At("joining") \/ At("unstopped")
    /\ api' = [api EXCEPT !.pc = "finish"]
    /\ UNCHANGED <<mp, msgs, aborted, streamVars, threadVars, clientVars, crashed, bounds>>

\* SDL_WaitThread(msg_thread), when there is one.
JoinMsgThread ==
    /\ At("joining") \/ At("unstopped")
    /\ msgThread \in {"none", "exited"}
    /\ msgThread' = "none"
    /\ api' = [api EXCEPT !.pc = "finish"]
    /\ UNCHANGED <<mp, msgs, aborted, streamVars, hand, clientVars, crashed, bounds>>

\* The rest of ijkmp_stop, then CypressPlayer_stop goes to wait on its fence.
FinishStop ==
    /\ At("finish") /\ api.op = "stop"
    /\ aborted' = TRUE
    /\ api' = WaitOn("stop")
    /\ UNCHANGED <<mp, msgs, streamVars, threadVars, clientVars, crashed, bounds>>

\* reset: a new IjkMediaPlayer, and the fences start over.
FinishReset ==
    /\ At("finish") /\ api.op = "reset"
    /\ mp' = NewPlayer
    /\ msgs' = <<>> /\ aborted' = TRUE
    /\ auto_resume' = FALSE /\ seek_at_start' = FALSE
    /\ fences' = NoSignal
    /\ api' = IdleApi
    /\ UNCHANGED <<is, threadVars, seen, crashed, bounds>>

FinishRelease ==
    /\ At("finish") /\ api.op = "release"
    /\ msgs' = <<>> /\ aborted' = TRUE
    /\ api' = [api EXCEPT !.pc = "gone"]
    /\ UNCHANGED <<mp, streamVars, threadVars, clientVars, crashed, bounds>>

AppNext ==
    \/ SetDataSource
    \/ \E sync \in BOOLEAN : Prepare(sync)
    \/ PrepareFails
    \/ Start \/ Pause \/ SeekTo \/ Stop
    \/ \E op \in {"reset", "release"} : Shutdown(op)

AppWait ==
    \/ WaitCheck \/ WaitReturn
    \/ StopStream \/ StopNothing \/ CloseStream \/ JoinMsgThread
    \/ FinishStop \/ FinishReset \/ FinishRelease

-----------------------------------------------------------------------------
(* The message thread: ijkmp_get_msg.                                       *)

\* msg_queue_get.  REQ_STOP aborts the queue and ends the thread; a state
\* change needs no more work here and goes to message_loop_n.
GetMsg ==
    /\ msgThread = "get"
    /\ ~aborted /\ ~crashed
    /\ \E i \in 1..Len(msgs) :
         /\ IsFirst(msgs, i)
         /\ msgs' = Rest(msgs, i)
         /\ hand' = msgs[i]
         /\ aborted' = (msgs[i].what = "REQ_STOP")
         /\ msgThread' = IF msgs[i].what = "REQ_STOP" THEN "exited"
                         ELSE IF msgs[i].what = "STATE_CHANGED" THEN "loop"
                         ELSE "handle"
    /\ UNCHANGED <<mp, streamVars, clientVars, api, crashed, bounds>>

\* The message in hand is handled under mp->mutex; a request is consumed, an
\* event goes on to message_loop_n.
Handle(what) ==
    /\ msgThread = "handle" /\ ~crashed
    /\ hand.what = what
    /\ MutexFree
    /\ msgThread' = IF what \in Requests THEN "get" ELSE "loop"
    /\ UNCHANGED <<aborted, hand, clientVars, api, bounds>>

\* FFP_MSG_PREPARED with a stream.  An unexpected state is only logged.
HandlePrepared ==
    LET first == IF mp.state = "ASYNC_PREPARING" THEN "PREPARED" ELSE mp.state
        final == IF StartOnPrepared \/ is.single_play THEN "STARTED" ELSE "PAUSED"
    IN  /\ Handle("PREPARED")
        /\ is.phase # "null"
        /\ mp' = [mp EXCEPT !.state = final]
        /\ msgs' = Announce(Announce(msgs, mp.state, first), first, final)
        /\ is' = IF is.single_play THEN Paused(is, FALSE) ELSE is
        /\ auto_resume' = (is.single_play \/ auto_resume)
        /\ UNCHANGED <<seek_at_start, crashed>>

\* FFP_MSG_PREPARED, or a request while preparing, dereferences
\* mp->ffplayer->is although there is no stream.
HandleWithoutStream ==
    /\ is.phase = "null"
    /\ \E what \in {"PREPARED", "REQ_START", "REQ_PAUSE"} :
         /\ Handle(what)
         /\ what = "PREPARED" \/ mp.state = "ASYNC_PREPARING"
    /\ crashed' = TRUE
    /\ UNCHANGED <<mp, msgs, streamVars>>

HandleCompleted ==
    /\ Handle("COMPLETED")
    /\ mp' = [state |-> "COMPLETED", restart |-> TRUE, from_beginning |-> TRUE]
    /\ msgs' = Announce(msgs, mp.state, "COMPLETED")
    /\ UNCHANGED <<streamVars, crashed>>

HandleSeekComplete ==
    /\ Handle("SEEK_COMPLETE")
    /\ UNCHANGED <<mp, msgs, streamVars, crashed>>

\* Mutant of HandleError: mp_state is set without ijkmp_change_state_l.
HandleErrorSilently ==
    /\ Handle("ERROR")
    /\ mp' = [mp EXCEPT !.state = "ERROR"]
    /\ UNCHANGED <<msgs, streamVars, crashed>>

HandleError ==
    /\ Handle("ERROR")
    /\ mp' = [mp EXCEPT !.state = "ERROR"]
    /\ msgs' = Announce(msgs, mp.state, "ERROR")
    /\ UNCHANGED <<streamVars, crashed>>

\* FFP_REQ_START or FFP_REQ_PAUSE while the stream is being prepared: it
\* only notes whether to start once prepared.
HandleEarly ==
    /\ mp.state = "ASYNC_PREPARING" /\ is.phase # "null"
    /\ \E what \in {"REQ_START", "REQ_PAUSE"} :
         /\ Handle(what)
         /\ is' = [is EXCEPT !.single_play = (what = "REQ_START")]
    /\ UNCHANGED <<mp, msgs, auto_resume, seek_at_start, crashed>>

\* FFP_REQ_START: plays on, or after a completion seeks to the beginning
\* (ffp_start_from_l) unless a seek was requested in between.
HandleStart ==
    LET played == [mp EXCEPT !.restart = FALSE, !.from_beginning = FALSE]
    IN  /\ Handle("REQ_START")
        /\ mp.state \in Pausable
        /\ IF is.phase = "null"
           THEN /\ mp' = IF mp.restart THEN played ELSE mp
                /\ UNCHANGED <<msgs, is, auto_resume>>
           ELSE /\ mp' = [played EXCEPT !.state = "STARTED"]
                /\ msgs' = Announce(msgs, mp.state, "STARTED")
                /\ auto_resume' = TRUE
                /\ is' = IF mp.restart /\ mp.from_beginning
                         THEN [is EXCEPT !.seek_req = TRUE]
                         ELSE Paused(is, FALSE)
        /\ UNCHANGED <<seek_at_start, crashed>>

HandlePause ==
    /\ Handle("REQ_PAUSE")
    /\ mp.state \in Pausable
    /\ IF is.phase = "null"
       THEN UNCHANGED <<mp, msgs, is, auto_resume>>
       ELSE /\ mp' = [mp EXCEPT !.state = "PAUSED"]
            /\ msgs' = Announce(msgs, mp.state, "PAUSED")
            /\ is' = Paused(is, TRUE)
            /\ auto_resume' = FALSE
    /\ UNCHANGED <<seek_at_start, crashed>>

\* FFP_REQ_SEEK: stream_seek, or at or beyond the end of an accurately seeking
\* player a pause and COMPLETED.  Without a stream only seek_at_start is set.
HandleSeek ==
    /\ Handle("REQ_SEEK")
    /\ mp.state \in Seekable
    /\ mp' = [mp EXCEPT !.from_beginning = FALSE]
    /\ \/ /\ is.phase # "null"
          /\ is' = [is EXCEPT !.seek_req = TRUE]
          /\ UNCHANGED <<msgs, auto_resume, seek_at_start>>
       \/ /\ is.phase # "null"
          /\ is' = Paused(is, TRUE)
          /\ auto_resume' = FALSE
          /\ msgs' = Put(msgs, aborted, Simple("COMPLETED"))
          /\ UNCHANGED seek_at_start
       \/ /\ is.phase = "null"
          /\ seek_at_start' = TRUE
          /\ UNCHANGED <<msgs, is, auto_resume>>
    /\ UNCHANGED crashed

\* A request that the state no longer allows is dropped.
HandleRefused ==
    /\ \E what \in Requests :
         /\ Handle(what)
         /\ mp.state \notin (IF what = "REQ_SEEK" THEN Seekable ELSE Startable)
    /\ UNCHANGED <<mp, msgs, streamVars, crashed>>

-----------------------------------------------------------------------------
(* The message thread: message_loop_n.                                      *)

\* ncfence_signal on these fences, ncfence_reset on those.
Move(signaled, cleared) ==
    /\ fences' = [f \in Fences |-> (f \in signaled) \/ (fences[f] /\ f \notin cleared)]
    /\ api' = IF api.pc = "asleep" /\ api.fence \in signaled
              THEN [api EXCEPT !.woken = TRUE] ELSE api

Loop(what) ==
    /\ msgThread = "loop" /\ ~crashed
    /\ hand.what = what
    /\ msgThread' = "get"
    /\ hand' = Blank
    /\ UNCHANGED <<mp, msgs, aborted, streamVars, crashed, bounds>>

\* An error releases every waiter.
LoopError ==
    /\ Loop("ERROR")
    /\ Move(Fences, {})
    /\ UNCHANGED seen

LoopEvent ==
    /\ \E what \in Events \ {"ERROR"} : Loop(what)
    /\ UNCHANGED <<clientVars, api>>

\* Mutant of FencesOf: STARTED does not signal start_fence.
FencesOfForgetful == [s \in States |->
    IF s = "PREPARED" THEN [signaled |-> {"prepare"}, cleared |-> {"stop"}]
    ELSE [signaled |-> {}, cleared |-> {}]]

FencesOf == [s \in States |->
    CASE s = "PREPARED"  -> [signaled |-> {"prepare"}, cleared |-> {"stop"}]
      [] s = "STARTED"   -> [signaled |-> {"start"}, cleared |-> {"pause"}]
      [] s = "PAUSED"    -> [signaled |-> {"pause"}, cleared |-> {"start"}]
      [] s = "STOPPED"   -> [signaled |-> {"stop"}, cleared |-> {"prepare", "start", "pause"}]
      [] s = "COMPLETED" -> [signaled |-> {}, cleared |-> {"start", "pause"}]
      [] OTHER           -> [signaled |-> {}, cleared |-> {}]]

\* Mutant of LoopChange: the kind of the message is taken for the state.
LoopChangeOfWhat ==
    /\ Loop("STATE_CHANGED")
    /\ seen' = hand.what
    /\ Move(FencesOf[hand.arg].signaled, FencesOf[hand.arg].cleared)

LoopChange ==
    /\ Loop("STATE_CHANGED")
    /\ seen' = hand.arg
    /\ Move(FencesOf[hand.arg].signaled, FencesOf[hand.arg].cleared)

MsgNext ==
    \/ GetMsg
    \/ HandlePrepared \/ HandleWithoutStream \/ HandleCompleted \/ HandleSeekComplete
    \/ HandleError \/ HandleEarly
    \/ HandleStart \/ HandlePause \/ HandleSeek \/ HandleRefused
    \/ LoopError \/ LoopEvent \/ LoopChange

-----------------------------------------------------------------------------
(* The threads of the stream.                                               *)

StreamStep ==
    /\ ~crashed
    /\ UNCHANGED <<mp, aborted, seek_at_start, threadVars, clientVars, api, crashed, bounds>>
Post(what) == msgs' = Put(msgs, aborted, Simple(what))

\* Opening fails, on its own or because abort_request interrupts the input.
\* read_thread does not look at abort_request before it posts the error.
OpenFails ==
    /\ is.phase = "opening"
    /\ is' = [is EXCEPT !.phase = "exited"]
    /\ Post("ERROR")
    /\ UNCHANGED auto_resume /\ StreamStep

\* The components are open.  Without video this is the moment to post
\* PREPARED, with video the first rendered frame is.
Opened ==
    /\ is.phase = "opening"
    /\ \E av \in Media :
         /\ is' = [(IF StartOnPrepared THEN is ELSE Paused(is, TRUE)) EXCEPT
                      !.phase = "opened", !.av = av, !.prepared = (av = "audio")]
         /\ IF av = "audio" THEN Post("PREPARED") ELSE UNCHANGED msgs
    /\ auto_resume' = (auto_resume /\ StartOnPrepared)
    /\ StreamStep

FirstFrame ==
    /\ is.av = "video"
    /\ ~is.prepared
    /\ is' = [is EXCEPT !.prepared = TRUE]
    /\ Post("PREPARED")
    /\ UNCHANGED auto_resume /\ StreamStep

\* read_thread up to its loop: a pending auto_resume becomes a start request
\* and seek_at_start a seek.
EnterLoop ==
    /\ is.phase = "opened"
    /\ is' = [is EXCEPT !.phase = "running", !.seek_req = seek_at_start \/ @,
                        !.step = ~StartOnPrepared \/ @]
    /\ IF auto_resume THEN Post("REQ_START") ELSE UNCHANGED msgs
    /\ auto_resume' = FALSE
    /\ StreamStep

\* The first frame after a step request has been shown.
StepDone ==
    /\ is.step
    /\ is' = [is EXCEPT !.step = FALSE]
    /\ UNCHANGED <<msgs, auto_resume>> /\ StreamStep

\* An audio or video decoder gives up; the stream goes on without it.
DecoderFails ==
    /\ DecodersCanFail
    /\ is.av # "none"
    /\ ~is.failed
    /\ is' = [is EXCEPT !.failed = TRUE]
    /\ Post("ERROR")
    /\ UNCHANGED auto_resume /\ StreamStep

\* read_thread seeks: the file, the flushes, then seek_req = 0 ...
SeekBegin ==
    /\ is.phase = "running"
    /\ is.seek_req
    /\ is' = [is EXCEPT !.phase = "seeking", !.seek_req = FALSE]
    /\ UNCHANGED <<msgs, auto_resume>> /\ StreamStep

\* Mutant of SeekEnd: auto_resume is cleared but does not resume.
SeekEndStaysPaused ==
    /\ is.phase = "seeking"
    /\ is' = [is EXCEPT !.phase = "running", !.completed = FALSE, !.step = is.pause_req \/ @]
    /\ auto_resume' = FALSE
    /\ Post("SEEK_COMPLETE")
    /\ StreamStep

\* ... and only after that it resumes or steps, and posts SEEK_COMPLETE.
SeekEnd ==
    /\ is.phase = "seeking"
    /\ LET pause == is.pause_req /\ ~auto_resume
       IN  is' = [is EXCEPT !.phase = "running", !.completed = FALSE,
                            !.pause_req = pause, !.step = pause \/ @]
    /\ auto_resume' = FALSE
    /\ Post("SEEK_COMPLETE")
    /\ StreamStep

\* Everything has been played and nobody asked for a seek ...
CompleteBegin ==
    /\ is.phase = "running"
    /\ ~is.completed /\ ~is.seek_req /\ ~is.abort
    /\ ~is.pause_req \/ is.step
    /\ is' = [is EXCEPT !.phase = "completing"]
    /\ UNCHANGED <<msgs, auto_resume>> /\ StreamStep

\* ... at that time: the player pauses and tells, or tells of a read error.
CompleteEnd ==
    /\ is.phase = "completing"
    /\ is' = [Paused(is, TRUE) EXCEPT !.phase = "running", !.completed = TRUE]
    /\ auto_resume' = FALSE
    /\ \E what \in {"COMPLETED", "ERROR"} : Post(what)
    /\ StreamStep

\* read_thread leaves its loop.
ReadExits ==
    /\ is.phase = "running"
    /\ is.abort
    /\ is' = [is EXCEPT !.phase = "exited"]
    /\ UNCHANGED <<msgs, auto_resume>> /\ StreamStep

StreamNext ==
    \/ OpenFails \/ Opened \/ FirstFrame \/ EnterLoop \/ StepDone \/ DecoderFails
    \/ SeekBegin \/ SeekEnd \/ CompleteBegin \/ CompleteEnd \/ ReadExits

-----------------------------------------------------------------------------
Next == AppNext \/ AppWait \/ MsgNext \/ StreamNext

Spec == Init /\ [][Next]_vars

\* Threads are scheduled; read_thread leaves its states, and unless a decoder
\* gave up the first frame of a video is rendered, even of a paused one.
\* Nothing obliges the application to call, media to end or a decoder to fail.
Fairness ==
    /\ WF_vars(WaitCheck) /\ WF_vars(api.woken /\ WaitReturn)
    /\ WF_vars(StopStream \/ StopNothing \/ CloseStream \/ JoinMsgThread)
    /\ WF_vars(FinishStop \/ FinishReset \/ FinishRelease)
    /\ WF_vars(MsgNext)
    /\ WF_vars(~is.failed /\ FirstFrame)
    /\ WF_vars(OpenFails \/ Opened \/ EnterLoop \/ SeekBegin \/ SeekEnd \/ CompleteEnd)
    /\ WF_vars(ReadExits)

FairSpec == Spec /\ Fairness

-----------------------------------------------------------------------------
(* Properties.                                                              *)

\* The type invariant: every variable of the control plane keeps its domain.
TypeOK ==
    /\ mp \in Players
    /\ msgs \in Seq(Messages) /\ aborted \in BOOLEAN
    /\ is \in Streams /\ auto_resume \in BOOLEAN /\ seek_at_start \in BOOLEAN
    /\ msgThread \in {"none", "get", "handle", "loop", "exited"} /\ hand \in Messages
    /\ fences \in [Fences -> BOOLEAN]
    /\ api \in Apis
    /\ seen \in States /\ crashed \in BOOLEAN
    /\ calls \in Nat /\ streams \in Nat

\* No message is lost to a message thread that is still running: the queue is
\* aborted only when the thread has ended or was never created.
AbortOnlyAfterExit == msgThread \in {"get", "handle", "loop"} => ~aborted

\* The newest state change that is still under way to the application, or the
\* last one it got, is the state of the player: what callbacks report
\* converges to mp_state as long as the queue is open.
NoChange(q) == ~Holds(q, "STATE_CHANGED")
LastChange(q, state) ==
    \E i \in 1..Len(q) :
        /\ q[i] = Changed(state)
        /\ \A j \in (i + 1)..Len(q) : q[j].what # "STATE_CHANGED"
IsNewest(state) ==
    \/ LastChange(msgs, state)
    \/ /\ NoChange(msgs)
       /\ IF msgThread = "loop" /\ hand.what = "STATE_CHANGED"
          THEN hand = Changed(state) ELSE seen = state
ViewConverges == ~aborted => IsNewest(mp.state)

\* prepare finds no stream and no message thread of an earlier session, which
\* ffp_prepare_async_l asserts.
PrepareFindsNothing ==
    (api.pc = "idle" /\ mp.state \in Preparable) =>
        (is.phase = "null" /\ msgThread = "none")

\* While stop, reset or release close a stream, and then wait for the message
\* thread, the REQ_STOP that ends this thread is still ahead of it.
Closing == api.pc \in {"closing", "joining"}
StopRequestSurvives ==
    (Closing /\ msgThread \in {"get", "handle", "loop"}) => Holds(msgs, "REQ_STOP")

\* A player that says STARTED is playing, or will play after the seek that is
\* under way, or the message that says otherwise is on its way.  (A PREPARED
\* says so too early when it was left behind by an earlier session, or when a
\* video that starts by itself completes or fails before its first frame.)
Pending(what) == Holds(msgs, what) \/ (msgThread = "handle" /\ hand.what = what)
StartedPlays ==
    (mp.state = "STARTED" /\ is.phase # "null" /\ ~is.abort /\ streams = 1
     /\ (StartOnPrepared => is.av = "audio")) =>
        \/ ~is.pause_req
        \/ auto_resume /\ (is.seek_req \/ is.phase = "seeking")
        \/ \E what \in {"COMPLETED", "ERROR", "REQ_START", "REQ_PAUSE"} : Pending(what)

\* stop, reset and release return unless the process is gone.
Stopping == api.pc \in {"stop_l", "closing", "joining", "unstopped", "finish"}
StopReturns == Stopping ~> (api.pc \in {"idle", "gone"} \/ crashed)

\* start and pause return unless the player fails, if they sleep on their fence
\* before the message thread takes their request; prepareSync also unless
\* playback ends before it is prepared.  (Who comes to the fence later may find
\* that a further change has cleared it again, and then sleeps for good.)
Asleep(fence) == api.pc = "asleep" /\ api.fence = fence
FenceReturns ==
    [](mp.state # "ERROR") =>
        /\ (Asleep("start") /\ Holds(msgs, "REQ_START")) ~> (~Asleep("start") \/ crashed)
        /\ (Asleep("pause") /\ Holds(msgs, "REQ_PAUSE")) ~> (~Asleep("pause") \/ crashed)
        /\ Asleep("prepare") ~> (~Asleep("prepare") \/ mp.restart \/ crashed)

-----------------------------------------------------------------------------
(* What comments of the code say and the code does not do.                  *)

\* "FFP_MSG_PREPARED: expecting mp_state==MP_STATE_ASYNC_PREPARING", ijkplayer.c.
PreparedExpected == [][Handle("PREPARED") => mp.state = "ASYNC_PREPARING"]_vars

\* "ffp_wait_stop_l() will call ffp_stop_l()", which posts REQ_STOP: a message
\* thread that is waited for has been told to end.
JoinedIsStopped ==
    (api.pc \in {"joining", "unstopped"} /\ msgThread \in {"get", "handle", "loop"}) => Holds(msgs, "REQ_STOP")

=============================================================================
