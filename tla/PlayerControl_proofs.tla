------------------------ MODULE PlayerControl_proofs ------------------------
(* Proofs about PlayerControl, for every value of its constants.            *)
EXTENDS PlayerControl, TLAPS

-----------------------------------------------------------------------------
(* What the message queue operators return.                                 *)

LEMMA MsgTypes ==
    /\ Blank \in Messages
    /\ \A w \in Requests \cup Events \cup {"REQ_STOP", "BLANK"} : Simple(w) \in Messages
    /\ \A s \in States : Changed(s) \in Messages
BY DEF Messages, Simple, Changed, Blank, Msg

LEMMA PutType ==
    ASSUME NEW q \in Seq(Messages), NEW m \in Messages, NEW a \in BOOLEAN
    PROVE  Put(q, a, m) \in Seq(Messages)
BY DEF Put

LEMMA RemoveType ==
    ASSUME NEW q \in Seq(Messages), NEW a \in BOOLEAN, NEW w
    PROVE  Remove(q, a, w) \in Seq(Messages)
<1>1. Blank \in Messages
  BY MsgTypes
<1>2. [i \in 1..Len(q) |-> IF q[i].what = w THEN Blank ELSE q[i]] \in Seq(Messages)
  BY <1>1
<1>3. QED
  BY <1>2 DEF Remove

LEMMA RestType ==
    ASSUME NEW q \in Seq(Messages), NEW i \in 1..Len(q)
    PROVE  Rest(q, i) \in Seq(Messages)
BY DEF Rest

LEMMA AnnounceType ==
    ASSUME NEW q \in Seq(Messages), NEW old, NEW new \in States, aborted \in BOOLEAN
    PROVE  Announce(q, old, new) \in Seq(Messages)
BY PutType, MsgTypes DEF Announce

-----------------------------------------------------------------------------
(* The records of the model, built and updated.                             *)

LEMMA RecordTypes ==
    /\ NewPlayer \in Players
    /\ NoStream \in Streams /\ NewStream \in Streams
    /\ IdleApi \in Apis
    /\ \A f \in Fences : WaitOn(f) \in Apis
    /\ \A o \in {"call", "stop", "reset", "release"}, p \in ApiPcs :
          [IdleApi EXCEPT !.op = o, !.pc = p] \in Apis
BY ConfigAssumption DEF NewPlayer, Players, States, NoStream, NewStream, Streams, Phases,
   IdleApi, WaitOn, Apis, ApiPcs, Fences

LEMMA PlayerUpdates ==
    ASSUME NEW m \in Players, NEW s \in States
    PROVE  /\ m.state \in States /\ m.restart \in BOOLEAN /\ m.from_beginning \in BOOLEAN
           /\ [m EXCEPT !.state = s] \in Players
           /\ [m EXCEPT !.from_beginning = FALSE] \in Players
           /\ [m EXCEPT !.restart = FALSE, !.from_beginning = FALSE] \in Players
           /\ [state |-> s, restart |-> TRUE, from_beginning |-> TRUE] \in Players
BY DEF Players

LEMMA ApiUpdates ==
    ASSUME NEW a \in Apis, NEW p \in ApiPcs
    PROVE  [a EXCEPT !.pc = p] \in Apis /\ [a EXCEPT !.woken = TRUE] \in Apis
BY DEF Apis

LEMMA StreamUpdates ==
    ASSUME NEW i \in Streams, NEW b \in BOOLEAN
    PROVE  /\ Paused(i, b) \in Streams
           /\ [Paused(i, b) EXCEPT !.abort = TRUE] \in Streams
           /\ [Paused(i, b) EXCEPT !.phase = "running", !.completed = TRUE] \in Streams
           /\ [i EXCEPT !.single_play = b] \in Streams
           /\ [i EXCEPT !.seek_req = b] \in Streams
           /\ [i EXCEPT !.prepared = TRUE] \in Streams
           /\ [i EXCEPT !.step = FALSE] \in Streams
           /\ [i EXCEPT !.failed = TRUE] \in Streams
           /\ i.single_play \in BOOLEAN /\ i.pause_req \in BOOLEAN /\ i.seek_req \in BOOLEAN
           /\ i.step \in BOOLEAN
BY DEF Paused, Streams, Phases

-----------------------------------------------------------------------------
(* Type correctness.                                                        *)

LEMMA TypeInit == Init => TypeOK
<1>1. NoSignal \in [Fences -> BOOLEAN] /\ "IDLE" \in States
  BY DEF NoSignal, States
<1>2. <<>> \in Seq(Messages) /\ 0 \in Nat
  OBVIOUS
<1>3. QED
  BY <1>1, <1>2, MsgTypes, RecordTypes DEF Init, TypeOK

LEMMA TypeApp == TypeOK /\ AppNext => TypeOK'
<1> SUFFICES ASSUME TypeOK, AppNext PROVE TypeOK'
  OBVIOUS
<1> USE DEF TypeOK, streamVars, threadVars, clientVars, bounds
<1>0. /\ {"INITIALIZED", "ASYNC_PREPARING", "STOPPED"} \subseteq States
      /\ {"prepare", "start", "pause", "stop"} \subseteq Fences
      /\ "stop_l" \in ApiPcs
      /\ calls' \in Nat /\ streams' \in Nat
  <2>1. calls \in Nat /\ streams \in Nat
    OBVIOUS
  <2>2. calls' = calls + 1
    BY DEF AppNext, SetDataSource, Prepare, PrepareFails, Start, Pause, SeekTo, Stop, Shutdown, Call
  <2>3. streams' = streams \/ streams' = streams + 1
    BY DEF AppNext, SetDataSource, Prepare, PrepareFails, Start, Pause, SeekTo, Stop, Shutdown
  <2>4. calls' \in Nat /\ streams' \in Nat
    BY ONLY <2>1, <2>2, <2>3
  <2>5. QED
    BY <2>4 DEF States, Fences, ApiPcs
<1>1. CASE SetDataSource
  BY <1>0, <1>1, AnnounceType, PlayerUpdates DEF SetDataSource
<1>2. ASSUME NEW sync \in BOOLEAN, Prepare(sync) PROVE TypeOK'
  <2>1. msgs' \in Seq(Messages)
    BY <1>0, <1>2, MsgTypes DEF Prepare
  <2>2. QED
    BY <1>0, <1>2, <2>1, RecordTypes, PlayerUpdates DEF Prepare
<1>3. CASE PrepareFails
  <2>1. msgs' \in Seq(Messages)
    BY <1>0, <1>3, MsgTypes DEF PrepareFails, Events
  <2>2. QED
    BY <1>0, <1>3, <2>1, PlayerUpdates DEF PrepareFails
<1>4. CASE Start
  <2>1. msgs' \in Seq(Messages)
    BY <1>4, MsgTypes, PutType, RemoveType DEF Start, Replace, Requests
  <2>2. QED
    BY <1>0, <1>4, <2>1, RecordTypes DEF Start
<1>5. CASE Pause
  <2>1. msgs' \in Seq(Messages)
    BY <1>5, MsgTypes, PutType, RemoveType DEF Pause, Replace, Requests
  <2>2. QED
    BY <1>0, <1>5, <2>1, RecordTypes DEF Pause
<1>6. CASE SeekTo
  <2>1. msgs' \in Seq(Messages)
    BY <1>6, MsgTypes, PutType, RemoveType DEF SeekTo, Requests
  <2>2. QED
    BY <1>0, <1>6, <2>1 DEF SeekTo
<1>7. CASE Stop
  <2>1. msgs' \in Seq(Messages)
    BY <1>0, <1>7, AnnounceType, RemoveType DEF Stop
  <2>2. QED
    BY <1>0, <1>7, <2>1, RecordTypes, PlayerUpdates DEF Stop
<1>8. ASSUME NEW op \in {"reset", "release"}, Shutdown(op) PROVE TypeOK'
  BY <1>0, <1>8, RecordTypes DEF Shutdown
<1>9. QED
  BY <1>1, <1>2, <1>3, <1>4, <1>5, <1>6, <1>7, <1>8 DEF AppNext

LEMMA TypeWait == TypeOK /\ AppWait => TypeOK'
<1> SUFFICES ASSUME TypeOK, AppWait PROVE TypeOK'
  OBVIOUS
<1> USE DEF TypeOK, streamVars, threadVars, clientVars, bounds
<1>0. "stop" \in Fences /\ {"asleep", "closing", "joining", "unstopped", "finish", "gone"} \subseteq ApiPcs
  BY DEF Fences, ApiPcs
<1>1. CASE WaitCheck
  BY <1>0, <1>1, RecordTypes, ApiUpdates DEF WaitCheck
<1>2. CASE WaitReturn
  BY <1>2, RecordTypes DEF WaitReturn
<1>3. CASE StopStream
  <2>1. msgs' \in Seq(Messages)
    BY <1>3, MsgTypes, PutType, RemoveType DEF StopStream, PostStop
  <2>2. QED
    BY <1>0, <1>3, <2>1, ApiUpdates, StreamUpdates DEF StopStream
<1>4. CASE StopNothing
  BY <1>0, <1>4, ApiUpdates DEF StopNothing
<1>5. CASE CloseStream
  BY <1>0, <1>5, ApiUpdates, RecordTypes DEF CloseStream
<1>6. CASE JoinMsgThread
  BY <1>0, <1>6, ApiUpdates DEF JoinMsgThread
<1>7. CASE FinishStop
  BY <1>0, <1>7, RecordTypes DEF FinishStop
<1>8. CASE FinishReset
  <2>1. NoSignal \in [Fences -> BOOLEAN] /\ <<>> \in Seq(Messages)
    BY DEF NoSignal
  <2>2. QED
    BY <1>8, <2>1, RecordTypes DEF FinishReset
<1>9. CASE FinishRelease
  <2>1. <<>> \in Seq(Messages)
    OBVIOUS
  <2>2. QED
    BY <1>0, <1>9, <2>1, ApiUpdates DEF FinishRelease
<1>10. QED
  BY <1>1, <1>2, <1>3, <1>4, <1>5, <1>6, <1>7, <1>8, <1>9 DEF AppWait

LEMMA TypeMsg == TypeOK /\ MsgNext => TypeOK'
<1> SUFFICES ASSUME TypeOK, MsgNext PROVE TypeOK'
  OBVIOUS
<1> USE DEF TypeOK, streamVars, threadVars, clientVars, bounds
<1>0. /\ {"PREPARED", "STARTED", "PAUSED", "COMPLETED", "ERROR"} \subseteq States
      /\ mp.state \in States
  BY PlayerUpdates DEF States
<1>1. CASE GetMsg
  <2>1. PICK i \in 1..Len(msgs) : msgs' = Rest(msgs, i) /\ hand' = msgs[i]
    BY <1>1 DEF GetMsg
  <2>2. msgs' \in Seq(Messages) /\ hand' \in Messages
    BY <2>1, RestType
  <2>3. QED
    BY <1>1, <2>2 DEF GetMsg
<1>2. CASE HandlePrepared
  <2>1. msgs' \in Seq(Messages)
    BY <1>0, <1>2, AnnounceType DEF HandlePrepared
  <2>2. is' \in Streams /\ auto_resume' \in BOOLEAN
    BY <1>2, StreamUpdates DEF HandlePrepared
  <2>3. mp' \in Players
    BY <1>0, <1>2, PlayerUpdates DEF HandlePrepared
  <2>4. QED
    BY <1>2, <2>1, <2>2, <2>3 DEF HandlePrepared, Handle
<1>3. CASE HandleWithoutStream
  BY <1>3 DEF HandleWithoutStream, Handle
<1>4. CASE HandleCompleted
  BY <1>0, <1>4, AnnounceType, PlayerUpdates DEF HandleCompleted, Handle
<1>5. CASE HandleSeekComplete
  BY <1>5 DEF HandleSeekComplete, Handle
<1>6. CASE HandleError
  BY <1>0, <1>6, AnnounceType, PlayerUpdates DEF HandleError, Handle
<1>7. CASE HandleEarly
  BY <1>7, StreamUpdates DEF HandleEarly, Handle
<1>8. CASE HandleStart
  <2>0. Announce(msgs, mp.state, "STARTED") \in Seq(Messages)
    BY <1>0, AnnounceType
  <2>1. msgs' \in Seq(Messages)
    <3>1. msgs' = msgs \/ msgs' = Announce(msgs, mp.state, "STARTED")
      BY <1>8, Zenon DEF HandleStart
    <3>2. QED
      BY <2>0, <3>1
  <2>2. is' \in Streams /\ auto_resume' \in BOOLEAN
    BY <1>8, StreamUpdates DEF HandleStart
  <2>3. mp' \in Players
    <3> DEFINE played == [mp EXCEPT !.restart = FALSE, !.from_beginning = FALSE]
    <3>1. mp' \in {mp, played, [played EXCEPT !.state = "STARTED"]}
      BY <1>8, Zenon DEF HandleStart
    <3>2. played \in Players
      BY <1>0, PlayerUpdates
    <3>3. [played EXCEPT !.state = "STARTED"] \in Players
      BY <1>0, <3>2, PlayerUpdates
    <3>4. QED
      BY <3>1, <3>2, <3>3
  <2>4. QED
    BY <1>8, <2>1, <2>2, <2>3 DEF HandleStart, Handle
<1>9. CASE HandlePause
  <2>0. Announce(msgs, mp.state, "PAUSED") \in Seq(Messages)
    BY <1>0, AnnounceType
  <2>1. msgs' \in Seq(Messages)
    <3>1. msgs' = msgs \/ msgs' = Announce(msgs, mp.state, "PAUSED")
      BY <1>9, Zenon DEF HandlePause
    <3>2. QED
      BY <2>0, <3>1
  <2>2. is' \in Streams /\ auto_resume' \in BOOLEAN
    BY <1>9, StreamUpdates DEF HandlePause
  <2>3. mp' \in Players
    BY <1>0, <1>9, PlayerUpdates DEF HandlePause
  <2>4. QED
    BY <1>9, <2>1, <2>2, <2>3 DEF HandlePause, Handle
<1>10. CASE HandleSeek
  <2>1. msgs' \in Seq(Messages)
    BY <1>10, MsgTypes, PutType DEF HandleSeek, Events
  <2>2. is' \in Streams /\ auto_resume' \in BOOLEAN /\ seek_at_start' \in BOOLEAN
    BY <1>10, StreamUpdates DEF HandleSeek
  <2>3. mp' \in Players
    BY <1>0, <1>10, PlayerUpdates DEF HandleSeek
  <2>4. QED
    BY <1>10, <2>1, <2>2, <2>3 DEF HandleSeek, Handle
<1>11. CASE HandleRefused
  BY <1>11 DEF HandleRefused, Handle
<1>12. ASSUME NEW S, NEW R, Move(S, R)
       PROVE  fences' \in [Fences -> BOOLEAN] /\ api' \in Apis
  <2>1. "idle" \in ApiPcs
    BY DEF ApiPcs
  <2>2. QED
    BY <1>12, <2>1, ApiUpdates DEF Move
<1>13. CASE LoopError
  BY <1>12, <1>13, MsgTypes DEF LoopError, Loop
<1>14. CASE LoopEvent
  BY <1>14, MsgTypes DEF LoopEvent, Loop
<1>15. CASE LoopChange
  <2>1. hand.arg \in States
    BY <1>15 DEF LoopChange, Loop, Messages, Simple, Changed, Msg, Requests, Events
  <2>2. QED
    BY <1>12, <1>15, <2>1, MsgTypes DEF LoopChange, Loop
<1>16. QED
  BY <1>1, <1>2, <1>3, <1>4, <1>5, <1>6, <1>7, <1>8, <1>9, <1>10, <1>11, <1>13, <1>14, <1>15
     DEF MsgNext

LEMMA TypeStream == TypeOK /\ StreamNext => TypeOK'
<1> SUFFICES ASSUME TypeOK, StreamNext PROVE TypeOK'
  OBVIOUS
<1>1. \A w \in Requests \cup Events : Put(msgs, aborted, Simple(w)) \in Seq(Messages)
  BY MsgTypes, PutType DEF TypeOK
<1>2. ASSUME StreamStep, is' \in Streams, auto_resume' \in BOOLEAN,
             UNCHANGED msgs \/ \E w \in Requests \cup Events : Post(w)
      PROVE  TypeOK'
  BY <1>1, <1>2 DEF TypeOK, StreamStep, Post, threadVars, clientVars, bounds
<1>3. is \in Streams /\ auto_resume \in BOOLEAN /\ seek_at_start \in BOOLEAN
  BY DEF TypeOK
<1>4. CASE OpenFails
  BY <1>2, <1>3, <1>4 DEF OpenFails, Streams, Phases, Events
<1>5. CASE Opened
  <2>1. PICK av \in Media :
          /\ is' = [(IF StartOnPrepared THEN is ELSE Paused(is, TRUE)) EXCEPT
                       !.phase = "opened", !.av = av, !.prepared = (av = "audio")]
          /\ IF av = "audio" THEN Post("PREPARED") ELSE UNCHANGED msgs
    BY <1>5 DEF Opened
  <2>2. ASSUME NEW i \in Streams
        PROVE  [i EXCEPT !.phase = "opened", !.av = av, !.prepared = (av = "audio")] \in Streams
    BY ConfigAssumption DEF Streams, Phases
  <2>3. is' \in Streams
    BY <1>3, <2>1, <2>2, StreamUpdates
  <2>4. auto_resume' \in BOOLEAN /\ StreamStep
    BY <1>3, <1>5, ConfigAssumption DEF Opened
  <2>5. QED
    BY <1>2, <2>1, <2>3, <2>4 DEF Events
<1>6. CASE FirstFrame
  BY <1>2, <1>3, <1>6, StreamUpdates DEF FirstFrame, Events
<1>7. CASE EnterLoop
  <2>1. is' \in Streams
    BY <1>3, <1>7, ConfigAssumption DEF EnterLoop, Streams, Phases
  <2>2. QED
    BY <1>2, <1>7, <2>1 DEF EnterLoop, Requests
<1>8. CASE StepDone
  BY <1>2, <1>3, <1>8, StreamUpdates DEF StepDone
<1>9. CASE DecoderFails
  BY <1>2, <1>3, <1>9, StreamUpdates DEF DecoderFails, Events
<1>10. CASE SeekBegin
  BY <1>2, <1>3, <1>10 DEF SeekBegin, Streams, Phases
<1>11. CASE SeekEnd
  <2>1. is' \in Streams
    BY <1>3, <1>11 DEF SeekEnd, Streams, Phases
  <2>2. QED
    BY <1>2, <1>11, <2>1 DEF SeekEnd, Events
<1>12. CASE CompleteBegin
  BY <1>2, <1>3, <1>12 DEF CompleteBegin, Streams, Phases
<1>13. CASE CompleteEnd
  BY <1>2, <1>3, <1>13, StreamUpdates DEF CompleteEnd, Events
<1>14. CASE ReadExits
  BY <1>2, <1>3, <1>14 DEF ReadExits, Streams, Phases
<1>15. QED
  BY <1>4, <1>5, <1>6, <1>7, <1>8, <1>9, <1>10, <1>11, <1>12, <1>13, <1>14 DEF StreamNext

\* Every behaviour of the control plane keeps every variable in its domain.
THEOREM TypeCorrect == Spec => []TypeOK
<1>1. TypeOK /\ UNCHANGED vars => TypeOK'
  BY DEF TypeOK, vars
<1>2. TypeOK /\ [Next]_vars => TypeOK'
  BY <1>1, TypeApp, TypeWait, TypeMsg, TypeStream DEF Next
<1>3. QED
  BY TypeInit, <1>2, PTL DEF Spec

-----------------------------------------------------------------------------
(* Sessions: who is alive in which state of the player.                     *)

Running == msgThread \in {"get", "handle", "loop"}
Quiet   == is.phase = "null" /\ msgThread = "none"

\* The inductive invariant.  A session leaves neither stream nor thread behind:
\* the calls that end one pass through joining and finish, where the stream
\* and then the message thread are known to be gone.
SessionInv ==
    /\ Running => ~aborted
    /\ mp.state \in {"IDLE", "INITIALIZED"} => Quiet
    /\ mp.state = "STOPPED" => Quiet \/ Stopping
    /\ api.pc \in {"joining", "unstopped"} => is.phase = "null"
    /\ api.pc \in {"finish", "gone"} => Quiet

LEMMA SessionInit == Init => SessionInv
BY DEF Init, SessionInv, Running, Quiet, NewPlayer, NoStream, IdleApi

LEMMA SessionApp == TypeOK /\ SessionInv /\ AppNext => SessionInv'
<1> SUFFICES ASSUME TypeOK, SessionInv, AppNext PROVE SessionInv'
  OBVIOUS
<1> USE DEF SessionInv, Running, Quiet, Call, At, streamVars, threadVars
<1>1. api.pc = "idle"
  BY DEF AppNext, SetDataSource, Prepare, PrepareFails, Start, Pause, SeekTo, Stop, Shutdown
<1>2. mp \in Players /\ \A s \in States : [mp EXCEPT !.state = s].state = s
  BY DEF TypeOK, Players
<1>3. CASE SetDataSource
  BY <1>1, <1>2, <1>3 DEF SetDataSource, States
<1>4. ASSUME NEW sync \in BOOLEAN, Prepare(sync) PROVE SessionInv'
  <2>1. mp'.state = "ASYNC_PREPARING" /\ ~aborted'
    BY <1>2, <1>4 DEF Prepare, States
  <2>2. api'.pc \in {"idle", "check"}
    BY <1>1, <1>4 DEF Prepare, WaitOn
  <2>3. QED
    BY <2>1, <2>2
<1>5. CASE PrepareFails
  BY <1>1, <1>2, <1>5 DEF PrepareFails, States
<1>6. CASE Start \/ Pause \/ SeekTo
  BY <1>1, <1>6 DEF Start, Pause, SeekTo, WaitOn, Stopping
<1>7. CASE Stop
  <2>1. mp'.state = "STOPPED"
    BY <1>2, <1>7 DEF Stop, States
  <2>2. api'.pc = "stop_l"
    BY <1>7 DEF Stop, IdleApi
  <2>3. QED
    BY <1>7, <2>1, <2>2 DEF Stop, Stopping
<1>8. ASSUME NEW op \in {"reset", "release"}, Shutdown(op) PROVE SessionInv'
  <2>1. api'.pc = "stop_l"
    BY <1>8 DEF Shutdown, IdleApi
  <2>2. QED
    BY <1>8, <2>1 DEF Shutdown, Stopping
<1>9. QED
  BY <1>3, <1>4, <1>5, <1>6, <1>7, <1>8 DEF AppNext

LEMMA SessionWait == TypeOK /\ SessionInv /\ AppWait => SessionInv'
<1> SUFFICES ASSUME TypeOK, SessionInv, AppWait PROVE SessionInv'
  OBVIOUS
<1> USE DEF SessionInv, Running, Quiet, Stopping, At, streamVars, threadVars
<1>1. api \in Apis /\ \A p \in ApiPcs : [api EXCEPT !.pc = p].pc = p
  BY DEF TypeOK, Apis
<1>2. CASE WaitCheck
  BY <1>1, <1>2 DEF WaitCheck, IdleApi, ApiPcs
<1>3. CASE WaitReturn
  BY <1>3 DEF WaitReturn, IdleApi
<1>4. CASE StopStream
  <2>1. is'.phase = is.phase /\ api'.pc = "closing"
    BY <1>1, <1>4 DEF StopStream, Paused, ApiPcs, TypeOK, Streams
  <2>2. QED
    BY <1>4, <2>1 DEF StopStream
<1>5. CASE StopNothing
  BY <1>1, <1>5 DEF StopNothing, ApiPcs
<1>6. CASE CloseStream
  BY <1>1, <1>6 DEF CloseStream, ApiPcs, NoStream
<1>7. CASE JoinMsgThread
  BY <1>1, <1>7 DEF JoinMsgThread, ApiPcs
<1>8. CASE FinishStop
  BY <1>8 DEF FinishStop, WaitOn
<1>9. CASE FinishReset
  BY <1>9 DEF FinishReset, NewPlayer, IdleApi
<1>10. CASE FinishRelease
  BY <1>1, <1>10 DEF FinishRelease, ApiPcs
<1>11. QED
  BY <1>2, <1>3, <1>4, <1>5, <1>6, <1>7, <1>8, <1>9, <1>10 DEF AppWait

\* What the message thread does is confined to the time it runs, leaves the
\* stream where there is none, and never stops the player.
LEMMA MsgFrame ==
    ASSUME TypeOK, MsgNext
    PROVE  /\ Running
           /\ Running' => (aborted' = aborted \/ ~aborted')
           /\ msgThread' # "none"
           /\ is.phase = "null" => is'.phase = "null"
           /\ api'.pc = api.pc
           /\ mp'.state = mp.state \/ mp'.state \notin {"IDLE", "INITIALIZED", "STOPPED"}
<1> USE DEF Running, streamVars, threadVars
<1>1. mp \in Players /\ is \in Streams /\ api \in Apis
  BY DEF TypeOK
<1>2. \A s \in States : [mp EXCEPT !.state = s].state = s
  BY <1>1 DEF Players
<1>3. ASSUME NEW what, Handle(what)
      PROVE  msgThread = "handle" /\ msgThread' \in {"get", "loop"} /\ UNCHANGED <<aborted, api>>
  BY <1>3 DEF Handle
<1>4. ASSUME NEW what, Loop(what)
      PROVE  msgThread = "loop" /\ msgThread' = "get" /\ UNCHANGED <<aborted, mp, is>>
  BY <1>4 DEF Loop
<1>5. ASSUME NEW S, NEW R, Move(S, R) PROVE api'.pc = api.pc
  BY <1>1, <1>5 DEF Move, Apis
<1>6. CASE GetMsg
  <2>1. PICK i \in 1..Len(msgs) :
          /\ aborted' = (msgs[i].what = "REQ_STOP")
          /\ msgThread' = IF msgs[i].what = "REQ_STOP" THEN "exited"
                          ELSE IF msgs[i].what = "STATE_CHANGED" THEN "loop"
                          ELSE "handle"
    BY <1>6 DEF GetMsg
  <2>2. QED
    BY <1>6, <2>1 DEF GetMsg
<1>7. CASE HandlePrepared
  <2>1. mp'.state \in {"STARTED", "PAUSED"}
    BY <1>2, <1>7 DEF HandlePrepared, States
  <2>2. QED
    BY <1>3, <1>7, <2>1 DEF HandlePrepared
<1>8. CASE HandleWithoutStream
  BY <1>3, <1>8 DEF HandleWithoutStream
<1>9. CASE HandleCompleted
  BY <1>3, <1>9 DEF HandleCompleted
<1>10. CASE HandleSeekComplete
  BY <1>3, <1>10 DEF HandleSeekComplete
<1>11. CASE HandleError
  BY <1>2, <1>3, <1>11 DEF HandleError, States
<1>12. CASE HandleEarly
  BY <1>3, <1>12 DEF HandleEarly
<1>13. CASE HandleStart
  <2> DEFINE played == [mp EXCEPT !.restart = FALSE, !.from_beginning = FALSE]
  <2>1. played \in Players /\ played.state = mp.state
    BY <1>1 DEF Players
  <2>2. [played EXCEPT !.state = "STARTED"].state = "STARTED"
    BY <2>1 DEF Players
  <2>3. mp' \in {mp, played, [played EXCEPT !.state = "STARTED"]}
    BY <1>13, Zenon DEF HandleStart
  <2>4. is.phase = "null" => is' = is
    BY <1>13, Zenon DEF HandleStart
  <2>5. QED
    BY <1>3, <1>13, <2>1, <2>2, <2>3, <2>4 DEF HandleStart
<1>14. CASE HandlePause
  <2>1. mp' = mp \/ mp' = [mp EXCEPT !.state = "PAUSED"]
    BY <1>14, Zenon DEF HandlePause
  <2>2. is.phase = "null" => is' = is
    BY <1>14, Zenon DEF HandlePause
  <2>3. QED
    BY <1>2, <1>3, <1>14, <2>1, <2>2 DEF HandlePause, States
<1>15. CASE HandleSeek
  <2>1. mp'.state = mp.state
    BY <1>1, <1>15 DEF HandleSeek, Players
  <2>2. QED
    BY <1>3, <1>15, <2>1 DEF HandleSeek
<1>16. CASE HandleRefused
  BY <1>3, <1>16 DEF HandleRefused
<1>17. CASE LoopError
  BY <1>4, <1>5, <1>17 DEF LoopError
<1>18. CASE LoopEvent
  BY <1>4, <1>18 DEF LoopEvent
<1>19. CASE LoopChange
  BY <1>4, <1>5, <1>19 DEF LoopChange
<1>20. QED
  BY <1>6, <1>7, <1>8, <1>9, <1>10, <1>11, <1>12, <1>13, <1>14, <1>15, <1>16, <1>17, <1>18, <1>19
     DEF MsgNext

LEMMA SessionMsg == TypeOK /\ SessionInv /\ MsgNext => SessionInv'
BY MsgFrame DEF SessionInv, Running, Quiet, Stopping

LEMMA SessionStream == TypeOK /\ SessionInv /\ StreamNext => SessionInv'
<1> SUFFICES ASSUME TypeOK, SessionInv, StreamNext PROVE SessionInv'
  OBVIOUS
<1>1. StreamStep
  BY DEF StreamNext, OpenFails, Opened, FirstFrame, EnterLoop, StepDone,
     DecoderFails, SeekBegin, SeekEnd, CompleteBegin, CompleteEnd, ReadExits
<1>2. is \in Streams
  BY DEF TypeOK
<1>3. is.phase = "null" => is'.phase = "null"
  BY <1>2 DEF StreamNext, OpenFails, Opened, FirstFrame, EnterLoop, StepDone,
     DecoderFails, SeekBegin, SeekEnd, CompleteBegin, CompleteEnd, ReadExits, Streams
<1>4. QED
  BY <1>1, <1>3 DEF StreamStep, threadVars, SessionInv, Running, Quiet, Stopping

LEMMA SessionInductive == TypeOK /\ SessionInv /\ [Next]_vars => SessionInv'
<1>1. SessionInv /\ UNCHANGED vars => SessionInv'
  BY DEF SessionInv, Running, Quiet, Stopping, vars
<1>2. QED
  BY <1>1, SessionApp, SessionWait, SessionMsg, SessionStream DEF Next

THEOREM SessionsEnd == Spec => []SessionInv
<1>1. QED
  BY SessionInit, SessionInductive, TypeCorrect, PTL DEF Spec

\* No message is lost to a running message thread: its queue is open.
THEOREM QueueOpen == Spec => []AbortOnlyAfterExit
<1>1. SessionInv => AbortOnlyAfterExit
  BY DEF SessionInv, Running, AbortOnlyAfterExit
<1>2. QED
  BY <1>1, SessionsEnd, PTL

\* The assertion of ffp_prepare_async_l holds: when prepare may be called,
\* neither a stream nor a message thread of an earlier session is left.
THEOREM CleanPrepare == Spec => []PrepareFindsNothing
<1>1. SessionInv => PrepareFindsNothing
  BY DEF SessionInv, Quiet, PrepareFindsNothing, Preparable, Stopping
<1>2. QED
  BY <1>1, SessionsEnd, PTL

-----------------------------------------------------------------------------
(* What the application is told converges to the state of the player.       *)

\* The newest state change of q is s, or q has none and v holds.
Tracks(q, s, v) == LastChange(q, s) \/ (NoChange(q) /\ v)

\* The state change in the hands of the message thread, or else the last one
\* it has delivered, is s.
Delivered(s) ==
    IF msgThread = "loop" /\ hand.what = "STATE_CHANGED" THEN hand = Changed(s) ELSE seen = s

LEMMA ChangePut ==
    ASSUME NEW q \in Seq(Messages), NEW s \in States
    PROVE  LastChange(Append(q, Changed(s)), s)
BY DEF LastChange

LEMMA OtherAppend ==
    ASSUME NEW q \in Seq(Messages), NEW m \in Messages, m.what # "STATE_CHANGED", NEW s, NEW v,
           Tracks(q, s, v)
    PROVE  Tracks(Append(q, m), s, v)
<1> DEFINE r == Append(q, m)
<1>1. /\ Len(q) \in Nat /\ Len(r) = Len(q) + 1
      /\ \A i \in 1..Len(q) : r[i] = q[i]
      /\ r[Len(q) + 1] = m
  OBVIOUS
<1>2. CASE LastChange(q, s)
  <2>1. PICK i \in 1..Len(q) : q[i] = Changed(s) /\ \A j \in (i + 1)..Len(q) : q[j].what # "STATE_CHANGED"
    BY <1>2 DEF LastChange
  <2> HIDE DEF r
  <2>2. i \in 1..Len(r) /\ r[i] = Changed(s) /\ \A j \in (i + 1)..Len(r) : r[j].what # "STATE_CHANGED"
    BY <1>1, <2>1
  <2>3. LastChange(r, s)
    BY <2>2 DEF LastChange
  <2>4. QED
    BY <2>3 DEF Tracks, r
<1>3. CASE NoChange(q) /\ v
  <2> HIDE DEF r
  <2>1. NoChange(r)
    BY <1>1, <1>3 DEF NoChange, Holds
  <2>2. QED
    BY <1>3, <2>1 DEF Tracks, r
<1>4. QED
  BY <1>2, <1>3 DEF Tracks

LEMMA OtherPut ==
    ASSUME NEW q \in Seq(Messages), NEW m \in Messages, m.what # "STATE_CHANGED",
           NEW a \in BOOLEAN, NEW s, NEW v, Tracks(q, s, v)
    PROVE  Tracks(Put(q, a, m), s, v)
BY OtherAppend DEF Put

LEMMA OtherRemove ==
    ASSUME NEW q \in Seq(Messages), NEW w, w # "STATE_CHANGED",
           NEW a \in BOOLEAN, NEW s, NEW v, Tracks(q, s, v)
    PROVE  Tracks(Remove(q, a, w), s, v)
<1> DEFINE r == [i \in 1..Len(q) |-> IF q[i].what = w THEN Blank ELSE q[i]]
<1>1. /\ Len(q) \in Nat /\ Len(r) = Len(q)
      /\ \A i \in 1..Len(q) : r[i] = IF q[i].what = w THEN Blank ELSE q[i]
  OBVIOUS
<1>2. Blank.what # "STATE_CHANGED" /\ Changed(s).what = "STATE_CHANGED"
  BY DEF Blank, Changed, Msg
<1> HIDE DEF r
<1>3. LastChange(q, s) => LastChange(r, s)
  BY <1>1, <1>2 DEF LastChange
<1>4. NoChange(q) => NoChange(r)
  BY <1>1, <1>2 DEF NoChange, Holds
<1>5. Tracks(r, s, v)
  BY <1>3, <1>4 DEF Tracks
<1>6. QED
  BY <1>5 DEF Remove, r

\* Taking the first message out: if it was the last change, it is in hand now.
LEMMA RestTracks ==
    ASSUME NEW q \in Seq(Messages), NEW i, IsFirst(q, i), NEW s, NEW v, Tracks(q, s, v)
    PROVE  IF q[i].what = "STATE_CHANGED" THEN Tracks(Rest(q, i), s, q[i] = Changed(s))
           ELSE Tracks(Rest(q, i), s, v)
<1> DEFINE r == Rest(q, i)
<1>1. i \in 1..Len(q) /\ Len(q) \in Nat /\ \A j \in 1..(i - 1) : q[j].what # "STATE_CHANGED"
  BY DEF IsFirst, Blank, Msg
<1>2. Len(r) = Len(q) - i /\ \A k \in 1..Len(r) : r[k] = q[k + i]
  BY <1>1 DEF Rest
<1>3. Changed(s).what = "STATE_CHANGED"
  BY DEF Changed, Msg
<1> HIDE DEF r
<1>4. NoChange(q) => NoChange(r) /\ q[i].what # "STATE_CHANGED"
  BY <1>1, <1>2 DEF NoChange, Holds
<1>5. ASSUME LastChange(q, s) PROVE LastChange(r, s) \/ (NoChange(r) /\ q[i] = Changed(s))
  <2>1. PICK k \in 1..Len(q) : q[k] = Changed(s) /\ \A j \in (k + 1)..Len(q) : q[j].what # "STATE_CHANGED"
    BY <1>5 DEF LastChange
  <2>2. k >= i
    BY <1>1, <1>3, <2>1
  <2>3. CASE k = i
    <3>1. NoChange(r)
      BY <1>1, <1>2, <2>1, <2>3 DEF NoChange, Holds
    <3>2. QED
      BY <2>1, <2>3, <3>1
  <2>4. CASE k > i
    <3>1. k - i \in 1..Len(r) /\ r[k - i] = Changed(s)
      BY <1>1, <1>2, <2>1, <2>4
    <3>2. ASSUME NEW j \in (k - i + 1)..Len(r) PROVE r[j].what # "STATE_CHANGED"
      <4>1. j \in 1..Len(r) /\ j + i \in (k + 1)..Len(q)
        BY <1>1, <1>2, <2>1, <2>4
      <4>2. QED
        BY <1>2, <2>1, <4>1
    <3>3. QED
      BY <3>1, <3>2 DEF LastChange
  <2>5. QED
    BY <1>1, <2>2, <2>3, <2>4
<1>6. QED
  BY <1>3, <1>4, <1>5 DEF Tracks, r

LEMMA AnnounceTracks ==
    ASSUME NEW q \in Seq(Messages), NEW old, NEW new \in States, NEW v,
           ~aborted, Tracks(q, old, v)
    PROVE  Tracks(Announce(q, old, new), new, old = new /\ v)
BY ChangePut DEF Announce, Put, Tracks

LEMMA NewestTracks == \A s : IsNewest(s) <=> Tracks(msgs, s, Delivered(s))
BY DEF IsNewest, Tracks, Delivered

\* The invariant that makes ViewConverges inductive is the type invariant.
ViewInv == ~aborted => Tracks(msgs, mp.state, Delivered(mp.state))

LEMMA SimpleKinds ==
    /\ \A w : Simple(w).what = w
    /\ \A s : Changed(s).what = "STATE_CHANGED"
BY DEF Simple, Changed, Msg

\* A step that announces a new state after q, a queue with the changes of msgs.
LEMMA ViewAnnounce ==
    ASSUME TypeOK, ViewInv, NEW q \in Seq(Messages), NEW new \in States,
           \A v : Tracks(msgs, mp.state, v) => Tracks(q, mp.state, v),
           msgs' = Announce(q, mp.state, new), mp'.state = new,
           aborted' = aborted, Delivered(new)' <=> Delivered(new)
    PROVE  ViewInv'
<1>1. ~aborted => Tracks(msgs', new, mp.state = new /\ Delivered(mp.state))
  BY AnnounceTracks DEF ViewInv
<1>2. QED
  BY <1>1 DEF ViewInv, Tracks

\* A step that posts something else after q, and keeps the state.
LEMMA ViewPost ==
    ASSUME TypeOK, ViewInv, NEW q \in Seq(Messages), NEW w \in Requests \cup Events \cup {"REQ_STOP"},
           \A v : Tracks(msgs, mp.state, v) => Tracks(q, mp.state, v),
           msgs' = q \/ msgs' = Put(q, aborted, Simple(w)), mp'.state = mp.state,
           aborted' = aborted, Delivered(mp.state)' <=> Delivered(mp.state)
    PROVE  ViewInv'
<1>1. Simple(w) \in Messages /\ Simple(w).what # "STATE_CHANGED" /\ aborted \in BOOLEAN
  BY MsgTypes, SimpleKinds DEF Requests, Events, TypeOK
<1>2. ~aborted => Tracks(msgs', mp.state, Delivered(mp.state))
  BY <1>1, OtherPut DEF ViewInv
<1>3. QED
  BY <1>2 DEF ViewInv, Tracks

LEMMA ViewApp == TypeOK /\ ViewInv /\ AppNext => ViewInv'
<1> SUFFICES ASSUME TypeOK, ViewInv, AppNext PROVE ViewInv'
  OBVIOUS
<1> USE DEF streamVars, threadVars, clientVars
<1>1. /\ mp \in Players /\ msgs \in Seq(Messages) /\ aborted \in BOOLEAN
      /\ mp.state \in States /\ \A s \in States : [mp EXCEPT !.state = s].state = s
      /\ {"INITIALIZED", "ASYNC_PREPARING", "STOPPED"} \subseteq States
  <2>1. mp \in Players /\ msgs \in Seq(Messages) /\ aborted \in BOOLEAN
    BY DEF TypeOK
  <2>2. mp.state \in States /\ \A s \in States : [mp EXCEPT !.state = s].state = s
    BY <2>1 DEF Players
  <2>3. QED
    BY <2>1, <2>2 DEF States
<1>2. /\ {Simple("REQ_START"), Simple("REQ_PAUSE"), Simple("REQ_SEEK"), Simple("ERROR")} \subseteq Messages
      /\ \A w : Simple(w).what = w
  BY MsgTypes, SimpleKinds DEF Requests, Events
<1>3. \A w \in {"REQ_START", "REQ_PAUSE", "REQ_SEEK"}, q \in Seq(Messages) : \A s, v :
         Tracks(q, s, v) => Tracks(Remove(q, aborted, w), s, v) /\ Remove(q, aborted, w) \in Seq(Messages)
  BY <1>1, OtherRemove, RemoveType
<1>4. CASE SetDataSource
  <2>1. mp'.state = "INITIALIZED" /\ msgs' = Announce(msgs, mp.state, "INITIALIZED")
    BY <1>1, <1>4 DEF SetDataSource
  <2>2. UNCHANGED <<aborted, msgThread, hand, seen>>
    BY <1>4 DEF SetDataSource
  <2>3. Delivered("INITIALIZED")' <=> Delivered("INITIALIZED")
    BY <2>2 DEF Delivered
  <2>4. QED
    BY <1>1, <2>1, <2>2, <2>3, ViewAnnounce
<1>5. CASE Stop
  <2> DEFINE q == Remove(Remove(msgs, aborted, "REQ_START"), aborted, "REQ_PAUSE")
  <2>1. \A v : Tracks(msgs, mp.state, v) => Tracks(q, mp.state, v)
    BY <1>1, <1>3
  <2>2. q \in Seq(Messages)
    BY <1>1, RemoveType
  <2>3. msgs' = Announce(q, mp.state, "STOPPED") /\ mp'.state = "STOPPED"
    BY <1>1, <1>5 DEF Stop
  <2> HIDE DEF q
  <2>4. UNCHANGED <<aborted, msgThread, hand, seen>>
    BY <1>5 DEF Stop
  <2>5. Delivered("STOPPED")' <=> Delivered("STOPPED")
    BY <2>4 DEF Delivered
  <2>6. QED
    BY <1>1, <2>1, <2>2, <2>3, <2>4, <2>5, ViewAnnounce
<1>6. ASSUME NEW sync \in BOOLEAN, Prepare(sync) PROVE ViewInv'
  BY <1>1, <1>6, ChangePut DEF Prepare, ViewInv, Tracks
<1>7. CASE PrepareFails
  <2> DEFINE q == Append(msgs, Changed("ASYNC_PREPARING"))
  <2>1. q \in Seq(Messages) /\ \A v : Tracks(q, "ASYNC_PREPARING", v)
    BY <1>1, ChangePut, MsgTypes DEF Tracks
  <2>2. msgs' = Append(q, Simple("ERROR")) /\ mp'.state = "ASYNC_PREPARING"
    BY <1>1, <1>7, MsgTypes DEF PrepareFails
  <2> HIDE DEF q
  <2>3. QED
    BY <1>2, <2>1, <2>2, OtherAppend DEF ViewInv
<1>8. CASE Start \/ Pause
  <2> DEFINE q == Remove(Remove(msgs, aborted, "REQ_START"), aborted, "REQ_PAUSE")
  <2>1. \A v : Tracks(msgs, mp.state, v) => Tracks(q, mp.state, v)
    BY <1>1, <1>3
  <2>2. q \in Seq(Messages)
    BY <1>1, RemoveType
  <2>3. PICK w \in {"REQ_START", "REQ_PAUSE"} : msgs' = Put(q, aborted, Simple(w))
    BY <1>8 DEF Start, Pause, Replace
  <2>4. UNCHANGED <<mp, aborted, msgThread, hand, seen>>
    BY <1>8 DEF Start, Pause
  <2> HIDE DEF q
  <2>5. QED
    BY <1>1, <1>2, <2>1, <2>2, <2>3, <2>4, OtherPut DEF ViewInv, Delivered
<1>9. CASE SeekTo
  <2>1. UNCHANGED <<mp, aborted, msgThread, hand, seen>>
    BY <1>9 DEF SeekTo
  <2>2. msgs' = msgs \/ msgs' = Put(Remove(msgs, aborted, "REQ_SEEK"), aborted, Simple("REQ_SEEK"))
    BY <1>9 DEF SeekTo
  <2>3. QED
    BY <1>1, <1>2, <1>3, <2>1, <2>2, OtherPut, RemoveType DEF ViewInv, Delivered
<1>10. ASSUME NEW op, Shutdown(op) PROVE ViewInv'
  BY <1>10 DEF Shutdown, ViewInv, Delivered
<1>11. QED
  BY <1>4, <1>5, <1>6, <1>7, <1>8, <1>9, <1>10 DEF AppNext

LEMMA ViewWait == TypeOK /\ ViewInv /\ AppWait => ViewInv'
<1> SUFFICES ASSUME TypeOK, ViewInv, AppWait PROVE ViewInv'
  OBVIOUS
<1> USE DEF streamVars, threadVars, clientVars, ViewInv, Delivered
<1>1. CASE StopStream
  <2>1. UNCHANGED <<mp, aborted, msgThread, hand, seen>>
    BY <1>1 DEF StopStream
  <2>2. msgs \in Seq(Messages) /\ aborted \in BOOLEAN
    BY DEF TypeOK
  <2>3. \A w \in {"REQ_START", "REQ_PAUSE", "REQ_SEEK", "REQ_STOP"}, q \in Seq(Messages) : \A s, v :
           Tracks(q, s, v) => Tracks(Remove(q, aborted, w), s, v) /\ Remove(q, aborted, w) \in Seq(Messages)
    BY <2>2, OtherRemove, RemoveType
  <2> DEFINE r1 == Remove(msgs, aborted, "REQ_START")
             r2 == Remove(r1, aborted, "REQ_PAUSE")
             r3 == Remove(r2, aborted, "REQ_SEEK")
             r4 == Remove(r3, aborted, "REQ_STOP")
  <2>4. r1 \in Seq(Messages) /\ r2 \in Seq(Messages) /\ r3 \in Seq(Messages) /\ r4 \in Seq(Messages)
    BY <2>2, RemoveType
  <2>5. msgs' = Put(r4, aborted, Simple("REQ_STOP"))
    BY <1>1 DEF StopStream, PostStop
  <2> HIDE DEF r1, r2, r3, r4
  <2>6. \A v : Tracks(msgs, mp.state, v) => Tracks(r4, mp.state, v)
    BY <2>2, <2>3, <2>4 DEF r1, r2, r3, r4
  <2>7. Simple("REQ_STOP") \in Messages /\ Simple("REQ_STOP").what # "STATE_CHANGED"
    BY MsgTypes, SimpleKinds
  <2>8. QED
    BY <2>1, <2>2, <2>4, <2>5, <2>6, <2>7, OtherPut
<1>2. CASE WaitCheck \/ WaitReturn \/ StopNothing \/ CloseStream
  BY <1>2 DEF WaitCheck, WaitReturn, StopNothing, CloseStream
<1>3. CASE JoinMsgThread
  BY <1>3 DEF JoinMsgThread
<1>4. CASE FinishStop \/ FinishReset \/ FinishRelease
  BY <1>4 DEF FinishStop, FinishReset, FinishRelease
<1>5. QED
  BY <1>1, <1>2, <1>3, <1>4 DEF AppWait

LEMMA ViewMsg == TypeOK /\ ViewInv /\ MsgNext => ViewInv'
<1> SUFFICES ASSUME TypeOK, ViewInv, MsgNext PROVE ViewInv'
  OBVIOUS
<1> USE DEF streamVars, threadVars, clientVars
<1>1. /\ mp \in Players /\ msgs \in Seq(Messages) /\ aborted \in BOOLEAN
      /\ mp.state \in States /\ \A s \in States : [mp EXCEPT !.state = s].state = s
      /\ {"PREPARED", "STARTED", "PAUSED", "COMPLETED", "ERROR"} \subseteq States
  <2>1. mp \in Players /\ msgs \in Seq(Messages) /\ aborted \in BOOLEAN
    BY DEF TypeOK
  <2>2. mp.state \in States /\ \A s \in States : [mp EXCEPT !.state = s].state = s
    BY <2>1 DEF Players
  <2>3. QED
    BY <2>1, <2>2 DEF States
<1>2. ASSUME NEW what \in Requests \cup Events, Handle(what)
      PROVE  aborted' = aborted /\ \A s : Delivered(s)' <=> Delivered(s)
  <2>1. msgThread = "handle" /\ hand' = hand /\ seen' = seen /\ hand.what # "STATE_CHANGED"
    BY <1>2 DEF Handle, Requests, Events
  <2>2. QED
    BY <1>2, <2>1 DEF Handle, Delivered
<1>3. ASSUME NEW what \in Requests \cup Events, Handle(what), NEW s \in States, mp'.state = s,
             msgs' = Announce(msgs, mp.state, s)
      PROVE  ViewInv'
  BY <1>1, <1>2, <1>3, ViewAnnounce
<1>4. ASSUME NEW what \in Requests \cup Events, Handle(what), mp'.state = mp.state,
             msgs' = msgs \/ msgs' = Put(msgs, aborted, Simple("COMPLETED"))
      PROVE  ViewInv'
  BY <1>1, <1>2, <1>4, ViewPost DEF Events
<1>5. ASSUME NEW what, what # "STATE_CHANGED", Loop(what), seen' = seen PROVE ViewInv'
  <2>1. msgThread' = "get" /\ hand.what # "STATE_CHANGED" /\ UNCHANGED <<mp, msgs, aborted>>
    BY <1>5 DEF Loop
  <2>2. \A s : Delivered(s)' <=> Delivered(s)
    BY <1>5, <2>1 DEF Delivered
  <2>3. QED
    BY <2>1, <2>2 DEF ViewInv
<1>6. CASE GetMsg
  <2>1. PICK i \in 1..Len(msgs) :
          /\ IsFirst(msgs, i)
          /\ msgs' = Rest(msgs, i)
          /\ hand' = msgs[i]
          /\ aborted' = (msgs[i].what = "REQ_STOP")
          /\ msgThread' = IF msgs[i].what = "REQ_STOP" THEN "exited"
                          ELSE IF msgs[i].what = "STATE_CHANGED" THEN "loop"
                          ELSE "handle"
    BY <1>6 DEF GetMsg
  <2>2. ~aborted /\ msgThread = "get" /\ UNCHANGED <<mp, seen>>
    BY <1>6 DEF GetMsg
  <2>3. CASE msgs[i].what = "REQ_STOP"
    BY <2>1, <2>3 DEF ViewInv
  <2>4. CASE msgs[i].what = "STATE_CHANGED"
    <3>1. Tracks(msgs', mp.state, msgs[i] = Changed(mp.state))
      BY <1>1, <2>1, <2>2, <2>4, RestTracks DEF ViewInv
    <3>2. Delivered(mp.state)' <=> msgs[i] = Changed(mp.state)
      BY <2>1, <2>2, <2>4 DEF Delivered
    <3>3. QED
      BY <2>2, <3>1, <3>2 DEF ViewInv, Tracks
  <2>5. CASE msgs[i].what \notin {"REQ_STOP", "STATE_CHANGED"}
    <3>1. Tracks(msgs', mp.state, Delivered(mp.state))
      BY <1>1, <2>1, <2>2, <2>5, RestTracks DEF ViewInv
    <3>2. Delivered(mp.state)' <=> Delivered(mp.state)
      BY <2>1, <2>2, <2>5 DEF Delivered
    <3>3. QED
      BY <2>2, <3>1, <3>2 DEF ViewInv, Tracks
  <2>6. QED
    BY <2>3, <2>4, <2>5
<1>7. CASE HandlePrepared
  <2> DEFINE first == IF mp.state = "ASYNC_PREPARING" THEN "PREPARED" ELSE mp.state
             final == IF StartOnPrepared \/ is.single_play THEN "STARTED" ELSE "PAUSED"
             q     == Announce(msgs, mp.state, first)
  <2>1. /\ Handle("PREPARED") /\ mp' = [mp EXCEPT !.state = final]
        /\ msgs' = Announce(q, first, final)
    BY <1>7, Zenon DEF HandlePrepared
  <2>2. first \in States /\ final \in States
    BY <1>1
  <2> HIDE DEF first, final
  <2>3. q \in Seq(Messages)
    BY <1>1, <2>2, AnnounceType
  <2>4. ~aborted => Tracks(q, first, mp.state = first /\ Delivered(mp.state))
    BY <1>1, <2>2, AnnounceTracks DEF ViewInv
  <2> HIDE DEF q
  <2>5. ~aborted => Tracks(msgs', final, first = final /\ mp.state = first /\ Delivered(mp.state))
    BY <2>1, <2>2, <2>3, <2>4, AnnounceTracks
  <2>6. mp'.state = final
    BY <1>1, <2>1, <2>2
  <2>7. QED
    BY <1>2, <2>1, <2>5, <2>6 DEF ViewInv, Tracks, Events
<1>8. CASE HandleWithoutStream
  <2>1. PICK what \in {"PREPARED", "REQ_START", "REQ_PAUSE"} : Handle(what)
    BY <1>8 DEF HandleWithoutStream
  <2>2. UNCHANGED <<mp, msgs>>
    BY <1>8 DEF HandleWithoutStream
  <2>3. QED
    BY <1>4, <2>1, <2>2 DEF Requests, Events
<1>9. CASE HandleCompleted
  BY <1>1, <1>3, <1>9 DEF HandleCompleted, Events
<1>10. CASE HandleSeekComplete
  BY <1>4, <1>10 DEF HandleSeekComplete, Events
<1>11. CASE HandleError
  BY <1>1, <1>3, <1>11 DEF HandleError, Events
<1>12. CASE HandleEarly \/ HandleRefused
  <2>1. PICK what \in Requests : Handle(what)
    BY <1>12 DEF HandleEarly, HandleRefused, Requests
  <2>2. UNCHANGED <<mp, msgs>>
    BY <1>12 DEF HandleEarly, HandleRefused
  <2>3. QED
    BY <1>4, <2>1, <2>2
<1>13. CASE HandleStart
  <2> DEFINE played == [mp EXCEPT !.restart = FALSE, !.from_beginning = FALSE]
  <2>1. played \in Players /\ played.state = mp.state
    BY <1>1 DEF Players
  <2>2. [played EXCEPT !.state = "STARTED"].state = "STARTED"
    BY <1>1, <2>1 DEF Players
  <2>3. \/ mp' \in {mp, played} /\ msgs' = msgs
        \/ mp' = [played EXCEPT !.state = "STARTED"] /\ msgs' = Announce(msgs, mp.state, "STARTED")
    BY <1>13, Zenon DEF HandleStart
  <2>4. Handle("REQ_START")
    BY <1>13 DEF HandleStart
  <2> HIDE DEF played
  <2>5. QED
    BY <1>1, <1>3, <1>4, <2>1, <2>2, <2>3, <2>4 DEF Requests
<1>14. CASE HandlePause
  <2>1. \/ mp' = mp /\ msgs' = msgs
        \/ mp' = [mp EXCEPT !.state = "PAUSED"] /\ msgs' = Announce(msgs, mp.state, "PAUSED")
    BY <1>14, Zenon DEF HandlePause
  <2>2. Handle("REQ_PAUSE")
    BY <1>14 DEF HandlePause
  <2>3. QED
    BY <1>1, <1>3, <1>4, <2>1, <2>2 DEF Requests
<1>15. CASE HandleSeek
  <2>1. mp'.state = mp.state
    BY <1>1, <1>15 DEF HandleSeek, Players
  <2>2. Handle("REQ_SEEK") /\ (msgs' = msgs \/ msgs' = Put(msgs, aborted, Simple("COMPLETED")))
    BY <1>15 DEF HandleSeek
  <2>3. QED
    BY <1>4, <2>1, <2>2 DEF Requests
<1>16. CASE LoopError \/ LoopEvent
  <2>1. PICK what \in Events : Loop(what)
    BY <1>16 DEF LoopError, LoopEvent, Events
  <2>2. seen' = seen
    BY <1>16 DEF LoopError, LoopEvent
  <2>3. QED
    BY <1>5, <2>1, <2>2 DEF Events
<1>17. CASE LoopChange
  <2>1. /\ msgThread = "loop" /\ hand.what = "STATE_CHANGED" /\ msgThread' = "get"
        /\ seen' = hand.arg /\ UNCHANGED <<mp, msgs, aborted>>
    BY <1>17 DEF LoopChange, Loop
  <2>2. Delivered(mp.state) => Delivered(mp.state)'
    BY <2>1 DEF Delivered, Changed, Msg
  <2>3. QED
    BY <2>1, <2>2 DEF ViewInv, Tracks
<1>18. QED
  BY <1>6, <1>7, <1>8, <1>9, <1>10, <1>11, <1>12, <1>13, <1>14, <1>15, <1>16, <1>17 DEF MsgNext

LEMMA ViewStream == TypeOK /\ ViewInv /\ StreamNext => ViewInv'
<1> SUFFICES ASSUME TypeOK, ViewInv, StreamNext PROVE ViewInv'
  OBVIOUS
<1> USE DEF StreamNext, OpenFails, Opened, FirstFrame, EnterLoop, StepDone,
     DecoderFails, SeekBegin, SeekEnd, CompleteBegin, CompleteEnd, ReadExits
<1>1. StreamStep
  OBVIOUS
<1>2. UNCHANGED msgs \/ \E w \in Requests \cup Events : Post(w)
  BY DEF Requests, Events
<1>3. msgs \in Seq(Messages) /\ \A s : Delivered(s)' <=> Delivered(s)
  BY <1>1 DEF TypeOK, StreamStep, Delivered, threadVars, clientVars
<1>4. QED
  BY <1>1, <1>2, <1>3, ViewPost DEF StreamStep, Post

\* What the callbacks are told converges to the state of the player: as long as
\* the queue is open, the newest state change under way, or else the last one
\* delivered, is the state of the player.
THEOREM CallbacksConverge == Spec => []ViewConverges
<1>1. Init => ViewInv
  BY DEF Init, ViewInv
<1>2. ViewInv /\ UNCHANGED vars => ViewInv'
  BY DEF ViewInv, Delivered, Tracks, LastChange, NoChange, vars
<1>3. TypeOK /\ ViewInv /\ [Next]_vars => ViewInv'
  BY <1>2, ViewApp, ViewWait, ViewMsg, ViewStream DEF Next
<1>4. ViewInv => ViewConverges
  BY NewestTracks DEF ViewInv, ViewConverges
<1>5. QED
  BY <1>1, <1>3, <1>4, TypeCorrect, PTL DEF Spec

-----------------------------------------------------------------------------
(* What is in the queue, by kind.                                           *)

LEMMA PutHolds ==
    ASSUME NEW q \in Seq(Messages), NEW m \in Messages, NEW a \in BOOLEAN, NEW w
    PROVE  Holds(Put(q, a, m), w) <=> Holds(q, w) \/ (~a /\ m.what = w)
<1>1. /\ Len(q) \in Nat /\ Len(Append(q, m)) = Len(q) + 1
      /\ \A i \in 1..Len(q) : Append(q, m)[i] = q[i]
      /\ Append(q, m)[Len(q) + 1] = m
  OBVIOUS
<1>2. Holds(Append(q, m), w) <=> Holds(q, w) \/ m.what = w
  BY ONLY <1>1 DEF Holds
<1>3. QED
  BY <1>2 DEF Put

LEMMA RemoveHolds ==
    ASSUME NEW q \in Seq(Messages), NEW a \in BOOLEAN, NEW v, NEW w, w # "BLANK"
    PROVE  Holds(Remove(q, a, v), w) <=> Holds(q, w) /\ (a \/ w # v)
<1> DEFINE r == [i \in 1..Len(q) |-> IF q[i].what = v THEN Blank ELSE q[i]]
<1>1. /\ Len(q) \in Nat /\ Len(r) = Len(q)
      /\ \A i \in 1..Len(q) : r[i] = IF q[i].what = v THEN Blank ELSE q[i]
  OBVIOUS
<1>2. Blank.what = "BLANK"
  BY DEF Blank, Msg
<1> HIDE DEF r
<1>3. Holds(r, w) <=> Holds(q, w) /\ w # v
  BY <1>1, <1>2 DEF Holds
<1>4. QED
  BY <1>3 DEF Remove, r

LEMMA RestHolds ==
    ASSUME NEW q \in Seq(Messages), NEW i, IsFirst(q, i), NEW w, w # "BLANK"
    PROVE  Holds(q, w) <=> q[i].what = w \/ Holds(Rest(q, i), w)
<1> DEFINE r == Rest(q, i)
<1>1. i \in 1..Len(q) /\ Len(q) \in Nat /\ \A j \in 1..(i - 1) : q[j].what = "BLANK"
  BY DEF IsFirst, Blank, Msg
<1>2. Len(r) = Len(q) - i /\ \A k \in 1..Len(r) : r[k] = q[k + i]
  BY <1>1 DEF Rest
<1> HIDE DEF r
<1>3. Holds(r, w) => Holds(q, w)
  <2> SUFFICES ASSUME NEW k \in 1..Len(r), r[k].what = w PROVE Holds(q, w)
    BY DEF Holds
  <2>1. k + i \in 1..Len(q) /\ q[k + i].what = w
    BY <1>1, <1>2
  <2>2. QED
    BY <2>1 DEF Holds
<1>4. ASSUME NEW k \in 1..Len(q), q[k].what = w, k # i PROVE Holds(r, w)
  <2>1. k > i
    BY <1>1, <1>4
  <2>2. k - i \in 1..Len(r) /\ r[k - i] = q[k]
    BY <1>1, <1>2, <2>1
  <2>3. QED
    BY <1>4, <2>2 DEF Holds
<1>5. q[i].what = w => Holds(q, w)
  BY <1>1 DEF Holds
<1>6. QED
  BY <1>3, <1>4, <1>5 DEF Holds, r

LEMMA AnnounceHolds ==
    ASSUME NEW q \in Seq(Messages), NEW old, NEW new \in States, NEW w,
           aborted \in BOOLEAN, w # "STATE_CHANGED"
    PROVE  Holds(Announce(q, old, new), w) <=> Holds(q, w)
BY MsgTypes, SimpleKinds, PutHolds DEF Announce

\* Which kinds may be in the queue after a step of the message thread that is no
\* GetMsg: those that were, state changes, and what a seek past the end posts.
LEMMA MsgHolds ==
    ASSUME TypeOK, MsgNext, ~GetMsg, NEW w, w # "STATE_CHANGED"
    PROVE  Holds(msgs', w) <=> Holds(msgs, w) \/ (msgs' # msgs /\ HandleSeek /\ ~aborted /\ w = "COMPLETED")
<1>1. /\ mp \in Players /\ msgs \in Seq(Messages) /\ aborted \in BOOLEAN
      /\ mp.state \in States
      /\ {"PREPARED", "STARTED", "PAUSED", "COMPLETED", "ERROR"} \subseteq States
  <2>1. mp \in Players /\ msgs \in Seq(Messages) /\ aborted \in BOOLEAN
    BY DEF TypeOK
  <2>2. QED
    BY <2>1 DEF Players, States
<1>2. \A s \in States : Holds(Announce(msgs, mp.state, s), w) <=> Holds(msgs, w)
  BY <1>1, AnnounceHolds
<1>3. CASE HandlePrepared
  <2> DEFINE first == IF mp.state = "ASYNC_PREPARING" THEN "PREPARED" ELSE mp.state
             final == IF StartOnPrepared \/ is.single_play THEN "STARTED" ELSE "PAUSED"
             q     == Announce(msgs, mp.state, first)
  <2>1. msgs' = Announce(q, first, final)
    BY <1>3, Zenon DEF HandlePrepared
  <2>2. first \in States /\ final \in States
    BY <1>1
  <2> HIDE DEF first, final
  <2>3. q \in Seq(Messages) /\ (Holds(q, w) <=> Holds(msgs, w))
    BY <1>1, <1>2, <2>2, AnnounceType
  <2> HIDE DEF q
  <2>4. Holds(msgs', w) <=> Holds(q, w)
    BY <1>1, <2>1, <2>2, <2>3, AnnounceHolds
  <2>5. ~HandleSeek
    BY <1>3 DEF HandlePrepared, HandleSeek, Handle
  <2>6. QED
    BY <2>3, <2>4, <2>5
<1>4. CASE HandleSeek
  <2>1. msgs' = msgs \/ msgs' = Put(msgs, aborted, Simple("COMPLETED"))
    BY <1>4 DEF HandleSeek
  <2>2. Simple("COMPLETED") \in Messages /\ Simple("COMPLETED").what = "COMPLETED"
    BY MsgTypes, SimpleKinds DEF Events
  <2>3. CASE msgs' = msgs
    BY <2>3
  <2>4. CASE msgs' # msgs
    <3>1. msgs' = Put(msgs, aborted, Simple("COMPLETED"))
      BY <2>1, <2>4
    <3>2. Holds(msgs', w) <=> Holds(msgs, w) \/ (~aborted /\ w = "COMPLETED")
      BY <1>1, <2>2, <3>1, PutHolds
    <3>3. QED
      BY <1>4, <2>4, <3>2
  <2>5. QED
    BY <2>3, <2>4
<1>5. CASE ~HandlePrepared /\ ~HandleSeek
  <2>1. msgs' = msgs \/ \E s \in States : msgs' = Announce(msgs, mp.state, s)
    <3>1. CASE HandleCompleted
      BY <1>1, <3>1 DEF HandleCompleted
    <3>2. CASE HandleError
      BY <1>1, <3>2 DEF HandleError
    <3>3. CASE HandleStart
      <4>1. msgs' = msgs \/ msgs' = Announce(msgs, mp.state, "STARTED")
        BY <3>3, Zenon DEF HandleStart
      <4>2. QED
        BY <1>1, <4>1
    <3>4. CASE HandlePause
      <4>1. msgs' = msgs \/ msgs' = Announce(msgs, mp.state, "PAUSED")
        BY <3>4, Zenon DEF HandlePause
      <4>2. QED
        BY <1>1, <4>1
    <3>5. CASE HandleWithoutStream \/ HandleSeekComplete \/ HandleEarly \/ HandleRefused
      BY <3>5 DEF HandleWithoutStream, HandleSeekComplete, HandleEarly, HandleRefused
    <3>6. CASE LoopError \/ LoopEvent \/ LoopChange
      BY <3>6 DEF LoopError, LoopEvent, LoopChange, Loop
    <3>7. QED
      BY <1>5, <3>1, <3>2, <3>3, <3>4, <3>5, <3>6 DEF MsgNext
  <2>2. QED
    BY <1>2, <1>5, <2>1
<1>6. QED
  BY <1>3, <1>4, <1>5

-----------------------------------------------------------------------------
(* The request to end reaches the message thread.                           *)

\* Where a call leaves the application thread.
LEMMA AppCalls ==
    ASSUME AppNext
    PROVE  api.pc = "idle" /\ api'.pc \in {"idle", "check", "stop_l"}
<1> USE DEF Call, At
<1>1. CASE SetDataSource \/ PrepareFails \/ SeekTo
  BY <1>1 DEF SetDataSource, PrepareFails, SeekTo
<1>2. ASSUME NEW sync \in BOOLEAN, Prepare(sync)
      PROVE  api.pc = "idle" /\ api'.pc \in {"idle", "check", "stop_l"}
  BY <1>2 DEF Prepare, WaitOn
<1>3. CASE Start \/ Pause
  BY <1>3 DEF Start, Pause, WaitOn
<1>4. CASE Stop
  BY <1>4 DEF Stop, IdleApi
<1>5. ASSUME NEW op \in {"reset", "release"}, Shutdown(op)
      PROVE  api.pc = "idle" /\ api'.pc \in {"idle", "check", "stop_l"}
  BY <1>5 DEF Shutdown, IdleApi
<1>6. QED
  BY <1>1, <1>2, <1>3, <1>4, <1>5 DEF AppNext

LEMMA StopInductive == TypeOK /\ SessionInv /\ StopRequestSurvives /\ [Next]_vars => StopRequestSurvives'
<1> SUFFICES ASSUME TypeOK, SessionInv, StopRequestSurvives, [Next]_vars PROVE StopRequestSurvives'
  OBVIOUS
<1> USE DEF StopRequestSurvives, Closing
<1>1. msgs \in Seq(Messages) /\ aborted \in BOOLEAN /\ api \in Apis
  BY DEF TypeOK
<1>2. CASE AppNext
  <2>1. api.pc = "idle" /\ api'.pc \in {"idle", "check", "stop_l"}
    BY <1>2, AppCalls
  <2>2. QED
    BY <2>1
<1>3. CASE StopStream
  <2> DEFINE r1 == Remove(msgs, aborted, "REQ_START")
             r2 == Remove(r1, aborted, "REQ_PAUSE")
             r3 == Remove(r2, aborted, "REQ_SEEK")
             r4 == Remove(r3, aborted, "REQ_STOP")
  <2>1. r1 \in Seq(Messages) /\ r2 \in Seq(Messages) /\ r3 \in Seq(Messages) /\ r4 \in Seq(Messages)
    BY <1>1, RemoveType
  <2>2. msgs' = Put(r4, aborted, Simple("REQ_STOP"))
    BY <1>3 DEF StopStream, PostStop
  <2>3. Simple("REQ_STOP") \in Messages /\ Simple("REQ_STOP").what = "REQ_STOP"
    BY MsgTypes, SimpleKinds
  <2> HIDE DEF r4
  <2>4. ~aborted => Holds(msgs', "REQ_STOP")
    BY <1>1, <2>1, <2>2, <2>3, PutHolds
  <2>5. msgThread' = msgThread
    BY <1>3 DEF StopStream, threadVars
  <2>6. QED
    BY <2>4, <2>5 DEF SessionInv, Running
<1>4. CASE CloseStream \/ JoinMsgThread \/ StopNothing
  BY <1>1, <1>4 DEF CloseStream, JoinMsgThread, StopNothing, Apis, ApiPcs, At, threadVars
<1>5. CASE WaitCheck \/ WaitReturn \/ FinishStop \/ FinishReset \/ FinishRelease
  <2>1. api'.pc \notin {"closing", "joining"}
    BY <1>1, <1>5 DEF WaitCheck, WaitReturn, FinishStop, FinishReset, FinishRelease, IdleApi, WaitOn, Apis, ApiPcs
  <2>2. QED
    BY <2>1
<1>6. CASE GetMsg
  <2>1. PICK i \in 1..Len(msgs) :
          /\ IsFirst(msgs, i)
          /\ msgs' = Rest(msgs, i)
          /\ msgThread' = IF msgs[i].what = "REQ_STOP" THEN "exited"
                          ELSE IF msgs[i].what = "STATE_CHANGED" THEN "loop"
                          ELSE "handle"
    BY <1>6 DEF GetMsg
  <2>2. msgThread = "get" /\ api' = api
    BY <1>6 DEF GetMsg
  <2>3. Holds(msgs, "REQ_STOP") => msgs[i].what = "REQ_STOP" \/ Holds(msgs', "REQ_STOP")
    BY <1>1, <2>1, RestHolds
  <2>4. QED
    BY <2>1, <2>2, <2>3
<1>7. CASE MsgNext /\ ~GetMsg
  <2>1. Holds(msgs', "REQ_STOP") <=> Holds(msgs, "REQ_STOP")
    BY <1>7, MsgHolds
  <2>2. Running /\ api'.pc = api.pc
    BY <1>7, MsgFrame
  <2>3. QED
    BY <2>1, <2>2 DEF Running
<1>8. CASE StreamNext
  <2> USE DEF StreamNext, OpenFails, Opened, FirstFrame, EnterLoop, StepDone,
       DecoderFails, SeekBegin, SeekEnd, CompleteBegin, CompleteEnd, ReadExits
  <2>1. StreamStep
    BY <1>8
  <2>2. UNCHANGED msgs \/ \E w \in Requests \cup Events : Post(w)
    BY <1>8 DEF Requests, Events
  <2>3. Holds(msgs, "REQ_STOP") => Holds(msgs', "REQ_STOP")
    BY <1>1, <2>2, MsgTypes, PutHolds DEF Post
  <2>4. QED
    BY <2>1, <2>3 DEF StreamStep, threadVars
<1>9. CASE UNCHANGED vars
  BY <1>9 DEF vars
<1>10. QED
  BY <1>2, <1>3, <1>4, <1>5, <1>6, <1>7, <1>8, <1>9 DEF Next, AppWait

\* stop, reset and release wait for a message thread that will end: behind the close
\* of a stream nothing removes REQ_STOP before the thread takes it.
THEOREM StopSurvives == Spec => []StopRequestSurvives
<1>1. Init => StopRequestSurvives
  BY DEF Init, StopRequestSurvives
<1>2. QED
  BY <1>1, StopInductive, TypeCorrect, SessionsEnd, PTL DEF Spec

-----------------------------------------------------------------------------
(* A PREPARED is the oldest event in the queue.                             *)

PreparedFirst(q) ==
    \A i \in 1..Len(q) : q[i].what = "PREPARED" => \A j \in 1..(i - 1) : q[j].what \notin Events

LEMMA PutPrepared ==
    ASSUME NEW q \in Seq(Messages), NEW m \in Messages, NEW a \in BOOLEAN, PreparedFirst(q),
           m.what = "PREPARED" => \A e \in Events : ~Holds(q, e)
    PROVE  PreparedFirst(Put(q, a, m))
<1>1. /\ Len(q) \in Nat /\ Len(Append(q, m)) = Len(q) + 1
      /\ \A i \in 1..Len(q) : Append(q, m)[i] = q[i]
      /\ Append(q, m)[Len(q) + 1] = m
  OBVIOUS
<1> DEFINE r == Append(q, m)
<1> HIDE DEF r
<1>2. ASSUME NEW i \in 1..Len(r), r[i].what = "PREPARED", NEW j \in 1..(i - 1)
      PROVE  r[j].what \notin Events
  <2>1. j \in 1..Len(q) /\ r[j] = q[j]
    BY <1>1 DEF r
  <2>2. CASE i \in 1..Len(q)
    BY <1>1, <1>2, <2>1, <2>2 DEF PreparedFirst, r
  <2>3. CASE i = Len(q) + 1
    BY <1>1, <1>2, <2>1, <2>3 DEF Holds, r
  <2>4. QED
    BY <1>1, <2>2, <2>3 DEF r
<1>3. PreparedFirst(r)
  BY <1>2 DEF PreparedFirst
<1>4. QED
  BY <1>3 DEF Put, r

LEMMA RemovePrepared ==
    ASSUME NEW q \in Seq(Messages), NEW a \in BOOLEAN, NEW v, PreparedFirst(q)
    PROVE  PreparedFirst(Remove(q, a, v))
<1> DEFINE r == [i \in 1..Len(q) |-> IF q[i].what = v THEN Blank ELSE q[i]]
<1>1. /\ Len(q) \in Nat /\ Len(r) = Len(q)
      /\ \A i \in 1..Len(q) : r[i] = IF q[i].what = v THEN Blank ELSE q[i]
  OBVIOUS
<1>2. Blank.what = "BLANK" /\ "BLANK" \notin Events
  BY DEF Blank, Msg, Events
<1> HIDE DEF r
<1>3. ASSUME NEW i \in 1..Len(r), r[i].what = "PREPARED", NEW j \in 1..(i - 1)
      PROVE  r[j].what \notin Events
  <2>1. q[i].what = "PREPARED" /\ j \in 1..Len(q)
    BY <1>1, <1>2, <1>3
  <2>2. q[j].what \notin Events
    BY <1>1, <2>1 DEF PreparedFirst
  <2>3. QED
    BY <1>1, <1>2, <2>1, <2>2
<1>4. PreparedFirst(r)
  BY <1>3 DEF PreparedFirst
<1>5. QED
  BY <1>4 DEF Remove, r

LEMMA RestPrepared ==
    ASSUME NEW q \in Seq(Messages), NEW i, IsFirst(q, i), PreparedFirst(q)
    PROVE  /\ PreparedFirst(Rest(q, i))
           /\ q[i].what \in Events => ~Holds(Rest(q, i), "PREPARED")
<1> DEFINE r == Rest(q, i)
<1>1. i \in 1..Len(q) /\ Len(q) \in Nat
  BY DEF IsFirst
<1>2. Len(r) = Len(q) - i /\ \A k \in 1..Len(r) : r[k] = q[k + i]
  BY <1>1 DEF Rest
<1> HIDE DEF r
<1>3. ASSUME NEW k \in 1..Len(r), r[k].what = "PREPARED"
      PROVE  k + i \in 1..Len(q) /\ \A j \in 1..(k + i - 1) : q[j].what \notin Events
  <2> DEFINE m == k + i
  <2>1. m \in 1..Len(q) /\ q[m].what = "PREPARED"
    BY <1>1, <1>2, <1>3
  <2> HIDE DEF m
  <2>2. \A j \in 1..(m - 1) : q[j].what \notin Events
    BY <2>1 DEF PreparedFirst
  <2>3. QED
    BY <1>1, <1>2, <2>1, <2>2 DEF m
<1>4. ASSUME NEW k \in 1..Len(r), r[k].what = "PREPARED", NEW j \in 1..(k - 1)
      PROVE  r[j].what \notin Events
  <2>1. j \in 1..Len(r) /\ j + i \in 1..(k + i - 1)
    BY <1>1, <1>2
  <2>2. QED
    BY <1>2, <1>3, <1>4, <2>1
<1>5. ASSUME NEW k \in 1..Len(r), r[k].what = "PREPARED"
      PROVE  q[i].what \notin Events
  <2>1. i \in 1..(k + i - 1)
    BY <1>1, <1>2
  <2>2. QED
    BY <1>3, <1>5, <2>1
<1>6. QED
  BY <1>4, <1>5 DEF PreparedFirst, Holds, r

-----------------------------------------------------------------------------
(* A player that says STARTED plays.                                        *)

Alive   == streams = 1 /\ is.phase # "null" /\ ~is.abort
Pausing == is.pause_req /\ ~Pending("COMPLETED") /\ ~Pending("ERROR")

\* The inductive invariant: the first stream finds an empty queue, which stays
\* open as long as nobody closes the stream; while it is being opened none of its
\* events are under way; and the PREPARED of a sound without pictures, which a
\* player that starts on prepared takes for STARTED, comes before every other event
\* and before anybody but the end of the stream has made it pause.
FirstStream ==
    /\ is.phase = "null" => is = NoStream
    /\ streams = 0 => /\ aborted /\ msgs = <<>> /\ msgThread = "none" /\ is.phase = "null"
                      /\ mp.state \in {"IDLE", "INITIALIZED"}
    /\ Alive => ~aborted /\ ~Holds(msgs, "REQ_STOP")
Opening ==
    streams = 1 /\ is.phase = "opening" =>
        /\ is.av = "none" /\ mp.state \in {"ASYNC_PREPARING", "STOPPED"}
        /\ \A e \in Events : ~Pending(e)
        /\ StartOnPrepared => ~is.pause_req \/ is.abort
SoundPrepared ==
    streams = 1 /\ StartOnPrepared /\ is.av = "audio" /\ Pending("PREPARED") =>
        /\ mp.state \in {"ASYNC_PREPARING", "STOPPED"}
        /\ PreparedFirst(msgs)
        /\ msgThread = "handle" /\ hand.what \in Events =>
              hand.what = "PREPARED" /\ ~Holds(msgs, "PREPARED")
        /\ ~is.abort => ~Pausing
PlayInv == FirstStream /\ Opening /\ SoundPrepared /\ StartedPlays

\* What start, pause, seekTo and stop leave in the queue.
LEMMA RequestStep ==
    ASSUME TypeOK, Start \/ Pause \/ SeekTo \/ Stop
    PROVE  /\ UNCHANGED <<is, auto_resume, aborted, msgThread, hand, streams>>
           /\ mp'.state = mp.state \/ mp.state \notin {"IDLE", "INITIALIZED"}
           /\ \A w \in Events \cup {"REQ_STOP"} : Holds(msgs', w) <=> Holds(msgs, w)
           /\ \/ mp'.state = "STOPPED"
              \/ /\ mp' = mp
                 /\ \A w \in {"REQ_START", "REQ_PAUSE"} :
                       Holds(msgs, w) => Holds(msgs', "REQ_START") \/ Holds(msgs', "REQ_PAUSE")
           /\ PreparedFirst(msgs) => PreparedFirst(msgs')
<1>1. /\ mp \in Players /\ msgs \in Seq(Messages) /\ aborted \in BOOLEAN
      /\ mp.state \in States /\ "STOPPED" \in States
  <2>1. mp \in Players /\ msgs \in Seq(Messages) /\ aborted \in BOOLEAN
    BY DEF TypeOK
  <2>2. QED
    BY <2>1 DEF Players, States
<1>2. [mp EXCEPT !.state = "STOPPED"].state = "STOPPED"
  BY <1>1 DEF Players
<1>3. \A w \in Requests : Simple(w) \in Messages /\ Simple(w).what = w
  BY MsgTypes, SimpleKinds
<1>4. \A w \in Events \cup {"REQ_STOP"} : w \notin Requests /\ w # "BLANK" /\ w # "STATE_CHANGED"
  BY DEF Events, Requests
<1>5. "PREPARED" \notin Requests /\ {"REQ_START", "REQ_PAUSE", "REQ_SEEK"} = Requests
      /\ \A w \in Requests : w # "BLANK" /\ w # "STATE_CHANGED"
  BY DEF Requests
<1>6. ASSUME NEW v \in {"REQ_START", "REQ_PAUSE"}, msgs' = Replace(msgs, v)
      PROVE  /\ \A w \in Events \cup {"REQ_STOP"} : Holds(msgs', w) <=> Holds(msgs, w)
             /\ \A w \in {"REQ_START", "REQ_PAUSE"} : Holds(msgs, w) => Holds(msgs', v) \/ Holds(msgs', w)
             /\ PreparedFirst(msgs) => PreparedFirst(msgs')
  <2> DEFINE r1 == Remove(msgs, aborted, "REQ_START")
             r2 == Remove(r1, aborted, "REQ_PAUSE")
  <2>1. r1 \in Seq(Messages) /\ r2 \in Seq(Messages)
    BY <1>1, RemoveType
  <2>2. msgs' = Put(r2, aborted, Simple(v))
    BY <1>6 DEF Replace
  <2>3. \A w : w # "BLANK" => (Holds(r1, w) <=> Holds(msgs, w) /\ (aborted \/ w # "REQ_START"))
    BY <1>1, RemoveHolds
  <2>4. PreparedFirst(msgs) => PreparedFirst(r1)
    BY <1>1, RemovePrepared
  <2> HIDE DEF r1
  <2>5. \A w : w # "BLANK" => (Holds(r2, w) <=> Holds(r1, w) /\ (aborted \/ w # "REQ_PAUSE"))
    BY <1>1, <2>1, RemoveHolds
  <2>6. PreparedFirst(r1) => PreparedFirst(r2)
    BY <1>1, <2>1, RemovePrepared
  <2> HIDE DEF r2
  <2>7. v \in Requests /\ v # "PREPARED"
    BY <1>5
  <2>8. \A w : Holds(msgs', w) <=> Holds(r2, w) \/ (~aborted /\ v = w)
    BY <1>1, <1>3, <2>1, <2>2, <2>7, PutHolds
  <2>9. PreparedFirst(r2) => PreparedFirst(msgs')
    BY <1>1, <1>3, <2>1, <2>2, <2>7, PutPrepared
  <2>10. QED
    BY <1>4, <2>3, <2>4, <2>5, <2>6, <2>7, <2>8, <2>9 DEF Requests
<1>7. CASE Start
  BY <1>6, <1>7 DEF Start, threadVars, streamVars
<1>8. CASE Pause
  BY <1>6, <1>8 DEF Pause, threadVars, streamVars
<1>9. CASE SeekTo
  <2> DEFINE r == Remove(msgs, aborted, "REQ_SEEK")
  <2>1. CASE msgs' = msgs
    BY <1>9, <2>1 DEF SeekTo, threadVars
  <2>2. CASE msgs' # msgs
    <3>1. msgs' = Put(r, aborted, Simple("REQ_SEEK"))
      BY <1>9, <2>2 DEF SeekTo
    <3>2. /\ r \in Seq(Messages) /\ (PreparedFirst(msgs) => PreparedFirst(r))
          /\ \A w : w # "BLANK" => (Holds(r, w) <=> Holds(msgs, w) /\ (aborted \/ w # "REQ_SEEK"))
      BY <1>1, RemoveType, RemoveHolds, RemovePrepared
    <3> HIDE DEF r
    <3>3. \A w : Holds(msgs', w) <=> Holds(r, w) \/ (~aborted /\ "REQ_SEEK" = w)
      BY <1>1, <1>3, <1>5, <3>1, <3>2, PutHolds
    <3>4. PreparedFirst(r) => PreparedFirst(msgs')
      BY <1>1, <1>3, <1>5, <3>1, <3>2, PutPrepared
    <3>5. QED
      BY <1>4, <1>5, <1>9, <3>2, <3>3, <3>4 DEF SeekTo, threadVars
  <2>3. QED
    BY <2>1, <2>2
<1>10. CASE Stop
  <2> DEFINE r1 == Remove(msgs, aborted, "REQ_START")
             r2 == Remove(r1, aborted, "REQ_PAUSE")
  <2>1. r1 \in Seq(Messages) /\ r2 \in Seq(Messages)
    BY <1>1, RemoveType
  <2>2. msgs' = Announce(r2, mp.state, "STOPPED")
    BY <1>10 DEF Stop
  <2>3. \A w : w # "BLANK" => (Holds(r1, w) <=> Holds(msgs, w) /\ (aborted \/ w # "REQ_START"))
    BY <1>1, RemoveHolds
  <2>4. PreparedFirst(msgs) => PreparedFirst(r1)
    BY <1>1, RemovePrepared
  <2> HIDE DEF r1
  <2>5. \A w : w # "BLANK" => (Holds(r2, w) <=> Holds(r1, w) /\ (aborted \/ w # "REQ_PAUSE"))
    BY <1>1, <2>1, RemoveHolds
  <2>6. PreparedFirst(r1) => PreparedFirst(r2)
    BY <1>1, <2>1, RemovePrepared
  <2> HIDE DEF r2
  <2>7. \A w : w # "STATE_CHANGED" => (Holds(msgs', w) <=> Holds(r2, w))
    BY <1>1, <2>1, <2>2, AnnounceHolds
  <2>8. PreparedFirst(r2) => PreparedFirst(msgs')
    <3>1. Changed("STOPPED") \in Messages /\ Changed("STOPPED").what # "PREPARED"
      BY <1>1, MsgTypes DEF Changed, Msg
    <3>2. QED
      BY <1>1, <2>1, <2>2, <3>1, PutPrepared DEF Announce
  <2>9. mp'.state = "STOPPED" /\ mp.state \notin {"IDLE", "INITIALIZED"}
    BY <1>2, <1>10 DEF Stop, Stoppable, Startable
  <2>10. UNCHANGED <<is, auto_resume, aborted, msgThread, hand, streams>>
    BY <1>10 DEF Stop, streamVars, threadVars
  <2>11. QED
    BY <1>4, <1>5, <2>3, <2>4, <2>5, <2>6, <2>7, <2>8, <2>9, <2>10
<1>11. QED
  BY <1>7, <1>8, <1>9, <1>10

\* What the message thread leaves of a stream, of the queue and of itself.
LEMMA HandleStep ==
    ASSUME TypeOK, MsgNext, ~GetMsg
    PROVE  /\ UNCHANGED <<aborted, streams>>
           /\ msgThread' # "handle"
           /\ is'.phase = is.phase /\ is'.av = is.av /\ is'.abort = is.abort
           /\ is.phase = "null" => is' = is
<1> USE DEF bounds, streamVars
<1>1. is \in Streams
  BY DEF TypeOK
<1>2. \A b \in BOOLEAN : \A i \in {Paused(is, b), [is EXCEPT !.single_play = b], [is EXCEPT !.seek_req = b]} :
        i.phase = is.phase /\ i.av = is.av /\ i.abort = is.abort
  BY <1>1 DEF Paused, Streams
<1>3. ASSUME NEW what, Handle(what)
      PROVE  msgThread' # "handle" /\ UNCHANGED <<aborted, streams>>
  BY <1>3 DEF Handle
<1>4. ASSUME NEW what, Loop(what)
      PROVE  msgThread' # "handle" /\ UNCHANGED <<aborted, streams, is>>
  BY <1>4 DEF Loop
<1>5. CASE HandlePrepared
  <2>1. is.phase # "null" /\ (is' = Paused(is, FALSE) \/ is' = is)
    BY <1>5, Zenon DEF HandlePrepared
  <2>2. QED
    BY <1>2, <1>3, <1>5, <2>1 DEF HandlePrepared
<1>6. CASE HandleWithoutStream \/ HandleCompleted \/ HandleSeekComplete \/ HandleError \/ HandleRefused
  BY <1>3, <1>6 DEF HandleWithoutStream, HandleCompleted, HandleSeekComplete, HandleError, HandleRefused
<1>7. CASE HandleEarly
  BY <1>2, <1>3, <1>7 DEF HandleEarly
<1>8. CASE HandleStart
  <2>1. is' = is \/ (is.phase # "null" /\ is' \in {Paused(is, FALSE), [is EXCEPT !.seek_req = TRUE]})
    BY <1>8, Zenon DEF HandleStart
  <2>2. QED
    BY <1>2, <1>3, <1>8, <2>1 DEF HandleStart
<1>9. CASE HandlePause
  <2>1. is' = is \/ (is.phase # "null" /\ is' = Paused(is, TRUE))
    BY <1>9, Zenon DEF HandlePause
  <2>2. QED
    BY <1>2, <1>3, <1>9, <2>1 DEF HandlePause
<1>10. CASE HandleSeek
  <2>1. is' = is \/ (is.phase # "null" /\ is' \in {Paused(is, TRUE), [is EXCEPT !.seek_req = TRUE]})
    BY <1>10, Zenon DEF HandleSeek
  <2>2. QED
    BY <1>2, <1>3, <1>10, <2>1 DEF HandleSeek
<1>11. CASE LoopError \/ LoopEvent \/ LoopChange
  BY <1>4, <1>11 DEF LoopError, LoopEvent, LoopChange
<1>12. QED
  BY <1>5, <1>6, <1>7, <1>8, <1>9, <1>10, <1>11 DEF MsgNext

\* A step of the stream posts at most one message, and none unless there is a stream.
LEMMA PostStep ==
    ASSUME TypeOK, StreamNext
    PROVE  /\ UNCHANGED <<mp, aborted, msgThread, hand, streams>>
           /\ is # NoStream
           /\ is'.abort = is.abort /\ (is'.phase = "null" <=> is.phase = "null")
           /\ \/ UNCHANGED msgs
              \/ \E w \in (Requests \cup Events) : Post(w)
           /\ ~Opened => is'.av = is.av
           /\ is'.phase = "opening" => is.phase = "opening"
<1> USE DEF StreamStep, threadVars, bounds
<1>1. is \in Streams
  BY DEF TypeOK
<1>2. CASE OpenFails
  BY <1>1, <1>2 DEF OpenFails, NoStream, Streams, Events, Opened
<1>3. CASE Opened
  <2>1. PICK i \in {is, Paused(is, TRUE)}, av \in Media :
          /\ is' = [i EXCEPT !.phase = "opened", !.av = av, !.prepared = (av = "audio")]
          /\ UNCHANGED msgs \/ Post("PREPARED")
    BY <1>3 DEF Opened
  <2>2. i \in Streams /\ i.abort = is.abort
    <3>1. Paused(is, TRUE) \in Streams /\ Paused(is, TRUE).abort = is.abort
      BY <1>1 DEF Paused, Streams
    <3>2. QED
      BY <1>1, <3>1
  <2>3. is'.abort = is.abort /\ is'.phase = "opened"
    BY <2>1, <2>2 DEF Streams
  <2>4. is.phase = "opening" /\ StreamStep /\ is # NoStream
    BY <1>3 DEF Opened, NoStream
  <2>5. QED
    BY <1>3, <2>1, <2>3, <2>4 DEF Events
<1>4. CASE FirstFrame
  BY <1>1, <1>4 DEF FirstFrame, NoStream, Streams, Events
<1>5. CASE EnterLoop
  <2>1. is'.abort = is.abort /\ is'.phase = "running" /\ is'.av = is.av
    BY <1>1, <1>5 DEF EnterLoop, Streams
  <2>2. QED
    BY <1>5, <2>1 DEF EnterLoop, NoStream, Requests
<1>6. CASE StepDone
  BY <1>1, <1>6 DEF StepDone, NoStream, Streams
<1>7. CASE DecoderFails
  BY <1>1, <1>7 DEF DecoderFails, NoStream, Streams, Events
<1>8. CASE SeekBegin \/ CompleteBegin \/ ReadExits
  <2>1. is.phase = "running" /\ StreamStep /\ UNCHANGED msgs
        /\ \E p \in {"seeking", "completing", "exited"} :
              is' = [is EXCEPT !.phase = p] \/ is' = [is EXCEPT !.phase = p, !.seek_req = FALSE]
    BY <1>8 DEF SeekBegin, CompleteBegin, ReadExits
  <2>2. is'.phase \in {"seeking", "completing", "exited"} /\ is'.av = is.av /\ is'.abort = is.abort
    BY <1>1, <2>1 DEF Streams
  <2>3. QED
    BY <2>1, <2>2 DEF NoStream
<1>9. CASE SeekEnd
  <2>1. is'.abort = is.abort /\ is'.phase = "running" /\ is'.av = is.av
    BY <1>1, <1>9 DEF SeekEnd, Streams
  <2>2. QED
    BY <1>9, <2>1 DEF SeekEnd, NoStream, Events
<1>10. CASE CompleteEnd
  <2>1. is'.abort = is.abort /\ is'.phase = "running" /\ is'.av = is.av
    BY <1>1, <1>10 DEF CompleteEnd, Paused, Streams
  <2>2. is.phase = "completing" /\ StreamStep /\ \E w \in Requests \cup Events : Post(w)
    BY <1>10 DEF CompleteEnd, Events
  <2>3. QED
    BY <2>1, <2>2 DEF NoStream
<1>11. QED
  BY <1>2, <1>3, <1>4, <1>5, <1>6, <1>7, <1>8, <1>9, <1>10 DEF StreamNext

\* What a post adds to the queue.
LEMMA PostHolds ==
    ASSUME TypeOK, NEW w \in Requests \cup Events, Post(w)
    PROVE  /\ \A v : Holds(msgs', v) <=> Holds(msgs, v) \/ (~aborted /\ w = v)
           /\ (w # "PREPARED" /\ PreparedFirst(msgs)) => PreparedFirst(msgs')
<1>1. msgs \in Seq(Messages) /\ aborted \in BOOLEAN
  BY DEF TypeOK
<1>2. Simple(w) \in Messages /\ Simple(w).what = w
  BY MsgTypes, SimpleKinds
<1>3. QED
  BY <1>1, <1>2, PutHolds, PutPrepared DEF Post

\* prepare finds neither a stream nor, before the first one, a message.
LEMMA PrepareStep ==
    ASSUME TypeOK, SessionInv, FirstStream, NEW sync \in BOOLEAN, Prepare(sync)
    PROVE  /\ is' = NewStream /\ ~aborted' /\ msgThread' = "get" /\ streams' = streams + 1
           /\ mp'.state = "ASYNC_PREPARING"
           /\ streams' = 1 => \A w : w # "STATE_CHANGED" => ~Holds(msgs', w)
<1>1. mp \in Players /\ "ASYNC_PREPARING" \in States /\ streams \in Nat
  BY DEF TypeOK, States
<1>2. mp'.state = "ASYNC_PREPARING"
  BY <1>1 DEF Prepare, Players
<1>3. ASSUME streams' = 1, NEW w, w # "STATE_CHANGED" PROVE ~Holds(msgs', w)
  <2>1. msgs = <<>>
    BY <1>1, <1>3 DEF Prepare, FirstStream
  <2>2. msgs' = <<Changed("ASYNC_PREPARING")>>
    BY <2>1 DEF Prepare
  <2>3. Changed("ASYNC_PREPARING").what = "STATE_CHANGED"
    BY DEF Changed, Msg
  <2>4. QED
    BY <1>3, <2>2, <2>3 DEF Holds
<1>4. QED
  BY <1>2, <1>3 DEF Prepare

\* The steps of the application thread that end a stream or find none.
LEMMA NoStreamStep ==
    ASSUME TypeOK, SessionInv, FirstStream,
           \/ SetDataSource \/ PrepareFails \/ CloseStream
           \/ FinishStop \/ FinishReset \/ FinishRelease
    PROVE  is' = NoStream
<1> USE DEF SessionInv, Quiet, FirstStream, At, Call, streamVars
<1>1. CASE SetDataSource
  BY <1>1 DEF SetDataSource
<1>2. CASE PrepareFails
  <2>1. api.pc = "idle" /\ mp.state \in {"INITIALIZED", "STOPPED"} /\ is' = is
    BY <1>2 DEF PrepareFails, Preparable
  <2>2. QED
    BY <2>1 DEF Stopping
<1>3. CASE CloseStream
  BY <1>3 DEF CloseStream
<1>4. CASE FinishStop \/ FinishReset \/ FinishRelease
  BY <1>4 DEF FinishStop, FinishReset, FinishRelease
<1>5. QED
  BY <1>1, <1>2, <1>3, <1>4

\* stop, reset and release begin to close the stream.
LEMMA CloseStep ==
    ASSUME TypeOK, StopStream
    PROVE  /\ UNCHANGED <<mp, aborted, msgThread, hand, streams>>
           /\ is.phase # "null" /\ is'.phase = is.phase /\ is'.av = is.av /\ is'.abort
           /\ \A w \in Events : Holds(msgs', w) <=> Holds(msgs, w)
           /\ PreparedFirst(msgs) => PreparedFirst(msgs')
<1>1. msgs \in Seq(Messages) /\ aborted \in BOOLEAN /\ is \in Streams
  BY DEF TypeOK
<1> DEFINE r1 == Remove(msgs, aborted, "REQ_START")
           r2 == Remove(r1, aborted, "REQ_PAUSE")
           r3 == Remove(r2, aborted, "REQ_SEEK")
           r4 == Remove(r3, aborted, "REQ_STOP")
<1>2. msgs' = Put(r4, aborted, Simple("REQ_STOP"))
  BY DEF StopStream, PostStop
<1>3. \A w \in Events : w \notin Requests /\ w # "BLANK" /\ w # "REQ_STOP"
  BY DEF Events, Requests
<1>4. ASSUME NEW q \in Seq(Messages), NEW v \in Requests \cup {"REQ_STOP"}
      PROVE  /\ Remove(q, aborted, v) \in Seq(Messages)
             /\ \A w \in Events : Holds(Remove(q, aborted, v), w) <=> Holds(q, w)
             /\ PreparedFirst(q) => PreparedFirst(Remove(q, aborted, v))
  BY <1>1, <1>3, RemoveType, RemoveHolds, RemovePrepared
<1>5. {"REQ_START", "REQ_PAUSE", "REQ_SEEK", "REQ_STOP"} = Requests \cup {"REQ_STOP"}
  BY DEF Requests
<1>6. /\ r1 \in Seq(Messages)
      /\ \A w \in Events : Holds(r1, w) <=> Holds(msgs, w)
      /\ PreparedFirst(msgs) => PreparedFirst(r1)
  BY <1>1, <1>4, <1>5
<1> HIDE DEF r1
<1>7. /\ r2 \in Seq(Messages)
      /\ \A w \in Events : Holds(r2, w) <=> Holds(r1, w)
      /\ PreparedFirst(r1) => PreparedFirst(r2)
  BY <1>4, <1>5, <1>6
<1> HIDE DEF r2
<1>8. /\ r3 \in Seq(Messages)
      /\ \A w \in Events : Holds(r3, w) <=> Holds(r2, w)
      /\ PreparedFirst(r2) => PreparedFirst(r3)
  BY <1>4, <1>5, <1>7
<1> HIDE DEF r3
<1>9. /\ r4 \in Seq(Messages)
      /\ \A w \in Events : Holds(r4, w) <=> Holds(r3, w)
      /\ PreparedFirst(r3) => PreparedFirst(r4)
  BY <1>4, <1>5, <1>8
<1> HIDE DEF r4
<1>10. Simple("REQ_STOP") \in Messages /\ Simple("REQ_STOP").what = "REQ_STOP"
  BY MsgTypes, SimpleKinds
<1>11. /\ \A w \in Events : Holds(msgs', w) <=> Holds(r4, w)
       /\ PreparedFirst(r4) => PreparedFirst(msgs')
  BY <1>1, <1>2, <1>3, <1>9, <1>10, PutHolds, PutPrepared
<1>12. is.phase # "null" /\ is'.phase = is.phase /\ is'.av = is.av /\ is'.abort
  BY <1>1 DEF StopStream, Paused, Streams
<1>13. UNCHANGED <<mp, aborted, msgThread, hand, streams>>
  BY DEF StopStream, threadVars, bounds
<1>14. QED
  BY <1>6, <1>7, <1>8, <1>9, <1>11, <1>12, <1>13

\* The steps of the application thread that neither change the stream nor post.
LEMMA CallStep ==
    ASSUME TypeOK,
           \/ WaitCheck \/ WaitReturn \/ StopNothing \/ JoinMsgThread
           \/ \E op \in {"reset", "release"} : Shutdown(op)
    PROVE  /\ UNCHANGED <<mp, msgs, aborted, is, auto_resume, hand, streams>>
           /\ msgThread' = msgThread \/ (msgThread' = "none" /\ msgThread # "handle")
BY DEF WaitCheck, WaitReturn, StopNothing, JoinMsgThread, Shutdown, streamVars, threadVars, bounds

\* The next message goes to the hand of the message thread.
LEMMA GetStep ==
    ASSUME TypeOK, GetMsg
    PROVE  /\ UNCHANGED <<mp, is, auto_resume, streams>>
           /\ aborted' => Holds(msgs, "REQ_STOP")
           /\ \A w : Holds(msgs', w) => Holds(msgs, w)
           /\ \A w \in Requests \cup Events : Pending(w)' <=> Pending(w)
           /\ PreparedFirst(msgs) =>
                 /\ PreparedFirst(msgs')
                 /\ hand'.what \in Events => ~Holds(msgs', "PREPARED")
<1>1. PICK i \in 1..Len(msgs) :
        /\ IsFirst(msgs, i)
        /\ msgs' = Rest(msgs, i)
        /\ hand' = msgs[i]
        /\ aborted' = (msgs[i].what = "REQ_STOP")
        /\ msgThread' = IF msgs[i].what = "REQ_STOP" THEN "exited"
                        ELSE IF msgs[i].what = "STATE_CHANGED" THEN "loop"
                        ELSE "handle"
  BY DEF GetMsg
<1>2. msgs \in Seq(Messages)
  BY DEF TypeOK
<1>3. \A w : w # "BLANK" => (Holds(msgs, w) <=> msgs[i].what = w \/ Holds(msgs', w))
  BY <1>1, <1>2, RestHolds
<1>4. \A w : Holds(msgs', w) => Holds(msgs, w)
  <2> SUFFICES ASSUME NEW w, NEW k \in 1..Len(msgs'), msgs'[k].what = w PROVE Holds(msgs, w)
    BY DEF Holds
  <2>1. Len(msgs) \in Nat /\ i \in Nat /\ Len(msgs') = Len(msgs) - i /\ msgs'[k] = msgs[k + i]
    BY <1>1, <1>2 DEF Rest
  <2>2. k + i \in 1..Len(msgs)
    BY <2>1
  <2>3. QED
    BY <2>1, <2>2 DEF Holds
<1>5. ASSUME NEW w \in Requests \cup Events
      PROVE  Pending(w)' <=> Pending(w)
  <2>1. w # "BLANK" /\ w # "REQ_STOP" /\ w # "STATE_CHANGED"
    BY DEF Requests, Events
  <2>2. msgThread = "get"
    BY DEF GetMsg
  <2>3. QED
    BY <1>1, <1>3, <2>1, <2>2 DEF Pending
<1>6. UNCHANGED <<mp, is, auto_resume, streams>>
  BY DEF GetMsg, streamVars, bounds
<1>7. aborted' => Holds(msgs, "REQ_STOP")
  BY <1>1 DEF Holds
<1>8. PreparedFirst(msgs) => PreparedFirst(msgs') /\ (hand'.what \in Events => ~Holds(msgs', "PREPARED"))
  BY <1>1, <1>2, RestPrepared
<1>9. QED
  BY <1>4, <1>5, <1>6, <1>7, <1>8

LEMMA FirstInductive == TypeOK /\ SessionInv /\ FirstStream /\ [Next]_vars => FirstStream'
<1> SUFFICES ASSUME TypeOK, SessionInv, FirstStream, [Next]_vars PROVE FirstStream'
  OBVIOUS
<1>0. NoStream.phase = "null" /\ NewStream.phase = "opening" /\ streams \in Nat
  BY DEF NoStream, NewStream, TypeOK
<1>1. CASE SetDataSource
  <2>1. is' = NoStream /\ streams' = streams /\ aborted' = aborted /\ msgThread' = msgThread
    BY <1>1, NoStreamStep DEF SetDataSource, threadVars
  <2>2. mp'.state = "INITIALIZED" /\ (aborted => msgs' = msgs)
    BY <1>1 DEF SetDataSource, Announce, Put, TypeOK, Players, States
  <2>3. QED
    BY <1>0, <2>1, <2>2 DEF FirstStream, Alive
<1>2. ASSUME NEW sync \in BOOLEAN, Prepare(sync) PROVE FirstStream'
  BY <1>0, <1>2, PrepareStep DEF FirstStream, Alive
<1>3. CASE PrepareFails
  <2>1. is' = NoStream /\ streams' = streams + 1
    BY <1>3, NoStreamStep DEF PrepareFails
  <2>2. QED
    BY <1>0, <2>1 DEF FirstStream, Alive
<1>4. CASE Start \/ Pause \/ SeekTo \/ Stop
  <2>1. streams = 0 => mp' = mp \/ mp'.state = mp.state
    BY <1>4, RequestStep DEF FirstStream
  <2>2. streams = 0 => msgs' = msgs
    <3>1. aborted => \/ msgs' = msgs
                     \/ mp.state \notin {"IDLE", "INITIALIZED"}
      BY <1>4 DEF Start, Pause, SeekTo, Stop, Startable, Pausable, Stoppable
    <3>2. QED
      BY <3>1 DEF FirstStream
  <2>3. QED
    BY <1>4, <2>1, <2>2, RequestStep DEF FirstStream, Alive
<1>5. CASE CloseStream \/ FinishStop \/ FinishReset \/ FinishRelease
  <2>1. is' = NoStream /\ streams' = streams
    BY <1>5, NoStreamStep DEF CloseStream, FinishStop, FinishReset, FinishRelease, bounds
  <2>2. streams = 0 => aborted' /\ msgs' = <<>> /\ msgThread' = "none" /\ mp'.state \in {"IDLE", "INITIALIZED"}
    <3>1. CASE CloseStream
      BY <3>1 DEF FirstStream, CloseStream, threadVars
    <3>2. CASE FinishStop
      BY <3>2 DEF FirstStream, FinishStop, threadVars
    <3>3. CASE FinishReset
      BY <3>3 DEF FirstStream, FinishReset, NewPlayer, threadVars
    <3>4. CASE FinishRelease
      BY <3>4 DEF FirstStream, FinishRelease, threadVars
    <3>5. QED
      BY <1>5, <3>1, <3>2, <3>3, <3>4
  <2>3. QED
    BY <1>0, <2>1, <2>2 DEF FirstStream, Alive
<1>6. CASE StopStream
  BY <1>6, CloseStep DEF FirstStream, Alive
<1>7. CASE WaitCheck \/ WaitReturn \/ StopNothing \/ JoinMsgThread \/ \E op \in {"reset", "release"} : Shutdown(op)
  <2>1. UNCHANGED <<mp, msgs, aborted, is, streams>> /\ (msgThread' = msgThread \/ msgThread' = "none")
    BY <1>7, CallStep
  <2>2. QED
    BY <2>1 DEF FirstStream, Alive
<1>8. CASE GetMsg
  <2>1. msgThread = "get"
    BY <1>8 DEF GetMsg
  <2>2. QED
    BY <1>8, <2>1, GetStep DEF FirstStream, Alive, TypeOK
<1>9. CASE MsgNext /\ ~GetMsg
  <2>1. Running
    BY <1>9, MsgFrame
  <2>2. Holds(msgs', "REQ_STOP") <=> Holds(msgs, "REQ_STOP")
    BY <1>9, MsgHolds
  <2>3. is' = is \/ is'.phase = is.phase
    BY <1>9, HandleStep
  <2>4. QED
    BY <1>9, <2>1, <2>2, HandleStep DEF FirstStream, Alive, Running
<1>10. CASE StreamNext
  <2>1. is.phase # "null" /\ streams' = streams /\ aborted' = aborted
    BY <1>10, PostStep DEF FirstStream
  <2>2. Holds(msgs', "REQ_STOP") <=> Holds(msgs, "REQ_STOP")
    BY <1>10, PostStep, PostHolds DEF Requests, Events
  <2>3. QED
    BY <1>10, <2>1, <2>2, PostStep DEF FirstStream, Alive
<1>11. CASE UNCHANGED vars
  BY <1>11 DEF FirstStream, Alive, vars
<1>12. QED
  BY <1>1, <1>2, <1>3, <1>4, <1>5, <1>6, <1>7, <1>8, <1>9, <1>10, <1>11 DEF Next, AppNext, AppWait, MsgNext

\* While the player is being prepared, and after it was stopped, a request
\* changes nothing but the wish to start.
LEMMA HandledRequest ==
    ASSUME TypeOK, MsgNext, ~GetMsg, hand.what \notin Events,
           mp.state \in {"ASYNC_PREPARING", "STOPPED"}
    PROVE  /\ UNCHANGED <<mp, msgs>>
           /\ is'.pause_req = is.pause_req
<1>1. "PREPARED" \in Events /\ "COMPLETED" \in Events /\ "SEEK_COMPLETE" \in Events /\ "ERROR" \in Events
  BY DEF Events
<1>2. \A e \in Events : ~Handle(e)
  BY DEF Handle
<1>3. ~HandlePrepared /\ ~HandleCompleted /\ ~HandleSeekComplete /\ ~HandleError
  BY <1>1, <1>2 DEF HandlePrepared, HandleCompleted, HandleSeekComplete, HandleError
<1>4. mp.state \notin Pausable /\ mp.state \notin Seekable
  BY DEF Pausable, Seekable, Startable
<1>5. ~HandleStart /\ ~HandlePause /\ ~HandleSeek
  <2>1. ~HandleStart
    BY <1>4, Zenon DEF HandleStart
  <2>2. ~HandlePause /\ ~HandleSeek
    BY <1>4 DEF HandlePause, HandleSeek
  <2>3. QED
    BY <2>1, <2>2
<1>6. CASE HandleEarly
  BY <1>6 DEF HandleEarly, TypeOK, Streams
<1>7. CASE HandleWithoutStream \/ HandleRefused
  BY <1>7 DEF HandleWithoutStream, HandleRefused, streamVars
<1>8. CASE LoopError \/ LoopEvent \/ LoopChange
  BY <1>8 DEF LoopError, LoopEvent, LoopChange, Loop, streamVars
<1>9. QED
  BY <1>3, <1>5, <1>6, <1>7, <1>8 DEF MsgNext

\* What is pending when the message thread has handled the message in its hand.
LEMMA PendingStep ==
    ASSUME TypeOK, MsgNext, ~GetMsg, NEW w \in Requests \cup Events
    PROVE  /\ Pending(w)' <=> Holds(msgs', w)
           /\ Holds(msgs, w) => Holds(msgs', w)
           /\ Holds(msgs', w) => Holds(msgs, w) \/ w = "COMPLETED"
           /\ Pending(w) <=> Holds(msgs, w) \/ (msgThread = "handle" /\ hand.what = w)
<1>1. w # "STATE_CHANGED"
  BY DEF Requests, Events
<1>2. QED
  BY <1>1, HandleStep, MsgHolds DEF Pending

LEMMA OpeningInductive ==
    TypeOK /\ SessionInv /\ FirstStream /\ Opening /\ [Next]_vars => Opening'
<1> SUFFICES ASSUME TypeOK, SessionInv, FirstStream, Opening, [Next]_vars PROVE Opening'
  OBVIOUS
<1>0. NoStream.phase = "null" /\ "null" # "opening"
  BY DEF NoStream
<1>1. CASE SetDataSource \/ PrepareFails \/ CloseStream \/ FinishStop \/ FinishReset \/ FinishRelease
  BY <1>0, <1>1, NoStreamStep DEF Opening
<1>2. ASSUME NEW sync \in BOOLEAN, Prepare(sync) PROVE Opening'
  <2>1. "STATE_CHANGED" \notin Events /\ NewStream.av = "none" /\ (StartOnPrepared => ~NewStream.pause_req)
    BY ConfigAssumption DEF Events, NewStream, NoStream
  <2>2. QED
    BY <1>2, <2>1, PrepareStep DEF Opening, Pending
<1>3. CASE Start \/ Pause \/ SeekTo \/ Stop
  BY <1>3, RequestStep DEF Opening, Pending
<1>4. CASE StopStream
  BY <1>4, CloseStep DEF Opening, Pending
<1>5. CASE WaitCheck \/ WaitReturn \/ StopNothing \/ JoinMsgThread \/ \E op \in {"reset", "release"} : Shutdown(op)
  <2>1. UNCHANGED <<mp, msgs, is, hand, streams>> /\ (msgThread' = msgThread \/ msgThread' = "none")
    BY <1>5, CallStep
  <2>2. QED
    BY <2>1 DEF Opening, Pending
<1>6. CASE GetMsg
  BY <1>6, GetStep DEF Opening
<1>7. CASE MsgNext /\ ~GetMsg
  <2> SUFFICES ASSUME streams' = 1, is'.phase = "opening"
               PROVE  /\ is'.av = "none" /\ mp'.state \in {"ASYNC_PREPARING", "STOPPED"}
                      /\ \A e \in Events : ~Pending(e)'
                      /\ StartOnPrepared => ~is'.pause_req \/ is'.abort
    BY DEF Opening
  <2>1. streams = 1 /\ is.phase = "opening" /\ is'.av = is.av /\ is'.abort = is.abort
    BY <1>7, HandleStep
  <2>2. \A e \in Events : ~Pending(e)
    BY <2>1 DEF Opening
  <2>3. CASE msgThread = "handle"
    <3>1. hand.what \notin Events
      BY <2>2, <2>3 DEF Pending
    <3>2. UNCHANGED <<mp, msgs>> /\ is'.pause_req = is.pause_req
      BY <1>7, <2>1, <3>1, HandledRequest DEF Opening
    <3>3. \A e \in Events : Pending(e)' => Pending(e)
      BY <1>7, <3>2, PendingStep
    <3>4. QED
      BY <2>1, <2>2, <3>2, <3>3 DEF Opening
  <2>4. CASE msgThread # "handle"
    <3>1. UNCHANGED <<mp, msgs, is>>
      BY <1>7, <2>4 DEF MsgNext, HandlePrepared, HandleWithoutStream, HandleCompleted, HandleSeekComplete, HandleError,
         HandleEarly, HandleStart, HandlePause, HandleSeek, HandleRefused, Handle,
         LoopError, LoopEvent, LoopChange, Loop, streamVars
    <3>2. \A e \in Events : Pending(e)' => Pending(e)
      BY <1>7, <3>1, PendingStep
    <3>3. QED
      BY <2>1, <2>2, <3>1, <3>2 DEF Opening
  <2>5. QED
    BY <2>3, <2>4
<1>8. CASE StreamNext
  <2> SUFFICES ASSUME streams' = 1, is'.phase = "opening" PROVE Opening'
    BY DEF Opening
  <2>1. streams = 1 /\ is.phase = "opening" /\ is.av = "none"
    BY <1>8, PostStep DEF Opening
  <2>2. is \in Streams
    BY DEF TypeOK
  <2>3. StepDone
    <3>1. ~OpenFails
      BY <2>2 DEF OpenFails, Streams
    <3>2. ~Opened
      <4> SUFFICES ASSUME Opened PROVE FALSE
        OBVIOUS
      <4>1. PICK i \in {is, Paused(is, TRUE)}, av \in Media :
              is' = [i EXCEPT !.phase = "opened", !.av = av, !.prepared = (av = "audio")]
        BY DEF Opened
      <4>2. i \in Streams
        BY <2>2, StreamUpdates
      <4>3. is'.phase = "opened"
        BY <4>1, <4>2 DEF Streams
      <4>4. QED
        BY <4>3
    <3>3. QED
      BY <1>8, <2>1, <3>1, <3>2 DEF StreamNext, FirstFrame, EnterLoop, DecoderFails,
         SeekBegin, SeekEnd, CompleteBegin, CompleteEnd, ReadExits
  <2>4. /\ UNCHANGED <<mp, msgs, msgThread, hand, streams>>
        /\ is'.av = is.av /\ is'.pause_req = is.pause_req /\ is'.abort = is.abort
    BY <2>2, <2>3 DEF StepDone, StreamStep, Streams, threadVars, bounds
  <2>5. QED
    BY <2>1, <2>4 DEF Opening, Pending
<1>9. CASE UNCHANGED vars
  BY <1>9 DEF Opening, Pending, vars
<1>10. QED
  BY <1>1, <1>2, <1>3, <1>4, <1>5, <1>6, <1>7, <1>8, <1>9 DEF Next, AppNext, AppWait, MsgNext

LEMMA LoopStep ==
    ASSUME MsgNext, ~GetMsg, msgThread # "handle"
    PROVE  UNCHANGED <<mp, msgs, is, auto_resume>>
BY DEF MsgNext, HandlePrepared, HandleWithoutStream, HandleCompleted, HandleSeekComplete, HandleError,
   HandleEarly, HandleStart, HandlePause, HandleSeek, HandleRefused, Handle,
   LoopError, LoopEvent, LoopChange, Loop, streamVars

\* Only the end of the stream pauses a stream from inside, and it says so.
LEMMA PausedFromInside ==
    ASSUME TypeOK, StreamNext, ~Opened, is'.pause_req, ~is.pause_req, ~aborted
    PROVE  Pending("COMPLETED")' \/ Pending("ERROR")'
<1>1. is \in Streams
  BY DEF TypeOK
<1>2. CASE CompleteEnd
  <2>1. PICK w \in {"COMPLETED", "ERROR"} : Post(w)
    BY <1>2 DEF CompleteEnd
  <2>2. w \in Requests \cup Events
    BY DEF Events
  <2>3. Holds(msgs', w)
    BY <2>1, <2>2, PostHolds
  <2>4. QED
    BY <2>1, <2>3 DEF Pending
<1>3. CASE OpenFails \/ FirstFrame \/ StepDone \/ DecoderFails \/ SeekBegin \/ CompleteBegin \/ ReadExits
  BY <1>1, <1>3 DEF OpenFails, FirstFrame, StepDone, DecoderFails, SeekBegin, CompleteBegin, ReadExits, Streams
<1>4. CASE EnterLoop
  BY <1>1, <1>4 DEF EnterLoop, Streams
<1>5. CASE SeekEnd
  BY <1>1, <1>5 DEF SeekEnd, Streams
<1>6. QED
  BY <1>2, <1>3, <1>4, <1>5 DEF StreamNext

LEMMA SoundInductive ==
    TypeOK /\ SessionInv /\ FirstStream /\ Opening /\ SoundPrepared /\ [Next]_vars => SoundPrepared'
<1> SUFFICES ASSUME TypeOK, SessionInv, FirstStream, Opening, SoundPrepared, [Next]_vars,
                    streams' = 1, StartOnPrepared, is'.av = "audio", Pending("PREPARED")'
             PROVE  SoundPrepared'
  BY DEF SoundPrepared
<1>0. NoStream.av = "none" /\ NewStream.av = "none" /\ "PREPARED" \in Events
      /\ {"COMPLETED", "ERROR"} \subseteq Events
  BY DEF NoStream, NewStream, Events
<1>1. CASE SetDataSource \/ PrepareFails \/ CloseStream \/ FinishStop \/ FinishReset \/ FinishRelease
  BY <1>0, <1>1, NoStreamStep
<1>2. ASSUME NEW sync \in BOOLEAN, Prepare(sync) PROVE SoundPrepared'
  BY <1>0, <1>2, PrepareStep
<1>3. CASE Start \/ Pause \/ SeekTo \/ Stop
  BY <1>0, <1>3, RequestStep DEF SoundPrepared, Pausing, Pending
<1>4. CASE StopStream
  BY <1>0, <1>4, CloseStep DEF SoundPrepared, Pending
<1>5. CASE WaitCheck \/ WaitReturn \/ StopNothing \/ JoinMsgThread \/ \E op \in {"reset", "release"} : Shutdown(op)
  <2>1. UNCHANGED <<mp, msgs, is, hand, streams>>
        /\ (msgThread' = msgThread \/ (msgThread' = "none" /\ msgThread # "handle"))
    BY <1>5, CallStep
  <2>2. QED
    BY <2>1 DEF SoundPrepared, Pausing, Pending
<1>6. CASE GetMsg
  <2>1. /\ Pending("PREPARED") /\ UNCHANGED <<mp, is>> /\ streams = 1
        /\ Pending("COMPLETED")' <=> Pending("COMPLETED")
        /\ Pending("ERROR")' <=> Pending("ERROR")
    BY <1>0, <1>6, GetStep
  <2>2. PreparedFirst(msgs)
    BY <2>1 DEF SoundPrepared
  <2>3. PreparedFirst(msgs') /\ (hand'.what \in Events => ~Holds(msgs', "PREPARED"))
    BY <1>6, <2>2, GetStep
  <2>4. msgThread' = "handle" /\ hand'.what \in Events => hand'.what = "PREPARED"
    BY <2>3 DEF Pending
  <2>5. QED
    BY <2>1, <2>3, <2>4 DEF SoundPrepared, Pausing
<1>7. CASE MsgNext /\ ~GetMsg
  <2>1. /\ streams = 1 /\ is.av = "audio" /\ is'.abort = is.abort /\ msgThread' # "handle"
        /\ Holds(msgs', "PREPARED")
    BY <1>0, <1>7, HandleStep, PendingStep
  <2>2. Holds(msgs, "PREPARED") /\ Pending("PREPARED")
    BY <1>0, <1>7, <2>1, PendingStep
  <2>3. CASE msgThread = "handle"
    <3>1. hand.what \notin Events
      BY <2>1, <2>2, <2>3 DEF SoundPrepared
    <3>2. UNCHANGED <<mp, msgs>> /\ is'.pause_req = is.pause_req
      BY <1>7, <2>1, <2>2, <3>1, HandledRequest DEF SoundPrepared
    <3>3. \A e \in {"COMPLETED", "ERROR"} : Pending(e)' <=> Pending(e)
      BY <1>0, <1>7, <3>1, <3>2, PendingStep
    <3>4. QED
      BY <2>1, <2>2, <3>2, <3>3 DEF SoundPrepared, Pausing
  <2>4. CASE msgThread # "handle"
    <3>1. UNCHANGED <<mp, msgs, is>>
      BY <1>7, <2>4, LoopStep
    <3>2. \A e \in {"COMPLETED", "ERROR"} : Pending(e)' <=> Pending(e)
      BY <1>0, <1>7, <2>4, <3>1, PendingStep
    <3>3. QED
      BY <2>1, <2>2, <3>1, <3>2 DEF SoundPrepared, Pausing
  <2>5. QED
    BY <2>3, <2>4
<1>8. CASE StreamNext
  <2>1. /\ UNCHANGED <<mp, aborted, msgThread, hand, streams>> /\ streams = 1
        /\ is'.abort = is.abort /\ is.phase # "null"
    BY <1>8, PostStep DEF FirstStream
  <2>2. CASE Opened
    <3>1. PICK av \in Media :
            /\ is' = [is EXCEPT !.phase = "opened", !.av = av, !.prepared = (av = "audio")]
            /\ IF av = "audio" THEN Post("PREPARED") ELSE UNCHANGED msgs
      BY <2>2 DEF Opened
    <3>2. is \in Streams /\ is.phase = "opening" /\ msgs \in Seq(Messages) /\ aborted \in BOOLEAN
      BY <2>2 DEF TypeOK, Opened
    <3>3. is'.av = av /\ is'.pause_req = is.pause_req
      BY <3>1, <3>2 DEF Streams
    <3>4. Post("PREPARED") /\ av = "audio"
      BY <3>1, <3>3
    <3>5. /\ mp.state \in {"ASYNC_PREPARING", "STOPPED"} /\ \A e \in Events : ~Pending(e)
          /\ ~is.pause_req \/ is.abort
      BY <2>1, <3>2 DEF Opening
    <3>6. \A e \in Events : ~Holds(msgs, e)
      BY <3>5 DEF Pending
    <3>7. \A i \in 1..Len(msgs) : msgs[i].what # "PREPARED"
      BY <1>0, <3>6 DEF Holds
    <3>8. PreparedFirst(msgs')
      <4>1. Simple("PREPARED") \in Messages /\ PreparedFirst(msgs)
        BY <1>0, <3>7, MsgTypes DEF PreparedFirst
      <4>2. QED
        BY <3>2, <3>4, <3>6, <4>1, PutPrepared DEF Post
    <3>9. ~(msgThread' = "handle" /\ hand'.what \in Events)
      BY <2>1, <3>5 DEF Pending
    <3>10. QED
      BY <2>1, <3>3, <3>5, <3>8, <3>9 DEF SoundPrepared, Pausing
  <2>3. CASE ~Opened
    <3>1. is.av = "audio" /\ ~FirstFrame
      BY <1>8, <2>3, PostStep DEF FirstFrame
    <3>2. UNCHANGED msgs \/ \E w \in (Requests \cup Events) \ {"PREPARED"} : Post(w)
      BY <1>8, <2>3, <3>1 DEF StreamNext, OpenFails, EnterLoop, StepDone, DecoderFails,
         SeekBegin, SeekEnd, CompleteBegin, CompleteEnd, ReadExits, Requests, Events
    <3>3. /\ Holds(msgs', "PREPARED") <=> Holds(msgs, "PREPARED")
          /\ \A e \in {"COMPLETED", "ERROR"} : Holds(msgs, e) => Holds(msgs', e)
          /\ PreparedFirst(msgs) => PreparedFirst(msgs')
      BY <3>2, PostHolds
    <3>4. Pending("PREPARED")
      BY <2>1, <3>3 DEF Pending
    <3>5. ~is'.abort => ~Pausing'
      <4>1. CASE is'.abort
        BY <4>1
      <4>2. CASE ~is'.abort
        <5>1. Alive /\ ~Pausing
          BY <2>1, <3>1, <3>4, <4>2 DEF SoundPrepared, Alive
        <5>2. CASE is.pause_req
          BY <2>1, <3>3, <5>1, <5>2 DEF Pausing, Pending
        <5>3. CASE ~is.pause_req
          BY <1>8, <2>3, <5>1, <5>3, PausedFromInside DEF FirstStream, Pausing, TypeOK, Streams
        <5>4. QED
          BY <5>2, <5>3
      <4>3. QED
        BY <4>1, <4>2
    <3>6. QED
      BY <2>1, <3>1, <3>3, <3>4, <3>5 DEF SoundPrepared
  <2>4. QED
    BY <2>2, <2>3
<1>9. CASE UNCHANGED vars
  BY <1>9 DEF SoundPrepared, Pausing, Pending, vars
<1>10. QED
  BY <1>1, <1>2, <1>3, <1>4, <1>5, <1>6, <1>7, <1>8, <1>9 DEF Next, AppNext, AppWait, MsgNext

\* Of a player that is told to play: who plays, or soon will.
Says  == mp.state = "STARTED" /\ Alive /\ (StartOnPrepared => is.av = "audio")
Plays ==
    \/ ~is.pause_req
    \/ auto_resume /\ (is.seek_req \/ is.phase = "seeking")
    \/ \E w \in {"COMPLETED", "ERROR", "REQ_START", "REQ_PAUSE"} : Pending(w)

LEMMA PlaysMsg ==
    ASSUME TypeOK, SessionInv, FirstStream, Opening, SoundPrepared, Says => Plays,
           MsgNext, ~GetMsg, Says'
    PROVE  Plays'
<1>1. mp \in Players /\ is \in Streams /\ msgs \in Seq(Messages) /\ auto_resume \in BOOLEAN
  BY DEF TypeOK
<1>2. Alive /\ is'.phase = is.phase /\ is.phase # "null" /\ (StartOnPrepared => is.av = "audio") /\ ~aborted
  <2>1. Alive /\ (StartOnPrepared => is.av = "audio") /\ is'.phase = is.phase
    BY HandleStep DEF Says, Alive
  <2>2. QED
    BY <2>1 DEF Alive, FirstStream
<1>3. \A s \in States : [mp EXCEPT !.state = s].state = s
  BY <1>1 DEF Players
<1>4. \A w \in {"COMPLETED", "ERROR", "REQ_START", "REQ_PAUSE"} :
        /\ w \in Requests \cup Events
        /\ Holds(msgs, w) => Pending(w)'
        /\ Pending(w) => Holds(msgs, w) \/ (msgThread = "handle" /\ hand.what = w)
  BY PendingStep DEF Requests, Events
<1>5. ASSUME mp'.state = mp.state, is'.pause_req = is.pause_req,
             auto_resume' = auto_resume, is'.seek_req = is.seek_req,
             msgThread = "handle" => hand.what \notin {"COMPLETED", "ERROR", "REQ_START", "REQ_PAUSE"}
      PROVE  Plays'
  <2>1. Says
    BY <1>2, <1>5 DEF Says
  <2>2. QED
    BY <1>2, <1>4, <1>5, <2>1 DEF Plays
<1>6. CASE HandlePrepared
  <2>1. /\ msgThread = "handle" /\ hand.what = "PREPARED"
        /\ is' = IF is.single_play THEN Paused(is, FALSE) ELSE is
        /\ mp'.state = IF StartOnPrepared \/ is.single_play THEN "STARTED" ELSE "PAUSED"
    <3>1. mp' = [mp EXCEPT !.state = IF StartOnPrepared \/ is.single_play THEN "STARTED" ELSE "PAUSED"]
      BY <1>6, Zenon DEF HandlePrepared
    <3>2. QED
      BY <1>1, <1>6, <3>1 DEF HandlePrepared, Handle, Players
  <2>2. CASE is.single_play
    BY <1>1, <2>1, <2>2 DEF Plays, Paused, Streams
  <2>3. CASE ~is.single_play
    <3>1. StartOnPrepared /\ is' = is
      BY <2>1, <2>3 DEF Says
    <3>2. Pending("PREPARED") /\ is.av = "audio"
      BY <1>2, <2>1, <3>1 DEF Pending
    <3>3. ~Pausing
      BY <1>2, <3>1, <3>2 DEF SoundPrepared, Alive
    <3>4. ~is.pause_req \/ Holds(msgs, "COMPLETED") \/ Holds(msgs, "ERROR")
      BY <1>4, <2>1, <3>3 DEF Pausing
    <3>5. QED
      BY <1>4, <3>1, <3>4 DEF Plays
  <2>4. QED
    BY <2>2, <2>3
<1>7. CASE HandleWithoutStream
  BY <1>2, <1>7 DEF HandleWithoutStream
<1>8. CASE HandleCompleted \/ HandleError
  <2>1. mp'.state \in {"COMPLETED", "ERROR"}
    <3>1. HandleCompleted => mp'.state = "COMPLETED"
      BY DEF HandleCompleted
    <3>2. HandleError => mp'.state = "ERROR"
      BY <1>3 DEF HandleError, States
    <3>3. QED
      BY <1>8, <3>1, <3>2
  <2>2. QED
    BY <2>1 DEF Says
<1>9. CASE HandleSeekComplete
  BY <1>5, <1>9 DEF HandleSeekComplete, Handle, streamVars
<1>10. CASE HandleEarly
  BY <1>10 DEF HandleEarly, Says
<1>11. CASE HandleStart
  <2>1. /\ auto_resume' = TRUE
        /\ is' = [is EXCEPT !.seek_req = TRUE] \/ is' = Paused(is, FALSE)
    BY <1>2, <1>11, Zenon DEF HandleStart
  <2>2. is'.seek_req = TRUE \/ ~is'.pause_req
    BY <1>1, <2>1 DEF Paused, Streams
  <2>3. QED
    BY <2>1, <2>2 DEF Plays
<1>12. CASE HandlePause
  <2>1. mp' = [mp EXCEPT !.state = "PAUSED"]
    BY <1>2, <1>12, Zenon DEF HandlePause
  <2>2. QED
    BY <1>3, <2>1 DEF Says, States
<1>13. CASE HandleSeek
  <2>1. msgThread = "handle" /\ hand.what = "REQ_SEEK" /\ mp'.state = mp.state
    BY <1>1, <1>13 DEF HandleSeek, Handle, Players
  <2>2. CASE is' = [is EXCEPT !.seek_req = TRUE] /\ UNCHANGED <<msgs, auto_resume>>
    <3>1. is'.seek_req /\ is'.pause_req = is.pause_req /\ auto_resume' = auto_resume
      BY <1>1, <2>2 DEF Streams
    <3>2. Says
      BY <1>2, <2>1 DEF Says
    <3>3. QED
      BY <1>4, <2>1, <3>1, <3>2 DEF Plays
  <2>3. CASE msgs' = Put(msgs, aborted, Simple("COMPLETED"))
    <3>1. "COMPLETED" \in Requests \cup Events
      BY DEF Events
    <3>2. Holds(msgs', "COMPLETED")
      BY <1>2, <2>3, <3>1, PostHolds DEF Post
    <3>3. QED
      BY <3>1, <3>2, PendingStep DEF Plays
  <2>4. QED
    BY <1>2, <1>13, <2>2, <2>3 DEF HandleSeek
<1>14. CASE HandleRefused
  <2>1. mp' = mp /\ UNCHANGED streamVars
    BY <1>14 DEF HandleRefused
  <2>2. mp.state = "STARTED"
    BY <2>1 DEF Says
  <2>3. "STARTED" \in Startable /\ "STARTED" \in Seekable
    BY DEF Startable, Pausable, Seekable
  <2>4. QED
    BY <1>14, <2>2, <2>3 DEF HandleRefused
<1>15. CASE LoopError \/ LoopEvent \/ LoopChange
  <2>1. msgThread # "handle"
    BY <1>15 DEF LoopError, LoopEvent, LoopChange, Loop
  <2>2. UNCHANGED <<mp, is, auto_resume>>
    BY <2>1, LoopStep
  <2>3. QED
    BY <1>5, <2>1, <2>2
<1>16. QED
  BY <1>6, <1>7, <1>8, <1>9, <1>10, <1>11, <1>12, <1>13, <1>14, <1>15 DEF MsgNext

LEMMA PlaysStream ==
    ASSUME TypeOK, SessionInv, FirstStream, Opening, Says => Plays, StreamNext, Says'
    PROVE  Plays'
<1>1. is \in Streams /\ auto_resume \in BOOLEAN
  BY DEF TypeOK
<1>2. /\ UNCHANGED <<mp, aborted, msgThread, hand, streams>> /\ mp.state = "STARTED"
      /\ Alive /\ ~aborted
  <2>1. /\ UNCHANGED <<mp, aborted, msgThread, hand, streams>>
        /\ is'.abort = is.abort /\ (is'.phase = "null" <=> is.phase = "null")
    BY PostStep
  <2>2. Alive /\ mp.state = "STARTED"
    BY <2>1 DEF Says, Alive
  <2>3. QED
    BY <2>1, <2>2 DEF FirstStream
<1>3. is.phase # "opening"
  BY <1>2 DEF Opening, Alive
<1>4. ~Opened /\ is'.av = is.av
  BY <1>3, PostStep DEF Opened
<1>5. Plays
  BY <1>2, <1>4 DEF Says
<1>6. \A w \in {"COMPLETED", "ERROR", "REQ_START", "REQ_PAUSE"} : Pending(w) => Pending(w)'
  BY <1>2, PostStep, PostHolds DEF Pending
<1>7. ASSUME NEW w \in {"COMPLETED", "ERROR", "REQ_START", "REQ_PAUSE"}, Post(w) PROVE Plays'
  <2>1. w \in Requests \cup Events
    BY DEF Requests, Events
  <2>2. Holds(msgs', w)
    BY <1>2, <1>7, <2>1, PostHolds
  <2>3. QED
    BY <2>2 DEF Plays, Pending
<1>8. ASSUME is'.pause_req = is.pause_req, auto_resume' = auto_resume,
             (is.seek_req \/ is.phase = "seeking") => (is'.seek_req \/ is'.phase = "seeking")
      PROVE  Plays'
  BY <1>5, <1>6, <1>8 DEF Plays
<1>9. CASE OpenFails
  BY <1>3, <1>9 DEF OpenFails
<1>10. CASE FirstFrame \/ StepDone \/ DecoderFails \/ SeekBegin
  BY <1>1, <1>8, <1>10 DEF FirstFrame, StepDone, DecoderFails, SeekBegin, Streams
<1>11. CASE EnterLoop
  <2>1. is'.pause_req = is.pause_req
    BY <1>1, <1>11 DEF EnterLoop, Streams
  <2>2. CASE auto_resume
    BY <1>7, <1>11, <2>2 DEF EnterLoop
  <2>3. CASE ~auto_resume
    BY <1>5, <1>6, <2>1, <2>3 DEF Plays
  <2>4. QED
    BY <2>2, <2>3
<1>12. CASE SeekEnd
  <2>1. is'.pause_req = (is.pause_req /\ ~auto_resume)
    BY <1>1, <1>12 DEF SeekEnd, Streams
  <2>2. QED
    BY <1>5, <1>6, <2>1 DEF Plays
<1>13. CASE CompleteBegin
  <2>1. is'.pause_req = is.pause_req /\ ~is.seek_req /\ is.phase = "running" /\ auto_resume' = auto_resume
    BY <1>1, <1>13 DEF CompleteBegin, Streams
  <2>2. QED
    BY <1>8, <2>1
<1>14. CASE CompleteEnd
  BY <1>7, <1>14 DEF CompleteEnd
<1>15. CASE ReadExits
  <2>1. is.abort
    BY <1>15 DEF ReadExits
  <2>2. QED
    BY <1>2, <2>1 DEF Alive
<1>16. QED
  BY <1>4, <1>9, <1>10, <1>11, <1>12, <1>13, <1>14, <1>15 DEF StreamNext

LEMMA PlaysInductive ==
    TypeOK /\ SessionInv /\ PlayInv /\ [Next]_vars => StartedPlays'
<1>0. /\ StartedPlays <=> (Says => Plays)
      /\ StartedPlays' <=> (Says' => Plays')
  BY DEF StartedPlays, Says, Plays, Alive
<1> SUFFICES ASSUME TypeOK, SessionInv, PlayInv, [Next]_vars, Says' PROVE Plays'
  BY <1>0
<1> USE DEF PlayInv
<1>1. mp'.state = "STARTED" /\ is'.phase # "null" /\ ~is'.abort /\ streams' = 1
      /\ (StartOnPrepared => is'.av = "audio")
  BY DEF Says, Alive
<1>2. CASE SetDataSource \/ PrepareFails \/ CloseStream \/ FinishStop \/ FinishReset \/ FinishRelease
  BY <1>1, <1>2, NoStreamStep DEF NoStream
<1>3. ASSUME NEW sync \in BOOLEAN, Prepare(sync) PROVE Plays'
  BY <1>1, <1>3, PrepareStep
<1>4. CASE Start \/ Pause \/ SeekTo \/ Stop
  <2>1. UNCHANGED <<mp, is, auto_resume, msgThread, hand, streams>>
    BY <1>1, <1>4, RequestStep
  <2>2. Says
    BY <1>1, <2>1 DEF Says, Alive
  <2>3. /\ \A w \in {"COMPLETED", "ERROR"} : Holds(msgs', w) <=> Holds(msgs, w)
        /\ \A w \in {"REQ_START", "REQ_PAUSE"} :
              Holds(msgs, w) => Holds(msgs', "REQ_START") \/ Holds(msgs', "REQ_PAUSE")
    BY <1>1, <1>4, RequestStep DEF Events
  <2>4. QED
    BY <1>0, <2>1, <2>2, <2>3 DEF Plays, Pending
<1>5. CASE StopStream
  BY <1>1, <1>5, CloseStep
<1>6. CASE WaitCheck \/ WaitReturn \/ StopNothing \/ JoinMsgThread \/ \E op \in {"reset", "release"} : Shutdown(op)
  <2>1. UNCHANGED <<mp, msgs, is, auto_resume, hand, streams>>
        /\ (msgThread' = msgThread \/ (msgThread' = "none" /\ msgThread # "handle"))
    BY <1>6, CallStep
  <2>2. Says
    BY <1>1, <2>1 DEF Says, Alive
  <2>3. QED
    BY <1>0, <2>1, <2>2 DEF Plays, Pending
<1>7. CASE GetMsg
  <2>1. UNCHANGED <<mp, is, auto_resume, streams>>
    BY <1>7, GetStep
  <2>2. Says
    BY <1>1, <2>1 DEF Says, Alive
  <2>3. \A w \in {"COMPLETED", "ERROR", "REQ_START", "REQ_PAUSE"} : Pending(w)' <=> Pending(w)
    BY <1>7, GetStep DEF Requests, Events
  <2>4. QED
    BY <1>0, <2>1, <2>2, <2>3 DEF Plays
<1>8. CASE MsgNext /\ ~GetMsg
  BY <1>0, <1>8, PlaysMsg
<1>9. CASE StreamNext
  BY <1>0, <1>9, PlaysStream
<1>10. CASE UNCHANGED vars
  BY <1>0, <1>10 DEF Says, Plays, Alive, Pending, vars
<1>11. QED
  BY <1>2, <1>3, <1>4, <1>5, <1>6, <1>7, <1>8, <1>9, <1>10 DEF Next, AppNext, AppWait, MsgNext

\* The player that says STARTED plays, or will: the stream it belongs to is not
\* paused, or resumes after the seek under way, or a message on its way tells otherwise.
THEOREM PlayerPlays == Spec => []StartedPlays
<1>1. Init => PlayInv
  BY DEF Init, PlayInv, FirstStream, Opening, SoundPrepared, StartedPlays, Alive, NoStream, NewPlayer
<1>2. TypeOK /\ SessionInv /\ PlayInv /\ [Next]_vars => PlayInv'
  BY FirstInductive, OpeningInductive, SoundInductive, PlaysInductive DEF PlayInv
<1>3. PlayInv => StartedPlays
  BY DEF PlayInv
<1>4. QED
  BY <1>1, <1>2, <1>3, TypeCorrect, SessionsEnd, PTL DEF Spec
=============================================================================
