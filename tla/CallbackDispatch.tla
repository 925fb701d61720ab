-------------------------- MODULE CallbackDispatch --------------------------
(* How NativePlayer.c brings what happens to the application: the queue and *)
(* the thread that run the callbacks, and the calls that must stand still   *)
(* with them, reset and release.                                            *)
(*                                                                          *)
(* The application calls from threads of its own and from inside callbacks. *)
(* Most calls hold sync_interface_lock all along; here they are prepare and *)
(* stop, which start and end the message thread.  While it runs, the        *)
(* message thread (message_loop_n) posts to the user callback queue.  The   *)
(* callback thread holds callback_lock while a callback runs.  A session is *)
(* the life of one IjkMediaPlayer, from create or reset to the next reset.  *)
EXTENDS Naturals, Sequences, FiniteSets

CONSTANTS
    Apps,           \* the application's threads
    AppCalls,       \* what they call
    CallbackCalls,  \* what callbacks call
    MaxCalls,       \* bound: calls made by the application
    MaxMessages     \* bound: messages posted by the message thread

Cb == "callback thread"
Nobody == "nobody"
Threads == Apps \cup {Cb}

Calls == {"prepare", "stop", "setCallback", "reset", "release"}

\* Release in a callback aborts the process, so that is not called.
ASSUME CallsAssumption ==
    /\ Cb \notin Apps /\ Nobody \notin Threads
    /\ AppCalls \subseteq Calls
    /\ CallbackCalls \subseteq Calls \ {"release"}
    /\ MaxCalls \in Nat /\ MaxMessages \in Nat

VARIABLES
    op, pc,       \* what each thread calls, and where it is in that call
    lock,         \* who holds sync_interface_lock
    cbLock,       \* who holds callback_lock
    callbacks,    \* the session in which mMediaPlayerCallback was set, or None
    session,      \* one more than the number of resets
    running,      \* there is a message thread
    reported,     \* has_reported_error
    queue,        \* user_callback_msg_queue
    cbThread,     \* where the callback thread is
    hand,         \* the message it has taken out of the queue
    called,       \* the session whose callbacks it calls
    told,         \* the last message it has dispatched
    errors,       \* errors dispatched in this session
    fence,        \* user_callback_sync_fence is signaled
    freed,        \* release has returned
    calls, posted \* counted for the bounds

vars == <<op, pc, lock, cbLock, callbacks, session, running, reported, queue, cbThread,
          hand, called, told, errors, fence, freed, calls, posted>>

\* Sessions are numbered from 1; callbacks of session 0 are no callbacks.
None == 0
Kinds == {"ERROR", "EVENT", "STARTED", "END", "WAIT_SYNC", "STOP"}
Messages == [what : Kinds, session : Nat]
Message(what) == [what |-> what, session |-> session]
NoMessage == [what |-> "EVENT", session |-> None]

\* CypressPlayer_create waits until the callback thread runs.
Init ==
    /\ op = [t \in Threads |-> "stop"] /\ pc = [t \in Threads |-> "idle"]
    /\ lock = Nobody /\ cbLock = Nobody
    /\ callbacks = None /\ session = 1
    /\ running = FALSE /\ reported = FALSE
    /\ queue = <<>> /\ cbThread = "get" /\ hand = NoMessage
    /\ called = None /\ told = NoMessage /\ errors = 0
    /\ fence = FALSE /\ freed = FALSE
    /\ calls = 0 /\ posted = 0

callVars   == <<op, calls>>
sessionVars == <<session, running, reported, posted>>
threadVars == <<cbThread, hand, called, told>>

-----------------------------------------------------------------------------
(* Calls of the application.                                                *)

InCallback == cbThread \in {"calling", "calling again"}
Releasing  == \E t \in Apps : pc[t] # "idle" /\ op[t] = "release"

\* A thread calls; the callback thread does so from inside a callback.  Nobody
\* calls while or after another thread releases the player, but a callback
\* that runs already may.
Begin(t, o) ==
    /\ pc[t] = "idle" /\ ~freed
    /\ IF t = Cb THEN InCallback /\ o \in CallbackCalls ELSE ~Releasing /\ o \in AppCalls
    /\ o = "release" => \A u \in Apps : pc[u] = "idle"
    /\ calls < MaxCalls
    /\ calls' = calls + 1
    /\ op' = [op EXCEPT ![t] = o]
    /\ pc' = [pc EXCEPT ![t] = IF o = "setCallback" THEN "swap" ELSE "enter"]
    /\ UNCHANGED <<lock, cbLock, callbacks, sessionVars, queue, threadVars, errors, fence, freed>>

\* Mutant of MayUpdate: nobody takes callback_lock.
MayUpdateAlways(t) == TRUE

\* Mutant of MayUpdate: callback_lock taken again inside a callback.
MayUpdateAlone(t) == cbLock = Nobody

\* The callback thread updates the callbacks at once, it is inside the lock.
MayUpdate(t) == t = Cb \/ cbLock = Nobody

SetCallback(t) ==
    /\ pc[t] = "swap"
    /\ MayUpdate(t)
    /\ callbacks' = session
    /\ pc' = [pc EXCEPT ![t] = "idle"]
    /\ UNCHANGED <<callVars, lock, cbLock, sessionVars, queue, threadVars, errors, fence, freed>>

\* LOCK_INTERFACE.  A prepare starts the message thread before it waits.
Enter(t) ==
    /\ pc[t] = "enter"
    /\ lock = Nobody
    /\ lock' = t
    /\ pc' = [pc EXCEPT ![t] = IF op[t] \in {"prepare", "stop"} THEN "inside" ELSE "shutdown"]
    /\ running' = (op[t] = "prepare" \/ running)
    /\ UNCHANGED <<callVars, cbLock, callbacks, session, reported, posted, queue, threadVars,
                   errors, fence, freed>>

\* Mutant of Leave: a return path without UNLOCK_INTERFACE.
LeaveLocked(t) ==
    /\ pc[t] = "inside"
    /\ pc' = [pc EXCEPT ![t] = "idle"]
    /\ running' = (op[t] # "stop" /\ running)
    /\ UNCHANGED <<callVars, lock, cbLock, callbacks, session, reported, posted, queue, threadVars,
                   errors, fence, freed>>

\* A stop has joined the message thread before it returns.
Leave(t) ==
    /\ pc[t] = "inside"
    /\ lock' = Nobody
    /\ pc' = [pc EXCEPT ![t] = "idle"]
    /\ running' = (op[t] # "stop" /\ running)
    /\ UNCHANGED <<callVars, cbLock, callbacks, session, reported, posted, queue, threadVars,
                   errors, fence, freed>>

\* msg_queue_flush: the queue afterwards.
FlushQueue == <<>>

\* Mutant of ResetSync: it does not wait for the callback thread.
ResetSyncSkipped(t) ==
    /\ pc[t] = "shutdown" /\ op[t] = "reset" /\ t # Cb
    /\ running' = FALSE
    /\ pc' = [pc EXCEPT ![t] = "clear"]
    /\ UNCHANGED <<callVars, lock, cbLock, callbacks, session, reported, posted, queue,
                   threadVars, errors, fence, freed>>

\* reset: ijkmp_release has joined the message thread; a thread of the
\* application goes to wait until the callback thread has seen WAIT_SYNC ...
ResetSync(t) ==
    /\ pc[t] = "shutdown" /\ op[t] = "reset" /\ t # Cb
    /\ running' = FALSE
    /\ queue' = Append(queue, Message("WAIT_SYNC"))
    /\ pc' = [pc EXCEPT ![t] = "sync"]
    /\ UNCHANGED <<callVars, lock, cbLock, callbacks, session, reported, posted, threadVars,
                   errors, fence, freed>>

\* ... while the callback thread itself just drops what is in the queue.
ResetFlush ==
    /\ pc[Cb] = "shutdown" /\ op[Cb] = "reset"
    /\ running' = FALSE
    /\ queue' = FlushQueue
    /\ pc' = [pc EXCEPT ![Cb] = "clear"]
    /\ UNCHANGED <<callVars, lock, cbLock, callbacks, session, reported, posted, threadVars,
                   errors, fence, freed>>

\* ncfence_wait and ncfence_reset; of spurious wake-ups see PlayerControl.
ResetSynced(t) ==
    /\ pc[t] = "sync"
    /\ fence
    /\ fence' = FALSE
    /\ pc' = [pc EXCEPT ![t] = "clear"]
    /\ UNCHANGED <<callVars, lock, cbLock, callbacks, sessionVars, queue, threadVars, errors, freed>>

\* The callbacks are removed; from here on it is another session.
ResetClear(t) ==
    /\ pc[t] = "clear"
    /\ MayUpdate(t)
    /\ callbacks' = None
    /\ session' = session + 1
    /\ errors' = 0
    /\ pc' = [pc EXCEPT ![t] = "renew"]
    /\ UNCHANGED <<callVars, lock, cbLock, running, reported, posted, queue, threadVars, fence, freed>>

\* Mutant of ResetRenew: the reported error is not forgotten.
ResetRenewKeeps(t) ==
    /\ pc[t] = "renew"
    /\ lock' = Nobody
    /\ pc' = [pc EXCEPT ![t] = "idle"]
    /\ UNCHANGED <<callVars, cbLock, callbacks, sessionVars, queue, threadVars, errors, fence, freed>>

\* The new IjkMediaPlayer.
ResetRenew(t) ==
    /\ pc[t] = "renew"
    /\ reported' = FALSE
    /\ lock' = Nobody
    /\ pc' = [pc EXCEPT ![t] = "idle"]
    /\ UNCHANGED <<callVars, cbLock, callbacks, session, running, posted, queue, threadVars,
                   errors, fence, freed>>

\* release: ijkmp_release, then END and STOP are the last messages ...
ReleaseStop(t) ==
    /\ pc[t] = "shutdown" /\ op[t] = "release"
    /\ running' = FALSE
    /\ queue' = queue \o <<Message("END"), Message("STOP")>>
    /\ pc' = [pc EXCEPT ![t] = "join"]
    /\ UNCHANGED <<callVars, lock, cbLock, callbacks, session, reported, posted, threadVars,
                   errors, fence, freed>>

\* Mutant of ReleaseJoin: the callback thread is not waited for.
ReleaseJoinNothing(t) ==
    /\ pc[t] = "join"
    /\ lock' = Nobody /\ freed' = TRUE
    /\ pc' = [pc EXCEPT ![t] = "idle"]
    /\ UNCHANGED <<callVars, cbLock, callbacks, sessionVars, queue, threadVars, errors, fence>>

\* ... and the player is freed when the callback thread has ended.
ReleaseJoin(t) ==
    /\ pc[t] = "join"
    /\ cbThread = "exited"
    /\ lock' = Nobody /\ freed' = TRUE
    /\ pc' = [pc EXCEPT ![t] = "idle"]
    /\ UNCHANGED <<callVars, cbLock, callbacks, sessionVars, queue, threadVars, errors, fence>>

CallNext(t) ==
    \/ SetCallback(t) \/ Enter(t) \/ Leave(t)
    \/ ResetSync(t) \/ (t = Cb /\ ResetFlush) \/ ResetSynced(t) \/ ResetClear(t) \/ ResetRenew(t)
    \/ ReleaseStop(t) \/ ReleaseJoin(t)

-----------------------------------------------------------------------------
(* The message thread: message_loop_n.                                      *)

\* An error is posted only if none has been reported since the last reset.  While
\* it runs the message thread alone looks at has_reported_error: one step.
Post(what) ==
    /\ running
    /\ posted < MaxMessages
    /\ posted' = posted + 1
    /\ queue' = IF what = "ERROR" /\ reported THEN queue ELSE Append(queue, Message(what))
    /\ reported' = (reported \/ what = "ERROR")
    /\ UNCHANGED <<callVars, pc, lock, cbLock, callbacks, session, running, threadVars,
                   errors, fence, freed>>

-----------------------------------------------------------------------------
(* The callback thread: user_callback_msg_fn.                               *)

CallbackStep == UNCHANGED <<callVars, pc, lock, callbacks, sessionVars, freed>>

Take ==
    /\ cbThread = "get"
    /\ queue # <<>>
    /\ hand' = Head(queue)
    /\ queue' = Tail(queue)
    /\ cbThread' = CASE hand'.what = "STOP"      -> "exited"
                     [] hand'.what = "WAIT_SYNC" -> "get"
                     [] OTHER                    -> "locking"
    /\ fence' = (hand'.what = "WAIT_SYNC" \/ fence)
    /\ UNCHANGED <<cbLock, called, told, errors>> /\ CallbackStep

\* The callback is called, with callback_lock held, if there is one.
Dispatch ==
    /\ cbThread = "locking"
    /\ cbLock = Nobody
    /\ told' = hand
    /\ errors' = IF hand.what = "ERROR" THEN errors + 1 ELSE errors
    /\ IF callbacks = None
       THEN cbThread' = "get" /\ UNCHANGED <<cbLock, called>>
       ELSE cbThread' = "calling" /\ cbLock' = Cb /\ called' = callbacks
    /\ UNCHANGED <<queue, hand, fence>> /\ CallbackStep

\* For STARTED, onStarted is called after onPlaybackStateChanged has returned.
Both == cbThread = "calling" /\ hand.what = "STARTED" /\ callbacks # None

DispatchStarted ==
    /\ Both
    /\ pc[Cb] = "idle"
    /\ cbThread' = "calling again" /\ called' = callbacks
    /\ UNCHANGED <<queue, cbLock, hand, told, errors, fence>> /\ CallbackStep

Return ==
    /\ InCallback /\ ~Both
    /\ pc[Cb] = "idle"
    /\ cbThread' = "get" /\ cbLock' = Nobody
    /\ UNCHANGED <<queue, hand, called, told, errors, fence>> /\ CallbackStep

CallbackNext == Take \/ Dispatch \/ DispatchStarted \/ Return

-----------------------------------------------------------------------------
Next ==
    \/ \E t \in Threads, o \in Calls : Begin(t, o)
    \/ \E t \in Threads : CallNext(t)
    \/ \E what \in {"ERROR", "EVENT", "STARTED"} : Post(what)
    \/ CallbackNext

Spec == Init /\ [][Next]_vars

\* Threads are scheduled, and a callback returns when its calls have.
Fairness == (\A t \in Threads : WF_vars(CallNext(t))) /\ WF_vars(CallbackNext)

FairSpec == Spec /\ Fairness

-----------------------------------------------------------------------------
(* Properties.                                                              *)

\* A callback is called only for messages of the session it was set in:
\* reset lets no message over into the next session, wherever it is called.
ToldOwnSession == cbThread = "calling" => called = hand.session

\* has_reported_error is set exactly when the one error of the session is on
\* its way to the callback or has arrived: it is reported once and not lost.
Queued   == {i \in DOMAIN queue : queue[i].what = "ERROR"}
Taken    == cbThread = "locking" /\ hand.what = "ERROR"
Underway == Cardinality(Queued) + (IF Taken THEN 1 ELSE 0)
Resetting == \E t \in Threads : pc[t] \in {"clear", "renew"}
ErrorOnce == ~Resetting => Underway + errors = (IF reported THEN 1 ELSE 0)

\* When release has returned no thread is left that uses the player, and the
\* END state was the last thing the application was told.
ReleasedQuiet ==
    freed => cbThread = "exited" /\ ~running /\ queue = <<>> /\ told.what = "END"

\* While a callback runs nobody else replaces the callbacks under it.
CallbacksStable ==
    [][InCallback /\ callbacks' # callbacks => \A t \in Apps : pc'[t] = pc[t]]_vars

\* A reset or release waits for the callback thread, which runs a callback that waits
\* for sync_interface_lock: reset and release keep it while they wait.
Embraced == pc[Cb] = "enter" /\ \E t \in Apps : lock = t /\ pc[t] \in {"sync", "join"}

\* Where a call, and the callback thread, wait for another thread.
CallWaits(t) ==
    \/ pc[t] = "enter" /\ lock # Nobody
    \/ pc[t] \in {"swap", "clear"} /\ ~MayUpdate(t)
    \/ pc[t] = "sync" /\ ~fence
    \/ pc[t] = "join" /\ cbThread # "exited"
CallbackWaits ==
    \/ cbThread = "exited" \/ (cbThread = "get" /\ queue = <<>>)
    \/ cbThread = "locking" /\ cbLock # Nobody
    \/ InCallback /\ pc[Cb] # "idle" /\ CallWaits(Cb)

\* Whoever waits for a lock, the fence or the end of the callback thread waits for
\* a thread that goes on: who holds the lock, or the callback thread.
NoOtherEmbrace ==
    \/ Embraced
    \/ \A t \in Threads : CallWaits(t) => ~CallbackWaits \/ (lock # Nobody /\ ~CallWaits(lock))

\* That embrace is the only way for a call to hang: without it every call returns,
\* on the application's threads and in callbacks.
CallsReturn == []~Embraced => \A t \in Threads : pc[t] # "idle" ~> pc[t] = "idle"
=============================================================================
