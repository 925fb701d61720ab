----------------------- MODULE CallbackDispatch_proofs -----------------------
(* What the application is told, and when: theorems for any number of its   *)
(* threads, calls and messages.                                             *)
EXTENDS CallbackDispatch, SequenceTheorems, FiniteSetTheorems, TLAPS

\* Where a thread holds sync_interface_lock.
Held == {"inside", "shutdown", "sync", "clear", "renew", "join"}

Types ==
    /\ op \in [Threads -> Calls] /\ pc \in [Threads -> Held \cup {"idle", "swap", "enter"}]
    /\ session \in Nat /\ session # None /\ callbacks \in {None, session}
    /\ queue \in Seq(Messages) /\ hand \in Messages
    /\ cbThread \in {"get", "locking", "calling", "calling again", "exited"}

Locked == \A t \in Threads : pc[t] \in Held <=> lock = t

\* Who may be where: the callback thread calls from inside a callback only, and
\* never waits for itself; who releases is alone with it.
Roles ==
    /\ pc[Cb] # "idle" => InCallback
    /\ op[Cb] # "release" /\ pc[Cb] \notin {"sync", "join"}
    /\ \A t \in Threads : pc[t] = "enter" => op[t] # "setCallback"
    /\ \A t \in Threads : pc[t] = "shutdown" => op[t] \in {"reset", "release"}
    /\ \A t \in Threads : pc[t] = "join" => op[t] = "release"
    /\ \A t, u \in Apps : t # u /\ pc[t] # "idle" /\ op[t] = "release" => pc[u] = "idle"
    /\ \A t \in Threads : pc[t] \in {"sync", "clear", "renew", "join"} => ~running

\* What is in the queue belongs to the session, and is gone when the session ends.
Sessions ==
    /\ \A i \in DOMAIN queue : queue[i].session = session
    /\ \A i \in DOMAIN queue : queue[i].what = "WAIT_SYNC" => i = Len(queue)
    /\ \A t \in Threads : pc[t] = "sync" /\ fence => queue = <<>> /\ cbThread = "get"
    /\ \A t \in Threads : pc[t] = "clear" => queue = <<>> /\ (t # Cb => cbThread = "get")
    /\ cbThread = "locking" => hand.session = session
    /\ fence => \E t \in Threads : pc[t] = "sync"
    /\ \A i \in DOMAIN queue : queue[i].what = "WAIT_SYNC" => \E t \in Threads : pc[t] = "sync"

\* END and STOP are the last messages, and the callback thread ends behind them.
Ending ==
    /\ \A i \in DOMAIN queue : queue[i].what = "STOP" =>
           i = Len(queue) /\ \E t \in Threads : pc[t] = "join"
    /\ \A t \in Threads : pc[t] = "join" /\ cbThread # "exited" =>
           /\ queue # <<>> /\ queue[Len(queue)].what = "STOP"
           /\ Len(queue) = 1 => hand.what = "END" /\ (cbThread = "locking" \/ told.what = "END")
           /\ Len(queue) > 1 => queue[Len(queue) - 1].what = "END"
    /\ cbThread = "exited" =>
           /\ queue = <<>> /\ told.what = "END" /\ ~running
           /\ freed \/ \E t \in Threads : pc[t] = "join"
    /\ freed => cbThread = "exited" /\ \A t \in Threads : pc[t] = "idle"

IInv == Types /\ Locked /\ Roles /\ Sessions /\ ToldOwnSession /\ Ending

-----------------------------------------------------------------------------
(* The queue: what is added behind it, and what is taken from it.           *)

LEMMA Appended ==
    ASSUME NEW s \in Seq(Messages), NEW e \in Messages, NEW q, q = Append(s, e)
    PROVE  /\ q \in Seq(Messages) /\ Len(q) = Len(s) + 1 /\ q # <<>>
           /\ q[Len(q)] = e /\ Len(s) \in Nat
           /\ \A i \in DOMAIN q : i = Len(q) \/ (i \in DOMAIN s /\ q[i] = s[i])
  OBVIOUS

LEMMA TwoAppended ==
    ASSUME NEW s \in Seq(Messages), NEW a \in Messages, NEW b \in Messages, NEW q, q = s \o <<a, b>>
    PROVE  /\ q \in Seq(Messages) /\ Len(q) = Len(s) + 2 /\ Len(s) \in Nat /\ q # <<>>
           /\ q[Len(s) + 1] = a /\ q[Len(s) + 2] = b
           /\ Len(q) > 1 /\ Len(q) # 1 /\ Len(q) - 1 = Len(s) + 1
           /\ \A i \in DOMAIN q : i \in {Len(s) + 1, Len(s) + 2} \/ (i \in DOMAIN s /\ q[i] = s[i])
  OBVIOUS

LEMMA Empty == \A q : q = <<>> => q \in Seq(Messages) /\ DOMAIN q = {} /\ Len(q) = 0
  OBVIOUS

LEMMA Tailed ==
    ASSUME NEW s \in Seq(Messages), s # <<>>, NEW q, q = Tail(s)
    PROVE  /\ q \in Seq(Messages) /\ Len(s) \in Nat /\ Len(s) >= 1 /\ Len(q) = Len(s) - 1
           /\ Head(s) \in Messages /\ Head(s) = s[1] /\ 1 \in DOMAIN s
           /\ \A i \in DOMAIN q : i \in Nat /\ i >= 1 /\ i + 1 \in DOMAIN s /\ q[i] = s[i + 1]
           /\ q = <<>> <=> Len(s) = 1
  <1>1. Len(s) \in Nat /\ Len(s) >= 1 /\ Head(s) \in Messages /\ Head(s) = s[1] /\ 1 \in DOMAIN s
    OBVIOUS
  <1>2. q \in Seq(Messages) /\ Len(q) = Len(s) - 1
    OBVIOUS
  <1>3. q = <<>> <=> Len(q) = 0
    BY <1>2, EmptySeq
  <1>4. \A i \in DOMAIN q : i \in Nat /\ i >= 1 /\ i + 1 \in DOMAIN s /\ q[i] = s[i + 1]
    OBVIOUS
  <1>5. q = <<>> <=> Len(s) = 1 BY <1>1, <1>2, <1>3
  <1> QED BY <1>1, <1>2, <1>4, <1>5

\* A message carries the session it is posted in.
LEMMA MessageTyped ==
    ASSUME session \in Nat
    PROVE  \A w \in Kinds : Message(w) \in Messages /\ Message(w).what = w /\ Message(w).session = session
  BY DEF Message, Messages

LEMMA Constants == Cb \in Threads /\ Nobody \notin Threads /\ Apps \subseteq Threads /\ None \in Nat
  BY CallsAssumption DEF Threads, None

-----------------------------------------------------------------------------
(* Calls.                                                                   *)

LEMMA BeginPreserves ==
    ASSUME IInv, NEW t \in Threads, NEW o \in Calls, Begin(t, o) PROVE IInv'
  <1> USE Constants DEF IInv, Begin, callVars, sessionVars, threadVars, Types, InCallback
  <1>1. Types' OBVIOUS
  <1>2. Locked' BY DEF Locked, Held
  <1>3. Roles'
    <2>1. op[Cb]' # "release"
      BY CallsAssumption DEF Roles
    <2>2. ASSUME NEW u \in Apps, NEW v \in Apps, u # v, pc'[u] # "idle", op'[u] = "release"
          PROVE  pc'[v] = "idle"
      <3>1. CASE t \in {u, v} BY <2>2, <3>1, CallsAssumption DEF Roles, Releasing
      <3>2. CASE t \notin {u, v} BY <2>2, <3>2 DEF Roles, Threads
      <3> QED BY <3>1, <3>2
    <2> QED BY <2>1, <2>2 DEF Roles, Locked, Held
  <1>4. Sessions' BY DEF Sessions
  <1>5. ToldOwnSession' BY DEF ToldOwnSession
  <1>6. Ending' BY DEF Ending
  <1> QED BY ONLY <1>1, <1>2, <1>3, <1>4, <1>5, <1>6 DEF IInv

LEMMA SetCallbackPreserves ==
    ASSUME IInv, NEW t \in Threads, SetCallback(t) PROVE IInv'
  <1> USE Constants DEF IInv, SetCallback, callVars, sessionVars, threadVars, Types, InCallback
  <1>1. Types' OBVIOUS
  <1>2. Locked' BY DEF Locked, Held
  <1>3. Roles' BY DEF Roles
  <1>4. Sessions' BY DEF Sessions
  <1>5. ToldOwnSession' BY DEF ToldOwnSession
  <1>6. Ending' BY DEF Ending
  <1> QED BY ONLY <1>1, <1>2, <1>3, <1>4, <1>5, <1>6 DEF IInv

LEMMA EnterPreserves ==
    ASSUME IInv, NEW t \in Threads, Enter(t) PROVE IInv'
  <1> USE Constants DEF IInv, Enter, callVars, sessionVars, threadVars, Types, InCallback
  <1>1. Types' BY DEF Held
  <1>2. Locked' BY DEF Locked, Held
  <1>3. Roles'
    <2>1. op[t] \in Calls /\ op[t] # "setCallback" BY DEF Roles
    <2>2. \A u \in Threads : pc[u] \notin Held BY DEF Locked
    <2>3. \A u \in Threads : u # t => pc'[u] = pc[u] OBVIOUS
    <2>4. pc'[t] \in {"inside", "shutdown"} /\ (pc'[t] = "shutdown" => op[t] \in {"reset", "release"})
      BY <2>1 DEF Calls
    <2> QED BY <2>2, <2>3, <2>4 DEF Roles, Held, Threads
  <1>4. Sessions' BY DEF Sessions
  <1>5. ToldOwnSession' BY DEF ToldOwnSession
  <1>6. Ending' BY DEF Ending, Locked
  <1> QED BY ONLY <1>1, <1>2, <1>3, <1>4, <1>5, <1>6 DEF IInv

LEMMA LeavePreserves ==
    ASSUME IInv, NEW t \in Threads, Leave(t) PROVE IInv'
  <1> USE Constants DEF IInv, Leave, callVars, threadVars, Types, InCallback
  <1>1. Types' OBVIOUS
  <1>2. Locked' BY DEF Locked, Held
  <1>3. Roles' BY DEF Roles
  <1>4. Sessions' BY DEF Sessions
  <1>5. ToldOwnSession' BY DEF ToldOwnSession
  <1>6. Ending' BY DEF Ending
  <1> QED BY ONLY <1>1, <1>2, <1>3, <1>4, <1>5, <1>6 DEF IInv

\* WAIT_SYNC goes behind all there is; nothing comes behind it, as the message thread is joined.
LEMMA ResetSyncPreserves ==
    ASSUME IInv, NEW t \in Threads, ResetSync(t) PROVE IInv'
  <1> USE Constants DEF IInv, ResetSync, callVars, threadVars, Types, InCallback
  <1>1. Types'
    <2>1. queue' \in Seq(Messages) BY MessageTyped, Appended DEF Kinds
    <2> QED BY <2>1 DEF Held
  <1>2. Locked' BY DEF Locked, Held
  <1>3. Roles' BY DEF Roles
  <1>4. Sessions'
    <2>1. Message("WAIT_SYNC") \in Messages /\ Message("WAIT_SYNC").session = session
      BY MessageTyped DEF Kinds
    <2>0. queue \in Seq(Messages) /\ queue' = Append(queue, Message("WAIT_SYNC")) OBVIOUS
    <2>2. /\ queue'[Len(queue')] = Message("WAIT_SYNC")
          /\ \A i \in DOMAIN queue' : i = Len(queue') \/ (i \in DOMAIN queue /\ queue'[i] = queue[i])
      BY ONLY <2>0, <2>1, Appended
    <2>3. ~fence /\ \A i \in DOMAIN queue : queue[i].what # "WAIT_SYNC"
      BY DEF Sessions, Locked, Held
    <2>4. pc'[t] = "sync" /\ t \in Threads /\ ~fence' /\ \A u \in Threads : pc'[u] # "clear"
      BY <2>3 DEF Locked, Held
    <2>5. Sessions /\ UNCHANGED <<session, cbThread, hand>> OBVIOUS
    <2> QED BY ONLY <2>1, <2>2, <2>3, <2>4, <2>5 DEF Sessions
  <1>5. ToldOwnSession' BY DEF ToldOwnSession
  <1>6. Ending'
    <2>1. Message("WAIT_SYNC") \in Messages /\ Message("WAIT_SYNC").what = "WAIT_SYNC"
      BY MessageTyped DEF Kinds
    <2>0. queue \in Seq(Messages) /\ queue' = Append(queue, Message("WAIT_SYNC")) OBVIOUS
    <2>2. /\ queue'[Len(queue')] = Message("WAIT_SYNC")
          /\ \A i \in DOMAIN queue' : i = Len(queue') \/ (i \in DOMAIN queue /\ queue'[i] = queue[i])
      BY ONLY <2>0, <2>1, Appended
    <2>3. \A u \in Threads : pc[u] # "join" /\ pc'[u] # "join"
      BY DEF Locked, Held
    <2>4. cbThread # "exited" /\ ~freed BY <2>3 DEF Ending
    <2> QED BY <2>1, <2>2, <2>3, <2>4 DEF Ending
  <1> QED BY ONLY <1>1, <1>2, <1>3, <1>4, <1>5, <1>6 DEF IInv

LEMMA ResetFlushPreserves ==
    ASSUME IInv, ResetFlush PROVE IInv'
  <1> USE Constants DEF IInv, ResetFlush, FlushQueue, callVars, threadVars, Types, InCallback
  <1>1. Types'
    <2>1. queue' \in Seq(Messages) BY Empty
    <2> QED BY <2>1 DEF Held
  <1>2. Locked' BY DEF Locked, Held
  <1>3. Roles' BY DEF Roles
  <1>4. Sessions'
    <2>1. queue' = <<>> /\ DOMAIN queue' = {} BY Empty
    <2>2. ~fence BY DEF Sessions, Locked, Held
    <2> QED BY <2>1, <2>2 DEF Sessions, Locked, Held
  <1>5. ToldOwnSession' BY DEF ToldOwnSession
  <1>6. Ending'
    <2>1. queue' = <<>> /\ DOMAIN queue' = {} BY Empty
    <2>2. \A u \in Threads : pc[u] # "join" /\ pc'[u] # "join" BY DEF Locked, Held
    <2> QED BY <2>1, <2>2 DEF Ending
  <1> QED BY ONLY <1>1, <1>2, <1>3, <1>4, <1>5, <1>6 DEF IInv

\* When the fence is open the queue is empty and the callback thread is between messages.
LEMMA ResetSyncedPreserves ==
    ASSUME IInv, NEW t \in Threads, ResetSynced(t) PROVE IInv'
  <1> USE Constants DEF IInv, ResetSynced, callVars, sessionVars, threadVars, Types, InCallback
  <1>1. Types' BY DEF Held
  <1>2. Locked' BY DEF Locked, Held
  <1>3. Roles' BY DEF Roles
  <1>4. Sessions'
    <2>1. queue = <<>> /\ cbThread = "get" /\ DOMAIN queue = {} BY Empty DEF Sessions
    <2> QED BY <2>1 DEF Sessions, Locked, Held
  <1>5. ToldOwnSession' BY DEF ToldOwnSession
  <1>6. Ending' BY DEF Ending
  <1> QED BY ONLY <1>1, <1>2, <1>3, <1>4, <1>5, <1>6 DEF IInv

LEMMA ResetClearPreserves ==
    ASSUME IInv, NEW t \in Threads, ResetClear(t) PROVE IInv'
  <1> USE Constants DEF IInv, ResetClear, callVars, threadVars, Types, InCallback
  <1>1. Types'
    <2>0. session' = session + 1 /\ session \in Nat OBVIOUS
    <2>1. session' \in Nat /\ session' # None BY ONLY <2>0 DEF None
    <2> QED BY <2>1 DEF Held
  <1>2. Locked' BY DEF Locked, Held
  <1>3. Roles' BY DEF Roles
  <1>4. Sessions'
    <2>1. queue = <<>> /\ DOMAIN queue = {} /\ cbThread # "locking" BY Empty DEF Sessions, Roles
    <2> QED BY <2>1 DEF Sessions, Locked, Held
  <1>5. ToldOwnSession' BY DEF ToldOwnSession
  <1>6. Ending' BY DEF Ending
  <1> QED BY ONLY <1>1, <1>2, <1>3, <1>4, <1>5, <1>6 DEF IInv

LEMMA ResetRenewPreserves ==
    ASSUME IInv, NEW t \in Threads, ResetRenew(t) PROVE IInv'
  <1> USE Constants DEF IInv, ResetRenew, callVars, threadVars, Types, InCallback
  <1>1. Types' OBVIOUS
  <1>2. Locked' BY DEF Locked, Held
  <1>3. Roles' BY DEF Roles
  <1>4. Sessions' BY DEF Sessions
  <1>5. ToldOwnSession' BY DEF ToldOwnSession
  <1>6. Ending' BY DEF Ending
  <1> QED BY ONLY <1>1, <1>2, <1>3, <1>4, <1>5, <1>6 DEF IInv

\* END and STOP go behind all there is.
LEMMA ReleaseStopPreserves ==
    ASSUME IInv, NEW t \in Threads, ReleaseStop(t) PROVE IInv'
  <1> USE Constants DEF IInv, ReleaseStop, callVars, threadVars, Types, InCallback
  <1>1. Types'
    <2>1. queue' \in Seq(Messages) BY MessageTyped, TwoAppended DEF Kinds
    <2> QED BY <2>1 DEF Held
  <1>2. Locked' BY DEF Locked, Held
  <1>3. Roles' BY DEF Roles
  <1>4. Sessions'
    <2>1. \A w \in {"END", "STOP"} : Message(w) \in Messages /\ Message(w).what = w /\ Message(w).session = session
      BY MessageTyped DEF Kinds
    <2>0. queue \in Seq(Messages) /\ queue' = queue \o <<Message("END"), Message("STOP")>> OBVIOUS
    <2>2. \A i \in DOMAIN queue' : queue'[i] \in {Message("END"), Message("STOP")}
                                     \/ (i \in DOMAIN queue /\ queue'[i] = queue[i])
      BY ONLY <2>0, <2>1, TwoAppended
    <2>3. ~fence /\ \A i \in DOMAIN queue : queue[i].what # "WAIT_SYNC"
      BY DEF Sessions, Locked, Held
    <2>4. \A u \in Threads : pc'[u] \notin {"clear", "sync"}
      BY DEF Locked, Held
    <2>5. Sessions /\ UNCHANGED <<session, cbThread, hand, fence>> OBVIOUS
    <2> QED BY ONLY <2>1, <2>2, <2>3, <2>4, <2>5 DEF Sessions
  <1>5. ToldOwnSession' BY DEF ToldOwnSession
  <1>6. Ending'
    <2>1. \A w \in {"END", "STOP"} : Message(w) \in Messages /\ Message(w).what = w
      BY MessageTyped DEF Kinds
    <2>0. queue \in Seq(Messages) /\ queue' = queue \o <<Message("END"), Message("STOP")>> OBVIOUS
    <2>2. /\ Len(queue') = Len(queue) + 2 /\ Len(queue) \in Nat /\ queue' # <<>>
          /\ queue'[Len(queue) + 1] = Message("END") /\ queue'[Len(queue) + 2] = Message("STOP")
          /\ \A i \in DOMAIN queue' : i \in {Len(queue) + 1, Len(queue) + 2}
                                        \/ (i \in DOMAIN queue /\ queue'[i] = queue[i])
          /\ Len(queue') > 1 /\ Len(queue') # 1 /\ Len(queue') - 1 = Len(queue) + 1
      BY ONLY <2>0, <2>1, TwoAppended
    <2>3. pc'[t] = "join" /\ \A u \in Threads : pc[u] # "join"
      BY DEF Locked, Held
    <2>4. cbThread # "exited" /\ ~freed BY <2>3 DEF Ending
    <2>5. \A i \in DOMAIN queue : queue[i].what # "STOP" BY <2>3 DEF Ending
    <2> QED BY <2>1, <2>2, <2>3, <2>4, <2>5 DEF Ending
  <1> QED BY ONLY <1>1, <1>2, <1>3, <1>4, <1>5, <1>6 DEF IInv

\* Nobody else is left.
LEMMA ReleaseJoinPreserves ==
    ASSUME IInv, NEW t \in Threads, ReleaseJoin(t) PROVE IInv'
  <1> USE Constants DEF IInv, ReleaseJoin, callVars, sessionVars, threadVars, Types, InCallback
  <1>1. Types' OBVIOUS
  <1>2. Locked' BY DEF Locked, Held
  <1>3. Roles' BY DEF Roles
  <1>4. Sessions' BY DEF Sessions
  <1>5. ToldOwnSession' BY DEF ToldOwnSession
  <1>6. Ending'
    <2>1. queue = <<>> /\ DOMAIN queue = {} /\ told.what = "END" /\ ~running BY DEF Ending
    <2>2. \A u \in Threads : pc'[u] = "idle"
      BY DEF Roles, Threads
    <2> QED BY <2>1, <2>2 DEF Ending
  <1> QED BY ONLY <1>1, <1>2, <1>3, <1>4, <1>5, <1>6 DEF IInv

-----------------------------------------------------------------------------
(* The message thread and the callback thread.                              *)

LEMMA PostPreserves ==
    ASSUME IInv, NEW what \in {"ERROR", "EVENT", "STARTED"}, Post(what) PROVE IInv'
  <1> USE Constants DEF IInv, Post, callVars, threadVars, Types, InCallback
  <1>1. Types'
    <2>1. queue' \in Seq(Messages) BY MessageTyped, Appended DEF Kinds
    <2> QED BY <2>1 DEF Held
  <1>2. Locked' BY DEF Locked
  <1>3. Roles' BY DEF Roles
  <1>4. Sessions'
    <2>1. Message(what) \in Messages /\ Message(what).session = session /\ Message(what).what # "WAIT_SYNC"
      BY MessageTyped DEF Kinds
    <2>0. queue \in Seq(Messages) /\ queue' \in {queue, Append(queue, Message(what))} OBVIOUS
    <2>2. \A i \in DOMAIN queue' : queue'[i] = Message(what) \/ (i \in DOMAIN queue /\ queue'[i] = queue[i])
      BY ONLY <2>0, <2>1, Appended
    <2>3. ~fence /\ \A i \in DOMAIN queue : queue[i].what # "WAIT_SYNC" BY DEF Roles, Sessions
    <2>4. \A u \in Threads : pc'[u] # "clear" BY DEF Roles
    <2>5. Sessions /\ UNCHANGED <<session, cbThread, hand, fence>> OBVIOUS
    <2> QED BY ONLY <2>1, <2>2, <2>3, <2>4, <2>5 DEF Sessions
  <1>5. ToldOwnSession' BY DEF ToldOwnSession
  <1>6. Ending'
    <2>1. Message(what) \in Messages /\ Message(what).what # "STOP"
      BY MessageTyped DEF Kinds
    <2>0. queue \in Seq(Messages) /\ queue' \in {queue, Append(queue, Message(what))} OBVIOUS
    <2>2. \A i \in DOMAIN queue' : queue'[i] = Message(what) \/ (i \in DOMAIN queue /\ queue'[i] = queue[i])
      BY ONLY <2>0, <2>1, Appended
    <2>3. \A u \in Threads : pc[u] # "join" BY DEF Roles
    <2>4. cbThread # "exited" /\ ~freed BY DEF Ending
    <2> QED BY <2>1, <2>2, <2>3, <2>4 DEF Ending
  <1> QED BY ONLY <1>1, <1>2, <1>3, <1>4, <1>5, <1>6 DEF IInv

\* Behind the last END there is STOP alone.
LEMMA TakePreserves ==
    ASSUME IInv, Take PROVE IInv'
  <1> USE Constants DEF IInv, Take, CallbackStep, callVars, sessionVars, Types, InCallback
  <1>1. Types'
    <2>1. queue' \in Seq(Messages) /\ hand' \in Messages BY Tailed
    <2>2. cbThread' \in {"exited", "get", "locking"} OBVIOUS
    <2> QED BY <2>1, <2>2 DEF Held
  <1>2. Locked' BY DEF Locked
  <1>3. Roles' BY DEF Roles
  <1>4. Sessions'
    <2>1. /\ hand' = queue[1] /\ 1 \in DOMAIN queue /\ Len(queue) >= 1 /\ Len(queue') = Len(queue) - 1
          /\ \A i \in DOMAIN queue' : i + 1 \in DOMAIN queue /\ queue'[i] = queue[i + 1]
          /\ Len(queue) \in Nat /\ (queue' = <<>> <=> Len(queue) = 1)
      BY Tailed
    <2>2. hand'.session = session BY <2>1 DEF Sessions
    <2>3. \A i \in DOMAIN queue' : i \in Nat BY Tailed
    <2>4. \A i \in DOMAIN queue' : queue'[i].what = "WAIT_SYNC" => i = Len(queue')
      BY <2>1, <2>3 DEF Sessions
    <2>5. hand'.what = "WAIT_SYNC" => queue' = <<>> /\ cbThread' = "get" /\ \E u \in Threads : pc[u] = "sync"
      BY <2>1 DEF Sessions
    <2>6. \A u \in Threads : pc'[u] = pc[u] /\ pc[u] # "clear" /\ (pc[u] = "sync" => ~fence)
      BY DEF Sessions
    <2>7. fence' => fence \/ hand'.what = "WAIT_SYNC" OBVIOUS
    <2>8. fence => queue = <<>> BY DEF Sessions
    <2>9. Sessions /\ session' = session /\ queue # <<>> OBVIOUS
    <2> QED BY ONLY <2>1, <2>2, <2>4, <2>5, <2>6, <2>7, <2>8, <2>9 DEF Sessions
  <1>5. ToldOwnSession' BY DEF ToldOwnSession
  <1>6. Ending'
    <2>1. /\ hand' = queue[1] /\ 1 \in DOMAIN queue /\ Len(queue) >= 1 /\ Len(queue') = Len(queue) - 1
          /\ \A i \in DOMAIN queue' : i \in Nat /\ i + 1 \in DOMAIN queue /\ queue'[i] = queue[i + 1]
          /\ Len(queue) \in Nat /\ (queue' = <<>> <=> Len(queue) = 1)
      BY Tailed
    <2>2. pc' = pc /\ told' = told /\ running' = running /\ freed' = freed /\ ~freed
      BY DEF Ending
    <2>3. \A i \in DOMAIN queue' : queue'[i].what = "STOP" => i = Len(queue') /\ \E u \in Threads : pc[u] = "join"
      BY <2>1 DEF Ending
    <2>4. ASSUME NEW u \in Threads, pc[u] = "join", Len(queue) = 1
          PROVE  cbThread' = "exited" /\ told.what = "END" /\ queue' = <<>> /\ ~running
      BY <2>1, <2>4 DEF Ending, Roles
    <2>5. ASSUME NEW u \in Threads, pc[u] = "join", Len(queue) # 1
          PROVE  /\ cbThread' # "exited" /\ queue' # <<>> /\ queue'[Len(queue')].what = "STOP"
                 /\ Len(queue') = 1 => hand'.what = "END" /\ cbThread' = "locking"
                 /\ Len(queue') > 1 => queue'[Len(queue') - 1].what = "END"
      <3>1. hand'.what # "STOP" /\ cbThread' # "exited" BY <2>1, <2>5 DEF Ending
      <3>2. queue[Len(queue)].what = "STOP" /\ queue[Len(queue) - 1].what = "END" BY <2>1, <2>5 DEF Ending
      <3>3. queue'[Len(queue')] = queue[Len(queue)]
        BY <2>1, <2>5
      <3>4. Len(queue') > 1 => queue'[Len(queue') - 1] = queue[Len(queue) - 1]
        BY <2>1
      <3>5. Len(queue') = 1 => hand'.what = "END" /\ cbThread' = "locking" BY <2>1, <3>2
      <3> QED BY <2>1, <2>5, <3>1, <3>2, <3>3, <3>4, <3>5
    <2>6. cbThread' = "exited" => \E u \in Threads : pc[u] = "join"
      BY <2>1 DEF Ending
    <2>7. cbThread' = "exited" => queue' = <<>> /\ told.what = "END" /\ ~running
      BY <2>4, <2>5, <2>6
    <2> QED BY <2>2, <2>3, <2>4, <2>5, <2>6, <2>7 DEF Ending
  <1> QED BY ONLY <1>1, <1>2, <1>3, <1>4, <1>5, <1>6 DEF IInv

LEMMA DispatchPreserves ==
    ASSUME IInv, Dispatch PROVE IInv'
  <1> USE Constants DEF IInv, Dispatch, CallbackStep, callVars, sessionVars, Types, InCallback
  <1>1. Types' OBVIOUS
  <1>2. Locked' BY DEF Locked
  <1>3. Roles' BY DEF Roles
  <1>4. Sessions' BY DEF Sessions
  <1>5. ToldOwnSession' BY DEF ToldOwnSession, Sessions
  <1>6. Ending' BY DEF Ending
  <1> QED BY ONLY <1>1, <1>2, <1>3, <1>4, <1>5, <1>6 DEF IInv

LEMMA DispatchStartedPreserves ==
    ASSUME IInv, DispatchStarted PROVE IInv'
  <1> USE Constants DEF IInv, DispatchStarted, Both, CallbackStep, callVars, sessionVars, Types, InCallback
  <1>1. Types' OBVIOUS
  <1>2. Locked' BY DEF Locked
  <1>3. Roles' BY DEF Roles
  <1>4. Sessions' BY DEF Sessions
  <1>5. ToldOwnSession' BY DEF ToldOwnSession
  <1>6. Ending' BY DEF Ending
  <1> QED BY ONLY <1>1, <1>2, <1>3, <1>4, <1>5, <1>6 DEF IInv

LEMMA ReturnPreserves ==
    ASSUME IInv, Return PROVE IInv'
  <1> USE Constants DEF IInv, Return, Both, CallbackStep, callVars, sessionVars, Types, InCallback
  <1>1. Types' OBVIOUS
  <1>2. Locked' BY DEF Locked
  <1>3. Roles' BY DEF Roles
  <1>4. Sessions' BY DEF Sessions
  <1>5. ToldOwnSession' BY DEF ToldOwnSession
  <1>6. Ending' BY DEF Ending
  <1> QED BY ONLY <1>1, <1>2, <1>3, <1>4, <1>5, <1>6 DEF IInv

-----------------------------------------------------------------------------
(* The theorems.                                                           *)

LEMMA InitIInv == Init => IInv
  <1> SUFFICES ASSUME Init PROVE IInv OBVIOUS
  <1>1. queue \in Seq(Messages) /\ DOMAIN queue = {} BY Empty DEF Init
  <1>2. hand \in Messages BY DEF Init, NoMessage, Messages, Kinds, None
  <1>3. session \in Nat /\ session # None /\ callbacks \in {None, session} BY DEF Init, None
  <1>4. Types BY <1>1, <1>2, <1>3 DEF Init, Types, Calls
  <1>5. \A t \in Threads : lock # t BY Constants DEF Init
  <1>6. Locked /\ Roles BY <1>5, Constants DEF Init, Locked, Roles, Held, Threads
  <1> QED BY <1>1, <1>4, <1>6 DEF Init, IInv, Sessions, ToldOwnSession, Ending

LEMMA NextIInv == IInv /\ [Next]_vars => IInv'
  <1> SUFFICES ASSUME IInv, [Next]_vars PROVE IInv' OBVIOUS
  <1>1. CASE UNCHANGED vars
    BY <1>1 DEF vars, IInv, Types, Locked, Roles, InCallback, Sessions, ToldOwnSession, Ending
  <1>2. CASE \E t \in Threads, o \in Calls : Begin(t, o)
    BY <1>2, BeginPreserves
  <1>3. ASSUME NEW t \in Threads, CallNext(t) PROVE IInv'
    BY <1>3, SetCallbackPreserves, EnterPreserves, LeavePreserves, ResetSyncPreserves, ResetFlushPreserves,
       ResetSyncedPreserves, ResetClearPreserves, ResetRenewPreserves, ReleaseStopPreserves, ReleaseJoinPreserves DEF CallNext
  <1>4. CASE \E what \in {"ERROR", "EVENT", "STARTED"} : Post(what)
    BY <1>4, PostPreserves
  <1>5. CASE CallbackNext
    BY <1>5, TakePreserves, DispatchPreserves, DispatchStartedPreserves, ReturnPreserves DEF CallbackNext
  <1> QED BY <1>1, <1>2, <1>3, <1>4, <1>5 DEF Next

LEMMA AlwaysIInv == Spec => []IInv
  BY InitIInv, NextIInv, PTL DEF Spec

\* A callback is called for messages of its own session only.
THEOREM SessionsApart == Spec => []ToldOwnSession
  <1>1. IInv => ToldOwnSession BY DEF IInv
  <1> QED BY <1>1, AlwaysIInv, PTL

\* When release has returned, END was the last message told, and nothing runs any more.
THEOREM ReleaseIsLast == Spec => []ReleasedQuiet
  <1>1. IInv => ReleasedQuiet BY DEF IInv, Ending, ReleasedQuiet
  <1> QED BY <1>1, AlwaysIInv, PTL

-----------------------------------------------------------------------------
(* callback_lock.                                                           *)

CallbackLocked == InCallback => cbLock = Cb

LEMMA AlwaysCallbackLocked == Spec => []CallbackLocked
  <1>1. Init => CallbackLocked BY DEF Init, CallbackLocked, InCallback
  <1>2. ASSUME CallbackLocked, [Next]_vars PROVE CallbackLocked'
    <2> USE <1>2 DEF CallbackLocked, InCallback
    <2>1. CASE UNCHANGED <<cbThread, cbLock>> BY <2>1
    <2>2. CASE CallbackNext
      BY <2>2 DEF CallbackNext, Take, Dispatch, DispatchStarted, Return, Both
    <2>3. (\E t \in Threads, o \in Calls : Begin(t, o)) => UNCHANGED <<cbThread, cbLock>>
      BY DEF Begin, threadVars
    <2>4. ASSUME NEW t \in Threads, CallNext(t) PROVE UNCHANGED <<cbThread, cbLock>>
      BY <2>4 DEF CallNext, SetCallback, Enter, Leave, ResetSync, ResetFlush, ResetSynced, ResetClear,
                  ResetRenew, ReleaseStop, ReleaseJoin, threadVars
    <2>5. (\E what \in {"ERROR", "EVENT", "STARTED"} : Post(what)) => UNCHANGED <<cbThread, cbLock>>
      BY DEF Post, threadVars
    <2>6. UNCHANGED vars => UNCHANGED <<cbThread, cbLock>> BY DEF vars
    <2> QED BY <2>1, <2>2, <2>3, <2>4, <2>5, <2>6 DEF Next
  <1> QED BY <1>1, <1>2, PTL DEF Spec

\* While a callback runs only a call made inside it replaces the callbacks: the
\* application's other threads stand still in that step.
THEOREM CallbacksStandStill == Spec => CallbacksStable
  <1>1. ASSUME IInv, CallbackLocked, [Next]_vars, InCallback, callbacks' # callbacks, NEW a \in Apps
        PROVE  pc'[a] = pc[a]
    <2>1. PICK t \in Threads : SetCallback(t) \/ ResetClear(t)
      <3>1. ~CallbackNext BY <1>1 DEF CallbackNext, Take, Dispatch, DispatchStarted, Return, CallbackStep
      <3>2. ~(\E t \in Threads, o \in Calls : Begin(t, o)) BY <1>1 DEF Begin
      <3>3. ~(\E what \in {"ERROR", "EVENT", "STARTED"} : Post(what)) BY <1>1 DEF Post
      <3>4. ~UNCHANGED vars BY <1>1 DEF vars
      <3>5. PICK t \in Threads : CallNext(t) BY <1>1, <3>1, <3>2, <3>3, <3>4 DEF Next
      <3>6. SetCallback(t) \/ ResetClear(t)
        BY <1>1, <3>5 DEF CallNext, Enter, Leave, ResetSync, ResetFlush, ResetSynced, ResetRenew,
                          ReleaseStop, ReleaseJoin
      <3> QED BY <3>6
    <2>2. t = Cb BY <1>1, <2>1, Constants DEF SetCallback, ResetClear, MayUpdate, CallbackLocked, Threads
    <2>3. PICK where : pc' = [pc EXCEPT ![Cb] = where] BY <2>1, <2>2 DEF SetCallback, ResetClear
    <2>4. a # Cb /\ a \in DOMAIN pc BY <1>1, Constants, CallsAssumption DEF IInv, Types, Threads
    <2> QED BY <2>3, <2>4
  <1>2. IInv /\ CallbackLocked /\ [Next]_vars =>
          [InCallback /\ callbacks' # callbacks => \A t \in Apps : pc'[t] = pc[t]]_vars
    BY <1>1
  <1> QED BY <1>2, AlwaysIInv, AlwaysCallbackLocked, PTL DEF Spec, CallbacksStable

-----------------------------------------------------------------------------
(* ErrorOnce.                                                               *)

\* The error of a session is in one place: queued, taken, or told.
OnePlace ==
    /\ \A i, j \in Queued : i = j
    /\ Taken => Queued = {}
    /\ errors \in {0, 1}
    /\ errors = 1 => Queued = {} /\ ~Taken

\* has_reported_error says whether it is anywhere, except while a reset clears both.
Reported == ~Resetting => (reported <=> Queued # {} \/ Taken \/ errors = 1)

\* A reset that has removed the callbacks meets no error on its way.
Cleared == (\E t \in Threads : pc[t] = "renew") => queue = <<>> /\ cbThread # "locking" /\ errors = 0

EInv == OnePlace /\ Reported /\ Cleared /\ reported \in BOOLEAN

LEMMA InitEInv == Init => EInv
  <1> SUFFICES ASSUME Init PROVE EInv OBVIOUS
  <1>1. Queued = {} BY Empty DEF Init, Queued
  <1>2. ~Taken BY DEF Init, Taken
  <1>3. errors = 0 /\ \A t \in Threads : pc[t] = "idle" BY DEF Init
  <1>4. ~reported /\ reported \in BOOLEAN BY DEF Init
  <1>5. OnePlace /\ Cleared BY <1>1, <1>2, <1>3 DEF OnePlace, Cleared
  <1>6. Reported BY <1>1, <1>2, <1>3, <1>4 DEF Reported
  <1> QED BY <1>4, <1>5, <1>6 DEF EInv

\* What no error passes through.
LEMMA PlacesSame ==
    ASSUME UNCHANGED <<queue, cbThread, hand>> PROVE Queued' = Queued /\ (Taken' <=> Taken)
  BY DEF Queued, Taken

\* A message other than an error behind the queue leaves the errors where they are.
LEMMA QueuedBehind ==
    ASSUME IInv, NEW e \in Messages, queue' = Append(queue, e)
    PROVE  /\ e.what # "ERROR" => Queued' = Queued
           /\ e.what = "ERROR" /\ Queued = {} => \E k : Queued' = {k}
  <1>0. queue \in Seq(Messages) BY DEF IInv, Types
  <1>1. /\ queue'[Len(queue) + 1] = e /\ DOMAIN queue' = DOMAIN queue \cup {Len(queue) + 1}
        /\ \A i \in DOMAIN queue : queue'[i] = queue[i]
    BY <1>0
  <1>2. ASSUME e.what # "ERROR" PROVE Queued' = Queued BY <1>1, <1>2 DEF Queued
  <1>3. ASSUME e.what = "ERROR", Queued = {} PROVE Queued' = {Len(queue) + 1}
    BY <1>1, <1>3 DEF Queued
  <1> QED BY <1>2, <1>3

LEMMA QueuedBehindTwo ==
    ASSUME IInv, NEW a \in Messages, NEW b \in Messages, queue' = queue \o <<a, b>>,
           a.what # "ERROR", b.what # "ERROR"
    PROVE  Queued' = Queued
  <1>1. queue \in Seq(Messages) BY DEF IInv, Types
  <1>2. /\ Len(queue) \in Nat /\ DOMAIN queue' = DOMAIN queue \cup {Len(queue) + 1, Len(queue) + 2}
        /\ queue'[Len(queue) + 1] = a /\ queue'[Len(queue) + 2] = b
        /\ \A i \in DOMAIN queue : queue'[i] = queue[i]
    BY <1>1
  <1> QED BY <1>2 DEF Queued

\* The calls, but for the two steps that clear the error.
LEMMA CallKeepsError ==
    ASSUME IInv, EInv, NEW t \in Threads, CallNext(t), ~ResetClear(t), ~ResetRenew(t), ~ResetFlush
    PROVE  EInv'
  <1>1. UNCHANGED <<cbThread, hand, errors, reported>>
    BY DEF CallNext, SetCallback, Enter, Leave, ResetSync, ResetSynced, ReleaseStop, ReleaseJoin,
       threadVars, sessionVars
  <1>2. Queued' = Queued
    <2>1. CASE ResetSync(t)
      <3>1. Message("WAIT_SYNC") \in Messages /\ Message("WAIT_SYNC").what # "ERROR"
        BY MessageTyped DEF Kinds, IInv, Types
      <3> QED BY <2>1, <3>1, QueuedBehind DEF ResetSync
    <2>2. CASE ReleaseStop(t)
      <3>1. \A w \in {"END", "STOP"} : Message(w) \in Messages /\ Message(w).what # "ERROR"
        BY MessageTyped DEF Kinds, IInv, Types
      <3> QED BY <2>2, <3>1, QueuedBehindTwo DEF ReleaseStop
    <2>3. CASE SetCallback(t) \/ Enter(t) \/ Leave(t) \/ ResetSynced(t) \/ ReleaseJoin(t)
      BY <2>3 DEF SetCallback, Enter, Leave, ResetSynced, ReleaseJoin, Queued
    <2> QED BY <2>1, <2>2, <2>3 DEF CallNext
  <1>3. \A u \in Threads : pc'[u] # "renew" \/ pc[u] = "renew"
    BY DEF CallNext, SetCallback, Enter, Leave, ResetSync, ResetSynced, ReleaseStop, ReleaseJoin, IInv, Types
  <1>4. (\E u \in Threads : pc'[u] = "renew") => queue' = queue
    <2>1. CASE ResetSync(t) \/ ReleaseStop(t)
      BY <2>1, <1>3 DEF ResetSync, ReleaseStop, IInv, Locked, Held
    <2>2. CASE SetCallback(t) \/ Enter(t) \/ Leave(t) \/ ResetSynced(t) \/ ReleaseJoin(t)
      BY <2>2 DEF SetCallback, Enter, Leave, ResetSynced, ReleaseJoin
    <2> QED BY <2>1, <2>2 DEF CallNext
  <1>5. Resetting => Resetting'
    <2> SUFFICES ASSUME NEW u \in Threads, pc[u] \in {"clear", "renew"} PROVE pc'[u] \in {"clear", "renew"}
      BY DEF Resetting
    <2> QED BY DEF CallNext, SetCallback, Enter, Leave, ResetSync, ResetSynced, ReleaseStop, ReleaseJoin, IInv, Types
  <1> QED BY <1>1, <1>2, <1>3, <1>4, <1>5 DEF EInv, OnePlace, Reported, Cleared, Taken

\* A reset in a callback drops the queue, which has_reported_error learns at its end.
LEMMA FlushKeepsError ==
    ASSUME IInv, EInv, ResetFlush PROVE EInv'
  <1>1. Queued' = {} BY Empty DEF ResetFlush, FlushQueue, Queued
  <1>2. UNCHANGED <<cbThread, hand, errors, reported>> BY DEF ResetFlush, threadVars
  <1>3. pc'[Cb] = "clear" /\ Cb \in Threads BY Constants DEF ResetFlush, IInv, Types
  <1>4. \A u \in Threads : pc'[u] # "renew"
    BY Constants DEF ResetFlush, IInv, Types, Locked, Held
  <1> QED BY <1>1, <1>2, <1>3, <1>4 DEF EInv, OnePlace, Reported, Cleared, Taken, Resetting

\* The messages of the session are gone when its callbacks are removed.
LEMMA ClearKeepsError ==
    ASSUME IInv, EInv, NEW t \in Threads, ResetClear(t) PROVE EInv'
  <1>1. queue = <<>> /\ cbThread # "locking" /\ Queued = {}
    <2>1. queue = <<>> /\ (t # Cb => cbThread = "get") BY DEF ResetClear, IInv, Sessions
    <2>2. t = Cb => InCallback BY DEF ResetClear, IInv, Roles
    <2> QED BY <2>1, <2>2, Empty DEF InCallback, Queued
  <1>2. UNCHANGED <<queue, cbThread, hand, reported>> /\ errors' = 0 BY DEF ResetClear, threadVars
  <1>3. pc'[t] = "renew" BY DEF ResetClear, IInv, Types
  <1> QED BY <1>1, <1>2, <1>3, PlacesSame DEF EInv, OnePlace, Reported, Cleared, Taken, Resetting

LEMMA RenewKeepsError ==
    ASSUME IInv, EInv, NEW t \in Threads, ResetRenew(t) PROVE EInv'
  <1>1. queue = <<>> /\ cbThread # "locking" /\ errors = 0 /\ Queued = {}
    <2>1. queue = <<>> /\ cbThread # "locking" /\ errors = 0 BY DEF ResetRenew, EInv, Cleared
    <2> QED BY <2>1, Empty DEF Queued
  <1>2. UNCHANGED <<queue, cbThread, hand, errors>> BY DEF ResetRenew, threadVars
  <1>3. ~reported' /\ reported' \in BOOLEAN BY DEF ResetRenew
  <1>4. Queued' = {} /\ ~Taken' BY <1>1, <1>2, PlacesSame DEF Taken
  <1>5. OnePlace' BY <1>1, <1>2, <1>4 DEF OnePlace
  <1>6. Reported' BY <1>1, <1>2, <1>3, <1>4 DEF Reported
  <1>7. Cleared' BY <1>1, <1>2 DEF Cleared
  <1> QED BY <1>3, <1>5, <1>6, <1>7 DEF EInv

\* Only the first error of a session is queued.
LEMMA PostKeepsError ==
    ASSUME IInv, EInv, NEW what \in {"ERROR", "EVENT", "STARTED"}, Post(what) PROVE EInv'
  <1>1. UNCHANGED <<pc, cbThread, hand, errors>> /\ running /\ reported' = (reported \/ what = "ERROR")
    BY DEF Post, threadVars
  <1>2. ~Resetting /\ ~(\E u \in Threads : pc[u] = "renew") BY <1>1 DEF IInv, Roles, Resetting
  <1>3. CASE what = "ERROR" /\ reported
    <2>1. queue' = queue /\ reported' BY <1>1, <1>3 DEF Post
    <2> QED BY <1>1, <1>2, <1>3, <2>1, PlacesSame DEF EInv, OnePlace, Reported, Cleared, Resetting
  <1>4. CASE ~(what = "ERROR" /\ reported)
    <2>1. queue' = Append(queue, Message(what)) BY <1>4 DEF Post
    <2>2. Message(what) \in Messages /\ Message(what).what = what
      BY MessageTyped DEF Kinds, IInv, Types
    <2>3. CASE what = "ERROR"
      <3>1. ~reported /\ Queued = {} /\ ~Taken /\ errors = 0
        BY <1>2, <1>4, <2>3 DEF EInv, Reported, OnePlace
      <3>2. PICK k : Queued' = {k} BY <2>1, <2>2, <2>3, <3>1, QueuedBehind
      <3> QED BY <1>1, <1>2, <2>3, <3>1, <3>2 DEF EInv, OnePlace, Reported, Cleared, Taken
    <2>4. CASE what # "ERROR"
      <3>1. Queued' = Queued BY <2>1, <2>2, <2>4, QueuedBehind
      <3>2. reported' = reported BY <1>1, <2>4 DEF EInv
      <3> QED BY <1>1, <1>2, <3>1, <3>2 DEF EInv, OnePlace, Reported, Cleared, Taken, Resetting
    <2> QED BY <2>3, <2>4
  <1> QED BY <1>3, <1>4

\* The error moves from the queue into the hand ...
LEMMA TakeKeepsError ==
    ASSUME IInv, EInv, Take PROVE EInv'
  <1>1. /\ queue \in Seq(Messages) /\ queue # <<>> /\ queue' = Tail(queue) /\ cbThread = "get"
        /\ UNCHANGED <<pc, errors, reported>>
    BY DEF Take, CallbackStep, sessionVars, IInv, Types
  <1>2. /\ hand' = queue[1] /\ 1 \in DOMAIN queue /\ Len(queue) \in Nat
        /\ \A i \in DOMAIN queue' : i \in Nat /\ i >= 1 /\ i + 1 \in DOMAIN queue /\ queue'[i] = queue[i + 1]
    BY <1>1, Tailed DEF Take
  <1>3. \A i \in DOMAIN queue : i # 1 => i - 1 \in DOMAIN queue' /\ queue'[i - 1] = queue[i]
    <2> SUFFICES ASSUME NEW i \in DOMAIN queue, i # 1 PROVE i - 1 \in DOMAIN queue' /\ queue'[i - 1] = queue[i]
      OBVIOUS
    <2>1. i \in Nat /\ i >= 1 /\ i <= Len(queue) BY <1>1
    <2>2. DOMAIN queue' = 1..(Len(queue) - 1) /\ \A k \in 1..(Len(queue) - 1) : queue'[k] = queue[k + 1]
      BY <1>1
    <2>3. i - 1 \in 1..(Len(queue) - 1) /\ (i - 1) + 1 = i BY <1>2, <2>1
    <2> QED BY <2>2, <2>3
  <1>4. ~Taken BY <1>1 DEF Taken
  <1>5. ~(\E t \in Threads : pc[t] = "renew") BY <1>1 DEF EInv, Cleared
  <1>6. CASE hand'.what = "ERROR"
    <2>1. Queued = {1} BY <1>2, <1>6 DEF EInv, OnePlace, Queued
    <2>2. Queued' = {}
      <3> SUFFICES ASSUME NEW i \in Queued' PROVE FALSE OBVIOUS
      <3>1. i \in Nat /\ i >= 1 /\ i + 1 \in Queued BY <1>2 DEF Queued
      <3> QED BY <2>1, <3>1
    <2>3. Taken' BY <1>6 DEF Take, Taken
    <2> QED BY <1>1, <1>4, <1>5, <2>1, <2>2, <2>3 DEF EInv, OnePlace, Reported, Cleared, Resetting
  <1>7. CASE hand'.what # "ERROR"
    <2>1. ~Taken' BY <1>7 DEF Taken
    <2>2. 1 \notin Queued BY <1>2, <1>7 DEF Queued
    <2>3. \A i \in Queued' : i \in Nat /\ i + 1 \in Queued BY <1>2 DEF Queued
    <2>4. \A i \in Queued : i - 1 \in Queued' BY <1>3, <2>2 DEF Queued
    <2>5. \A i, j \in Queued' : i = j
      <3> SUFFICES ASSUME NEW i \in Queued', NEW j \in Queued' PROVE i = j OBVIOUS
      <3>1. i + 1 = j + 1 BY <2>3 DEF EInv, OnePlace
      <3> QED BY <2>3, <3>1
    <2>6. Queued' # {} <=> Queued # {} BY <2>3, <2>4
    <2> QED BY <1>1, <1>4, <1>5, <2>1, <2>5, <2>6 DEF EInv, OnePlace, Reported, Cleared, Resetting
  <1> QED BY <1>6, <1>7

\* ... and from there to the application.
LEMMA CallbackKeepsError ==
    ASSUME IInv, EInv, Dispatch \/ DispatchStarted \/ Return PROVE EInv'
  <1>1. UNCHANGED <<queue, hand, pc, reported>> /\ Queued' = Queued /\ cbThread' # "locking"
    BY DEF Dispatch, DispatchStarted, Return, CallbackStep, sessionVars, Queued
  <1>2. ~Taken' BY <1>1 DEF Taken
  <1>3. CASE Dispatch
    <2>1. ~(\E t \in Threads : pc[t] = "renew") BY <1>3 DEF EInv, Cleared, Dispatch
    <2>2. CASE hand.what = "ERROR"
      <3>1. Taken /\ Queued = {} /\ errors = 0 /\ errors' = 1
        BY <1>3, <2>2 DEF Dispatch, Taken, EInv, OnePlace
      <3> QED BY <1>1, <1>2, <2>1, <3>1 DEF EInv, OnePlace, Reported, Cleared, Resetting
    <2>3. CASE hand.what # "ERROR"
      <3>1. ~Taken /\ errors' = errors BY <1>3, <2>3 DEF Dispatch, Taken
      <3> QED BY <1>1, <1>2, <2>1, <3>1 DEF EInv, OnePlace, Reported, Cleared, Resetting
    <2> QED BY <2>2, <2>3
  <1>4. CASE DispatchStarted \/ Return
    <2>1. errors' = errors /\ ~Taken BY <1>4 DEF DispatchStarted, Return, Both, InCallback, Taken
    <2> QED BY <1>1, <1>2, <2>1 DEF EInv, OnePlace, Reported, Cleared, Resetting
  <1> QED BY <1>3, <1>4

LEMMA NextEInv == IInv /\ EInv /\ [Next]_vars => EInv'
  <1> SUFFICES ASSUME IInv, EInv, [Next]_vars PROVE EInv' OBVIOUS
  <1>1. CASE UNCHANGED vars
    BY <1>1, PlacesSame DEF vars, EInv, OnePlace, Reported, Cleared, Resetting
  <1>2. ASSUME NEW t \in Threads, NEW o \in Calls, Begin(t, o) PROVE EInv'
    <2>1. UNCHANGED <<queue, cbThread, hand, errors, reported>> BY <1>2 DEF Begin, threadVars, sessionVars
    <2>2. \A u \in Threads : \A w \in {"clear", "renew"} : pc'[u] = w <=> pc[u] = w
      BY <1>2 DEF Begin, IInv, Types
    <2> QED BY <2>1, <2>2, PlacesSame DEF EInv, OnePlace, Reported, Cleared, Resetting
  <1>3. ASSUME NEW t \in Threads, CallNext(t) PROVE EInv'
    BY <1>3, CallKeepsError, FlushKeepsError, ClearKeepsError, RenewKeepsError
  <1>4. CASE \E what \in {"ERROR", "EVENT", "STARTED"} : Post(what) BY <1>4, PostKeepsError
  <1>5. CASE CallbackNext BY <1>5, TakeKeepsError, CallbackKeepsError DEF CallbackNext
  <1> QED BY <1>1, <1>2, <1>3, <1>4, <1>5 DEF Next

\* The application is told of one error in a session, and the player remembers one exactly
\* when it is told or about to be: no error is told twice, and none is remembered but lost.
THEOREM ErrorsToldOnce == Spec => []ErrorOnce
  <1>1. EInv => ErrorOnce
    <2> SUFFICES ASSUME EInv, ~Resetting PROVE Underway + errors = (IF reported THEN 1 ELSE 0)
      BY DEF ErrorOnce
    <2>1. CASE Queued = {}
      BY <2>1, FS_EmptySet DEF EInv, OnePlace, Reported, Underway
    <2>2. CASE Queued # {}
      <3>1. PICK k : Queued = {k}
        <4>1. PICK k : k \in Queued BY <2>2
        <4>2. \A i \in Queued : i = k BY <4>1 DEF EInv, OnePlace
        <4> QED BY <4>1, <4>2
      <3>2. Cardinality(Queued) = 1 BY <3>1, FS_Singleton
      <3> QED BY <2>2, <3>2 DEF EInv, OnePlace, Reported, Underway
    <2> QED BY <2>1, <2>2
  <1> QED BY <1>1, InitEInv, NextEInv, AlwaysIInv, PTL DEF Spec

-----------------------------------------------------------------------------
(* Who waits for whom.                                                      *)

WaitsSeen == \E i \in DOMAIN queue : queue[i].what = "WAIT_SYNC"

\* A lock is held by a thread, callback_lock by the callback thread alone; and
\* a reset that waits is seen: WAIT_SYNC is in the queue until the fence is signaled.
WInv ==
    /\ lock \in Threads \cup {Nobody}
    /\ cbLock = IF InCallback THEN Cb ELSE Nobody
    /\ (\E t \in Threads : pc[t] = "sync") => fence \/ WaitsSeen

\* At the start no lock is held and no call waits.
LEMMA InitWInv == Init => WInv
  BY DEF Init, WInv, InCallback

\* A message put behind the others leaves WAIT_SYNC in the queue.
LEMMA WaitsSeenBehind ==
    ASSUME queue \in Seq(Messages), NEW m \in Messages, queue' = Append(queue, m)
    PROVE  WaitsSeen => WaitsSeen'
  <1>1. \A i \in DOMAIN queue : i \in DOMAIN queue' /\ queue'[i] = queue[i] OBVIOUS
  <1> QED BY <1>1 DEF WaitsSeen

\* A call moves only if it has the lock, or takes it, or needs none.
LEMMA CallKeepsWaits ==
    ASSUME IInv, WInv, NEW t \in Threads, CallNext(t) PROVE WInv'
  <1> USE Constants
  <1>0. lock' \in Threads \cup {Nobody}
    BY DEF CallNext, WInv, SetCallback, Enter, Leave, ResetSync, ResetFlush, ResetSynced, ResetClear, ResetRenew,
           ReleaseStop, ReleaseJoin
  <1>1. UNCHANGED <<cbThread, cbLock>>
    BY DEF CallNext, SetCallback, Enter, Leave, ResetSync, ResetFlush, ResetSynced, ResetClear, ResetRenew,
           ReleaseStop, ReleaseJoin, threadVars
  <1>2. pc \in [Threads -> Held \cup {"idle", "swap", "enter"}] /\ queue \in Seq(Messages) /\ session \in Nat
    BY DEF IInv, Types
  <1>3. \A u \in Threads : u # t => pc'[u] = pc[u]
    BY <1>2 DEF CallNext, SetCallback, Enter, Leave, ResetSync, ResetFlush, ResetSynced, ResetClear, ResetRenew,
                ReleaseStop, ReleaseJoin
  <1>4. ASSUME NEW u \in Threads, pc'[u] = "sync" PROVE fence' \/ WaitsSeen'
    <2>1. CASE ResetSync(t)
      <3>1. queue' = Append(queue, Message("WAIT_SYNC")) BY <2>1 DEF ResetSync
      <3>2. Message("WAIT_SYNC") \in Messages /\ Message("WAIT_SYNC").what = "WAIT_SYNC"
        BY <1>2, MessageTyped DEF Kinds
      <3> QED BY <1>2, <3>1, <3>2, Appended DEF WaitsSeen
    <2>2. CASE ResetSynced(t) \/ (t = Cb /\ ResetFlush) \/ ReleaseStop(t)
      <3>1. pc[t] \in Held /\ pc'[t] # "sync" BY <1>2, <2>2 DEF ResetSynced, ResetFlush, ReleaseStop, Held
      <3>2. u # t /\ pc[u] \in Held BY <1>3, <1>4, <3>1 DEF Held
      <3> QED BY <3>1, <3>2 DEF IInv, Locked
    <2>3. CASE \/ SetCallback(t) \/ Enter(t) \/ Leave(t) \/ ResetClear(t) \/ ResetRenew(t) \/ ReleaseJoin(t)
      <3>1. UNCHANGED <<queue, fence>> /\ pc'[t] # "sync"
        BY <1>2, <2>3 DEF SetCallback, Enter, Leave, ResetClear, ResetRenew, ReleaseJoin
      <3>2. pc[u] = "sync" BY <1>3, <1>4, <3>1
      <3> QED BY <3>1, <3>2 DEF WInv, WaitsSeen
    <2> QED BY <2>1, <2>2, <2>3 DEF CallNext
  <1>5. (\E u \in Threads : pc'[u] = "sync") => fence' \/ WaitsSeen' BY <1>4
  <1>6. cbLock' = IF InCallback' THEN Cb ELSE Nobody BY <1>1 DEF WInv, InCallback
  <1> QED BY <1>0, <1>5, <1>6 DEF WInv

\* The callback thread signals the fence when it takes WAIT_SYNC.
LEMMA TakeKeepsWaits == ASSUME IInv, WInv, Take PROVE WInv'
  <1>1. /\ queue \in Seq(Messages) /\ queue # <<>> /\ queue' = Tail(queue) /\ hand' = Head(queue)
        /\ UNCHANGED <<pc, lock, cbLock>> /\ ~InCallback /\ ~InCallback'
        /\ fence' = (hand'.what = "WAIT_SYNC" \/ fence)
    BY DEF Take, CallbackStep, IInv, Types, InCallback
  <1>2. CASE fence' BY <1>1, <1>2 DEF WInv
  <1>3. CASE ~fence'
    <2>1. ~fence /\ queue[1].what # "WAIT_SYNC" BY <1>1, <1>3, Tailed
    <2>2. WaitsSeen => WaitsSeen'
      <3> SUFFICES ASSUME NEW i \in DOMAIN queue, queue[i].what = "WAIT_SYNC" PROVE WaitsSeen' BY DEF WaitsSeen
      <3>1. i # 1 BY <2>1
      <3>2. i \in Nat /\ i >= 1 /\ i <= Len(queue) /\ Len(queue) \in Nat BY <1>1
      <3>3. DOMAIN queue' = 1..(Len(queue) - 1) /\ \A k \in 1..(Len(queue) - 1) : queue'[k] = queue[k + 1] BY <1>1
      <3>4. i - 1 \in 1..(Len(queue) - 1) /\ (i - 1) + 1 = i BY <3>1, <3>2
      <3>5. queue'[i - 1] = queue[i] BY <3>3, <3>4
      <3> QED BY <3>3, <3>4, <3>5 DEF WaitsSeen
    <2> QED BY <1>1, <2>1, <2>2 DEF WInv
  <1> QED BY <1>2, <1>3

\* Every step of the code keeps WInv.
LEMMA NextWInv == IInv /\ WInv /\ [Next]_vars => WInv'
  <1> SUFFICES ASSUME IInv, WInv, [Next]_vars PROVE WInv' OBVIOUS
  <1>1. CASE UNCHANGED vars BY <1>1 DEF vars, WInv, WaitsSeen, InCallback
  <1>2. ASSUME NEW t \in Threads, NEW o \in Calls, Begin(t, o) PROVE WInv'
    <2>1. UNCHANGED <<queue, fence, lock, cbLock, cbThread>> BY <1>2 DEF Begin, threadVars
    <2>2. \A u \in Threads : pc'[u] = "sync" => pc[u] = "sync" BY <1>2 DEF Begin, IInv, Types
    <2> QED BY <2>1, <2>2 DEF WInv, WaitsSeen, InCallback
  <1>3. ASSUME NEW t \in Threads, CallNext(t) PROVE WInv' BY <1>3, CallKeepsWaits
  <1>4. ASSUME NEW what \in {"ERROR", "EVENT", "STARTED"}, Post(what) PROVE WInv'
    <2>1. UNCHANGED <<pc, fence, lock, cbLock, cbThread>> BY <1>4 DEF Post, threadVars
    <2>2. queue \in Seq(Messages) /\ Message(what) \in Messages BY MessageTyped DEF IInv, Types, Kinds
    <2>3. queue' = queue \/ queue' = Append(queue, Message(what)) BY <1>4 DEF Post
    <2>4. WaitsSeen => WaitsSeen' BY <2>2, <2>3, WaitsSeenBehind DEF WaitsSeen
    <2> QED BY <2>1, <2>4 DEF WInv, InCallback
  <1>5. CASE Dispatch \/ DispatchStarted \/ Return
    <2>1. UNCHANGED <<pc, fence, lock, queue>> BY <1>5 DEF Dispatch, DispatchStarted, Return, CallbackStep
    <2>2. cbLock' = IF InCallback' THEN Cb ELSE Nobody
      BY <1>5 DEF Dispatch, DispatchStarted, Return, Both, InCallback, WInv
    <2> QED BY <2>1, <2>2 DEF WInv, WaitsSeen
  <1> QED BY <1>1, <1>2, <1>3, <1>4, <1>5, TakeKeepsWaits DEF Next, CallbackNext

\* The waits for the callback thread: for its signal, and for its end.
AwaitsThread(t) == (pc[t] = "sync" /\ ~fence) \/ (pc[t] = "join" /\ cbThread # "exited")

\* A call that waits for the callback thread has something for it to take.
LEMMA TheThreadGoesOn ==
    ASSUME IInv, WInv, NEW t \in Threads, AwaitsThread(t), CallbackWaits
    PROVE  Embraced
  <1> USE Constants
  <1>1. queue # <<>> /\ cbThread # "exited"
    <2>1. CASE pc[t] = "sync" /\ ~fence
      <3>1. WaitsSeen BY <2>1 DEF WInv
      <3>2. queue # <<>> BY <3>1, Empty DEF WaitsSeen
      <3> QED BY <3>2 DEF IInv, Ending
    <2>2. CASE pc[t] = "join" /\ cbThread # "exited" BY <2>2 DEF IInv, Ending
    <2> QED BY <2>1, <2>2 DEF AwaitsThread
  <1>2. cbThread # "locking" \/ cbLock = Nobody BY DEF WInv, InCallback
  <1>3. InCallback /\ pc[Cb] # "idle" /\ CallWaits(Cb) BY <1>1, <1>2 DEF CallbackWaits
  <1>4. pc[Cb] = "enter" /\ lock # Nobody BY <1>3 DEF CallWaits, MayUpdate, IInv, Roles
  <1>5. t # Cb /\ lock = t BY <1>4 DEF AwaitsThread, IInv, Locked, Held
  <1> QED BY <1>4, <1>5 DEF AwaitsThread, Embraced, Threads

\* Whoever waits, for a lock, the fence or the end of the callback thread, waits for a
\* thread that goes on, whatever the number of threads: but for the embrace, no calls and
\* callbacks wait for each other.
THEOREM NobodyElseEmbraced == Spec => []NoOtherEmbrace
  <1>1. IInv /\ WInv => NoOtherEmbrace
    <2> SUFFICES ASSUME IInv, WInv, ~Embraced, NEW t \in Threads, CallWaits(t), CallbackWaits
                 PROVE  lock # Nobody /\ ~CallWaits(lock)
      BY DEF NoOtherEmbrace
    <2> USE Constants
    <2>0. \A u \in Threads : ~AwaitsThread(u) BY TheThreadGoesOn
    <2>1. (pc[t] = "enter" /\ lock # Nobody) \/ (pc[t] \in {"swap", "clear"} /\ t # Cb /\ cbLock # Nobody)
      BY <2>0 DEF CallWaits, MayUpdate, AwaitsThread
    <2>2. lock # Nobody
      <3>1. ASSUME pc[t] \in {"swap", "clear"} /\ t # Cb /\ cbLock # Nobody PROVE lock # Nobody
        <4>1. InCallback BY <3>1 DEF WInv
        <4>2. CallWaits(Cb) BY <4>1 DEF CallbackWaits, InCallback
        <4> QED BY <4>2 DEF CallWaits, MayUpdate, IInv, Roles
      <3> QED BY <2>1, <3>1
    <2>3. lock \in Threads /\ pc[lock] \in Held BY <2>2 DEF WInv, IInv, Locked
    <2>4. ~CallWaits(lock)
      <3> SUFFICES ASSUME CallWaits(lock) PROVE FALSE OBVIOUS
      <3>1. pc[lock] = "clear" /\ lock # Cb /\ cbLock # Nobody
        BY <2>0, <2>3 DEF CallWaits, MayUpdate, Held, AwaitsThread
      <3>2. cbThread = "get" BY <2>3, <3>1 DEF IInv, Sessions
      <3> QED BY <3>1, <3>2 DEF WInv, InCallback
    <2> QED BY <2>2, <2>4
  <1>2. Spec => []WInv BY InitWInv, NextWInv, AlwaysIInv, PTL DEF Spec
  <1> QED BY <1>1, <1>2, AlwaysIInv, PTL

=============================================================================
