------------------------- MODULE SeekControl_proofs -------------------------
(* For every number of calls and frames, and whatever key frames, seeks and *)
(* loops there are: a stream asked to pause is paused or stepping, the      *)
(* types are kept, the newest seek is served, and the state told to the     *)
(* application is the stream's.                                             *)
EXTENDS SeekControl, WellFoundedInduction, TLAPS

Flags == [pause_req : BOOLEAN, step : BOOLEAN, buffering : BOOLEAN, paused : BOOLEAN,
          auto_resume : BOOLEAN, crossed : BOOLEAN]

\* The promise of PauseHolds for one value of play.
Holds(p) == p.pause_req \/ p.buffering => p.paused \/ p.step \/ p.crossed

\* A stream that starts by itself keeps the promise from Prepare on, any other
\* from Open on.
IInv ==
    /\ play \in Flags /\ start_on_prepared \in BOOLEAN
    /\ (reader # "none" /\ (reader = "opening" => start_on_prepared)) => Holds(play)

-----------------------------------------------------------------------------
(* The operators on play.                                                   *)

\* Only Stepped and an assignment to a field of play build on the promise; Update and
\* a toggle renew it.
LEMMA UpdateHolds ==
    ASSUME NEW p \in Flags PROVE Update(p) \in Flags /\ Holds(Update(p))
  BY DEF Flags, Holds, Update

LEMMA ToggleHolds ==
    ASSUME NEW p \in Flags, NEW on \in BOOLEAN
    PROVE  TogglePause(p, on) \in Flags /\ Holds(TogglePause(p, on))
  BY DEF Flags, Holds, Update, TogglePause

LEMMA StepHolds ==
    ASSUME NEW p \in Flags PROVE StepToNext(p) \in Flags /\ Holds(StepToNext(p))
  BY DEF Flags, Holds, StepToNext

\* step goes only when the stream is paused, or is updated at once.
LEMMA SteppedHolds ==
    ASSUME NEW p \in Flags, Holds(p) PROVE Stepped(p) \in Flags /\ Holds(Stepped(p))
  BY UpdateHolds DEF Flags, Holds, Stepped, Update

LEMMA BufferingHolds ==
    ASSUME NEW p \in Flags, Holds(p), NEW on \in BOOLEAN
    PROVE  ToggleBuffering(p, on) \in Flags /\ Holds(ToggleBuffering(p, on))
  BY DEF Flags, Holds, ToggleBuffering, Update

\* The same without the promise: it may be renewed or not.
LEMMA BufferingType ==
    ASSUME NEW p \in Flags, NEW on \in BOOLEAN PROVE ToggleBuffering(p, on) \in Flags
  BY DEF Flags, ToggleBuffering, Update

-----------------------------------------------------------------------------

LEMMA InitIInv == Init => IInv
  BY DEF Init, IInv, Flags

\* A new stream that starts by itself is asked neither to pause nor to buffer.
LEMMA PrepareKeeps == IInv /\ Prepare => IInv'
  <1> SUFFICES ASSUME IInv, Prepare PROVE IInv' OBVIOUS
  <1>1. start_on_prepared' = start_on_prepared /\ start_on_prepared \in BOOLEAN
    BY DEF IInv, Prepare, modeVars
  <1>2. play' = [play EXCEPT !.pause_req = ~start_on_prepared, !.step = FALSE, !.buffering = FALSE,
                             !.paused = FALSE, !.crossed = FALSE]
    BY DEF Prepare
  <1>3. play' \in Flags BY <1>1, <1>2 DEF IInv, Flags
  <1>4. start_on_prepared => Holds(play') BY <1>2 DEF IInv, Flags, Holds
  <1>5. reader' = "opening" BY DEF Prepare
  <1> QED BY <1>1, <1>3, <1>4, <1>5 DEF IInv

\* An open stream is one that starts by itself, or steps.
LEMMA OpenKeeps == IInv /\ Open => IInv'
  <1> SUFFICES ASSUME IInv, Open PROVE IInv' OBVIOUS
  <1>1. play' \in Flags /\ Holds(play')
    BY ToggleHolds, StepHolds DEF IInv, Open
  <1> QED BY <1>1 DEF IInv, Open, showVars, modeVars

\* The stream is let go after a seek, or steps once more.
LEMMA SeekEndsKeeps == IInv /\ SeekEnds => IInv'
  <1> SUFFICES ASSUME IInv, SeekEnds PROVE IInv' OBVIOUS
  <1> DEFINE r  == [play EXCEPT !.pause_req = FALSE, !.buffering = TRUE, !.auto_resume = FALSE]
             p1 == IF play.auto_resume THEN Update(r) ELSE play
             p2 == IF p1.pause_req THEN StepToNext(p1) ELSE p1
  <1>1. Holds(play) /\ play \in Flags BY DEF IInv, SeekEnds
  <1>2. r \in Flags BY <1>1 DEF Flags
  <1>3. p1 \in Flags /\ Holds(p1) BY <1>1, <1>2, UpdateHolds
  <1>4. p2 \in Flags /\ Holds(p2) BY <1>3, StepHolds
  <1>5. play' = ToggleBuffering(p2, TRUE) BY DEF SeekEnds
  <1>6. play' \in Flags /\ Holds(play') BY <1>4, <1>5, BufferingHolds
  <1> QED BY <1>6 DEF IInv, SeekEnds, showVars, modeVars

\* The end pauses the stream.
LEMMA CompleteKeeps == IInv /\ Complete => IInv'
  <1> SUFFICES ASSUME IInv, Complete PROVE IInv' OBVIOUS
  <1>1. play' \in Flags /\ Holds(play')
    BY BufferingType, ToggleHolds DEF IInv, Complete
  <1> QED BY <1>1 DEF IInv, Complete, showVars, modeVars

\* A start plays, or buffers for the seek to the beginning.
LEMMA StartKeeps == IInv /\ HandleStart => IInv'
  <1> SUFFICES ASSUME IInv, HandleStart PROVE IInv' OBVIOUS
  <1> DEFINE r == [play EXCEPT !.auto_resume = TRUE]
  <1>1. r \in Flags /\ (Holds(play) => Holds(r)) BY DEF IInv, Flags, Holds
  <1>2. play' \in Flags
    BY <1>1, BufferingType, ToggleHolds DEF IInv, HandleStart
  <1>3. Holds(play) => Holds(play')
    BY <1>1, BufferingHolds, ToggleHolds DEF IInv, HandleStart
  <1> QED BY <1>2, <1>3 DEF IInv, HandleStart, showVars, modeVars

\* The other steps that pause, hold or let go.
LEMMA PlayKeeps ==
    IInv /\ (Stop \/ HandlePause \/ SeekBegins \/ BufferingStarts \/ BufferingEnds \/ ShowFrame) => IInv'
  <1> SUFFICES ASSUME IInv,
                      Stop \/ HandlePause \/ SeekBegins \/ BufferingStarts \/ BufferingEnds \/ ShowFrame
               PROVE  IInv'
    OBVIOUS
  <1>1. CASE Stop
    BY <1>1, ToggleHolds DEF IInv, Stop, showVars, modeVars
  <1>2. CASE HandlePause
    BY <1>2, ToggleHolds DEF IInv, HandlePause, showVars, modeVars
  <1>3. CASE SeekBegins
    BY <1>3, BufferingHolds DEF IInv, SeekBegins, showVars, modeVars
  <1>4. CASE BufferingStarts
    BY <1>4, BufferingHolds, BufferingType DEF IInv, BufferingStarts, showVars, modeVars
  <1>5. CASE BufferingEnds
    BY <1>5, BufferingHolds DEF IInv, BufferingEnds, showVars, modeVars
  <1>6. CASE ShowFrame
    <2>1. play \in Flags /\ play' = Stepped(play) BY <1>6 DEF IInv, ShowFrame
    <2>2. play' \in Flags BY <2>1 DEF Stepped, Update, Flags
    <2>3. Holds(play) => Holds(play') BY <2>1, SteppedHolds
    <2> QED BY <1>6, <2>2, <2>3 DEF IInv, ShowFrame, showVars, modeVars
  <1> QED BY <1>1, <1>2, <1>3, <1>4, <1>5, <1>6

\* The rest leave play alone, and start no stream.
Others ==
    \/ \E t \in 0..End : SeekTo(t)
    \/ \E what \in {"REQ_START", "REQ_PAUSE"} : StartOrPause(what)
    \/ HandlePrepared \/ HandleCompleted \/ HandleSeekComplete \/ HandleSeek \/ HandleStop
    \/ Flush \/ FlushFails \/ SetTarget \/ LoopAround \/ EndReached \/ DelayOver \/ ReadPacket
    \/ Decode \/ QueuePicture \/ DropFrame \/ ChooseFrame \/ UNCHANGED vars

LEMMA OthersKeep == IInv /\ Others => IInv'
  <1> SUFFICES ASSUME IInv, Others PROVE IInv' OBVIOUS
  <1>1. play' = play /\ start_on_prepared' = start_on_prepared
    BY DEF Others, SeekTo, StartOrPause, HandlePrepared, HandleCompleted, HandleSeekComplete, HandleSeek,
           HandleStop, Flush, FlushFails, SetTarget, LoopAround, EndReached, DelayOver, ReadPacket, Decode,
           QueuePicture, DropFrame, ChooseFrame, vars, showVars, modeVars
  <1>2. (reader' = "none" <=> reader = "none") /\ (reader' = "opening" <=> reader = "opening")
    BY DEF Others, SeekTo, StartOrPause, HandlePrepared, HandleCompleted, HandleSeekComplete, HandleSeek,
           HandleStop, Flush, FlushFails, SetTarget, LoopAround, EndReached, DelayOver, ReadPacket, Decode,
           QueuePicture, DropFrame, ChooseFrame, vars
  <1> QED BY <1>1, <1>2 DEF IInv

LEMMA NextIInv == IInv /\ [Next]_vars => IInv'
  BY PrepareKeeps, OpenKeeps, SeekEndsKeeps, CompleteKeeps, StartKeeps, PlayKeeps, OthersKeep
     DEF Next, AppNext, MessageNext, ReaderNext, SeekNext, FrameNext, Others

\* A stream asked to pause, or to wait for data, stands still or steps to one frame in
\* every order of start, pause, seeks, buffering, completion and looping.
THEOREM PausesHold == Spec => []PauseHolds
  <1>1. IInv => PauseHolds BY DEF IInv, PauseHolds, Holds, Streaming
  <1> QED BY <1>1, InitIInv, NextIInv, PTL DEF Spec

-----------------------------------------------------------------------------
(* The queue of messages.                                                   *)

\* Every non-empty set of numbers has a least one.
LEMMA LeastNat ==
    ASSUME NEW T, T \subseteq Nat, T # {} PROVE \E x \in T : \A y \in T : x <= y
  <1> DEFINE R == OpToRel(<, Nat)
  <1>0. IsWellFoundedOn(R, Nat) BY NatLessThanWellFounded
  <1>2. \A x, y \in Nat : y < x => <<y, x>> \in R BY DEF OpToRel
  <1> HIDE DEF R
  <1>1. \E x \in T : \A y \in T : ~ (<<y, x>> \in R) BY <1>0, WFMin
  <1>3. PICK x \in T : \A y \in T : ~ (<<y, x>> \in R) BY <1>1
  <1>4. \A y \in T : ~(y < x) BY <1>2, <1>3
  <1>5. \A y \in T : x <= y BY ONLY <1>4, T \subseteq Nat, x \in T
  <1> QED BY <1>5

\* What holds of 0, and of a number when it holds of the one before it, holds up to n.
LEMMA UpTo ==
    ASSUME NEW n \in Nat, NEW Good, 0 \in Good,
           \A m \in 0..n : m # 0 /\ m - 1 \in Good => m \in Good
    PROVE  0..n \subseteq Good
  <1> SUFFICES ASSUME ~(0..n \subseteq Good) PROVE FALSE OBVIOUS
  <1> DEFINE T == {m \in 0..n : m \notin Good}
  <1>1. T \subseteq Nat /\ T # {} OBVIOUS
  <1>2. PICK x \in T : \A y \in T : x <= y BY <1>1, LeastNat
  <1>3. x \in 0..n /\ x # 0 /\ x \notin Good OBVIOUS
  <1>4. x - 1 \in 0..n /\ ~(x <= x - 1) BY <1>3
  <1>5. x - 1 \in Good BY <1>2, <1>4
  <1> QED BY <1>3, <1>5

\* Kept is a function: it exists on the first n messages for every n.
LEMMA KeptExists ==
    ASSUME NEW M, msgs \in Seq(M)
    PROVE  Kept = [i \in 0..Len(msgs) |-> [whats \in SUBSET Kinds |->
                     IF i = 0 THEN <<>>
                     ELSE IF msgs[i].what \in whats THEN Kept[i - 1][whats] ELSE Append(Kept[i - 1][whats], msgs[i])]]
  <1> DEFINE Item(g, i) == [w \in SUBSET Kinds |->
                              IF i = 0 THEN <<>>
                              ELSE IF msgs[i].what \in w THEN g[i - 1][w] ELSE Append(g[i - 1][w], msgs[i])]
             Upto(m) == \E g : g = [i \in 0..m |-> Item(g, i)]
             n == Len(msgs)
  <1>1. n \in Nat OBVIOUS
  <1>0. \A g, h, i, k : (i = 0 \/ g[i - 1] = h[i - 1]) => Item(g, i) = Item(h, i) OBVIOUS
  <1>2. 0..n \subseteq {m \in Nat : Upto(m)}
    <2> HIDE DEF Item
    <2>1. Upto(0)
      <3> DEFINE g == [i \in 0..0 |-> Item(<<>>, i)]
      <3>1. Item(<<>>, 0) = Item(g, 0) BY <1>0
      <3>2. \A i \in 0..0 : i = 0 OBVIOUS
      <3>3. g = [i \in 0..0 |-> Item(g, i)] BY <3>1, <3>2
      <3> QED BY <3>3
    <2>2. ASSUME NEW m \in 0..n, m # 0, m - 1 \in Nat, Upto(m - 1) PROVE Upto(m)
      <3>1. PICK g : g = [i \in 0..(m - 1) |-> Item(g, i)] BY <2>2
      <3> DEFINE h == [i \in 0..m |-> IF i = m THEN Item(g, m) ELSE g[i]]
      <3>2. ASSUME NEW i \in 0..m PROVE h[i] = Item(h, i)
        <4>1. CASE i = m
          <5>1. m - 1 \in 0..m /\ m - 1 # m BY <1>1, <2>2
          <5>2. h[m - 1] = g[m - 1] /\ h[m] = Item(g, m) BY <5>1, <1>1
          <5> QED BY <4>1, <5>2, <2>2, <1>0
        <4>2. CASE i # m
          <5>1. i \in 0..(m - 1) BY <4>2, <1>1
          <5>2. h[i] = g[i] /\ g[i] = Item(g, i) BY <3>1, <4>2, <5>1
          <5>3. i # 0 => i - 1 \in 0..m /\ i - 1 # m BY <5>1
          <5>4. i # 0 => h[i - 1] = g[i - 1] BY <5>3
          <5> QED BY <5>2, <5>4, <1>0
        <4> QED BY <4>1, <4>2
      <3>3. h = [i \in 0..m |-> h[i]] OBVIOUS
      <3> HIDE DEF h
      <3>4. h = [i \in 0..m |-> Item(h, i)] BY <3>2, <3>3
      <3> QED BY <3>4
    <2> HIDE DEF Upto
    <2>3. \A m \in 0..n : m # 0 /\ m - 1 \in {k \in Nat : Upto(k)} => m \in {k \in Nat : Upto(k)}
      BY <2>2
    <2>4. 0 \in {k \in Nat : Upto(k)} BY <2>1
    <2> HIDE DEF n
    <2> QED BY <1>1, <2>3, <2>4, UpTo
  <1>3. Upto(n)
    <2>1. n \in 0..n BY <1>1
    <2> HIDE DEF Upto, n
    <2> QED BY <1>2, <2>1
  <1> QED BY <1>3 DEF Kept

\* What msg_queue_remove leaves: the messages of the other kinds, and all of them.
LEMMA WithoutKeeps ==
    ASSUME NEW M, msgs \in Seq(M), NEW whats \in SUBSET Kinds
    PROVE  /\ Without(whats) \in Seq(M)
           /\ \A j \in DOMAIN Without(whats) :
                 \E i \in DOMAIN msgs : Without(whats)[j] = msgs[i] /\ msgs[i].what \notin whats
           /\ \A i \in DOMAIN msgs : msgs[i].what \notin whats =>
                 \E j \in DOMAIN Without(whats) : Without(whats)[j] = msgs[i]
  <1> DEFINE kept == [i \in 0..Len(msgs) |-> Kept[i][whats]]
             n == Len(msgs)
  <1>1. n \in Nat OBVIOUS
  <1>3. \A i \in 0..n : kept[i] = IF i = 0 THEN <<>>
                                  ELSE IF msgs[i].what \in whats THEN kept[i - 1] ELSE Append(kept[i - 1], msgs[i])
    <2>1. \A i \in 0..n : Kept[i][whats] =
            IF i = 0 THEN <<>>
            ELSE IF msgs[i].what \in whats THEN Kept[i - 1][whats] ELSE Append(Kept[i - 1][whats], msgs[i])
      <3>1. Kept = [i \in 0..n |-> [w \in SUBSET Kinds |->
                      IF i = 0 THEN <<>>
                      ELSE IF msgs[i].what \in w THEN Kept[i - 1][w] ELSE Append(Kept[i - 1][w], msgs[i])]]
        BY KeptExists
      <3> DEFINE K == Kept
      <3> HIDE DEF K, n
      <3>2. K = [i \in 0..n |-> [w \in SUBSET Kinds |->
                      IF i = 0 THEN <<>>
                      ELSE IF msgs[i].what \in w THEN K[i - 1][w] ELSE Append(K[i - 1][w], msgs[i])]]
        BY ONLY <3>1 DEF K
      <3>3. \A i \in 0..n : K[i] = [w \in SUBSET Kinds |->
                      IF i = 0 THEN <<>>
                      ELSE IF msgs[i].what \in w THEN K[i - 1][w] ELSE Append(K[i - 1][w], msgs[i])]
        BY ONLY <3>2
      <3>4. \A i \in 0..n : K[i][whats] =
                      IF i = 0 THEN <<>>
                      ELSE IF msgs[i].what \in whats THEN K[i - 1][whats] ELSE Append(K[i - 1][whats], msgs[i])
        BY ONLY <3>3, whats \in SUBSET Kinds
      <3> QED BY ONLY <3>4 DEF K
    <2>2. \A i \in 0..n : i # 0 => i - 1 \in 0..n BY <1>1
    <2>3. \A i \in 0..n : kept[i] = Kept[i][whats] OBVIOUS
    <2> HIDE DEF kept, n
    <2> QED BY <2>1, <2>2, <2>3
  <1>4. Without(whats) = kept[n] BY <1>1 DEF Without
  <1> DEFINE Good(m) == /\ kept[m] \in Seq(M)
                        /\ \A j \in DOMAIN kept[m] : \E i \in 1..m : kept[m][j] = msgs[i] /\ msgs[i].what \notin whats
                        /\ \A i \in 1..m : msgs[i].what \notin whats => \E j \in DOMAIN kept[m] : kept[m][j] = msgs[i]
  <1> HIDE DEF kept
  <1>5. Good(0)
    <2>1. kept[0] = <<>> BY <1>1, <1>3
    <2> QED BY <2>1
  <1>6. ASSUME NEW m \in 0..n, m # 0, Good(m - 1) PROVE Good(m)
    <2>0. m - 1 \in 0..n /\ m \in 1..n /\ m \in 1..m /\ 1..m = 1..(m - 1) \cup {m} BY <1>1, <1>6
    <2>1. kept[m] = IF msgs[m].what \in whats THEN kept[m - 1] ELSE Append(kept[m - 1], msgs[m])
      BY <1>3, <1>6
    <2>2. CASE msgs[m].what \in whats
      BY <1>6, <2>0, <2>1, <2>2
    <2>3. CASE msgs[m].what \notin whats
      <3> DEFINE k == kept[m - 1]
      <3>1. k \in Seq(M) /\ msgs[m] \in M BY <1>6, <2>0
      <3>2. kept[m] = Append(k, msgs[m]) BY <2>1, <2>3
      <3>3. /\ kept[m] \in Seq(M) /\ DOMAIN kept[m] = DOMAIN k \cup {Len(k) + 1}
            /\ kept[m][Len(k) + 1] = msgs[m] /\ \A j \in DOMAIN k : kept[m][j] = k[j]
        BY ONLY <3>1, <3>2
      <3>4. /\ \A j \in DOMAIN k : \E i \in 1..(m - 1) : k[j] = msgs[i] /\ msgs[i].what \notin whats
            /\ \A i \in 1..(m - 1) : msgs[i].what \notin whats => \E j \in DOMAIN k : k[j] = msgs[i]
        BY <1>6
      <3>5. \A j \in DOMAIN kept[m] : \E i \in 1..m : kept[m][j] = msgs[i] /\ msgs[i].what \notin whats
        BY ONLY <2>0, <2>3, <3>3, <3>4
      <3>6. \A i \in 1..m : msgs[i].what \notin whats => \E j \in DOMAIN kept[m] : kept[m][j] = msgs[i]
        BY ONLY <2>0, <3>3, <3>4
      <3> QED BY <3>3, <3>5, <3>6
    <2> QED BY <2>2, <2>3
  <1>7. Good(n)
    <2> HIDE DEF Good
    <2>1. \A m \in 0..n : m # 0 /\ m - 1 \in {k \in Int : Good(k)} => m \in {k \in Int : Good(k)}
      BY <1>6
    <2>2. 0 \in {k \in Int : Good(k)} BY <1>5
    <2> HIDE DEF n
    <2>3. 0..n \subseteq {k \in Int : Good(k)} BY <1>1, <2>1, <2>2, UpTo
    <2> QED BY <1>1, <2>3
  <1>8. DOMAIN msgs = 1..n /\ n \in Nat OBVIOUS
  <1> HIDE DEF n
  <1>9. /\ kept[n] \in Seq(M)
        /\ \A j \in DOMAIN kept[n] : \E i \in 1..n : kept[n][j] = msgs[i] /\ msgs[i].what \notin whats
        /\ \A i \in 1..n : msgs[i].what \notin whats => \E j \in DOMAIN kept[n] : kept[n][j] = msgs[i]
    BY <1>7
  <1> DEFINE s == kept[n]
  <1>10. Without(whats) = s BY <1>4
  <1>11. /\ s \in Seq(M)
         /\ \A j \in DOMAIN s : \E i \in 1..n : s[j] = msgs[i] /\ msgs[i].what \notin whats
         /\ \A i \in 1..n : msgs[i].what \notin whats => \E j \in DOMAIN s : s[j] = msgs[i]
    BY <1>9
  <1> HIDE DEF s, Good
  <1> QED BY <1>8, <1>10, <1>11

-----------------------------------------------------------------------------
In(s) == {s[i] : i \in DOMAIN s}

\* What a sequence holds: after an append, after its head is taken ...
LEMMA InAppend ==
    ASSUME NEW M, NEW s \in Seq(M), NEW m \in M
    PROVE  Append(s, m) \in Seq(M) /\ In(Append(s, m)) = In(s) \cup {m}
  <1>1. /\ Append(s, m) \in Seq(M) /\ DOMAIN Append(s, m) = DOMAIN s \cup {Len(s) + 1}
        /\ Append(s, m)[Len(s) + 1] = m /\ \A i \in DOMAIN s : Append(s, m)[i] = s[i]
    OBVIOUS
  <1> QED BY ONLY <1>1 DEF In

LEMMA InTail ==
    ASSUME NEW M, NEW s \in Seq(M), s # <<>>
    PROVE  /\ Tail(s) \in Seq(M) /\ Head(s) \in M /\ Head(s) \in In(s)
           /\ In(s) = In(Tail(s)) \cup {Head(s)}
  <1>1. /\ Tail(s) \in Seq(M) /\ Head(s) = s[1] /\ s[1] \in M /\ 1 \in DOMAIN s /\ Len(s) \in Nat /\ DOMAIN s = 1..Len(s)
        /\ DOMAIN Tail(s) = 1..(Len(s) - 1) /\ \A i \in DOMAIN Tail(s) : Tail(s)[i] = s[i + 1]
    OBVIOUS
  <1>2. \A i \in DOMAIN Tail(s) : i + 1 \in DOMAIN s BY ONLY <1>1
  <1>3. \A i \in DOMAIN s : i = 1 \/ (i - 1 \in DOMAIN Tail(s) /\ Tail(s)[i - 1] = s[i]) BY ONLY <1>1
  <1>4. In(Tail(s)) \subseteq In(s) BY ONLY <1>1, <1>2 DEF In
  <1>5. In(s) \subseteq In(Tail(s)) \cup {s[1]} BY ONLY <1>1, <1>3 DEF In
  <1>6. s[1] \in In(s) BY ONLY <1>1 DEF In
  <1> QED BY <1>1, <1>4, <1>5, <1>6

\* ... and after messages are removed from the queue.
LEMMA InWithout ==
    ASSUME NEW M, msgs \in Seq(M), NEW whats \in SUBSET Kinds
    PROVE  Without(whats) \in Seq(M) /\ In(Without(whats)) = {m \in In(msgs) : m.what \notin whats}
  <1> DEFINE s == Without(whats)
  <1>1. /\ s \in Seq(M)
        /\ \A j \in DOMAIN s : \E i \in DOMAIN msgs : s[j] = msgs[i] /\ msgs[i].what \notin whats
        /\ \A i \in DOMAIN msgs : msgs[i].what \notin whats => \E j \in DOMAIN s : s[j] = msgs[i]
    BY WithoutKeeps
  <1> HIDE DEF s
  <1>2. In(s) = {m \in In(msgs) : m.what \notin whats} BY ONLY <1>1 DEF In
  <1> QED BY <1>1, <1>2 DEF s

LEMMA InNone == In(<<>>) = {}
  BY DEF In

\* What TypeOK says of the calls, the requests and read_thread ...
CallsTyped ==
    /\ calls \in 0..MaxCalls /\ state \in {"INITIALIZED", "ASYNC_PREPARING", "STARTED", "PAUSED", "COMPLETED", "STOPPED"}
    /\ seek_at_start \in Requests \cup {None} /\ is_seek_pos \in Requests /\ target \in Requests
    /\ reader \in {"none", "opening", "read", "seeking", "sought", "ended", "delaying", "completing"}
    /\ seek_pos \in 0..End /\ loop \in 0..MaxLoops
    /\ msgs \in Seq(Messages)

\* ... and of the frames.
FramesTyped ==
    /\ read_pos \in 0..End
    /\ packets \in Seq(FramesAt) /\ Len(packets) <= MaxInside
    /\ pictq \in Seq(FramesAt) /\ Len(pictq) <= MaxPictures
    /\ decoding \in FramesAt \cup {None} /\ shown \in Positions \cup {None}
    /\ chosen \in {"none", "head", "before"} /\ landing \in Positions \cup {None}
    /\ chosen # "none" => pictq # <<>>

\* The strengthening of TypeOK that a step keeps.
Typed == CallsTyped /\ FramesTyped /\ IInv

\* The typing of a message, of a post and of what is taken from the queue.
LEMMA MessageTyped == 
    /\ \A what \in Kinds, req \in Requests : Message(what, req) \in Messages
    /\ ToStart \in Requests
  BY SeekAssumption DEF Message, Messages, ToStart, Requests

\* The queue after a call or a post.
LEMMA SentTyped ==
    ASSUME msgs \in Seq(Messages), NEW what \in Kinds, NEW req \in Requests, NEW whats \in SUBSET Kinds
    PROVE  /\ Append(msgs, Message(what, req)) \in Seq(Messages)
           /\ Append(Without(whats), Message(what, req)) \in Seq(Messages)
  BY InWithout, InAppend, MessageTyped

LEMMA PostTyped ==
    ASSUME msgs \in Seq(Messages), NEW what \in Kinds, Post(what)
    PROVE  msgs' \in Seq(Messages)
  BY SentTyped, MessageTyped DEF Post

LEMMA HandlingTyped ==
    ASSUME msgs \in Seq(Messages), msgs # <<>>
    PROVE  Tail(msgs) \in Seq(Messages) /\ Head(msgs).req \in Requests
  <1>1. Tail(msgs) \in Seq(Messages) /\ Head(msgs) \in Messages BY InTail
  <1> QED BY <1>1 DEF Messages

\* The kinds a call removes.
LEMMA KindsAreNames ==
    /\ {"REQ_SEEK"} \in SUBSET Kinds /\ {"REQ_START", "REQ_PAUSE"} \in SUBSET Kinds
    /\ {"REQ_START", "REQ_PAUSE", "REQ_SEEK"} \in SUBSET Kinds
  BY DEF Kinds

\* The calls and read_thread keep their types, in the order of Next.
LEMMA AppTyped == CallsTyped /\ AppNext => CallsTyped'
  <1> SUFFICES ASSUME CallsTyped, AppNext PROVE CallsTyped' OBVIOUS
  <1>0. <<>> \in Seq(Messages) /\ End \in Nat /\ MaxCalls \in Nat BY SeekAssumption
  <1>1. ASSUME NEW t \in 0..End, SeekTo(t) PROVE CallsTyped'
    <2> DEFINE req == [to |-> t, id |-> calls + 1]
    <2>1. calls' \in 0..MaxCalls /\ calls' = calls + 1 BY <1>0, <1>1 DEF SeekTo, Calling, CallsTyped
    <2>2. req \in Requests BY <1>0, <1>1, <2>1 DEF Requests
    <2>3. msgs' \in Seq(Messages)
      <3>1. Append(Without({"REQ_SEEK"}), Message("REQ_SEEK", req)) \in Seq(Messages)
        BY <2>2, SentTyped, KindsAreNames DEF CallsTyped, Kinds
      <3> QED BY <1>1, <3>1 DEF SeekTo, CallsTyped
    <2>4. seek_at_start' \in Requests \cup {None} BY <1>1, <2>2 DEF SeekTo, CallsTyped
    <2> QED BY <1>1, <2>1, <2>3, <2>4 DEF SeekTo, CallsTyped, seekVars, readVars
  <1>2. ASSUME NEW what \in {"REQ_START", "REQ_PAUSE"}, StartOrPause(what) PROVE CallsTyped'
    <2>1. calls' \in 0..MaxCalls BY <1>0, <1>2 DEF StartOrPause, Calling, CallsTyped
    <2>2. msgs' \in Seq(Messages)
      BY <1>2, SentTyped, MessageTyped, KindsAreNames DEF StartOrPause, CallsTyped, Kinds
    <2> QED BY <1>2, <2>1, <2>2 DEF StartOrPause, CallsTyped, seekVars, readVars
  <1>3. CASE Stop
    <2>1. calls' \in 0..MaxCalls BY <1>0, <1>3 DEF Stop, Calling, CallsTyped
    <2>2. msgs' \in Seq(Messages)
      BY <1>3, SentTyped, MessageTyped, KindsAreNames DEF Stop, CallsTyped, Kinds
    <2> QED BY <1>3, <2>1, <2>2 DEF Stop, CallsTyped, seekVars, readVars
  <1>4. CASE Prepare
    BY <1>0, <1>4 DEF Prepare, CallsTyped
  <1> QED BY <1>1, <1>2, <1>3, <1>4 DEF AppNext

LEMMA MessageNextTyped == CallsTyped /\ MessageNext => CallsTyped'
  <1> SUFFICES ASSUME CallsTyped, MessageNext PROVE CallsTyped' OBVIOUS
  <1>0. <<>> \in Seq(Messages) OBVIOUS
  <1>1. msgs # <<>> BY DEF MessageNext, HandlePrepared, HandleCompleted, HandleSeekComplete, HandleStart, HandlePause,
           HandleSeek, HandleStop, Handling
  <1>2. Tail(msgs) \in Seq(Messages) /\ Head(msgs).req \in Requests BY <1>1, HandlingTyped DEF CallsTyped
  <1>3. msgs' \in Seq(Messages)
    BY <1>0, <1>2 DEF MessageNext, HandlePrepared, HandleCompleted, HandleSeekComplete, HandleStart, HandlePause,
           HandleSeek, HandleStop, Handling
  <1>4. CASE HandlePrepared \/ HandleCompleted \/ HandleSeekComplete \/ HandleStop
    BY <1>3, <1>4 DEF HandlePrepared, HandleCompleted, HandleSeekComplete, HandleStop, CallsTyped, seekVars, readVars
  <1>5. CASE HandleStart \/ HandlePause
    BY <1>3, <1>5, MessageTyped DEF HandleStart, HandlePause, CallsTyped, seekVars, readVars
  <1>6. CASE HandleSeek
    BY <1>2, <1>3, <1>6 DEF HandleSeek, StreamSeek, CallsTyped, readVars
  <1> QED BY <1>4, <1>5, <1>6 DEF MessageNext

LEMMA ReaderNextTyped == CallsTyped /\ ReaderNext => CallsTyped'
  <1> SUFFICES ASSUME CallsTyped, ReaderNext PROVE CallsTyped' OBVIOUS
  <1>0. End \in Nat BY SeekAssumption
  <1>1. CASE Open
    BY <1>1 DEF Open, StreamSeek, CallsTyped, appVars, seekVars, readVars
  <1>2. CASE SeekBegins
    BY <1>2 DEF SeekBegins, CallsTyped, appVars, seekVars
  <1>3. CASE Flush \/ FlushFails \/ EndReached \/ DelayOver \/ ReadPacket \/ BufferingEnds
    BY <1>3 DEF Flush, FlushFails, EndReached, DelayOver, ReadPacket, BufferingEnds, CallsTyped, appVars, seekVars, readVars
  <1>4. CASE SetTarget
    <2>1. target.to \in 0..End BY DEF CallsTyped, Requests
    <2> QED BY <1>4, <2>1 DEF SetTarget, CallsTyped, appVars
  <1>5. CASE SeekEnds
    <2>1. msgs' \in Seq(Messages) BY <1>5, PostTyped DEF SeekEnds, CallsTyped, Kinds
    <2> QED BY <1>5, <2>1 DEF SeekEnds, CallsTyped, appVars, seekVars, readVars
  <1>6. CASE LoopAround
    <2>1. loop' \in 0..MaxLoops /\ 0 \in 0..End BY <1>0, <1>6, SeekAssumption DEF LoopAround, CallsTyped
    <2> QED BY <1>6, <2>1, MessageTyped DEF LoopAround, CallsTyped, appVars
  <1>7. CASE Complete
    <2>1. msgs' \in Seq(Messages) BY <1>7, PostTyped DEF Complete, CallsTyped, Kinds
    <2> QED BY <1>7, <2>1 DEF Complete, CallsTyped, appVars, seekVars
  <1> QED BY <1>1, <1>2, <1>3, <1>4, <1>5, <1>6, <1>7 DEF ReaderNext, SeekNext

LEMMA FrameNextTyped == CallsTyped /\ (FrameNext \/ UNCHANGED vars) => CallsTyped'
  <1> SUFFICES ASSUME CallsTyped, FrameNext \/ UNCHANGED vars PROVE CallsTyped' OBVIOUS
  <1>1. CASE ShowFrame
    <2>1. msgs' \in Seq(Messages) BY <1>1, PostTyped DEF ShowFrame, CallsTyped, Kinds
    <2> QED BY <1>1, <2>1 DEF ShowFrame, CallsTyped, appVars, seekVars, readVars
  <1>2. CASE BufferingStarts \/ Decode \/ QueuePicture \/ DropFrame \/ ChooseFrame \/ UNCHANGED vars
    BY <1>2 DEF BufferingStarts, Decode, QueuePicture, DropFrame, ChooseFrame, vars, CallsTyped, appVars, seekVars, readVars
  <1> QED BY <1>1, <1>2 DEF FrameNext

\* There is a key frame at or before every position, and so a nearest one.
LEMMA KeyFrameThere == ASSUME NEW t \in Nat PROVE KeyBefore(t) \in KeyFrames /\ KeyBefore(t) \in 0..End - 1 /\ KeyBefore(t) <= t
  <1> DEFINE Short == {n \in Nat : \E k \in KeyFrames : k <= t /\ n = End - k}
  <1>1. End \in Nat /\ 0 \in KeyFrames /\ (\A k \in KeyFrames : k \in Nat /\ k <= End - 1 /\ End - k \in Nat)
    BY SeekAssumption
  <1>2. Short \subseteq Nat /\ End \in Short
    <2>1. 0 <= t /\ End = End - 0 BY <1>1
    <2> QED BY <1>1, <2>1
  <1>3. PICK n \in Short : \A m \in Short : n <= m BY <1>2, LeastNat
  <1>4. PICK k \in KeyFrames : k <= t /\ n = End - k OBVIOUS
  <1>5. \A l \in KeyFrames : l <= t => End - l \in Short BY <1>1
  <1>6. \A l \in KeyFrames : l <= t => l <= k
    <2> SUFFICES ASSUME NEW l \in KeyFrames, l <= t PROVE l <= k OBVIOUS
    <2>1. End - k <= End - l BY <1>3, <1>4, <1>5
    <2>2. End \in Nat /\ k \in Nat /\ l \in Nat BY <1>1
    <2> QED BY ONLY <2>1, <2>2
  <1>7. \E j \in KeyFrames : j <= t /\ \A l \in KeyFrames : l <= t => l <= j BY <1>4, <1>6
  <1>8. KeyBefore(t) \in KeyFrames /\ KeyBefore(t) <= t BY <1>7 DEF KeyBefore
  <1> QED BY <1>1, <1>8

\* So a seek lands on a frame, or nowhere.
LEMMA LandsThere == ASSUME NEW t \in 0..End PROVE LandsAt(t) \in Positions \cup {None}
  <1>1. End \in Nat /\ t \in Nat BY SeekAssumption
  <1> QED BY <1>1, KeyFrameThere DEF LandsAt, Positions

\* A frame put into a queue and taken from it.
LEMMA AppendFrame ==
    ASSUME NEW s \in Seq(FramesAt), NEW f \in FramesAt
    PROVE  Append(s, f) \in Seq(FramesAt) /\ Len(Append(s, f)) = Len(s) + 1 /\ Append(s, f) # <<>>
  <1>1. Append(s, f) \in Seq(FramesAt) /\ Len(Append(s, f)) = Len(s) + 1 /\ Len(s) \in Nat OBVIOUS
  <1>2. Len(<<>>) = 0 OBVIOUS
  <1> QED BY ONLY <1>1, <1>2

LEMMA TailFrame ==
    ASSUME NEW s \in Seq(FramesAt), s # <<>>
    PROVE  /\ Tail(s) \in Seq(FramesAt) /\ Len(Tail(s)) = Len(s) - 1 /\ Len(s) \in Nat
           /\ Head(s) \in FramesAt /\ Head(s).pos \in Positions
  <1>1. Tail(s) \in Seq(FramesAt) /\ Len(Tail(s)) = Len(s) - 1 /\ Len(s) \in Nat /\ Head(s) \in FramesAt OBVIOUS
  <1> QED BY <1>1 DEF FramesAt

\* Every step keeps the types and bounds of the frame queues.
LEMMA FramesTypedNext == Typed /\ [Next]_vars => FramesTyped'
  <1> SUFFICES ASSUME Typed, [Next]_vars PROVE FramesTyped' OBVIOUS
  <1> USE DEF Typed
  <1>0. /\ End \in Nat /\ MaxInside \in Nat /\ MaxPictures \in Nat /\ <<>> \in Seq(FramesAt) /\ Len(<<>>) = 0
        /\ Len(packets) \in Nat /\ Len(pictq) \in Nat
    BY SeekAssumption DEF FramesTyped
  <1>1. CASE Stop
    BY <1>1 DEF Stop, FramesTyped, frameVars, showVars, modeVars
  <1>2. CASE Prepare
    BY <1>0, <1>2 DEF Prepare, FramesTyped, ghostVars
  <1>3. CASE SeekBegins
    BY <1>3 DEF SeekBegins, FramesTyped, frameVars, showVars
  <1>4. CASE Flush
    <2>1. /\ pictq' \in Seq(FramesAt) /\ Len(pictq') = Len(pictq) /\ (pictq # <<>> => pictq' # <<>>)
      <3>0. \A f \in FramesAt : Outdated(f) \in FramesAt BY DEF Outdated, FramesAt
      <3>1. \A i \in 1..Len(pictq) : Outdated(pictq[i]) \in FramesAt
        <4>1. pictq \in Seq(FramesAt) BY DEF FramesTyped
        <4>2. \A i \in 1..Len(pictq) : pictq[i] \in FramesAt BY ONLY <4>1
        <4> QED BY ONLY <3>0, <4>2
      <3>2. pictq' = [i \in 1..Len(pictq) |-> Outdated(pictq[i])] BY <1>4 DEF Flush
      <3>3. pictq \in Seq(FramesAt) BY DEF FramesTyped
      <3> QED BY ONLY <3>1, <3>2, <3>3
    <2>2. decoding' \in FramesAt \cup {None} BY <1>4 DEF Flush, FramesTyped, Outdated, FramesAt
    <2>3. read_pos' \in 0..End
      <3>1. target.to \in Nat BY <1>0 DEF CallsTyped, Requests
      <3>2. KeyBefore(target.to) \in 0..End - 1 BY <3>1, KeyFrameThere
      <3> QED BY <1>0, <1>4, <3>2 DEF Flush
    <2> QED BY <1>0, <1>4, <2>1, <2>2, <2>3 DEF Flush, FramesTyped, showVars, ghostVars
  <1>5. CASE SetTarget
    <2>1. LandsAt(target.to) \in Positions \cup {None} BY LandsThere DEF CallsTyped, Requests
    <2> QED BY <1>5, <2>1 DEF SetTarget, FramesTyped, frameVars
  <1>6. CASE ReadPacket
    <2>1. read_pos \in 0..End /\ read_pos < End BY <1>6 DEF ReadPacket, FramesTyped
    <2>2. read_pos' \in 0..End /\ [pos |-> read_pos, old |-> FALSE] \in FramesAt
      BY <1>0, <1>6, <2>1 DEF ReadPacket, FramesAt, Positions
    <2> QED BY <1>0, <1>6, <2>2, AppendFrame DEF ReadPacket, FramesTyped, showVars, ghostVars
  <1>7. CASE Decode
    BY <1>0, <1>7, TailFrame DEF Decode, FramesTyped, showVars, ghostVars
  <1>8. CASE QueuePicture
    <2>1. decoding \in FramesAt BY <1>8 DEF QueuePicture, FramesTyped
    <2> QED BY <1>0, <1>8, <2>1, AppendFrame DEF QueuePicture, FramesTyped, showVars, ghostVars
  <1>9. CASE DropFrame
    BY <1>0, <1>9, TailFrame DEF DropFrame, FramesTyped, showVars
  <1>10. CASE ChooseFrame
    BY <1>10 DEF ChooseFrame, FramesTyped, frameVars
  <1>11. CASE ShowFrame
    <2>1. pictq # <<>> BY <1>11 DEF ShowFrame, FramesTyped
    <2> QED BY <1>0, <1>11, <2>1, TailFrame DEF ShowFrame, FramesTyped
  <1>12. CASE \/ \E t \in 0..End : SeekTo(t)
              \/ \E what \in {"REQ_START", "REQ_PAUSE"} : StartOrPause(what)
              \/ MessageNext
    BY <1>12 DEF SeekTo, StartOrPause, MessageNext, HandlePrepared, HandleCompleted, HandleSeekComplete, HandleStart,
         HandlePause, HandleSeek, HandleStop, FramesTyped, frameVars, showVars, ghostVars
  <1>13. CASE Open \/ FlushFails \/ SeekEnds \/ LoopAround \/ EndReached \/ DelayOver \/ Complete \/ BufferingEnds
    BY <1>13 DEF Open, FlushFails, SeekEnds, LoopAround, EndReached, DelayOver, Complete, BufferingEnds,
         FramesTyped, frameVars, showVars, ghostVars
  <1>14. CASE BufferingStarts \/ UNCHANGED vars
    BY <1>14 DEF BufferingStarts, vars, FramesTyped, frameVars, showVars, ghostVars
  <1> QED BY <1>1, <1>2, <1>3, <1>4, <1>5, <1>6, <1>7, <1>8, <1>9, <1>10, <1>11, <1>12, <1>13, <1>14
          DEF Next, AppNext, ReaderNext, SeekNext, FrameNext

\* Types hold at the start and are kept.
LEMMA InitTyped == Init => Typed
  <1> SUFFICES ASSUME Init PROVE Typed OBVIOUS
  <1>0. End \in Nat /\ MaxCalls \in Nat /\ MaxLoops \in Nat /\ MaxInside \in Nat /\ MaxPictures \in Nat BY SeekAssumption
  <1>1. CallsTyped BY <1>0, MessageTyped DEF Init, CallsTyped
  <1>2. <<>> \in Seq(FramesAt) /\ Len(<<>>) = 0 OBVIOUS
  <1>3. FramesTyped BY <1>0, <1>2 DEF Init, FramesTyped
  <1> QED BY <1>1, <1>3, InitIInv DEF Typed

LEMMA NextTyped == Typed /\ [Next]_vars => Typed'
  <1> SUFFICES ASSUME Typed, [Next]_vars PROVE Typed' OBVIOUS
  <1>1. CallsTyped'
    BY AppTyped, MessageNextTyped, ReaderNextTyped, FrameNextTyped DEF Typed, Next
  <1> QED BY <1>1, FramesTypedNext, NextIInv DEF Typed

\* Every variable keeps its type and no queue passes its bound, whatever
\* the number of calls, of frames and of loops.
THEOREM TypeCorrect == Spec => []TypeOK
  <1>1. Typed => TypeOK
    BY DEF Typed, CallsTyped, FramesTyped, IInv, Flags, TypeOK
  <1> QED BY <1>1, InitTyped, NextTyped, PTL DEF Spec

\* What is in the queue after a post, a message handled and a call.
LEMMA PostSent ==
    ASSUME msgs \in Seq(Messages), NEW what \in Kinds, Post(what)
    PROVE  /\ In(msgs') \subseteq In(msgs) \cup {Message(what, ToStart)}
           /\ listening => In(msgs') = In(msgs) \cup {Message(what, ToStart)}
           /\ msgs = <<>> /\ ~listening => msgs' = <<>>
  <1>1. Message(what, ToStart) \in Messages BY MessageTyped
  <1>2. In(Append(msgs, Message(what, ToStart))) = In(msgs) \cup {Message(what, ToStart)}
    BY <1>1, InAppend
  <1> QED BY <1>2 DEF Post

LEMMA HandlingSent ==
    ASSUME msgs \in Seq(Messages), NEW what \in Kinds, Handling(what)
    PROVE  /\ msgs # <<>> /\ Head(msgs) \in In(msgs) /\ Head(msgs).what = what
           /\ In(msgs') \subseteq In(msgs) /\ In(msgs) = In(msgs') \cup {Head(msgs)}
  <1>1. msgs # <<>> /\ msgs' = Tail(msgs) /\ Head(msgs).what = what BY DEF Handling
  <1>2. Head(msgs) \in In(msgs) /\ In(msgs) = In(Tail(msgs)) \cup {Head(msgs)} BY <1>1, InTail
  <1> QED BY <1>1, <1>2

LEMMA CallSent ==
    ASSUME msgs \in Seq(Messages), NEW whats \in SUBSET Kinds, NEW what \in Kinds, NEW req \in Requests
    PROVE  /\ In(Append(Without(whats), Message(what, req))) =
                {m \in In(msgs) : m.what \notin whats} \cup {Message(what, req)}
           /\ Append(Without(whats), Message(what, req)) # <<>>
  <1>1. Message(what, req) \in Messages BY MessageTyped
  <1>2. Without(whats) \in Seq(Messages) /\ In(Without(whats)) = {m \in In(msgs) : m.what \notin whats} BY InWithout
  <1>3. In(Append(Without(whats), Message(what, req))) = In(Without(whats)) \cup {Message(what, req)}
    BY <1>1, <1>2, InAppend
  <1>4. Message(what, req) \in In(Append(Without(whats), Message(what, req))) BY <1>3
  <1> QED BY <1>2, <1>3, <1>4, InNone

\* read_thread has read seek_pos, and not yet set the target.
Taken == reader \in {"seeking", "sought"}

\* The last frame of the file is still to be read, or on its way.
Last == [pos |-> End - 1, old |-> FALSE]

LastAhead == read_pos < End \/ Last \in In(packets) \/ decoding = Last \/ Last \in In(pictq)

\* How the phases of the player, its message thread and read_thread fit.
Control ==
    /\ ~listening => msgs = <<>> /\ reader = "none" /\ state \notin {"ASYNC_PREPARING", "STARTED", "PAUSED"}
    /\ state = "INITIALIZED" => ~listening /\ ~is_seek_req
    /\ state = "STOPPED" => reader = "none"
    /\ state \in {"ASYNC_PREPARING", "STARTED", "PAUSED"} => reader # "none"
    /\ reader = "opening" => state = "ASYNC_PREPARING" /\ msgs = <<>> /\ ~is_seek_req
    /\ \A m \in In(msgs) : m.what = "REQ_STOP" => reader = "none"

\* PREPARED waits only while the player prepares, and a stream that has not
\* shown a frame is one that prepares and has not completed ...
Unprepared ==
    /\ \A m \in In(msgs) : m.what = "PREPARED" => prepared /\ state = "ASYNC_PREPARING"
    /\ reader # "none" /\ ~prepared =>
          /\ state = "ASYNC_PREPARING" /\ reader \notin {"delaying", "completing"}
          /\ \A m \in In(msgs) : m.what # "COMPLETED"

\* ... because its last frame is still ahead: no target of it lies past the end.
StillAhead ==
    /\ reader # "none" /\ ~prepared => LastAhead /\ seek_pos < End
    /\ reader # "none" /\ ~prepared /\ is_seek_req => is_seek_pos.to < End
    /\ reader # "none" /\ ~prepared /\ Taken => target.to < End
    /\ seek_at_start # None => seek_at_start.to < End

\* A stream with nothing left to show has shown something.
LEMMA AtEndPrepared == Typed /\ StillAhead /\ reader # "none" /\ AtEnd => prepared
  <1> SUFFICES ASSUME Typed, StillAhead, reader # "none", AtEnd, ~prepared PROVE FALSE OBVIOUS
  <1>1. LastAhead BY DEF StillAhead
  <1>2. read_pos = End /\ In(packets) = {} /\ In(pictq) = {} /\ decoding = None BY InNone DEF AtEnd
  <1>3. Last # None
    <2>1. End - 1 \in Nat /\ FALSE \in BOOLEAN BY SeekAssumption
    <2>2. Last \in [pos : Nat, old : BOOLEAN] BY <2>1 DEF Last
    <2> QED BY <2>2, SeekAssumption
  <1> QED BY <1>1, <1>2, <1>3, SeekAssumption DEF LastAhead

\* The application keeps the phases.
LEMMA AppControl == Typed /\ Control /\ Unprepared /\ AppNext => Control' /\ Unprepared'
  <1> SUFFICES ASSUME Typed, Control, Unprepared, AppNext PROVE Control' /\ Unprepared' OBVIOUS
  <1> USE DEF Control, Unprepared
  <1>0. msgs \in Seq(Messages) BY DEF Typed, CallsTyped
  <1>00. In(msgs) \subseteq Messages BY <1>0 DEF In
  <1>1. ASSUME NEW t \in 0..End, SeekTo(t) PROVE Control' /\ Unprepared'
    <2> DEFINE req == [to |-> t, id |-> calls + 1]
    <2>1. calls' \in 0..MaxCalls /\ calls' = calls + 1
      BY <1>1, SeekAssumption DEF SeekTo, Calling, CallsTyped, Typed
    <2>2. req \in Requests BY <1>1, <2>1 DEF Requests
    <2>3. \A m \in In(msgs') : m \in In(msgs) \/ m = Message("REQ_SEEK", req)
      <3>1. In(Append(Without({"REQ_SEEK"}), Message("REQ_SEEK", req))) =
              {m \in In(msgs) : m.what \notin {"REQ_SEEK"}} \cup {Message("REQ_SEEK", req)}
        BY <1>0, <2>2, CallSent, KindsAreNames DEF Kinds
      <3> QED BY <1>1, <3>1 DEF SeekTo
    <2>4. Message("REQ_SEEK", req).what = "REQ_SEEK" BY DEF Message
    <2>5. ~listening => msgs' = msgs BY <1>1 DEF SeekTo, Control
    <2> HIDE DEF req
    <2>6. Control' BY <1>1, <2>3, <2>4, <2>5 DEF SeekTo, Calling, seekVars
    <2>7. Unprepared' BY <1>1, <2>3, <2>4, <2>5 DEF SeekTo, Calling, showVars
    <2> QED BY <2>6, <2>7
  <1>2. ASSUME NEW what \in {"REQ_START", "REQ_PAUSE"}, StartOrPause(what) PROVE Control' /\ Unprepared'
    <2>1. \A m \in In(msgs') : m \in In(msgs) \/ m = Message(what, ToStart)
      BY <1>0, <1>2, CallSent, KindsAreNames, MessageTyped DEF StartOrPause, Kinds
    <2>2. Message(what, ToStart).what = what BY DEF Message
    <2>3. Control' BY <1>2, <2>1, <2>2 DEF StartOrPause, Calling, seekVars
    <2>4. Unprepared' BY <1>2, <2>1, <2>2 DEF StartOrPause, Calling, showVars
    <2> QED BY <2>3, <2>4
  <1>3. CASE Stop
    <2>1. \A m \in In(msgs') : m \in In(msgs) \/ m = Message("REQ_STOP", ToStart)
      BY <1>0, <1>3, CallSent, KindsAreNames, MessageTyped DEF Stop, Kinds
    <2>2. Message("REQ_STOP", ToStart).what = "REQ_STOP" BY DEF Message
    <2>3. Control' BY <1>3, <2>1, <2>2 DEF Stop, Calling, seekVars
    <2>4. Unprepared' BY <1>3, <2>1, <2>2 DEF Stop, Calling, showVars
    <2> QED BY <2>3, <2>4
  <1>4. CASE Prepare
    BY <1>4, InNone DEF Prepare
  <1> QED BY <1>1, <1>2, <1>3, <1>4 DEF AppNext

\* PREPARED is first in the queue only before COMPLETED.
Ordered ==
    \A i, j \in DOMAIN msgs :
        msgs[j].what = "PREPARED" /\ msgs[i].what \in {"PREPARED", "COMPLETED"} => j <= i

\* So once PREPARED or COMPLETED is taken no PREPARED is left.
LEMMA HeadOrder ==
    ASSUME msgs \in Seq(Messages), Ordered, msgs # <<>>, Head(msgs).what \in {"PREPARED", "COMPLETED"}
    PROVE  \A m \in In(Tail(msgs)) : m.what # "PREPARED"
  <1> SUFFICES ASSUME NEW m \in In(Tail(msgs)), m.what = "PREPARED" PROVE FALSE OBVIOUS
  <1>1. /\ Head(msgs) = msgs[1] /\ 1 \in DOMAIN msgs /\ Len(msgs) \in Nat /\ DOMAIN msgs = 1..Len(msgs)
        /\ DOMAIN Tail(msgs) = 1..(Len(msgs) - 1) /\ \A i \in DOMAIN Tail(msgs) : Tail(msgs)[i] = msgs[i + 1]
    OBVIOUS
  <1>2. PICK i \in DOMAIN Tail(msgs) : Tail(msgs)[i] = m BY DEF In
  <1>3. i \in 1..(Len(msgs) - 1) /\ msgs[i + 1].what = "PREPARED" BY <1>1, <1>2
  <1>4. i + 1 \in DOMAIN msgs /\ ~(i + 1 <= 1) BY <1>1, <1>3
  <1> QED BY <1>1, <1>3, <1>4 DEF Ordered

\* The message thread, read_thread and the refresh thread keep the phases.
LEMMA MessageControl == Typed /\ Control /\ Unprepared /\ Ordered /\ MessageNext => Control' /\ Unprepared'
  <1> SUFFICES ASSUME Typed, Control, Unprepared, Ordered, MessageNext PROVE Control' /\ Unprepared' OBVIOUS
  <1> USE DEF Control, Unprepared
  <1>0. msgs \in Seq(Messages) BY DEF Typed, CallsTyped
  <1>1. CASE HandlePrepared
    <2>1. /\ Handling("PREPARED") /\ "PREPARED" \in Kinds BY <1>1 DEF HandlePrepared, Kinds
    <2>2. /\ msgs # <<>> /\ Head(msgs) \in In(msgs) /\ Head(msgs).what = "PREPARED"
          /\ In(msgs') \subseteq In(msgs) /\ msgs' = Tail(msgs)
      BY <1>0, <2>1, HandlingSent DEF Handling
    <2>3. \A m \in In(msgs') : m.what # "PREPARED" BY <1>0, <2>2, HeadOrder
    <2>4. prepared /\ state = "ASYNC_PREPARING" /\ listening /\ reader \notin {"none", "opening"} BY <2>2
    <2>5. Control' BY <1>1, <2>2, <2>4 DEF HandlePrepared, seekVars
    <2>6. Unprepared' BY <1>1, <2>2, <2>3, <2>4 DEF HandlePrepared, showVars
    <2> QED BY <2>5, <2>6
  <1>2. CASE HandleCompleted
    <2>1. /\ Handling("COMPLETED") /\ "COMPLETED" \in Kinds BY <1>2 DEF HandleCompleted, Kinds
    <2>2. /\ msgs # <<>> /\ Head(msgs) \in In(msgs) /\ Head(msgs).what = "COMPLETED"
          /\ In(msgs') \subseteq In(msgs) /\ msgs' = Tail(msgs)
      BY <1>0, <2>1, HandlingSent DEF Handling
    <2>3. \A m \in In(msgs') : m.what # "PREPARED" BY <1>0, <2>2, HeadOrder
    <2>4. listening /\ reader # "opening" /\ (reader # "none" => prepared) BY <2>2
    <2>5. Control' BY <1>2, <2>2, <2>4 DEF HandleCompleted, seekVars
    <2>6. Unprepared' BY <1>2, <2>2, <2>3, <2>4 DEF HandleCompleted, showVars
    <2> QED BY <2>5, <2>6
  <1>3. ASSUME NEW what \in Kinds, Handling(what), what # "REQ_STOP",
               listening' = listening, reader' = reader, prepared' = prepared,
               is_seek_req' = is_seek_req \/ state \notin {"INITIALIZED", "ASYNC_PREPARING", "STOPPED"},
               state' = state \/ (/\ state \notin {"INITIALIZED", "ASYNC_PREPARING", "STOPPED"}
                                  /\ state' \in {"STARTED", "PAUSED"} /\ reader # "none")
        PROVE Control' /\ Unprepared'
    <2>1. /\ msgs # <<>> /\ In(msgs') \subseteq In(msgs)
      BY <1>0, <1>3, HandlingSent
    <2>2. Control' BY <1>3, <2>1
    <2>3. Unprepared' BY <1>3, <2>1
    <2> QED BY <2>2, <2>3
  <1>4. CASE HandleSeekComplete
    BY <1>3, <1>4 DEF HandleSeekComplete, seekVars, showVars, Kinds
  <1>5. CASE HandleStart
    BY <1>3, <1>5 DEF HandleStart, Playable, seekVars, showVars, Kinds
  <1>6. CASE HandlePause
    BY <1>3, <1>6 DEF HandlePause, Playable, seekVars, showVars, Kinds
  <1>7. CASE HandleSeek
    BY <1>3, <1>7 DEF HandleSeek, StreamSeek, Playable, showVars, Kinds
  <1>8. CASE HandleStop
    <2>1. Head(msgs) \in In(msgs) /\ In(msgs') = {} BY <1>0, <1>8, InTail, InNone DEF HandleStop
    <2>2. reader = "none" BY <1>8, <2>1 DEF HandleStop
    <2>3. state \notin {"INITIALIZED"} BY <1>8 DEF HandleStop
    <2>4. Control' BY <1>8, <2>1, <2>2, <2>3 DEF HandleStop, seekVars
    <2>5. Unprepared' BY <1>8, <2>1, <2>2 DEF HandleStop, showVars
    <2> QED BY <2>4, <2>5
  <1> QED BY <1>1, <1>2, <1>4, <1>5, <1>6, <1>7, <1>8 DEF MessageNext

LEMMA ReaderControl == Typed /\ Control /\ Unprepared /\ StillAhead /\ ReaderNext => Control' /\ Unprepared'
  <1> SUFFICES ASSUME Typed, Control, Unprepared, StillAhead, ReaderNext PROVE Control' /\ Unprepared' OBVIOUS
  <1> USE DEF Control, Unprepared
  <1>0. msgs \in Seq(Messages) BY DEF Typed, CallsTyped
  <1>1. CASE Open
    <2>1. Control' BY <1>1 DEF Open, StreamSeek, appVars
    <2>2. Unprepared' BY <1>1 DEF Open, appVars, showVars
    <2> QED BY <2>1, <2>2
  <1>2. CASE SeekEnds
    <2>1. /\ \A m \in In(msgs') : m \in In(msgs) \/ m = Message("SEEK_COMPLETE", ToStart)
      BY <1>0, <1>2, PostSent DEF SeekEnds, Kinds
    <2>2. Message("SEEK_COMPLETE", ToStart).what = "SEEK_COMPLETE" BY DEF Message
    <2>3. Control' BY <1>2, <2>1, <2>2 DEF SeekEnds, appVars, seekVars
    <2>4. Unprepared' BY <1>2, <2>1, <2>2 DEF SeekEnds, appVars, showVars
    <2> QED BY <2>3, <2>4
  <1>3. CASE Complete
    <2>1. /\ \A m \in In(msgs') : m \in In(msgs) \/ m = Message("COMPLETED", ToStart)
      BY <1>0, <1>3, PostSent DEF Complete, Kinds
    <2>2. Message("COMPLETED", ToStart).what = "COMPLETED" BY DEF Message
    <2>3. Control' BY <1>3, <2>1, <2>2 DEF Complete, appVars, seekVars
    <2>4. Unprepared' BY <1>3, <2>1, <2>2 DEF Complete, appVars, showVars
    <2> QED BY <2>3, <2>4
  <1>4. CASE SeekBegins \/ Flush \/ FlushFails \/ ReadPacket \/ BufferingEnds \/ DelayOver
    <2>1. UNCHANGED <<state, listening, msgs, is_seek_req, prepared>>
      BY <1>4 DEF SeekBegins, Flush, FlushFails, ReadPacket, BufferingEnds, DelayOver, appVars, seekVars, showVars
    <2>2. /\ reader \notin {"none", "opening"} /\ reader' \notin {"none", "opening"}
          /\ reader' \in {"delaying", "completing"} => reader \in {"delaying", "completing"}
      BY <1>4 DEF SeekBegins, Flush, FlushFails, ReadPacket, BufferingEnds, DelayOver
    <2> QED BY <2>1, <2>2
  <1>5. CASE SetTarget
    <2>1. Control' BY <1>5 DEF SetTarget, appVars
    <2>2. Unprepared' BY <1>5 DEF SetTarget, appVars
    <2> QED BY <2>1, <2>2
  <1>6. CASE LoopAround
    <2>0. state # "INITIALIZED" BY <1>6 DEF LoopAround
    <2>1. Control' BY <1>6, <2>0 DEF LoopAround, appVars
    <2>2. Unprepared' BY <1>6 DEF LoopAround, appVars, showVars
    <2> QED BY <2>1, <2>2
  <1>7. CASE EndReached
    <2>0. prepared BY <1>7, AtEndPrepared DEF EndReached
    <2>1. Control' BY <1>7 DEF EndReached, appVars, seekVars
    <2>2. Unprepared' BY <1>7, <2>0 DEF EndReached, appVars, showVars
    <2> QED BY <2>1, <2>2
  <1> QED BY <1>1, <1>2, <1>3, <1>4, <1>5, <1>6, <1>7 DEF ReaderNext, SeekNext

\* Before the streams are open there are no frames.
NoFrames == reader = "opening" => packets = <<>> /\ decoding = None /\ pictq = <<>> /\ chosen = "none"

\* Every step keeps it: nothing is read while the streams open.
LEMMA NoFramesNext == Typed /\ NoFrames /\ [Next]_vars => NoFrames'
  <1> SUFFICES ASSUME Typed, NoFrames, [Next]_vars PROVE NoFrames' OBVIOUS
  <1> USE DEF NoFrames
  <1>1. CASE AppNext
    BY <1>1 DEF AppNext, SeekTo, StartOrPause, Stop, Prepare, frameVars, showVars
  <1>2. CASE MessageNext
    BY <1>2 DEF MessageNext, HandlePrepared, HandleCompleted, HandleSeekComplete, HandleStart, HandlePause,
                HandleSeek, HandleStop, frameVars, showVars
  <1>3. CASE ReaderNext
    BY <1>3 DEF ReaderNext, SeekNext, Open, SeekBegins, Flush, FlushFails, SetTarget, SeekEnds, LoopAround, EndReached,
                DelayOver, Complete, ReadPacket, BufferingEnds, frameVars, showVars
  <1>4. CASE FrameNext
    BY <1>4 DEF FrameNext, BufferingStarts, Decode, QueuePicture, DropFrame, ChooseFrame, ShowFrame, frameVars, showVars
  <1>5. CASE UNCHANGED vars
    BY <1>5 DEF vars, frameVars, showVars
  <1> QED BY <1>1, <1>2, <1>3, <1>4, <1>5 DEF Next

LEMMA FrameControl == Typed /\ NoFrames /\ Control /\ Unprepared /\ (FrameNext \/ UNCHANGED vars) => Control' /\ Unprepared'
  <1> SUFFICES ASSUME Typed, NoFrames, Control, Unprepared, FrameNext \/ UNCHANGED vars PROVE Control' /\ Unprepared' OBVIOUS
  <1> USE DEF Control, Unprepared
  <1>0. msgs \in Seq(Messages) BY DEF Typed, CallsTyped
  <1>1. CASE ShowFrame
    <2>0. reader # "opening" BY <1>1 DEF ShowFrame, NoFrames
    <2>1. \A m \in In(msgs') : m \in In(msgs) \/ (~prepared /\ m = Message("PREPARED", ToStart))
      BY <1>0, <1>1, PostSent DEF ShowFrame, Kinds
    <2>2. Message("PREPARED", ToStart).what = "PREPARED" BY DEF Message
    <2>3. Control' BY <1>1, <2>0, <2>1, <2>2 DEF ShowFrame, Streaming, appVars, seekVars
    <2>4. Unprepared' BY <1>1, <2>1, <2>2 DEF ShowFrame, Streaming, appVars
    <2> QED BY <2>3, <2>4
  <1>2. CASE BufferingStarts \/ Decode \/ QueuePicture \/ DropFrame \/ ChooseFrame
    <2>1. UNCHANGED <<state, listening, msgs, reader, is_seek_req, prepared>>
      BY <1>2 DEF BufferingStarts, Decode, QueuePicture, DropFrame, ChooseFrame, appVars, seekVars, showVars
    <2> QED BY <2>1
  <1>3. CASE UNCHANGED vars
    BY <1>3 DEF vars, appVars, seekVars, showVars
  <1> QED BY <1>1, <1>2, <1>3 DEF FrameNext

\* The last frame stays ahead: it is read, moved on, and not dropped as long as
\* the target lies before the end.
LEMMA LastKept ==
    ASSUME Typed, LastAhead, seek_pos < End, ReadPacket \/ Decode \/ QueuePicture \/ DropFrame
    PROVE  LastAhead'
  <1> USE DEF LastAhead
  <1>0. /\ packets \in Seq(FramesAt) /\ pictq \in Seq(FramesAt) /\ decoding \in FramesAt \cup {None}
        /\ End \in Nat /\ End - 1 \in Nat /\ read_pos \in 0..End /\ seek_pos \in 0..End
    BY SeekAssumption DEF Typed, CallsTyped, FramesTyped
  <1>00. Last' = Last BY DEF Last
  <1>1. CASE ReadPacket
    <2> DEFINE f == [pos |-> read_pos, old |-> FALSE]
    <2>1. read_pos' = read_pos + 1 /\ read_pos < End BY <1>1 DEF ReadPacket
    <2>2. f \in FramesAt BY <1>0, <2>1 DEF FramesAt, Positions
    <2>3. packets' = Append(packets, f) BY <1>1 DEF ReadPacket
    <2>4. read_pos + 1 < End \/ f = Last
      <3>1. read_pos + 1 < End \/ read_pos = End - 1 BY <1>0, <2>1
      <3> QED BY <3>1 DEF Last
    <2> HIDE DEF f
    <2>5. In(packets') = In(packets) \cup {f} BY <1>0, <2>2, <2>3, InAppend
    <2> QED BY <1>00, <2>1, <2>4, <2>5, <1>1 DEF ReadPacket
  <1>2. CASE Decode
    <2>1. packets # <<>> /\ packets' = Tail(packets) /\ decoding' = Head(packets) /\ decoding = None
      BY <1>2 DEF Decode
    <2>2. In(packets) = In(Tail(packets)) \cup {Head(packets)} BY <1>0, <2>1, InTail
    <2>3. decoding # Last
      <3>1. Last \in [pos : Nat, old : BOOLEAN] BY <1>0 DEF Last
      <3> QED BY <2>1, <3>1, SeekAssumption
    <2> QED BY <1>00, <1>2, <2>1, <2>2, <2>3 DEF Decode
  <1>3. CASE QueuePicture
    <2>1. decoding \in FramesAt /\ pictq' = Append(pictq, decoding) BY <1>0, <1>3 DEF QueuePicture
    <2>2. In(pictq') = In(pictq) \cup {decoding} BY <1>0, <2>1, InAppend
    <2> QED BY <1>00, <1>3, <2>1, <2>2 DEF QueuePicture
  <1>4. CASE DropFrame
    <2>1. pictq # <<>> /\ pictq' = Tail(pictq) /\ Dropped(Head(pictq)) BY <1>4 DEF DropFrame
    <2>2. In(pictq) = In(Tail(pictq)) \cup {Head(pictq)} BY <1>0, <2>1, InTail
    <2>3. Head(pictq) # Last
      <3>1. ~Last.old /\ Last.pos = End - 1 BY DEF Last
      <3>2. ~(End - 1 < seek_pos) BY <1>0
      <3> QED BY <2>1, <3>1, <3>2 DEF Dropped
    <2> QED BY <1>00, <1>4, <2>1, <2>2, <2>3 DEF DropFrame
  <1> QED BY <1>1, <1>2, <1>3, <1>4

\* Every step keeps the last frame ahead of an unprepared stream.
LEMMA StillAheadNext == Typed /\ NoFrames /\ Control /\ Unprepared /\ StillAhead /\ [Next]_vars => StillAhead'
  <1> SUFFICES ASSUME Typed, NoFrames, Control, Unprepared, StillAhead, [Next]_vars PROVE StillAhead' OBVIOUS
  <1> USE DEF StillAhead, Taken
  <1>0. End \in Nat /\ 0 < End /\ MaxCalls \in Nat BY SeekAssumption
  <1>1. ASSUME NEW t \in 0..End, SeekTo(t) PROVE StillAhead'
    <2>1. LastAhead' = LastAhead BY <1>1 DEF SeekTo, LastAhead, frameVars
    <2>2. UNCHANGED <<reader, is_seek_req, is_seek_pos, target, seek_pos, prepared>>
      BY <1>1 DEF SeekTo, seekVars, readVars, showVars
    <2>3. seek_at_start' = seek_at_start \/ seek_at_start'.to < End BY <1>1 DEF SeekTo
    <2> QED BY <2>1, <2>2, <2>3
  <1>2. ASSUME NEW what \in {"REQ_START", "REQ_PAUSE"}, StartOrPause(what) PROVE StillAhead'
    <2>1. LastAhead' = LastAhead BY <1>2 DEF StartOrPause, LastAhead, frameVars
    <2> QED BY <1>2, <2>1 DEF StartOrPause, seekVars, readVars, showVars
  <1>3. CASE Stop
    BY <1>3 DEF Stop
  <1>4. CASE Prepare
    BY <1>0, <1>4 DEF Prepare, LastAhead
  <1>5. CASE HandlePrepared \/ HandleCompleted \/ HandleSeekComplete \/ HandlePause \/ HandleStop
    <2>1. UNCHANGED <<reader, packets, decoding, pictq, read_pos, is_seek_req, is_seek_pos, target, seek_pos, prepared, seek_at_start>>
      BY <1>5 DEF HandlePrepared, HandleCompleted, HandleSeekComplete, HandlePause, HandleStop, frameVars,
                  seekVars, readVars, showVars
    <2> QED BY <2>1 DEF LastAhead
  <1>6. CASE HandleStart \/ HandleSeek
    <2>1. reader # "none" /\ state # "ASYNC_PREPARING" BY <1>6 DEF HandleStart, HandleSeek, Playable
    <2>2. prepared BY <2>1 DEF Unprepared
    <2>3. prepared' /\ seek_at_start' = seek_at_start BY <1>6, <2>2 DEF HandleStart, HandleSeek, showVars
    <2> QED BY <2>3
  <1>7. CASE Open
    <2>1. LastAhead' = LastAhead BY <1>7 DEF Open, LastAhead, frameVars
    <2> QED BY <1>7, <2>1 DEF Open, StreamSeek, appVars, seekVars, readVars, showVars
  <1>8. CASE SeekBegins
    <2>1. LastAhead' = LastAhead BY <1>8 DEF SeekBegins, LastAhead, frameVars
    <2> QED BY <1>8, <2>1 DEF SeekBegins, appVars, seekVars, showVars
  <1>9. CASE Flush
    <2>1. read_pos' < End
      <3>1. target.to \in Nat BY <1>0 DEF Typed, CallsTyped, Requests
      <3>2. KeyBefore(target.to) \in 0..End - 1 BY <3>1, KeyFrameThere
      <3> QED BY <1>0, <1>9, <3>2 DEF Flush
    <2>2. LastAhead' BY <2>1 DEF LastAhead
    <2> QED BY <1>9, <2>2 DEF Flush, appVars, seekVars, readVars, showVars
  <1>10. CASE SetTarget
    <2>1. LastAhead' = LastAhead BY <1>10 DEF SetTarget, LastAhead, frameVars
    <2> QED BY <1>10, <2>1 DEF SetTarget, appVars
  <1>11. CASE LoopAround
    <2>1. prepared BY <1>11, AtEndPrepared DEF LoopAround
    <2> QED BY <1>11, <2>1 DEF LoopAround, appVars, showVars
  <1>12. CASE FlushFails \/ SeekEnds \/ EndReached \/ DelayOver \/ Complete \/ BufferingEnds \/ BufferingStarts \/ ChooseFrame
    <2>1. UNCHANGED <<packets, decoding, pictq, read_pos, is_seek_req, is_seek_pos, target, seek_pos, prepared, seek_at_start>>
      BY <1>12 DEF FlushFails, SeekEnds, EndReached, DelayOver, Complete, BufferingEnds, BufferingStarts, ChooseFrame,
                   appVars, frameVars, seekVars, readVars, showVars
    <2>2. reader # "none" /\ (reader' \in {"seeking", "sought"} => reader \in {"seeking", "sought"})
      BY <1>12 DEF FlushFails, SeekEnds, EndReached, DelayOver, Complete, BufferingEnds, BufferingStarts, ChooseFrame, Streaming
    <2> QED BY <2>1, <2>2 DEF LastAhead
  <1>13. CASE ReadPacket \/ Decode \/ QueuePicture \/ DropFrame
    <2>1. UNCHANGED <<reader, is_seek_req, is_seek_pos, target, seek_pos, prepared, seek_at_start>>
      BY <1>13 DEF ReadPacket, Decode, QueuePicture, DropFrame, appVars, seekVars, readVars, showVars
    <2> QED BY <1>13, <2>1, LastKept
  <1>14. CASE ShowFrame
    BY <1>14 DEF ShowFrame, appVars
  <1>15. CASE UNCHANGED vars
    BY <1>15 DEF vars, LastAhead, appVars, frameVars, seekVars, readVars, showVars
  <1> QED BY <1>1, <1>2, <1>3, <1>4, <1>5, <1>6, <1>7, <1>8, <1>9, <1>10, <1>11, <1>12, <1>13, <1>14, <1>15
          DEF Next, AppNext, MessageNext, ReaderNext, SeekNext, FrameNext

\* A message put behind the others, or the first taken, keeps their order.
LEMMA AppendOrdered ==
    ASSUME NEW s \in Seq(Messages), NEW m \in Messages,
           \A i, j \in DOMAIN s : s[j].what = "PREPARED" /\ s[i].what \in {"PREPARED", "COMPLETED"} => j <= i,
           m.what = "PREPARED" => \A k \in In(s) : k.what \notin {"PREPARED", "COMPLETED"}
    PROVE  \A i, j \in DOMAIN Append(s, m) :
             Append(s, m)[j].what = "PREPARED" /\ Append(s, m)[i].what \in {"PREPARED", "COMPLETED"} => j <= i
  <1> DEFINE a == Append(s, m)
  <1>1. /\ DOMAIN a = DOMAIN s \cup {Len(s) + 1} /\ DOMAIN s = 1..Len(s) /\ Len(s) \in Nat
        /\ a[Len(s) + 1] = m /\ \A i \in DOMAIN s : a[i] = s[i] /\ s[i] \in In(s)
    BY DEF In
  <1> HIDE DEF a
  <1> SUFFICES ASSUME NEW i \in DOMAIN a, NEW j \in DOMAIN a,
                      a[j].what = "PREPARED", a[i].what \in {"PREPARED", "COMPLETED"}
               PROVE  j <= i
    BY DEF a
  <1>2. CASE i \in DOMAIN s /\ j \in DOMAIN s BY <1>1, <1>2
  <1>3. CASE i = Len(s) + 1 BY <1>1, <1>3
  <1>4. CASE i \in DOMAIN s /\ j = Len(s) + 1 BY <1>1, <1>4
  <1> QED BY <1>1, <1>2, <1>3, <1>4

LEMMA TailOrdered ==
    ASSUME msgs \in Seq(Messages), msgs # <<>>, Ordered, msgs' = Tail(msgs)
    PROVE  Ordered'
  <1>1. /\ Len(msgs) \in Nat /\ DOMAIN msgs = 1..Len(msgs)
        /\ DOMAIN Tail(msgs) = 1..(Len(msgs) - 1) /\ \A i \in DOMAIN Tail(msgs) : Tail(msgs)[i] = msgs[i + 1]
    OBVIOUS
  <1>2. SUFFICES ASSUME NEW i \in DOMAIN Tail(msgs), NEW j \in DOMAIN Tail(msgs),
                        Tail(msgs)[j].what = "PREPARED", Tail(msgs)[i].what \in {"PREPARED", "COMPLETED"}
                 PROVE  j <= i
    BY DEF Ordered
  <1>3. i + 1 \in DOMAIN msgs /\ j + 1 \in DOMAIN msgs /\ i \in Nat /\ j \in Nat BY <1>1
  <1>4. j + 1 <= i + 1 BY <1>1, <1>2, <1>3 DEF Ordered
  <1> QED BY ONLY <1>3, <1>4

\* Without PREPARED any order will do.
LEMMA NoneOrdered == (\A m \in In(msgs) : m.what # "PREPARED") => Ordered
  BY DEF In, Ordered

\* A post keeps the order if PREPARED is posted before COMPLETED.
LEMMA PostOrdered ==
    ASSUME msgs \in Seq(Messages), Ordered, NEW what \in Kinds, Post(what),
           what = "PREPARED" => \A m \in In(msgs) : m.what \notin {"PREPARED", "COMPLETED"}
    PROVE  Ordered'
  <1>1. Message(what, ToStart) \in Messages /\ Message(what, ToStart).what = what BY MessageTyped DEF Message
  <1> DEFINE m == Message(what, ToStart)
  <1> HIDE DEF m
  <1>2. \A i, j \in DOMAIN Append(msgs, m) :
             Append(msgs, m)[j].what = "PREPARED" /\ Append(msgs, m)[i].what \in {"PREPARED", "COMPLETED"} => j <= i
    BY <1>1, AppendOrdered DEF Ordered, m
  <1>3. msgs' = msgs \/ msgs' = Append(msgs, m) BY DEF Post, m
  <1> QED BY <1>2, <1>3 DEF Ordered

\* Every step keeps the order: no call is made while PREPARED waits.
LEMMA OrderedNext == Typed /\ NoFrames /\ Control /\ Unprepared /\ Ordered /\ [Next]_vars => Ordered'
  <1> SUFFICES ASSUME Typed, NoFrames, Control, Unprepared, Ordered, [Next]_vars PROVE Ordered' OBVIOUS
  <1>0. msgs \in Seq(Messages) BY DEF Typed, CallsTyped
  <1>1. CASE (\E t \in 0..End : SeekTo(t)) \/ (\E what \in {"REQ_START", "REQ_PAUSE"} : StartOrPause(what)) \/ Stop
    <2>1. Unprepared' BY <1>1, AppControl DEF AppNext
    <2>2. state # "ASYNC_PREPARING" /\ state' # "ASYNC_PREPARING"
      BY <1>1 DEF SeekTo, StartOrPause, Stop, Calling
    <2>3. \A m \in In(msgs') : m.what # "PREPARED" BY <2>1, <2>2 DEF Unprepared
    <2> QED BY <2>3 DEF In, Ordered
  <1>2. CASE Prepare \/ HandleStop
    <2>1. msgs' = <<>> BY <1>2 DEF Prepare, HandleStop
    <2> QED BY <2>1 DEF Ordered
  <1>3. CASE HandlePrepared \/ HandleCompleted \/ HandleSeekComplete \/ HandleStart \/ HandlePause \/ HandleSeek
    <2>1. msgs # <<>> /\ msgs' = Tail(msgs)
      BY <1>3 DEF HandlePrepared, HandleCompleted, HandleSeekComplete, HandleStart, HandlePause, HandleSeek, Handling
    <2> QED BY <1>0, <2>1, TailOrdered
  <1>4. CASE SeekEnds
    BY <1>0, <1>4, PostOrdered DEF SeekEnds, Kinds
  <1>5. CASE Complete
    BY <1>0, <1>5, PostOrdered DEF Complete, Kinds
  <1>6. CASE ShowFrame
    <2>1. CASE prepared BY <1>6, <2>1 DEF ShowFrame, Ordered
    <2>2. CASE ~prepared
      <3>1. \A m \in In(msgs) : m.what \notin {"PREPARED", "COMPLETED"}
        BY <1>6, <2>2 DEF ShowFrame, Streaming, Unprepared
      <3>2. Post("PREPARED") BY <1>6, <2>2 DEF ShowFrame
      <3> QED BY <1>0, <3>1, <3>2, PostOrdered DEF Kinds
    <2> QED BY <2>1, <2>2
  <1>7. CASE \/ Open \/ SeekBegins \/ Flush \/ FlushFails \/ SetTarget \/ LoopAround \/ EndReached \/ DelayOver
             \/ ReadPacket \/ BufferingEnds \/ BufferingStarts \/ Decode \/ QueuePicture \/ DropFrame \/ ChooseFrame
             \/ UNCHANGED vars
    <2>1. msgs' = msgs
      BY <1>7 DEF Open, SeekBegins, Flush, FlushFails, SetTarget, LoopAround, EndReached, DelayOver, ReadPacket,
                  BufferingEnds, BufferingStarts, Decode, QueuePicture, DropFrame, ChooseFrame, vars
    <2> QED BY <2>1 DEF Ordered
  <1> QED BY <1>1, <1>2, <1>3, <1>4, <1>5, <1>6, <1>7
          DEF Next, AppNext, MessageNext, ReaderNext, SeekNext, FrameNext

\* What a toggle asks.
LEMMA PauseAsked ==
    ASSUME NEW p \in Flags
    PROVE  /\ TogglePause(p, TRUE).pause_req /\ ~TogglePause(p, TRUE).auto_resume
           /\ ~TogglePause(p, FALSE).pause_req
  BY DEF Flags, TogglePause, Update

\* Buffering, a step and its end change neither.
LEMMA AskedKept ==
    ASSUME NEW p \in Flags, NEW on \in BOOLEAN, NEW q \in {Update(p), ToggleBuffering(p, on), StepToNext(p), Stepped(p)}
    PROVE  q.pause_req = p.pause_req /\ q.auto_resume = p.auto_resume
  BY DEF Flags, Update, ToggleBuffering, StepToNext, Stepped

\* A seek under way that will let the stream go; the end posted and not told.
Resumes == play.auto_resume /\ (is_seek_req \/ reader \in {"seeking", "sought", "ended"})
Completing == \E m \in In(msgs) : m.what = "COMPLETED"

\* What StateTold says when everything is at rest, with what is under way.
Told ==
    /\ state = "PAUSED" => play.pause_req /\ ~play.auto_resume
    /\ state = "ASYNC_PREPARING" /\ ~start_on_prepared /\ reader # "opening" => play.pause_req
    /\ state \in {"INITIALIZED", "STOPPED"} \/ (state = "ASYNC_PREPARING" /\ ~start_on_prepared) => ~play.auto_resume
    /\ state = "STARTED" \/ (state = "ASYNC_PREPARING" /\ start_on_prepared) =>
          ~play.pause_req \/ Completing \/ Resumes

\* The application keeps it: no call takes COMPLETED from the queue.
LEMMA AppTold == Typed /\ Control /\ Told /\ AppNext => Told'
  <1> SUFFICES ASSUME Typed, Control, Told, AppNext PROVE Told' OBVIOUS
  <1> USE DEF Told
  <1>0. msgs \in Seq(Messages) /\ play \in Flags BY DEF Typed, CallsTyped, IInv
  <1>1. ASSUME NEW t \in 0..End, SeekTo(t) PROVE Told'
    <2> DEFINE req == [to |-> t, id |-> calls + 1]
    <2>1. calls' \in 0..MaxCalls /\ calls' = calls + 1
      BY <1>1, SeekAssumption DEF SeekTo, Calling, CallsTyped, Typed
    <2>2. req \in Requests BY <1>1, <2>1 DEF Requests
    <2>3. Completing => Completing'
      <3>1. In(Append(Without({"REQ_SEEK"}), Message("REQ_SEEK", req))) =
              {m \in In(msgs) : m.what \notin {"REQ_SEEK"}} \cup {Message("REQ_SEEK", req)}
        BY <1>0, <2>2, CallSent, KindsAreNames DEF Kinds
      <3> QED BY <1>1, <3>1 DEF SeekTo, Completing
    <2>4. Resumes' = Resumes BY <1>1 DEF SeekTo, Resumes, seekVars
    <2> QED BY <1>1, <2>3, <2>4 DEF SeekTo, showVars, modeVars
  <1>2. ASSUME NEW what \in {"REQ_START", "REQ_PAUSE"}, StartOrPause(what) PROVE Told'
    <2>1. In(msgs') = {m \in In(msgs) : m.what \notin {"REQ_START", "REQ_PAUSE"}} \cup {Message(what, ToStart)}
      BY <1>0, <1>2, CallSent, KindsAreNames, MessageTyped DEF StartOrPause, Kinds
    <2>2. Completing => Completing' BY <2>1 DEF Completing
    <2>3. Resumes' = Resumes BY <1>2 DEF StartOrPause, Resumes, seekVars
    <2> QED BY <1>2, <2>2, <2>3 DEF StartOrPause, showVars, modeVars
  <1>3. CASE Stop
    BY <1>0, <1>3, PauseAsked DEF Stop
  <1>4. CASE Prepare
    <2>1. play'.pause_req = ~start_on_prepared /\ play'.auto_resume = play.auto_resume
      BY <1>0, <1>4 DEF Prepare, Flags
    <2> QED BY <1>4, <2>1 DEF Prepare, modeVars
  <1> QED BY <1>1, <1>2, <1>3, <1>4 DEF AppNext

\* The message thread keeps it: it changes the state and the request together.
LEMMA MessageTold == Typed /\ Control /\ Unprepared /\ Told /\ MessageNext => Told'
  <1> SUFFICES ASSUME Typed, Control, Unprepared, Told, MessageNext PROVE Told' OBVIOUS
  <1> USE DEF Told
  <1>0. msgs \in Seq(Messages) /\ play \in Flags /\ start_on_prepared \in BOOLEAN BY DEF Typed, CallsTyped, IInv
  <1>1. ASSUME NEW what \in Kinds, Handling(what), what # "COMPLETED" PROVE Completing => Completing'
    <2>1. /\ Head(msgs).what = what /\ In(msgs) = In(msgs') \cup {Head(msgs)}
      BY <1>0, <1>1, HandlingSent
    <2> QED BY <1>1, <2>1 DEF Completing
  <1>2. CASE HandlePrepared
    <2>1. Completing => Completing' BY <1>1, <1>2 DEF HandlePrepared, Kinds
    <2>2. Head(msgs) \in In(msgs) /\ Head(msgs).what = "PREPARED" /\ msgs # <<>>
      BY <1>0, <1>2, HandlingSent DEF HandlePrepared, Kinds
    <2>3. state = "ASYNC_PREPARING" /\ reader # "opening" BY <2>2 DEF Control, Unprepared
    <2>4. Resumes' = Resumes BY <1>2 DEF HandlePrepared, Resumes, seekVars
    <2> QED BY <1>2, <2>1, <2>3, <2>4 DEF HandlePrepared, showVars, modeVars
  <1>3. CASE HandleCompleted
    BY <1>3 DEF HandleCompleted
  <1>4. CASE HandleSeekComplete
    <2>1. Completing => Completing' BY <1>1, <1>4 DEF HandleSeekComplete, Kinds
    <2>4. Resumes' = Resumes BY <1>4 DEF HandleSeekComplete, Resumes, seekVars
    <2> QED BY <1>4, <2>1, <2>4 DEF HandleSeekComplete, showVars, modeVars
  <1>5. CASE HandleStart
    <2> DEFINE r == [play EXCEPT !.auto_resume = TRUE]
    <2>1. CASE from_beginning
      <3>1. r \in Flags /\ r.auto_resume BY <1>0 DEF Flags
      <3>2. play' = ToggleBuffering(r, TRUE) /\ is_seek_req' BY <1>5, <2>1 DEF HandleStart
      <3>3. play'.auto_resume BY <3>1, <3>2, AskedKept
      <3>4. Resumes' BY <3>2, <3>3 DEF Resumes
      <3> QED BY <1>5, <3>4 DEF HandleStart
    <2>2. CASE ~from_beginning
      <3>1. ~play'.pause_req BY <1>0, <1>5, <2>2, PauseAsked DEF HandleStart
      <3> QED BY <1>5, <3>1 DEF HandleStart
    <2> QED BY <2>1, <2>2
  <1>6. CASE HandlePause
    BY <1>0, <1>6, PauseAsked DEF HandlePause
  <1>7. CASE HandleSeek
    <2>1. Completing => Completing' BY <1>1, <1>7 DEF HandleSeek, Kinds
    <2>2. Resumes => Resumes' BY <1>7 DEF HandleSeek, StreamSeek, Resumes
    <2> QED BY <1>7, <2>1, <2>2 DEF HandleSeek, showVars, modeVars
  <1>8. CASE HandleStop
    <2>1. Head(msgs) \in In(msgs) BY <1>0, <1>8, InTail DEF HandleStop
    <2>2. reader = "none" BY <1>8, <2>1 DEF HandleStop, Control
    <2> QED BY <1>8, <2>2 DEF HandleStop, Control, showVars, modeVars
  <1> QED BY <1>2, <1>3, <1>4, <1>5, <1>6, <1>7, <1>8 DEF MessageNext

\* The steps that leave pause_req and auto_resume as they are.
LEMMA SameAsked ==
    ASSUME Typed, Control, Told, play'.pause_req = play.pause_req, play'.auto_resume = play.auto_resume,
           state' = state, start_on_prepared' = start_on_prepared, reader = "opening" => reader' = "opening",
           Completing => Completing', Resumes => Resumes'
    PROVE  Told'
  BY DEF Told

\* The other threads keep it: a stream pauses itself only to complete.
LEMMA StreamTold == Typed /\ NoFrames /\ Control /\ Told /\ (ReaderNext \/ FrameNext \/ UNCHANGED vars) => Told'
  <1> SUFFICES ASSUME Typed, NoFrames, Control, Told, ReaderNext \/ FrameNext \/ UNCHANGED vars PROVE Told' OBVIOUS
  <1>0. msgs \in Seq(Messages) /\ play \in Flags /\ start_on_prepared \in BOOLEAN BY DEF Typed, CallsTyped, IInv
  <1>1. CASE Open
    <2>1. CASE start_on_prepared
      <3>1. play' = play /\ msgs' = msgs /\ state' = state /\ start_on_prepared' = start_on_prepared
        BY <1>1, <2>1 DEF Open, appVars, showVars, modeVars
      <3>2. Resumes => Resumes' BY <1>1, <3>1 DEF Open, Resumes, StreamSeek, seekVars
      <3>3. Completing' = Completing BY <3>1 DEF Completing
      <3> QED BY <2>1, <3>1, <3>2, <3>3 DEF Told
    <2>2. CASE ~start_on_prepared
      <3> DEFINE p == TogglePause(play, TRUE)
      <3>1. p \in Flags /\ p.pause_req /\ ~p.auto_resume BY <1>0, PauseAsked, ToggleHolds
      <3>2. play' = StepToNext(p) BY <1>1, <2>2 DEF Open
      <3>3. play'.pause_req /\ ~play'.auto_resume BY <3>1, <3>2, AskedKept
      <3>4. state' = "ASYNC_PREPARING" /\ ~start_on_prepared'
        BY <1>1, <2>2 DEF Open, Control, appVars, showVars, modeVars
      <3> QED BY <3>3, <3>4 DEF Told
    <2> QED BY <1>0, <2>1, <2>2
  <1>2. CASE SeekBegins \/ BufferingEnds \/ BufferingStarts \/ ShowFrame
    <2>1. play'.pause_req = play.pause_req /\ play'.auto_resume = play.auto_resume
      <3>1. play' \in {ToggleBuffering(play, TRUE), ToggleBuffering(play, FALSE), Stepped(play)}
        BY <1>2 DEF SeekBegins, BufferingEnds, BufferingStarts, ShowFrame
      <3> QED BY <1>0, <3>1, AskedKept
    <2>2. state' = state /\ start_on_prepared' = start_on_prepared /\ is_seek_req' = is_seek_req
      BY <1>2 DEF SeekBegins, BufferingEnds, BufferingStarts, ShowFrame, appVars, seekVars, showVars, modeVars
    <2>3. (reader = "opening" => reader' = "opening")
          /\ (reader \in {"seeking", "sought", "ended"} => reader' \in {"seeking", "sought", "ended"})
      <3>1. CASE SeekBegins BY <3>1 DEF SeekBegins
      <3>2. CASE BufferingEnds \/ BufferingStarts \/ ShowFrame
        BY <3>2 DEF BufferingEnds, BufferingStarts, ShowFrame, appVars
      <3> QED BY <1>2, <3>1, <3>2
    <2>4. Completing => Completing'
      <3>1. CASE SeekBegins \/ BufferingEnds \/ BufferingStarts
        BY <3>1 DEF SeekBegins, BufferingEnds, BufferingStarts, Completing
      <3>2. CASE ShowFrame
        <4>1. CASE prepared BY <3>2, <4>1 DEF ShowFrame, Completing
        <4>2. CASE ~prepared
          <5>1. Post("PREPARED") BY <3>2, <4>2 DEF ShowFrame
          <5>2. listening => In(msgs') = In(msgs) \cup {Message("PREPARED", ToStart)} BY <1>0, <5>1, PostSent DEF Kinds
          <5>3. ~listening => msgs' = msgs BY <5>1 DEF Post
          <5> QED BY <5>2, <5>3 DEF Completing
        <4> QED BY <4>1, <4>2
      <3> QED BY <1>2, <3>1, <3>2
    <2> QED BY <2>1, <2>2, <2>3, <2>4, SameAsked DEF Resumes
  <1>3. CASE SeekEnds
    <2> DEFINE r  == [play EXCEPT !.pause_req = FALSE, !.buffering = TRUE, !.auto_resume = FALSE]
               p1 == IF play.auto_resume THEN Update(r) ELSE play
               p2 == IF p1.pause_req THEN StepToNext(p1) ELSE p1
    <2>1. play' = ToggleBuffering(p2, TRUE) /\ state' = state /\ start_on_prepared' = start_on_prepared
      BY <1>3 DEF SeekEnds, appVars, showVars, modeVars
    <2>2. Completing => Completing'
      <3>1. Post("SEEK_COMPLETE") BY <1>3 DEF SeekEnds
      <3>2. listening => In(msgs') = In(msgs) \cup {Message("SEEK_COMPLETE", ToStart)} BY <1>0, <3>1, PostSent DEF Kinds
      <3>3. ~listening => msgs' = msgs BY <3>1 DEF Post
      <3> QED BY <3>2, <3>3 DEF Completing
    <2>3. r \in Flags /\ ~r.pause_req /\ ~r.auto_resume BY <1>0 DEF Flags
    <2>4. CASE play.auto_resume
      <3>1. p1 = Update(r) BY <2>4
      <3>2. p1 \in Flags /\ ~p1.pause_req /\ ~p1.auto_resume BY <2>3, <3>1, UpdateHolds, AskedKept
      <3>3. p2 = p1 BY <3>2
      <3> HIDE DEF p1, p2, r
      <3>4. ~play'.pause_req /\ ~play'.auto_resume BY <2>1, <3>2, <3>3, AskedKept
      <3> QED BY <2>1, <2>4, <3>4, <1>3 DEF Told, SeekEnds
    <2>5. CASE ~play.auto_resume
      <3>1. p1 = play BY <2>5
      <3>2. p2 = IF play.pause_req THEN StepToNext(play) ELSE play BY <3>1
      <3>3. p2 \in Flags /\ p2.pause_req = play.pause_req /\ p2.auto_resume = play.auto_resume
        BY <1>0, <3>2, AskedKept, StepHolds
      <3> HIDE DEF p1, p2, r
      <3>4. play'.pause_req = play.pause_req /\ play'.auto_resume = play.auto_resume BY <2>1, <3>3, AskedKept
      <3>5. ~Resumes /\ reader # "opening" BY <1>3, <2>5 DEF Resumes, SeekEnds
      <3> QED BY <2>1, <2>2, <3>4, <3>5, SameAsked
    <2> QED BY <1>0, <2>4, <2>5
  <1>4. CASE Complete
    <2> DEFINE b == ToggleBuffering(play, FALSE)
    <2>1. b \in Flags BY <1>0, BufferingType
    <2>2. play' = TogglePause(b, TRUE) /\ state' = state BY <1>4 DEF Complete, appVars
    <2> HIDE DEF b
    <2>3. play'.pause_req /\ ~play'.auto_resume BY <2>1, <2>2, PauseAsked
    <2>4. Completing'
      <3>1. Post("COMPLETED") /\ listening BY <1>4 DEF Complete, Control
      <3>2. In(msgs') = In(msgs) \cup {Message("COMPLETED", ToStart)} BY <1>0, <3>1, PostSent DEF Kinds
      <3>3. Message("COMPLETED", ToStart).what = "COMPLETED" BY DEF Message
      <3> QED BY <3>2, <3>3 DEF Completing
    <2> QED BY <2>2, <2>3, <2>4 DEF Told
  <1>5. CASE \/ Flush \/ FlushFails \/ SetTarget \/ LoopAround \/ EndReached \/ DelayOver \/ ReadPacket \/ Decode
            \/ QueuePicture \/ DropFrame \/ ChooseFrame
    <2>1. UNCHANGED <<play, state, start_on_prepared, msgs>>
      BY <1>5 DEF Flush, FlushFails, SetTarget, LoopAround, EndReached, DelayOver, ReadPacket, Decode,
                  QueuePicture, DropFrame, ChooseFrame, appVars, showVars, modeVars
    <2>2. (is_seek_req \/ reader \in {"seeking", "sought", "ended"}) => (is_seek_req' \/ reader' \in {"seeking", "sought", "ended"})
      BY <1>5 DEF Flush, FlushFails, SetTarget, LoopAround, EndReached, DelayOver, ReadPacket, Decode,
                  QueuePicture, DropFrame, ChooseFrame, seekVars
    <2>3. reader # "opening"
      BY <1>5 DEF Flush, FlushFails, SetTarget, LoopAround, EndReached, DelayOver, ReadPacket, Decode,
                  QueuePicture, DropFrame, ChooseFrame, NoFrames
    <2> QED BY <2>1, <2>2, <2>3, SameAsked DEF Resumes, Completing
  <1>6. CASE UNCHANGED vars
    BY <1>6 DEF vars, Told, Resumes, Completing, appVars, seekVars, showVars, modeVars
  <1> QED BY <1>1, <1>2, <1>3, <1>4, <1>5, <1>6 DEF ReaderNext, SeekNext, FrameNext

\* The newest seek waits in the queue, for the stream, or for a player that is gone.
Asked == \E m \in In(msgs) : m.what = "REQ_SEEK"
AtStart == state = "INITIALIZED" \/ reader = "opening"
Dead == ~listening /\ state \notin {"INITIALIZED", "STOPPED"}

\* Requests carry the number of a call; one that waits in the queue is the newest.
Ids ==
    /\ newest \in 0..calls /\ is_seek_pos.id <= calls
    /\ seek_at_start # None => seek_at_start.id <= calls
    /\ \A m \in In(msgs) : m.what = "REQ_SEEK" => m.req.id = newest
    /\ \A m \in In(msgs) : m.what = "REQ_STOP" => newest = 0
    /\ state = "STOPPED" => newest = 0
    /\ AtStart /\ newest > 0 => seek_at_start # None /\ seek_at_start.id = newest

\* Where the newest seek is until it is answered; what is under way when it has
\* been overtaken by no other is that seek or the player's own.
Served ==
    /\ newest > 0 /\ ~overtaken /\ ~answered =>
          \/ Asked \/ AtStart \/ Dead
          \/ is_seek_req /\ is_seek_pos.id = newest
          \/ Taken /\ target.id = newest
    /\ newest > 0 /\ ~overtaken /\ Taken /\ is_seek_req /\ is_seek_pos.id = newest => target.id = newest
    /\ newest > 0 /\ ~overtaken /\ answered =>
          /\ is_seek_req => is_seek_pos.id \in {0, newest}
          /\ Taken => target.id \in {0, newest}

\* A call makes its seek the newest, and waits for it.
LEMMA CallsServed == Typed /\ Control /\ Ids /\ Served /\ AppNext => Ids' /\ Served'
  <1> SUFFICES ASSUME Typed, Control, Ids, Served, AppNext PROVE Ids' /\ Served' OBVIOUS
  <1> USE DEF AtStart, Taken
  <1>0. /\ msgs \in Seq(Messages) /\ calls \in Nat /\ is_seek_pos.id \in Nat /\ target.id \in Nat
        /\ seek_at_start # None => seek_at_start.id \in Nat
    BY SeekAssumption DEF Typed, CallsTyped, Requests
  <1>1. ASSUME NEW t \in 0..End, SeekTo(t) PROVE Ids' /\ Served'
    <2> DEFINE req == [to |-> t, id |-> calls + 1]
    <2>1. calls' \in 0..MaxCalls /\ calls' = calls + 1 /\ newest' = calls + 1 /\ ~answered'
      BY <1>1, SeekAssumption DEF SeekTo, Calling, CallsTyped, Typed
    <2>2. req \in Requests /\ req.id = newest' BY <1>1, <2>1 DEF Requests
    <2>20. req # None BY <2>1, <2>2, SeekAssumption DEF Requests
    <2>3. Message("REQ_SEEK", req).what = "REQ_SEEK" /\ Message("REQ_SEEK", req).req = req BY DEF Message
    <2>4. In(Append(Without({"REQ_SEEK"}), Message("REQ_SEEK", req))) =
              {m \in In(msgs) : m.what \notin {"REQ_SEEK"}} \cup {Message("REQ_SEEK", req)}
      BY <1>0, <2>2, CallSent, KindsAreNames DEF Kinds
    <2>5. state \notin {"STOPPED", "ASYNC_PREPARING"} /\ state' = state /\ reader' = reader /\ listening' = listening
      BY <1>1 DEF SeekTo, Calling
    <2>6. reader # "opening" /\ (listening => reader # "none") BY <1>1, <2>5 DEF Control, SeekTo, Calling
    <2>7. CASE state = "INITIALIZED"
      <3>1. seek_at_start' = req /\ msgs' = msgs /\ msgs = <<>> /\ is_seek_req' = is_seek_req /\ ~is_seek_req /\ reader = "none"
            /\ is_seek_pos' = is_seek_pos
        BY <1>1, <2>7 DEF SeekTo, Control, seekVars
      <3>2. Ids' BY <1>0, <2>1, <2>2, <2>20, <2>5, <3>1, InNone DEF Ids
      <3>3. Served' BY <2>7, <2>1, <2>5, <3>1 DEF Served
      <3> QED BY <3>2, <3>3
    <2>8. CASE state # "INITIALIZED"
      <3>1. /\ UNCHANGED <<seek_at_start, is_seek_req, is_seek_pos, target, reader>>
            /\ msgs' = IF listening THEN Append(Without({"REQ_SEEK"}), Message("REQ_SEEK", req)) ELSE msgs
        BY <1>1, <2>8 DEF SeekTo, seekVars, readVars
      <3>2. /\ \A m \in In(msgs') : m.what # "REQ_STOP"
            /\ \A m \in In(msgs') : m.what = "REQ_SEEK" => m.req.id = newest'
            /\ listening => Asked'
        <4>1. CASE listening
          <5>1. \A m \in In(msgs) : m.what # "REQ_STOP" BY <2>6, <4>1 DEF Control
          <5>2. In(msgs') = {m \in In(msgs) : m.what \notin {"REQ_SEEK"}} \cup {Message("REQ_SEEK", req)}
            BY <2>4, <3>1, <4>1
          <5> HIDE DEF req
          <5> QED BY <2>2, <2>3, <5>1, <5>2 DEF Asked
        <4>2. CASE ~listening
          <5>1. In(msgs') = {} BY <3>1, <4>2, InNone DEF Control
          <5> QED BY <4>2, <5>1
        <4> QED BY <4>1, <4>2
      <3>3. Ids' BY <1>0, <2>1, <2>5, <2>6, <2>8, <3>1, <3>2 DEF Ids
      <3>4. is_seek_pos'.id # newest' BY <1>0, <2>1, <3>1 DEF Ids
      <3>5. Asked' \/ Dead' BY <2>5, <2>8, <3>2 DEF Dead
      <3>6. Served' BY <2>1, <3>4, <3>5 DEF Served
      <3> QED BY <3>3, <3>6
    <2> QED BY <2>7, <2>8
  <1>2. ASSUME NEW what \in {"REQ_START", "REQ_PAUSE"}, StartOrPause(what) PROVE Ids' /\ Served'
    <2>1. In(msgs') = {m \in In(msgs) : m.what \notin {"REQ_START", "REQ_PAUSE"}} \cup {Message(what, ToStart)}
      BY <1>0, <1>2, CallSent, KindsAreNames, MessageTyped DEF StartOrPause, Kinds
    <2>2. Message(what, ToStart).what = what BY DEF Message
    <2>3. Asked => Asked' BY <2>1 DEF Asked
    <2>4. \A m \in In(msgs') : m.what \in {"REQ_SEEK", "REQ_STOP"} => m \in In(msgs) BY <2>1, <2>2
    <2>5. calls' = calls + 1 /\ UNCHANGED <<newest, answered, overtaken, state, reader, listening, seek_at_start, is_seek_req, is_seek_pos, target>>
      BY <1>2 DEF StartOrPause, Calling, seekVars, readVars, ghostVars
    <2>6. Ids' BY <1>0, <2>4, <2>5 DEF Ids
    <2>7. Served' BY <2>3, <2>5 DEF Served, Dead
    <2> QED BY <2>6, <2>7
  <1>3. CASE Stop
    <2>1. In(msgs') = {m \in In(msgs) : m.what \notin {"REQ_START", "REQ_PAUSE", "REQ_SEEK"}} \cup {Message("REQ_STOP", ToStart)}
      BY <1>0, <1>3, CallSent, KindsAreNames, MessageTyped DEF Stop, Kinds
    <2>2. Message("REQ_STOP", ToStart).what = "REQ_STOP" BY DEF Message
    <2>3. newest' = 0 /\ calls' = calls + 1 /\ is_seek_pos' = is_seek_pos /\ seek_at_start' = seek_at_start
      BY <1>3 DEF Stop, Calling, seekVars
    <2>4. \A m \in In(msgs') : m.what # "REQ_SEEK" BY <2>1, <2>2
    <2>5. Ids' BY <1>0, <2>3, <2>4 DEF Ids
    <2>6. Served' BY <2>3 DEF Served
    <2> QED BY <2>5, <2>6
  <1>4. CASE Prepare
    <2>1. In(msgs') = {} /\ reader' = "opening" /\ ~is_seek_req' /\ state' = "ASYNC_PREPARING"
      BY <1>4, InNone DEF Prepare
    <2>2. UNCHANGED <<calls, newest, answered, overtaken, seek_at_start, is_seek_pos, target>>
      BY <1>4 DEF Prepare, ghostVars
    <2>3. newest > 0 => state = "INITIALIZED" BY <1>4 DEF Prepare, Ids
    <2>4. Ids' BY <2>1, <2>2, <2>3 DEF Ids
    <2>5. Served' BY <2>1, <2>2 DEF Served
    <2> QED BY <2>4, <2>5
  <1> QED BY <1>1, <1>2, <1>3, <1>4 DEF AppNext

\* The message thread hands it to the stream, or overtakes it.
LEMMA MessagesServed == Typed /\ Control /\ Ids /\ Served /\ MessageNext => Ids' /\ Served'
  <1> SUFFICES ASSUME Typed, Control, Ids, Served, MessageNext PROVE Ids' /\ Served' OBVIOUS
  <1> USE DEF AtStart, Taken
  <1>0. /\ msgs \in Seq(Messages) /\ calls \in Nat /\ is_seek_pos.id \in Nat /\ target.id \in Nat
        /\ seek_at_start # None => seek_at_start.id \in Nat
    BY SeekAssumption DEF Typed, CallsTyped, Requests
  <1>1. ASSUME NEW what \in Kinds, Handling(what)
        PROVE  /\ In(msgs') \subseteq In(msgs) /\ Head(msgs) \in In(msgs) /\ Head(msgs).what = what
               /\ what # "REQ_SEEK" => Asked' = Asked
               /\ listening /\ state # "INITIALIZED" /\ reader # "opening"
    <2>1. /\ msgs # <<>> /\ Head(msgs).what = what /\ Head(msgs) \in In(msgs)
          /\ In(msgs') \subseteq In(msgs) /\ In(msgs) = In(msgs') \cup {Head(msgs)}
      BY <1>0, <1>1, HandlingSent
    <2>2. what # "REQ_SEEK" => (Asked' <=> Asked) BY <2>1 DEF Asked
    <2> QED BY <2>1, <2>2 DEF Control, Asked
  <1>2. ASSUME NEW what \in Kinds, Handling(what), what # "REQ_SEEK",
               UNCHANGED <<calls, listening, seek_at_start, reader, is_seek_req, is_seek_pos, target, newest, answered, overtaken>>,
               state' = state \/ state' \in {"STARTED", "PAUSED", "COMPLETED"}
        PROVE  Ids' /\ Served'
    <2>1. /\ In(msgs') \subseteq In(msgs) /\ Asked' = Asked
          /\ listening /\ state # "INITIALIZED" /\ reader # "opening"
      BY <1>1, <1>2
    <2>2. Ids' BY <1>2, <2>1 DEF Ids
    <2>3. Served' BY <1>2, <2>1 DEF Served, Dead
    <2> QED BY <2>2, <2>3
  <1>3. CASE HandlePrepared
    BY <1>2, <1>3 DEF HandlePrepared, seekVars, readVars, ghostVars, Kinds
  <1>4. CASE HandleCompleted
    BY <1>2, <1>4 DEF HandleCompleted, seekVars, readVars, ghostVars, Kinds
  <1>5. CASE HandleSeekComplete
    BY <1>2, <1>5 DEF HandleSeekComplete, seekVars, readVars, ghostVars, Kinds
  <1>6. CASE HandlePause
    BY <1>2, <1>6 DEF HandlePause, seekVars, readVars, ghostVars, Kinds
  <1>7. CASE HandleStart
    <2>1. CASE from_beginning
      <3>1. /\ is_seek_pos' = ToStart /\ is_seek_req' = TRUE /\ state' = "STARTED"
            /\ overtaken' = (overtaken \/ is_seek_req \/ Taken)
            /\ UNCHANGED <<calls, listening, seek_at_start, reader, target, newest, answered>>
        BY <1>7, <2>1 DEF HandleStart, readVars
      <3>2. /\ In(msgs') \subseteq In(msgs) /\ Asked' = Asked /\ listening /\ state # "INITIALIZED" /\ reader # "opening"
        BY <1>1, <1>7 DEF HandleStart, Kinds
      <3>3. is_seek_pos'.id = 0 BY <3>1 DEF ToStart
      <3>4. Ids' BY <1>0, <3>1, <3>2, <3>3 DEF Ids
      <3>5. Served' BY <3>1, <3>2, <3>3 DEF Served, Dead
      <3> QED BY <3>4, <3>5
    <2>2. CASE ~from_beginning
      BY <1>2, <1>7, <2>2 DEF HandleStart, seekVars, readVars, Kinds
    <2> QED BY <2>1, <2>2
  <1>8. CASE HandleSeek
    <2>1. /\ is_seek_pos' = Head(msgs).req /\ is_seek_req' = TRUE
          /\ overtaken' = (overtaken \/ Taken)
          /\ UNCHANGED <<calls, listening, state, seek_at_start, reader, target, newest, answered>>
      BY <1>8 DEF HandleSeek, StreamSeek, readVars
    <2>2. /\ In(msgs') \subseteq In(msgs) /\ Head(msgs) \in In(msgs) /\ Head(msgs).what = "REQ_SEEK"
      BY <1>1, <1>8 DEF HandleSeek, Kinds
    <2>3. is_seek_pos'.id = newest BY <2>1, <2>2 DEF Ids
    <2>4. Ids' BY <1>0, <2>1, <2>2, <2>3 DEF Ids
    <2>5. Served' BY <2>1, <2>3 DEF Served
    <2> QED BY <2>4, <2>5
  <1>9. CASE HandleStop
    <2>1. Head(msgs) \in In(msgs) /\ In(msgs') = {} BY <1>0, <1>9, InTail, InNone DEF HandleStop
    <2>2. newest = 0 BY <1>9, <2>1 DEF HandleStop, Ids
    <2>3. UNCHANGED <<calls, state, seek_at_start, is_seek_pos, newest, reader>>
      BY <1>9 DEF HandleStop, seekVars, ghostVars
    <2>4. Ids' BY <2>1, <2>2, <2>3 DEF Ids
    <2>5. Served' BY <2>2, <2>3 DEF Served
    <2> QED BY <2>4, <2>5
  <1> QED BY <1>3, <1>4, <1>5, <1>6, <1>7, <1>8, <1>9 DEF MessageNext

\* The stream takes it, and answers it when it sets the target.
LEMMA StreamServed == Typed /\ NoFrames /\ Control /\ Ids /\ Served /\ (ReaderNext \/ FrameNext \/ UNCHANGED vars) => Ids' /\ Served'
  <1> SUFFICES ASSUME Typed, NoFrames, Control, Ids, Served, ReaderNext \/ FrameNext \/ UNCHANGED vars PROVE Ids' /\ Served' OBVIOUS
  <1> USE DEF AtStart, Taken
  <1>0. /\ msgs \in Seq(Messages) /\ calls \in Nat /\ is_seek_pos.id \in Nat /\ target.id \in Nat /\ newest \in Nat
        /\ seek_at_start # None => seek_at_start.id \in Nat
    BY SeekAssumption DEF Typed, CallsTyped, Requests, Ids
  <1>1. ASSUME NEW what \in Kinds, Post(what), what \notin {"REQ_SEEK", "REQ_STOP"}
        PROVE  /\ Asked' = Asked /\ \A m \in In(msgs') : m.what \in {"REQ_SEEK", "REQ_STOP"} => m \in In(msgs)
    <2>1. Message(what, ToStart).what = what BY DEF Message
    <2>2. In(msgs') \subseteq In(msgs) \cup {Message(what, ToStart)} BY <1>0, <1>1, PostSent
    <2>3. In(msgs') = In(msgs) \cup {Message(what, ToStart)} \/ msgs' = msgs BY <1>0, <1>1, PostSent DEF Post
    <2>4. Asked' <=> Asked BY <1>1, <2>1, <2>3 DEF Asked
    <2> QED BY <1>1, <2>1, <2>2, <2>4 DEF Asked
  <1>2. ASSUME UNCHANGED <<calls, listening, state, seek_at_start, is_seek_req, is_seek_pos, target, newest, answered, overtaken>>,
               Asked' = Asked, \A m \in In(msgs') : m.what \in {"REQ_SEEK", "REQ_STOP"} => m \in In(msgs),
               Taken' = Taken, AtStart' = AtStart
        PROVE  Ids' /\ Served'
    <2>1. Ids' BY <1>2 DEF Ids
    <2>2. Served' BY <1>2 DEF Served, Dead
    <2> QED BY <2>1, <2>2
  <1>3. CASE Open
    <2>1. UNCHANGED <<calls, listening, state, seek_at_start, target, newest, answered, msgs>>
          /\ reader = "opening" /\ reader' = "read" /\ state # "INITIALIZED"
      BY <1>3 DEF Open, appVars, readVars, Control
    <2>2. CASE seek_at_start = None
      <3>1. UNCHANGED <<is_seek_req, is_seek_pos, overtaken>> BY <1>3, <2>2 DEF Open, seekVars
      <3>2. newest = 0 BY <1>0, <2>1, <2>2 DEF Ids
      <3>3. Ids' BY <2>1, <3>1, <3>2 DEF Ids
      <3>4. Served' BY <2>1, <3>2 DEF Served
      <3> QED BY <3>3, <3>4
    <2>3. CASE seek_at_start # None
      <3>1. is_seek_pos' = seek_at_start /\ is_seek_req' = TRUE /\ overtaken' = (overtaken \/ Taken)
        BY <1>3, <2>3 DEF Open, StreamSeek
      <3>2. newest > 0 => is_seek_pos'.id = newest BY <2>1, <3>1 DEF Ids
      <3>3. Ids' BY <2>1, <2>3, <3>1, <3>2 DEF Ids
      <3>4. Served' BY <2>1, <3>1, <3>2 DEF Served
      <3> QED BY <3>3, <3>4
    <2> QED BY <2>2, <2>3
  <1>4. CASE SeekBegins
    <2>1. UNCHANGED <<calls, listening, state, seek_at_start, is_seek_req, is_seek_pos, newest, answered, overtaken, msgs>>
          /\ is_seek_req /\ target' = is_seek_pos /\ reader \in {"read", "delaying"} /\ reader' \in {"sought", "seeking"}
      BY <1>4 DEF SeekBegins, appVars, seekVars
    <2>2. Ids' BY <2>1 DEF Ids
    <2>3. Asked' = Asked /\ Dead' = Dead BY <2>1 DEF Asked, Dead
    <2>4. Served' BY <2>1, <2>3 DEF Served
    <2> QED BY <2>2, <2>4
  <1>5. CASE SetTarget
    <2>1. /\ UNCHANGED <<calls, listening, state, seek_at_start, is_seek_pos, newest, overtaken, msgs>>
          /\ ~is_seek_req' /\ reader = "sought" /\ reader' = "ended"
          /\ answered' = (target.id = newest \/ (target.id = 0 /\ answered))
      BY <1>5 DEF SetTarget, appVars
    <2>2. Ids' BY <2>1 DEF Ids
    <2>3. Asked' = Asked /\ Dead' = Dead BY <2>1 DEF Asked, Dead
    <2>4. Served' BY <2>1, <2>3 DEF Served
    <2> QED BY <2>2, <2>4
  <1>6. CASE LoopAround
    <2>1. /\ UNCHANGED <<calls, listening, state, seek_at_start, target, newest, answered, msgs, reader>>
          /\ is_seek_req' = TRUE /\ reader = "read" /\ overtaken' = (overtaken \/ is_seek_req) /\ is_seek_pos'.id = 0
      BY <1>6 DEF LoopAround, appVars, ToStart
    <2>2. Ids' BY <1>0, <2>1 DEF Ids
    <2>3. Asked' = Asked /\ Dead' = Dead BY <2>1 DEF Asked, Dead
    <2>4. Served' BY <2>1, <2>3 DEF Served
    <2> QED BY <2>2, <2>4
  <1>7. CASE SeekEnds
    <2>1. UNCHANGED <<calls, listening, state, seek_at_start, is_seek_req, is_seek_pos, target, newest, answered, overtaken>>
          /\ reader = "ended" /\ reader' = "read" /\ Post("SEEK_COMPLETE")
      BY <1>7 DEF SeekEnds, appVars, seekVars, readVars, ghostVars
    <2> QED BY <1>1, <1>2, <2>1 DEF Kinds
  <1>8. CASE Complete
    <2>1. UNCHANGED <<calls, listening, state, seek_at_start, is_seek_req, is_seek_pos, target, newest, answered, overtaken>>
          /\ reader = "completing" /\ reader' = "read" /\ Post("COMPLETED")
      BY <1>8 DEF Complete, appVars, seekVars, ghostVars
    <2> QED BY <1>1, <1>2, <2>1 DEF Kinds
  <1>9. CASE ShowFrame
    <2>1. UNCHANGED <<calls, listening, state, seek_at_start, is_seek_req, is_seek_pos, target, newest, answered, overtaken, reader>>
      BY <1>9 DEF ShowFrame, appVars, seekVars, readVars
    <2>2. msgs' = msgs \/ Post("PREPARED") BY <1>9 DEF ShowFrame
    <2> QED BY <1>1, <1>2, <2>1, <2>2 DEF Kinds, Asked
  <1>10. CASE \/ Flush \/ FlushFails \/ EndReached \/ DelayOver \/ ReadPacket \/ BufferingEnds
              \/ BufferingStarts \/ Decode \/ QueuePicture \/ DropFrame \/ ChooseFrame
    <2>1. UNCHANGED <<calls, listening, state, seek_at_start, is_seek_req, is_seek_pos, target, newest, answered, overtaken, msgs>>
      BY <1>10 DEF Flush, FlushFails, EndReached, DelayOver, ReadPacket, BufferingEnds, BufferingStarts, Decode,
                   QueuePicture, DropFrame, ChooseFrame, appVars, seekVars, readVars, ghostVars
    <2>2. (Taken' <=> Taken) /\ (AtStart' <=> AtStart)
      BY <1>10, <2>1 DEF Flush, FlushFails, EndReached, DelayOver, ReadPacket, BufferingEnds, BufferingStarts, Decode,
                   QueuePicture, DropFrame, ChooseFrame
    <2>3. Taken' = Taken /\ AtStart' = AtStart /\ Asked' = Asked BY <2>1, <2>2 DEF Asked
    <2>4. \A m \in In(msgs') : m.what \in {"REQ_SEEK", "REQ_STOP"} => m \in In(msgs) BY <2>1
    <2> QED BY <1>2, <2>1, <2>3, <2>4
  <1>11. CASE UNCHANGED vars
    <2>1. UNCHANGED <<calls, listening, state, seek_at_start, is_seek_req, is_seek_pos, target, newest, answered, overtaken, msgs, reader>>
      BY <1>11 DEF vars, appVars, seekVars, readVars, ghostVars
    <2> QED BY <1>2, <2>1 DEF Asked
  <1> QED BY <1>3, <1>4, <1>5, <1>6, <1>7, <1>8, <1>9, <1>10, <1>11 DEF ReaderNext, SeekNext, FrameNext

-----------------------------------------------------------------------------

\* The inductive invariant of both theorems.
SInv == Typed /\ NoFrames /\ Control /\ Unprepared /\ StillAhead /\ Ordered /\ Told /\ Ids /\ Served

LEMMA InitSInv == Init => SInv
  <1> SUFFICES ASSUME Init PROVE SInv OBVIOUS
  <1>0. End \in Nat /\ MaxCalls \in Nat /\ 0 < End BY SeekAssumption
  <1>1. Typed /\ In(msgs) = {} BY InitTyped, InNone DEF Init
  <1>2. NoFrames /\ Control /\ Unprepared BY <1>1 DEF Init, NoFrames, Control, Unprepared
  <1>3. StillAhead BY <1>0 DEF Init, StillAhead
  <1>4. Ordered BY DEF Init, Ordered
  <1>5. Told BY DEF Init, Told
  <1>6. Ids /\ Served BY <1>0, <1>1 DEF Init, Ids, Served, ToStart, AtStart, Taken
  <1> QED BY <1>1, <1>2, <1>3, <1>4, <1>5, <1>6 DEF SInv

LEMMA NextSInv == SInv /\ [Next]_vars => SInv'
  <1> SUFFICES ASSUME SInv, [Next]_vars PROVE SInv' OBVIOUS
  <1> USE DEF SInv
  <1>1. Typed' /\ NoFrames' /\ StillAhead' /\ Ordered'
    BY NextTyped, NoFramesNext, StillAheadNext, OrderedNext
  <1>2. CASE AppNext
    BY <1>1, <1>2, AppControl, AppTold, CallsServed
  <1>3. CASE MessageNext
    BY <1>1, <1>3, MessageControl, MessageTold, MessagesServed
  <1>4. CASE ReaderNext
    BY <1>1, <1>4, ReaderControl, StreamTold, StreamServed
  <1>5. CASE FrameNext \/ UNCHANGED vars
    BY <1>1, <1>5, FrameControl, StreamTold, StreamServed
  <1> QED BY <1>2, <1>3, <1>4, <1>5 DEF Next

\* The newest target asked for is served once all is at rest, for every number
\* and order of calls, completions and loops, unless the request was overtaken.
THEOREM NewestIsServed == Spec => []NewestServed
  <1>1. SInv => NewestServed
    <2> SUFFICES ASSUME SInv, AtRest, newest > 0, ~overtaken PROVE answered BY DEF NewestServed
    <2>1. In(msgs) = {} /\ reader = "read" /\ ~is_seek_req BY InNone DEF AtRest
    <2>2. ~Asked /\ ~AtStart /\ ~Dead /\ ~Taken
      BY <2>1 DEF SInv, Control, Asked, AtStart, Dead, Taken
    <2> QED BY <2>1, <2>2 DEF SInv, Served
  <1> QED BY <1>1, InitSInv, NextSInv, PTL DEF Spec

\* At rest the state told to the application agrees with the stream's pause
\* request, whatever the order of starts, pauses, seeks and completions.
THEOREM StateIsTold == Spec => []StateTold
  <1>1. SInv => StateTold
    <2> SUFFICES ASSUME SInv, AtRest PROVE StateTold BY DEF StateTold
    <2>1. In(msgs) = {} /\ reader = "read" /\ ~is_seek_req BY InNone DEF AtRest
    <2>2. ~Completing /\ ~Resumes BY <2>1 DEF Completing, Resumes
    <2>3. state = "STARTED" => ~play.pause_req BY <2>2 DEF SInv, Told
    <2>4. state = "PAUSED" => play.pause_req BY DEF SInv, Told
    <2> QED BY <2>3, <2>4 DEF StateTold
  <1> QED BY <1>1, InitSInv, NextSInv, PTL DEF Spec
=============================================================================
