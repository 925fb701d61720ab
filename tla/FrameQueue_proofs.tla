-------------------------- MODULE FrameQueue_proofs --------------------------
(* The ring of FrameQueue, for every size of it, implements the queue of    *)
(* FrameFifo; the decoder writes to a slot nobody else looks at; and one    *)
(* condition variable is enough for both threads.                           *)
EXTENDS FrameQueue, TLAPS

-----------------------------------------------------------------------------
(* Arithmetic of the ring: all indices stay below 2 * MaxSize before the    *)
(* remainder is taken.                                                      *)

\* The remainder is one subtraction at most.
LEMMA ModOnce ==
    ASSUME NEW m \in Nat, m >= 1, NEW x \in 0..2 * m - 1
    PROVE  x % m = IF x < m THEN x ELSE x - m
  BY SMT

LEMMA RingOnce ==
    \A x \in 0..2 * MaxSize - 1 : x % MaxSize = IF x < MaxSize THEN x ELSE x - MaxSize
  <1>1. MaxSize \in Nat /\ MaxSize >= 1 BY QueueAssumption
  <1> QED BY <1>1, ModOnce

\* A slot is one of the ring.
LEMMA SlotInRing ==
    ASSUME NEW r \in 0..MaxSize - 1, NEW k \in 0..MaxSize
    PROVE  (r + k) % MaxSize \in 0..MaxSize - 1
  <1>1. r + k \in 0..2 * MaxSize - 1 BY QueueAssumption
  <1> QED BY <1>1, RingOnce, QueueAssumption

\* Two places of one round are two slots.
LEMMA SlotsDiffer ==
    ASSUME NEW r \in 0..MaxSize - 1, NEW j \in 0..MaxSize - 1, NEW k \in 0..MaxSize - 1, j # k
    PROVE  (r + j) % MaxSize # (r + k) % MaxSize
  <1>1. r + j \in 0..2 * MaxSize - 1 /\ r + k \in 0..2 * MaxSize - 1 BY QueueAssumption
  <1>2. (r + j) % MaxSize = IF r + j < MaxSize THEN r + j ELSE r + j - MaxSize
    BY <1>1, RingOnce, QueueAssumption
  <1>3. (r + k) % MaxSize = IF r + k < MaxSize THEN r + k ELSE r + k - MaxSize
    BY <1>1, RingOnce, QueueAssumption
  <1> QED BY <1>2, <1>3, QueueAssumption

\* Advancing the read index moves every place by one, and so does advancing a slot.
LEMMA AdvanceMoves ==
    ASSUME NEW r \in 0..MaxSize - 1, NEW k \in 0..MaxSize - 1
    PROVE  /\ Advance(r) \in 0..MaxSize - 1
           /\ (Advance(r) + k) % MaxSize = (r + (k + 1)) % MaxSize
           /\ Advance((r + k) % MaxSize) = (r + (k + 1)) % MaxSize
  <1>1. r + k \in 0..2 * MaxSize - 1 /\ r + (k + 1) \in 0..2 * MaxSize - 1 BY QueueAssumption
  <1>2. Advance(r) \in 0..MaxSize - 1 /\ Advance(r) + k \in 0..2 * MaxSize - 1
    BY QueueAssumption DEF Advance
  <1>3. (r + k) % MaxSize = IF r + k < MaxSize THEN r + k ELSE r + k - MaxSize
    BY <1>1, RingOnce, QueueAssumption
  <1>4. (r + (k + 1)) % MaxSize = IF r + (k + 1) < MaxSize THEN r + (k + 1) ELSE r + (k + 1) - MaxSize
    BY <1>1, RingOnce, QueueAssumption
  <1>5. (Advance(r) + k) % MaxSize = IF Advance(r) + k < MaxSize THEN Advance(r) + k ELSE Advance(r) + k - MaxSize
    BY <1>2, RingOnce, QueueAssumption
  <1> QED BY <1>2, <1>3, <1>4, <1>5, QueueAssumption DEF Advance

\* The first place is the read index itself.
LEMMA SlotZero ==
    ASSUME NEW r \in 0..MaxSize - 1
    PROVE  (r + 0) % MaxSize = r
  BY RingOnce, QueueAssumption

-----------------------------------------------------------------------------
(* The inductive invariant.                                                 *)

\* Slots taken up, the one that is being pushed included.
Taken == IF writer = "pushing" THEN Held + 1 ELSE Held

\* The write index is where the frames end.
IndicesAgree == Taken \in 0..MaxSize /\ windex = Slot(Taken)

\* A writer that holds a slot has found room, a reader that holds a frame has found one.
RoomFound == writer \in {"writing", "written", "pushing"} => size < MaxSize
FrameFound ==
    /\ reader \in {"reading", "dropping"} => size > rindex_shown
    /\ reader = "dropping" /\ keep_last => rindex_shown = 1

ShownKept == rindex_shown = 1 => keep_last /\ Held >= 1

\* Every place behind the read index holds a frame.
Filled ==
    /\ \A k \in 0..MaxSize - 1 : k < Taken => slots[Slot(k)] \in Frames
    /\ writer = "written" => slots[windex] \in Frames

\* A thread waits only outside its operation, and for what is still missing.
WaitsRightly ==
    /\ "writer" \in waiting => writer = "out" /\ size = MaxSize
    /\ "reader" \in waiting => reader = "out" /\ size <= rindex_shown

IInv == TypeOK /\ IndicesAgree /\ RoomFound /\ FrameFound /\ ShownKept /\ Filled /\ WaitsRightly

\* Checked facts that every step below uses.
LEMMA HeldType ==
    ASSUME IInv
    PROVE  /\ Held \in 0..MaxSize /\ Taken \in 0..MaxSize
           /\ writer \in {"writing", "written"} => Held < MaxSize
           /\ writer = "pushing" => Taken = Held + 1
           /\ writer # "pushing" => Taken = Held
  BY QueueAssumption DEF IInv, TypeOK, IndicesAgree, RoomFound, FrameFound, Held, Taken

LEMMA InitIInv == Init => IInv
  <1> SUFFICES ASSUME Init PROVE IInv OBVIOUS
  <1>1. TypeOK
    <2>1. slots \in [0..MaxSize - 1 -> Frames \cup {NoFrame}] BY DEF Init
    <2>2. rindex = 0 /\ windex = 0 /\ size = 0 BY DEF Init
    <2>3. rindex \in 0..MaxSize - 1 /\ windex \in 0..MaxSize - 1 /\ size \in 0..MaxSize
      BY <2>2, QueueAssumption
    <2>4. keep_last \in BOOLEAN /\ aborted \in BOOLEAN /\ waiting \subseteq {"writer", "reader"}
      BY DEF Init
    <2>5. rindex_shown = 0 /\ writer = "out" /\ reader = "out" BY DEF Init
    <2>6. rindex_shown \in 0..1 BY <2>5
    <2> QED BY <2>1, <2>3, <2>4, <2>5, <2>6, Zenon DEF TypeOK
  <1>2. Held = 0 /\ Taken = 0 BY DEF Init, Held, Taken
  <1>3. IndicesAgree
    <2>1. Slot(0) = 0 BY SlotZero, QueueAssumption DEF Slot, Init
    <2> QED BY <1>2, <2>1, QueueAssumption DEF IndicesAgree, Init
  <1>4. RoomFound /\ FrameFound /\ ShownKept /\ WaitsRightly
    BY QueueAssumption DEF Init, RoomFound, FrameFound, ShownKept, WaitsRightly
  <1>5. Filled BY <1>2, QueueAssumption DEF Filled, Init
  <1> QED BY <1>1, <1>3, <1>4, <1>5 DEF IInv

\* SDL_CondSignal only takes threads out of the wait.
LEMMA SignalWakes ==
    ASSUME IInv, Signal
    PROVE  waiting' \subseteq waiting /\ waiting' = {}
  <1>1. waiting # {"writer", "reader"}
    BY QueueAssumption DEF IInv, WaitsRightly, TypeOK
  <1>2. waiting = {} \/ waiting = {"writer"} \/ waiting = {"reader"}
    BY <1>1 DEF IInv, TypeOK
  <1> QED BY <1>2 DEF Signal

-----------------------------------------------------------------------------
(* One step per operation.                                                  *)

\* The operations that leave the ring alone: looking for room or for a frame, giving up
\* a slot, the abort.
LEMMA QuietSteps ==
    ASSUME IInv, PeekWritable \/ GiveUp \/ Poll \/ PeekReadable \/ Abort \/ UNCHANGED vars
    PROVE  IInv'
  <1> USE DEF IInv
  <1>1. UNCHANGED <<slots, indexVars, keep_last>>
    BY DEF PeekWritable, GiveUp, Poll, PeekReadable, Abort, vars
  <1>2. reader' = "dropping" <=> reader = "dropping"
    BY DEF PeekWritable, GiveUp, Poll, PeekReadable, Abort, vars
  <1>3. writer' = "pushing" <=> writer = "pushing"
    BY DEF PeekWritable, GiveUp, Poll, PeekReadable, Abort, vars
  <1>4. Held' = Held /\ Taken' = Taken BY <1>1, <1>2, <1>3 DEF Held, Taken, indexVars
  <1>5. waiting' \subseteq {"writer", "reader"} /\ (Abort => waiting' \subseteq waiting)
    BY SignalWakes DEF PeekWritable, GiveUp, Poll, PeekReadable, Abort, vars, TypeOK
  <1>6. TypeOK'
    BY <1>1, <1>5 DEF TypeOK, indexVars, PeekWritable, GiveUp, Poll, PeekReadable, Abort, vars
  <1>7. IndicesAgree' BY <1>1, <1>4 DEF IndicesAgree, Slot, indexVars
  <1>8. RoomFound'
    BY <1>1, QueueAssumption
    DEF RoomFound, TypeOK, indexVars, PeekWritable, Full, GiveUp, Poll, PeekReadable, Abort, vars
  <1>9. FrameFound'
    BY <1>1, QueueAssumption
    DEF FrameFound, TypeOK, Remaining, indexVars, PeekWritable, GiveUp, Poll, PeekReadable, Abort, vars
  <1>10. ShownKept' BY <1>1, <1>4 DEF ShownKept, indexVars
  <1>11. Filled'
    <2>1. writer' = "written" => writer = "written"
      BY DEF PeekWritable, GiveUp, Poll, PeekReadable, Abort, vars
    <2> QED BY <1>1, <1>4, <2>1 DEF Filled, Slot, indexVars
  <1>12. WaitsRightly'
    BY <1>1, <1>5, QueueAssumption
    DEF WaitsRightly, TypeOK, Full, Remaining, indexVars, PeekWritable, GiveUp, Poll, PeekReadable, Abort, vars
  <1> QED BY <1>6, <1>7, <1>8, <1>9, <1>10, <1>11, <1>12

LEMMA WriteStep ==
    ASSUME IInv, Write
    PROVE  IInv' /\ \A k \in 0..Held - 1 : slots'[Slot(k)] = slots[Slot(k)]
  <1> USE DEF IInv
  <1>0. PICK x \in Frames : slots' = [slots EXCEPT ![windex] = x] BY DEF Write
  <1>1. UNCHANGED <<indexVars, keep_last, aborted, waiting, reader>> /\ writer = "writing" /\ writer' = "written"
    BY DEF Write
  <1>2. Held' = Held /\ Taken' = Taken /\ Taken = Held BY <1>1 DEF Held, Taken, indexVars
  <1>3. Held \in 0..MaxSize - 1 BY <1>1, HeldType, QueueAssumption
  <1>4. TypeOK' BY <1>0, <1>1 DEF TypeOK, indexVars
  <1>5. IndicesAgree' BY <1>1, <1>2 DEF IndicesAgree, Slot, indexVars
  <1>6. RoomFound' /\ FrameFound' /\ ShownKept' /\ WaitsRightly'
    BY <1>1, <1>2 DEF RoomFound, FrameFound, ShownKept, WaitsRightly, indexVars
  <1>7. ASSUME NEW k \in 0..Held - 1 PROVE Slot(k) # windex /\ Slot(k) \in 0..MaxSize - 1
    <2>1. k \in 0..MaxSize - 1 /\ k # Held /\ k \in 0..MaxSize BY <1>3, QueueAssumption
    <2>2. rindex \in 0..MaxSize - 1 BY DEF TypeOK
    <2> QED BY <1>2, <1>3, <2>1, <2>2, SlotsDiffer, SlotInRing DEF IndicesAgree, Slot
  <1>8. \A k \in 0..Held - 1 : slots'[Slot(k)] = slots[Slot(k)] BY <1>0, <1>7 DEF TypeOK
  <1>9. Filled'
    <2>1. slots'[windex] \in Frames BY <1>0 DEF TypeOK
    <2>2. ASSUME NEW k \in 0..MaxSize - 1, k < Taken PROVE slots'[Slot(k)] \in Frames
      BY <1>2, <1>3, <1>8, <2>2, QueueAssumption DEF Filled
    <2> QED BY <1>1, <1>2, <2>1, <2>2 DEF Filled, Slot, indexVars
  <1> QED BY <1>4, <1>5, <1>6, <1>8, <1>9

LEMMA PushIndexStep ==
    ASSUME IInv, PushIndex
    PROVE  IInv'
  <1> USE DEF IInv
  <1>1. /\ UNCHANGED <<slots, rindex, size, rindex_shown, keep_last, aborted, waiting, reader>>
        /\ writer = "written" /\ writer' = "pushing" /\ windex' = Advance(windex)
    BY DEF PushIndex
  <1>2. Held' = Held /\ Taken = Held /\ Taken' = Held + 1 BY <1>1 DEF Held, Taken
  <1>3. Held \in 0..MaxSize - 1 BY <1>1, HeldType, QueueAssumption
  <1>4. rindex \in 0..MaxSize - 1 BY DEF TypeOK
  <1>5. windex' \in 0..MaxSize - 1 /\ windex' = (rindex + (Held + 1)) % MaxSize
    BY <1>1, <1>2, <1>3, <1>4, AdvanceMoves DEF IndicesAgree, Slot, TypeOK
  <1>6. TypeOK' BY <1>1, <1>5 DEF TypeOK
  <1>7. IndicesAgree' BY <1>1, <1>2, <1>3, <1>5, QueueAssumption DEF IndicesAgree, Slot
  <1>8. RoomFound' /\ FrameFound' /\ ShownKept' /\ WaitsRightly'
    BY <1>1, <1>2 DEF RoomFound, FrameFound, ShownKept, WaitsRightly
  <1>9. Filled'
    <2>1. slots[Slot(Held)] \in Frames BY <1>1, <1>2 DEF Filled, IndicesAgree
    <2>2. ASSUME NEW k \in 0..MaxSize - 1, k < Held + 1 PROVE slots[Slot(k)] \in Frames
      <3>1. CASE k = Held BY <2>1, <3>1
      <3>2. CASE k < Held BY <3>2, <1>2 DEF Filled
      <3> QED BY <3>1, <3>2, <2>2, <1>3, QueueAssumption
    <2> QED BY <1>1, <1>2, <2>2 DEF Filled, Slot
  <1> QED BY <1>6, <1>7, <1>8, <1>9

LEMMA PushSizeStep ==
    ASSUME IInv, PushSize
    PROVE  IInv'
  <1> USE DEF IInv
  <1>1. /\ UNCHANGED <<slots, rindex, windex, rindex_shown, keep_last, aborted, reader>>
        /\ writer = "pushing" /\ writer' = "out" /\ size' = size + 1
    BY DEF PushSize
  <1>2. waiting' = {} BY SignalWakes DEF PushSize
  <1>3. size \in 0..MaxSize - 1 BY <1>1, QueueAssumption DEF TypeOK, RoomFound
  <1>4. Held' = Held + 1 /\ Taken = Held + 1 /\ Taken' = Taken
    BY <1>1, <1>3 DEF Held, Taken
  <1>5. TypeOK' BY <1>1, <1>2, <1>3, QueueAssumption DEF TypeOK
  <1>6. IndicesAgree' /\ Filled' BY <1>1, <1>4 DEF IndicesAgree, Filled, Slot
  <1>7. RoomFound' /\ FrameFound' /\ ShownKept' /\ WaitsRightly'
    BY <1>1, <1>2, <1>3, <1>4, HeldType DEF RoomFound, FrameFound, ShownKept, WaitsRightly, TypeOK
  <1> QED BY <1>5, <1>6, <1>7

LEMMA NextShowsStep ==
    ASSUME IInv, NextShows
    PROVE  IInv'
  <1> USE DEF IInv
  <1>1. /\ UNCHANGED <<slots, rindex, windex, size, keep_last, aborted, waiting, writer>>
        /\ reader = "reading" /\ reader' = "out" /\ keep_last /\ rindex_shown = 0 /\ rindex_shown' = 1
    BY DEF NextShows
  <1>2. Held' = Held /\ Taken' = Taken /\ Held = size BY <1>1 DEF Held, Taken
  <1>3. size >= 1 BY <1>1 DEF TypeOK, FrameFound
  <1>4. TypeOK' BY <1>1 DEF TypeOK
  <1>5. IndicesAgree' /\ Filled' BY <1>1, <1>2 DEF IndicesAgree, Filled, Slot
  <1>6. RoomFound' /\ FrameFound' /\ ShownKept' /\ WaitsRightly'
    BY <1>1, <1>2, <1>3 DEF RoomFound, FrameFound, ShownKept, WaitsRightly
  <1> QED BY <1>4, <1>5, <1>6

LEMMA NextIndexStep ==
    ASSUME IInv, NextIndex
    PROVE  /\ IInv'
           /\ Held' = Held - 1 /\ Held > rindex_shown
           /\ \A k \in 0..Held - 2 : Slot(k)' = Slot(k + 1) /\ slots'[Slot(k)'] = slots[Slot(k + 1)]
  <1> USE DEF IInv
  <1>1. /\ UNCHANGED <<windex, size, rindex_shown, keep_last, aborted, waiting, writer>>
        /\ reader = "reading" /\ (keep_last => rindex_shown = 1) /\ reader' = "dropping"
        /\ slots' = [slots EXCEPT ![rindex] = NoFrame] /\ rindex' = Advance(rindex)
    BY DEF NextIndex
  <1>2. rindex \in 0..MaxSize - 1 /\ rindex' \in 0..MaxSize - 1
    BY <1>1, AdvanceMoves, QueueAssumption DEF TypeOK
  <1>3. Held = size /\ Held' = Held - 1 /\ Taken' = Taken - 1 /\ Held > rindex_shown
    BY <1>1, HeldType, QueueAssumption DEF Held, Taken, FrameFound, TypeOK
  <1>4. Held \in 1..MaxSize /\ Taken \in 1..MaxSize /\ Held <= Taken
    BY <1>3, HeldType, QueueAssumption DEF TypeOK
  <1>5. \A k \in 0..MaxSize - 1 : (rindex' + k) % MaxSize = (rindex + (k + 1)) % MaxSize
    BY <1>1, <1>2, AdvanceMoves
  <1>6. TypeOK' BY <1>1, <1>2 DEF TypeOK
  <1>7. IndicesAgree'
    <2>1. Taken - 1 \in 0..MaxSize - 1 BY <1>4, QueueAssumption
    <2>2. (rindex' + (Taken - 1)) % MaxSize = (rindex + Taken) % MaxSize
      BY <1>5, <2>1, <1>4, QueueAssumption
    <2> QED BY <1>1, <1>3, <2>1, <2>2, QueueAssumption DEF IndicesAgree, Slot
  <1>8. RoomFound' /\ FrameFound' /\ ShownKept' /\ WaitsRightly'
    BY <1>1, <1>3, <1>4 DEF RoomFound, FrameFound, ShownKept, WaitsRightly, TypeOK
  <1>9. ASSUME NEW k \in 0..MaxSize - 2
        PROVE  /\ (rindex' + k) % MaxSize = Slot(k + 1)
               /\ slots'[Slot(k + 1)] = slots[Slot(k + 1)]
    <2>1. k + 1 \in 0..MaxSize - 1 /\ k + 1 # 0 /\ 0 \in 0..MaxSize - 1 /\ k + 1 \in 0..MaxSize
          /\ k \in 0..MaxSize - 1
      BY QueueAssumption
    <2>2. Slot(k + 1) # rindex BY <1>2, <2>1, SlotsDiffer, SlotZero DEF Slot
    <2>3. Slot(k + 1) \in 0..MaxSize - 1 BY <1>2, <2>1, SlotInRing DEF Slot
    <2> QED BY <1>1, <1>5, <2>1, <2>2, <2>3 DEF Slot, TypeOK
  <1>10. Filled'
    <2>1. ASSUME NEW k \in 0..MaxSize - 1, k < Taken' PROVE slots'[(rindex' + k) % MaxSize] \in Frames
      <3>1. k \in 0..MaxSize - 2 /\ k + 1 \in 0..MaxSize - 1 /\ k + 1 < Taken
        BY <2>1, <1>3, <1>4, QueueAssumption
      <3> QED BY <1>9, <3>1 DEF Filled
    <2>2. ASSUME writer = "written" PROVE slots'[windex] \in Frames
      <3>1. Held \in 1..MaxSize - 1 /\ Taken = Held BY <2>2, <1>4, HeldType, QueueAssumption
      <3>2. windex # rindex
        BY <3>1, <1>2, SlotsDiffer, SlotZero, QueueAssumption DEF IndicesAgree, Slot
      <3> QED BY <1>1, <2>2, <3>2 DEF Filled, TypeOK
    <2> QED BY <1>1, <2>1, <2>2 DEF Filled, Slot
  <1>11. \A k \in 0..Held - 2 : Slot(k)' = Slot(k + 1) /\ slots'[Slot(k)'] = slots[Slot(k + 1)]
    <2> SUFFICES ASSUME NEW k \in 0..Held - 2
                 PROVE  Slot(k)' = Slot(k + 1) /\ slots'[Slot(k)'] = slots[Slot(k + 1)]
      OBVIOUS
    <2>1. k \in 0..MaxSize - 2 BY <1>4, QueueAssumption
    <2> QED BY <1>9, <2>1 DEF Slot
  <1> QED BY <1>3, <1>6, <1>7, <1>8, <1>10, <1>11

LEMMA NextSizeStep ==
    ASSUME IInv, NextSize
    PROVE  IInv' /\ Held' = Held
  <1> USE DEF IInv
  <1>1. /\ UNCHANGED <<slots, rindex, windex, rindex_shown, keep_last, aborted, writer>>
        /\ reader = "dropping" /\ reader' = "out" /\ size' = size - 1
    BY DEF NextSize
  <1>2. waiting' = {} BY SignalWakes DEF NextSize
  <1>3. size \in 1..MaxSize BY <1>1, QueueAssumption DEF TypeOK, FrameFound
  <1>4. Held' = Held /\ Taken' = Taken BY <1>1, <1>3 DEF Held, Taken
  <1>5. TypeOK' BY <1>1, <1>2, <1>3, QueueAssumption DEF TypeOK
  <1>6. IndicesAgree' /\ Filled' BY <1>1, <1>4 DEF IndicesAgree, Filled, Slot
  <1>7. RoomFound' /\ FrameFound' /\ ShownKept' /\ WaitsRightly'
    BY <1>1, <1>2, <1>3, <1>4, QueueAssumption DEF RoomFound, FrameFound, ShownKept, WaitsRightly, TypeOK
  <1> QED BY <1>4, <1>5, <1>6, <1>7

LEMMA NextIInv == IInv /\ [Next]_vars => IInv'
  <1> SUFFICES ASSUME IInv, [Next]_vars PROVE IInv' OBVIOUS
  <1>1. CASE PeekWritable \/ GiveUp \/ Poll \/ PeekReadable \/ Abort \/ UNCHANGED vars
    BY <1>1, QuietSteps
  <1>2. CASE Write BY <1>2, WriteStep
  <1>3. CASE PushIndex BY <1>3, PushIndexStep
  <1>4. CASE PushSize BY <1>4, PushSizeStep
  <1>5. CASE NextShows BY <1>5, NextShowsStep
  <1>6. CASE NextIndex BY <1>6, NextIndexStep
  <1>7. CASE NextSize BY <1>7, NextSizeStep
  <1> QED BY <1>1, <1>2, <1>3, <1>4, <1>5, <1>6, <1>7 DEF Next, WriterNext, ReaderNext

-----------------------------------------------------------------------------
(* What follows from the invariant.                                         *)

\* The ring's fields keep their types: no index ever leaves the ring.
THEOREM TypeCorrect == Spec => []TypeOK
  <1>1. IInv => TypeOK BY DEF IInv
  <1> QED BY <1>1, InitIInv, NextIInv, PTL DEF Spec

\* The decoder fills a slot that holds no queued frame and is not on the screen.
THEOREM DecoderWritesApart == Spec => []WritesApart
  <1>1. IInv => WritesApart
    <2> SUFFICES ASSUME IInv, writer \in {"writing", "written"}
                 PROVE  /\ \A k \in 0..Held - 1 : Slot(k) # windex
                        /\ rindex_shown = 1 => rindex # windex
      BY DEF WritesApart
    <2>1. Held \in 0..MaxSize - 1 /\ Taken = Held BY HeldType, QueueAssumption
    <2>2. rindex \in 0..MaxSize - 1 /\ windex = (rindex + Held) % MaxSize
      BY <2>1 DEF IInv, TypeOK, IndicesAgree, Slot
    <2>3. ASSUME NEW k \in 0..Held - 1 PROVE Slot(k) # windex
      <3>1. k \in 0..MaxSize - 1 /\ k # Held BY <2>1, QueueAssumption
      <3> QED BY <2>1, <2>2, <3>1, SlotsDiffer DEF Slot
    <2>4. ASSUME rindex_shown = 1 PROVE rindex # windex
      <3>1. Held >= 1 BY <2>4 DEF IInv, ShownKept
      <3>2. 0 \in 0..MaxSize - 1 /\ Held # 0 BY <3>1, QueueAssumption
      <3> QED BY <2>1, <2>2, <3>2, SlotsDiffer, SlotZero
    <2> QED BY <2>3, <2>4
  <1> QED BY <1>1, InitIInv, NextIInv, PTL DEF Spec

\* The frame on the screen stays in the ring while it is shown.
THEOREM ScreenIsHeld == Spec => []ShownIsHeld
  <1>1. IInv => ShownIsHeld
    <2> SUFFICES ASSUME IInv, rindex_shown = 1 PROVE Held >= 1 /\ slots[rindex] \in Frames
      BY DEF ShownIsHeld
    <2>1. Held >= 1 /\ 0 < Taken BY HeldType DEF IInv, ShownKept
    <2>2. 0 \in 0..MaxSize - 1 /\ Slot(0) = rindex
      BY SlotZero, QueueAssumption DEF Slot, IInv, TypeOK
    <2> QED BY <2>1, <2>2 DEF IInv, Filled
  <1> QED BY <1>1, InitIInv, NextIInv, PTL DEF Spec

\* One condition variable is enough: never do both threads wait.
THEOREM NeverBothWait == Spec => []OneWaits
  <1>1. IInv => OneWaits BY QueueAssumption DEF IInv, WaitsRightly, TypeOK, OneWaits
  <1> QED BY <1>1, InitIInv, NextIInv, PTL DEF Spec

-----------------------------------------------------------------------------
(* Refinement: a step of the ring is a step of the queue or changes nothing *)
(* of it.  A frame enters with the size and leaves with the read index.     *)

LEMMA InitRefines == Init => Fifo!Init
  <1> SUFFICES ASSUME Init PROVE Fifo!Init OBVIOUS
  <1>1. Held = 0 BY DEF Init, Held
  <1>2. Items = <<>> BY <1>1 DEF Items
  <1> QED BY <1>2 DEF Init, Fifo!Init

\* While the slots of the frames held stay as they are, so do the items.
LEMMA SameItems ==
    ASSUME Held' = Held, rindex' = rindex,
           \A k \in 0..Held - 1 : slots'[Slot(k)] = slots[Slot(k)], Held \in Nat
    PROVE  Items' = Items
  <1>1. \A i \in 1..Held : i - 1 \in 0..Held - 1 OBVIOUS
  <1> QED BY <1>1 DEF Items, Slot

LEMMA NextRefines == IInv /\ [Next]_vars => [Fifo!Next]_(Fifo!vars)
  <1> SUFFICES ASSUME IInv, [Next]_vars PROVE [Fifo!Next]_(Fifo!vars) OBVIOUS
  <1>0. Held \in 0..MaxSize BY HeldType
  <1>1. CASE PeekWritable \/ GiveUp \/ Poll \/ PeekReadable \/ Abort \/ UNCHANGED vars
    <2>1. UNCHANGED <<slots, indexVars, keep_last>>
      BY <1>1 DEF PeekWritable, GiveUp, Poll, PeekReadable, Abort, vars
    <2>2. reader' = "dropping" <=> reader = "dropping"
      BY <1>1 DEF PeekWritable, GiveUp, Poll, PeekReadable, Abort, vars
    <2>3. Held' = Held BY <2>1, <2>2 DEF Held, indexVars
    <2>4. Items' = Items BY <2>1, <2>3, <1>0, SameItems DEF indexVars
    <2> QED BY <2>1, <2>4 DEF Fifo!vars, indexVars
  <1>2. CASE Write
    <2>1. Held' = Held /\ rindex' = rindex /\ keep_last' = keep_last /\ rindex_shown' = rindex_shown
      BY <1>2 DEF Write, Held, indexVars
    <2>2. Items' = Items BY <1>0, <1>2, <2>1, WriteStep, SameItems
    <2> QED BY <2>1, <2>2 DEF Fifo!vars
  <1>3. CASE PushIndex
    <2>1. Held' = Held /\ UNCHANGED <<slots, rindex, keep_last, rindex_shown>> BY <1>3 DEF PushIndex, Held
    <2>2. Items' = Items BY <1>0, <2>1, SameItems
    <2> QED BY <2>1, <2>2 DEF Fifo!vars
  <1>4. CASE PushSize
    <2>1. UNCHANGED <<slots, rindex, keep_last, rindex_shown, reader>> /\ writer = "pushing" /\ size' = size + 1
      BY <1>4 DEF PushSize
    <2>2. Held' = Held + 1 /\ Taken = Held + 1 /\ Taken \in 0..MaxSize
      BY <2>1, HeldType DEF Held, IInv, TypeOK
    <2>3. Held \in 0..MaxSize - 1 BY <2>2, <1>0, QueueAssumption
    <2>4. slots[Slot(Held)] \in Frames BY <2>2, <2>3 DEF IInv, Filled
    <2>5. Items' = Append(Items, slots[Slot(Held)])
      BY <2>1, <2>2, <2>3 DEF Items, Slot
    <2>6. Len(Items) = Held /\ Len(Items) < MaxSize BY <2>3, QueueAssumption DEF Items
    <2>7. Fifo!Put BY <2>1, <2>4, <2>5, <2>6 DEF Fifo!Put
    <2> QED BY <2>7 DEF Fifo!Next
  <1>5. CASE NextShows
    <2>1. /\ UNCHANGED <<slots, rindex, size, keep_last>> /\ reader = "reading" /\ reader' = "out"
          /\ keep_last /\ rindex_shown = 0 /\ rindex_shown' = 1
      BY <1>5 DEF NextShows
    <2>2. Held' = Held /\ Held >= 1 BY <2>1 DEF Held, IInv, FrameFound, TypeOK
    <2>3. Items' = Items BY <1>0, <2>1, <2>2, SameItems
    <2>4. Len(Items) = Held BY <1>0 DEF Items
    <2>5. Items # <<>> BY <2>2, <2>4
    <2>6. Fifo!Show BY <2>1, <2>3, <2>5 DEF Fifo!Show
    <2> QED BY <2>6 DEF Fifo!Next
  <1>6. CASE NextIndex
    <2>1. UNCHANGED <<keep_last, rindex_shown>> /\ (keep_last => rindex_shown = 1)
      BY <1>6 DEF NextIndex
    <2>2. Held' = Held - 1 /\ Held > rindex_shown /\ rindex_shown \in 0..1
      BY <1>6, NextIndexStep DEF IInv, TypeOK
    <2>3. \A k \in 0..Held - 2 : slots'[Slot(k)'] = slots[Slot(k + 1)] BY <1>6, NextIndexStep
    <2>4. Items' = Tail(Items)
      <3>1. Items' = [k \in 1..Held - 1 |-> slots'[Slot(k - 1)']] BY <2>2 DEF Items
      <3>2. Tail(Items) = [k \in 1..Held - 1 |-> slots[Slot((k + 1) - 1)]]
        BY <1>0, <2>2, QueueAssumption DEF Items
      <3>3. ASSUME NEW k \in 1..Held - 1 PROVE slots'[Slot(k - 1)'] = slots[Slot((k + 1) - 1)]
        <4>1. k - 1 \in 0..Held - 2 /\ (k + 1) - 1 = (k - 1) + 1 BY <1>0, QueueAssumption
        <4> QED BY <2>3, <4>1
      <3> QED BY <3>1, <3>2, <3>3
    <2>5. Len(Items) = Held BY <1>0 DEF Items
    <2>6. Fifo!Take BY <2>1, <2>2, <2>4, <2>5 DEF Fifo!Take
    <2> QED BY <2>6 DEF Fifo!Next
  <1>7. CASE NextSize
    <2>1. UNCHANGED <<slots, rindex, keep_last, rindex_shown>> BY <1>7 DEF NextSize
    <2>2. Held' = Held BY <1>7, NextSizeStep
    <2>3. Items' = Items BY <1>0, <2>1, <2>2, SameItems
    <2> QED BY <2>1, <2>3 DEF Fifo!vars
  <1> QED BY <1>1, <1>2, <1>3, <1>4, <1>5, <1>6, <1>7 DEF Next, WriterNext, ReaderNext

\* The ring is a first-in first-out queue of at most MaxSize frames, of which the one
\* shown is kept, whatever the two threads do without the lock.
THEOREM RingImplementsFifo == Spec => ImplementsFifo
  <1> QED BY InitIInv, NextIInv, InitRefines, NextRefines, PTL DEF Spec, ImplementsFifo, Fifo!Spec
=============================================================================
