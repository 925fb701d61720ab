------------------------- MODULE SeekLanding_proofs -------------------------
(* Where a seek lands: the frames on their way between read_thread and the  *)
(* refresh thread are in line and without a gap, so that the target of a    *)
(* seek, flushed for or skipped to, is the first frame that is not dropped. *)
EXTENDS SeekControl_proofs

\* The positions of the current frames of a queue, of the decoder, and of all
\* that are on their way.
FreshIn(s) == {s[i].pos : i \in {k \in DOMAIN s : ~s[k].old}}
InHand == IF decoding = None \/ decoding.old THEN {} ELSE {decoding.pos}
Coming == FreshIn(pictq) \cup InHand \cup FreshIn(packets)

\* Before, frame by frame, and in a queue.
Less(A, B) == \A a \in A, b \in B : a < b
Sorted(s) == \A i, j \in DOMAIN s : i < j /\ ~s[i].old /\ ~s[j].old => s[i].pos < s[j].pos

\* The frames on their way are in the order of the file: those of pictq, the
\* decoder's, the packets and what is still to be read ...
InLine ==
    /\ Sorted(pictq) /\ Sorted(packets)
    /\ Less(FreshIn(pictq), InHand) /\ Less(FreshIn(pictq), FreshIn(packets)) /\ Less(InHand, FreshIn(packets))
    /\ Less(Coming, {read_pos})

\* ... and none between them is missing.
Gapless == \A a \in Coming : \A p \in a..read_pos - 1 : p \in Coming

\* What one frame adds.
FreshOf(f) == IF f.old THEN {} ELSE {f.pos}

\* The positions of a queue that is empty, appended to, or popped.
LEMMA FreshNone == FreshIn(<<>>) = {} /\ Sorted(<<>>)
  BY DEF FreshIn, Sorted

LEMMA FreshAppend ==
    ASSUME NEW s \in Seq(FramesAt), NEW f \in FramesAt
    PROVE  /\ FreshIn(Append(s, f)) = FreshIn(s) \cup FreshOf(f)
           /\ Sorted(s) /\ Less(FreshIn(s), FreshOf(f)) => Sorted(Append(s, f))
  <1> DEFINE a == Append(s, f)
  <1>1. /\ DOMAIN a = DOMAIN s \cup {Len(s) + 1} /\ a[Len(s) + 1] = f /\ (\A i \in DOMAIN s : a[i] = s[i])
        /\ Len(s) \in Nat /\ DOMAIN s = 1..Len(s)
    OBVIOUS
  <1> HIDE DEF a
  <1>2. FreshIn(a) \subseteq FreshIn(s) \cup FreshOf(f) BY ONLY <1>1 DEF FreshIn, FreshOf
  <1>3. FreshIn(s) \subseteq FreshIn(a) BY ONLY <1>1 DEF FreshIn
  <1>4. FreshOf(f) \subseteq FreshIn(a) BY ONLY <1>1 DEF FreshIn, FreshOf
  <1>5. ASSUME Sorted(s), Less(FreshIn(s), FreshOf(f)), NEW i \in DOMAIN a, NEW j \in DOMAIN a,
               i < j, ~a[i].old, ~a[j].old
        PROVE  a[i].pos < a[j].pos
    <2>1. i \in DOMAIN s BY ONLY <1>1, i < j, i \in DOMAIN a, j \in DOMAIN a
    <2>2. CASE j \in DOMAIN s BY ONLY <1>1, <1>5, <2>1, <2>2 DEF Sorted
    <2>3. CASE j = Len(s) + 1
      <3>1. f.pos \in FreshOf(f) BY <1>1, <1>5, <2>3 DEF FreshOf
      <3>2. s[i].pos \in FreshIn(s) /\ a[i] = s[i] BY <1>1, <1>5, <2>1 DEF FreshIn
      <3> QED BY <1>1, <1>5, <2>3, <3>1, <3>2 DEF Less
    <2> QED BY ONLY <1>1, <2>2, <2>3, j \in DOMAIN a
  <1>6. Sorted(s) /\ Less(FreshIn(s), FreshOf(f)) => Sorted(a) BY ONLY <1>5 DEF Sorted
  <1>7. FreshIn(a) = FreshIn(s) \cup FreshOf(f) BY ONLY <1>2, <1>3, <1>4
  <1> QED BY <1>6, <1>7 DEF a

LEMMA FreshTail ==
    ASSUME NEW s \in Seq(FramesAt), s # <<>>
    PROVE  /\ FreshIn(s) = FreshIn(Tail(s)) \cup FreshOf(Head(s))
           /\ Sorted(s) => Sorted(Tail(s)) /\ Less(FreshOf(Head(s)), FreshIn(Tail(s)))
  <1> DEFINE t == Tail(s)
             h == Head(s)
  <1>1. /\ DOMAIN s = 1..Len(s) /\ Len(s) \in Nat /\ 1 \in DOMAIN s /\ h = s[1]
        /\ DOMAIN t = 1..(Len(s) - 1) /\ \A i \in DOMAIN t : t[i] = s[i + 1]
    OBVIOUS
  <1> HIDE DEF t, h
  <1>2. \A i \in DOMAIN t : i + 1 \in DOMAIN s /\ 1 < i + 1 BY ONLY <1>1
  <1>3. \A i \in DOMAIN s : i = 1 \/ (i - 1 \in DOMAIN t /\ t[i - 1] = s[i]) BY ONLY <1>1
  <1>4. FreshIn(t) \subseteq FreshIn(s) BY ONLY <1>1, <1>2 DEF FreshIn
  <1>5. FreshOf(h) \subseteq FreshIn(s) BY ONLY <1>1 DEF FreshIn, FreshOf
  <1>6. FreshIn(s) \subseteq FreshIn(t) \cup FreshOf(h) BY ONLY <1>1, <1>3 DEF FreshIn, FreshOf
  <1>7. ASSUME Sorted(s), NEW i \in DOMAIN t, NEW j \in DOMAIN t, i < j, ~t[i].old, ~t[j].old
        PROVE  t[i].pos < t[j].pos
    <2>1. i + 1 < j + 1 BY ONLY <1>1, <1>7
    <2> QED BY ONLY <1>1, <1>2, <1>7, <2>1 DEF Sorted
  <1>8. ASSUME Sorted(s), ~h.old, NEW j \in DOMAIN t, ~t[j].old PROVE h.pos < t[j].pos
    BY ONLY <1>1, <1>2, <1>8 DEF Sorted
  <1>9. Sorted(s) => Sorted(t) BY ONLY <1>7 DEF Sorted
  <1>10. Sorted(s) => Less(FreshOf(h), FreshIn(t)) BY ONLY <1>8 DEF Less, FreshOf, FreshIn
  <1>11. FreshIn(s) = FreshIn(t) \cup FreshOf(h) BY ONLY <1>4, <1>5, <1>6
  <1> QED BY <1>9, <1>10, <1>11 DEF t, h

\* The types that the next lemmas use.
Queued == /\ packets \in Seq(FramesAt) /\ pictq \in Seq(FramesAt) /\ decoding \in FramesAt \cup {None}
          /\ read_pos \in Nat /\ End \in Nat
          /\ Coming \subseteq Nat

LEMMA QueuedTyped == Typed => Queued
  <1> SUFFICES ASSUME Typed PROVE Queued OBVIOUS
  <1>1. packets \in Seq(FramesAt) /\ pictq \in Seq(FramesAt) /\ decoding \in FramesAt \cup {None} /\ read_pos \in 0..End
        /\ End \in Nat
    BY SeekAssumption DEF Typed, FramesTyped
  <1>2. \A f \in FramesAt : f.pos \in Nat BY <1>1 DEF FramesAt, Positions
  <1>3. ASSUME NEW s \in Seq(FramesAt) PROVE FreshIn(s) \subseteq Nat
    <2>1. \A i \in DOMAIN s : s[i] \in FramesAt OBVIOUS
    <2> QED BY <1>2, <2>1 DEF FreshIn
  <1>4. InHand \subseteq Nat BY <1>1, <1>2 DEF InHand
  <1>5. Coming \subseteq Nat BY <1>1, <1>3, <1>4 DEF Coming
  <1> QED BY <1>1, <1>5 DEF Queued

\* The steps that move a frame keep those that are coming.
LEMMA MovesKeep ==
    ASSUME Queued, Decode \/ QueuePicture, InLine
    PROVE  Coming' = Coming /\ InLine' /\ read_pos' = read_pos
  <1>0. read_pos' = read_pos BY DEF Decode, QueuePicture
  <1>1. CASE Decode
    <2>1. /\ packets # <<>> /\ packets' = Tail(packets) /\ decoding' = Head(packets) /\ decoding = None /\ pictq' = pictq
      BY <1>1 DEF Decode
    <2>2. FreshIn(packets) = FreshIn(packets') \cup FreshOf(decoding')
          /\ Sorted(packets') /\ Less(FreshOf(decoding'), FreshIn(packets'))
      BY <2>1, FreshTail DEF Queued, InLine
    <2>3. Head(packets) \in FramesAt BY <2>1, TailFrame DEF Queued
    <2>4. decoding' # None
      <3>1. \A f \in FramesAt : f \in [pos : Nat, old : BOOLEAN] BY DEF FramesAt, Positions, Queued
      <3> QED BY <2>1, <2>3, <3>1, SeekAssumption
    <2>5. InHand = {} /\ InHand' = FreshOf(decoding') BY <2>1, <2>4 DEF InHand, FreshOf
    <2>6. FreshIn(pictq)' = FreshIn(pictq) /\ Sorted(pictq)' = Sorted(pictq) BY <2>1
    <2>7. Coming' = Coming BY <2>2, <2>5, <2>6 DEF Coming
    <2>8. Less(FreshIn(pictq)', InHand') /\ Less(FreshIn(pictq)', FreshIn(packets)') /\ Less(InHand', FreshIn(packets)')
      BY <2>2, <2>5, <2>6 DEF InLine, Less
    <2>9. Less(Coming', {read_pos'}) BY <1>0, <2>7 DEF InLine
    <2> QED BY <1>0, <2>2, <2>6, <2>7, <2>8, <2>9 DEF InLine
  <1>2. CASE QueuePicture
    <2>1. decoding \in FramesAt /\ decoding # None /\ pictq' = Append(pictq, decoding) /\ decoding' = None /\ packets' = packets
      BY <1>2 DEF QueuePicture, Queued
    <2>2. InHand = FreshOf(decoding) /\ InHand' = {} BY <2>1 DEF InHand, FreshOf
    <2>3. FreshIn(pictq') = FreshIn(pictq) \cup InHand BY <2>1, <2>2, FreshAppend DEF Queued
    <2>4. Sorted(pictq') BY <2>1, <2>2, FreshAppend DEF Queued, InLine
    <2>6. FreshIn(packets)' = FreshIn(packets) /\ Sorted(packets)' = Sorted(packets) BY <2>1
    <2>7. Coming' = Coming BY <2>2, <2>3, <2>6 DEF Coming
    <2>8. Less(FreshIn(pictq)', InHand') /\ Less(FreshIn(pictq)', FreshIn(packets)') /\ Less(InHand', FreshIn(packets)')
      BY <2>2, <2>3, <2>6 DEF InLine, Less
    <2>9. Less(Coming', {read_pos'}) BY <1>0, <2>7 DEF InLine
    <2> QED BY <1>0, <2>4, <2>6, <2>7, <2>8, <2>9 DEF InLine
  <1> QED BY <1>0, <1>1, <1>2

\* A packet read is the last of them.
LEMMA ReadAdds ==
    ASSUME Queued, ReadPacket, InLine, Gapless
    PROVE  Coming' = Coming \cup {read_pos} /\ InLine' /\ Gapless' /\ read_pos' = read_pos + 1 /\ read_pos < End
  <1> DEFINE f == [pos |-> read_pos, old |-> FALSE]
  <1>1. packets' = Append(packets, f) /\ read_pos' = read_pos + 1 /\ read_pos < End /\ pictq' = pictq /\ decoding' = decoding
    BY DEF ReadPacket
  <1>2. f \in FramesAt BY <1>1 DEF Queued, FramesAt, Positions
  <1>3. FreshOf(f) = {read_pos} BY DEF FreshOf
  <1> HIDE DEF f
  <1>4. FreshIn(packets') = FreshIn(packets) \cup {read_pos} BY <1>1, <1>2, <1>3, FreshAppend DEF Queued
  <1>5. Less(FreshIn(packets), {read_pos}) BY DEF InLine, Coming, Less
  <1>6. Sorted(packets') BY <1>1, <1>2, <1>3, <1>5, FreshAppend DEF Queued, InLine
  <1>7. FreshIn(pictq)' = FreshIn(pictq) /\ InHand' = InHand /\ Sorted(pictq)' = Sorted(pictq) BY <1>1 DEF InHand
  <1>8. Coming' = Coming \cup {read_pos} BY <1>4, <1>7 DEF Coming
  <1>9. \A a \in Coming : a < read_pos BY DEF InLine, Less
  <1>10. Less(FreshIn(pictq)', InHand') /\ Less(FreshIn(pictq)', FreshIn(packets)') /\ Less(InHand', FreshIn(packets)')
    BY <1>4, <1>7, <1>9 DEF InLine, Less, Coming
  <1>11. Less(Coming', {read_pos'}) BY <1>1, <1>8, <1>9 DEF Less, Queued
  <1>12. InLine' BY <1>6, <1>7, <1>10, <1>11 DEF InLine
  <1>13. ASSUME NEW a \in Coming', NEW p \in a..read_pos' - 1 PROVE p \in Coming'
    <2>1. a \in Nat /\ read_pos \in Nat BY <1>8 DEF Queued
    <2>2. p \in a..read_pos' - 1 OBVIOUS
    <2>3. read_pos' = read_pos + 1 BY <1>1
    <2>4. p = read_pos \/ (p \in a..read_pos - 1 /\ a # read_pos) BY ONLY <2>1, <2>2, <2>3
    <2> QED BY <1>8, <2>4 DEF Gapless
  <1> QED BY <1>1, <1>8, <1>12, <1>13 DEF Gapless

\* The head is the least of them, and the only one that goes with it.
LEMMA PopTakes ==
    ASSUME Queued, InLine, Gapless, pictq # <<>>, pictq' = Tail(pictq), decoding' = decoding, packets' = packets,
           read_pos' = read_pos
    PROVE  /\ InLine' /\ Gapless' /\ Coming = Coming' \cup FreshOf(Head(pictq))
           /\ \A a \in Coming' : ~Head(pictq).old => Head(pictq).pos < a
           /\ ~Head(pictq).old => Head(pictq).pos < read_pos /\ Head(pictq).pos \in Coming
  <1> DEFINE h == Head(pictq)
  <1>1. /\ FreshIn(pictq) = FreshIn(pictq') \cup FreshOf(h)
        /\ Sorted(pictq') /\ Less(FreshOf(h), FreshIn(pictq'))
    BY FreshTail DEF Queued, InLine
  <1>2. FreshIn(packets)' = FreshIn(packets) /\ InHand' = InHand /\ Sorted(packets)' = Sorted(packets) BY DEF InHand
  <1> HIDE DEF h
  <1>3. Coming = Coming' \cup FreshOf(h) BY <1>1, <1>2 DEF Coming
  <1>4. Less(FreshIn(pictq'), InHand) /\ Less(FreshIn(pictq'), FreshIn(packets)) /\ Less(FreshOf(h), InHand)
        /\ Less(FreshOf(h), FreshIn(packets))
    BY <1>1 DEF InLine, Less
  <1>5. Less(Coming', {read_pos}) BY <1>3 DEF InLine, Less
  <1>6. InLine' BY <1>1, <1>2, <1>4, <1>5 DEF InLine
  <1>7. Less(FreshOf(h), Coming') BY <1>1, <1>2, <1>4 DEF Coming, Less
  <1>8. ~h.old => FreshOf(h) = {h.pos} BY DEF FreshOf
  <1>9. \A a \in Coming' : ~h.old => h.pos < a BY <1>7, <1>8 DEF Less
  <1>10. ~h.old => h.pos < read_pos /\ h.pos \in Coming BY <1>3, <1>8 DEF InLine, Less
  <1>11. ASSUME NEW a \in Coming', NEW p \in a..read_pos' - 1 PROVE p \in Coming'
    <2>1. a \in Coming /\ a \in Nat /\ read_pos \in Nat BY <1>3 DEF Queued
    <2>2. p \in Coming BY <2>1 DEF Gapless
    <2>3. ~h.old => h.pos < a /\ h.pos \in Nat BY <1>9, <1>10 DEF Queued
    <2>4. ~h.old => p # h.pos BY <2>1, <2>3
    <2>5. h.old => FreshOf(h) = {} BY DEF FreshOf
    <2> QED BY <1>3, <1>8, <2>2, <2>4, <2>5
  <1>12. Gapless' BY <1>11 DEF Gapless
  <1> QED BY <1>3, <1>6, <1>9, <1>10, <1>12 DEF h

\* After a flush nothing is coming.
LEMMA FlushTakes == Queued /\ Flush => Coming' = {} /\ InLine' /\ Gapless'
  <1> SUFFICES ASSUME Queued, Flush PROVE Coming' = {} /\ InLine' /\ Gapless' OBVIOUS
  <1>1. packets' = <<>> /\ pictq' = [i \in 1..Len(pictq) |-> Outdated(pictq[i])]
        /\ decoding' = (IF decoding = None THEN None ELSE Outdated(decoding))
    BY DEF Flush
  <1>2. \A f \in FramesAt : Outdated(f).old BY DEF Outdated, FramesAt
  <1>3. \A i \in DOMAIN pictq' : pictq'[i].old
    <2>1. \A i \in 1..Len(pictq) : pictq[i] \in FramesAt BY DEF Queued
    <2> QED BY ONLY <1>1, <1>2, <2>1
  <1>4. FreshIn(pictq') = {} /\ Sorted(pictq') BY <1>3 DEF FreshIn, Sorted
  <1>5. FreshIn(packets') = {} /\ Sorted(packets') BY <1>1, FreshNone
  <1>6. InHand' = {} BY <1>1, <1>2 DEF InHand, Queued
  <1>7. Coming' = {} BY <1>4, <1>5, <1>6 DEF Coming
  <1> QED BY <1>4, <1>5, <1>6, <1>7 DEF InLine, Less, Gapless

-----------------------------------------------------------------------------

\* A position that the stream has still to come to.
Ahead(l) == l \in Coming \/ (read_pos <= l /\ l < End)

\* A seek that read_thread is to answer: it has flushed, or the target is ahead, past the end,
\* or on the screen of a stream held still.
Decided ==
    reader = "sought" /\ ~failed /\ ~raced =>
        \/ Coming = {} /\ read_pos = KeyBefore(target.to)
        \/ /\ exact /\ play.buffering
           /\ \/ Ahead(target.to) \/ target.to = End
              \/ shown = target.to /\ chosen = "none" /\ ~play.step

\* Where the first frame after a seek is until it is shown: on the screen, or
\* ahead and the first that will not be dropped.
Landing ==
    /\ reader \in {"none", "opening", "seeking", "sought"} => landing = None
    /\ landing # None =>
         \/ landing = shown /\ chosen # "before"
         \/ /\ Ahead(landing)
            /\ IF exact THEN seek_pos = landing ELSE landing <= read_pos /\ \A a \in Coming : landing <= a
            /\ chosen = "head" => Head(pictq).pos = landing

\* The steps that touch no frame.
LEMMA SameFrames ==
    ASSUME UNCHANGED <<read_pos, packets, decoding, pictq>>
    PROVE  Coming' = Coming /\ InLine' = InLine /\ Gapless' = Gapless /\ \A l : Ahead(l)' = Ahead(l)
  BY DEF Coming, InLine, Gapless, InHand, Ahead

\* The frame shown is the one sought, or that stays ahead.
LEMMA PopAhead ==
    ASSUME Queued, InLine, Gapless, pictq # <<>>, pictq' = Tail(pictq), decoding' = decoding, packets' = packets,
           read_pos' = read_pos, NEW l \in Nat, Ahead(l)
    PROVE  Ahead(l)' \/ (Head(pictq).pos = l /\ ~Head(pictq).old)
  BY PopTakes DEF Ahead, FreshOf

\* Every step keeps the frames in line.
LEMMA FramesInLine == Typed /\ InLine /\ Gapless /\ [Next]_vars => InLine' /\ Gapless'
  <1> SUFFICES ASSUME Typed, InLine, Gapless, [Next]_vars PROVE InLine' /\ Gapless' OBVIOUS
  <1>0. Queued BY QueuedTyped
  <1>1. CASE Prepare
    <2>1. packets' = <<>> /\ pictq' = <<>> /\ decoding' = None BY <1>1 DEF Prepare
    <2>2. FreshIn(packets') = {} /\ FreshIn(pictq') = {} /\ InHand' = {} /\ Sorted(packets') /\ Sorted(pictq')
      BY <2>1, FreshNone DEF InHand
    <2> QED BY <2>2 DEF InLine, Gapless, Less, Coming
  <1>2. CASE Flush
    BY <1>0, <1>2, FlushTakes
  <1>3. CASE ReadPacket
    BY <1>0, <1>3, ReadAdds
  <1>4. CASE Decode \/ QueuePicture
    <2>1. Coming' = Coming /\ InLine' /\ read_pos' = read_pos BY <1>0, <1>4, MovesKeep
    <2> QED BY <2>1 DEF Gapless
  <1>5. CASE DropFrame \/ ShowFrame
    <2>1. pictq # <<>> /\ pictq' = Tail(pictq) /\ decoding' = decoding /\ packets' = packets /\ read_pos' = read_pos
      BY <1>5 DEF DropFrame, ShowFrame, Typed, FramesTyped
    <2> QED BY <1>0, <2>1, PopTakes
  <1>6. CASE (\E t \in 0..End : SeekTo(t)) \/ (\E what \in {"REQ_START", "REQ_PAUSE"} : StartOrPause(what)) \/ Stop \/ MessageNext
    <2>1. UNCHANGED <<read_pos, packets, decoding, pictq>>
      BY <1>6 DEF SeekTo, StartOrPause, Stop, MessageNext, HandlePrepared, HandleCompleted, HandleSeekComplete, HandleStart,
                  HandlePause, HandleSeek, HandleStop, frameVars
    <2> QED BY <2>1, SameFrames
  <1>7. CASE \/ Open \/ SeekBegins \/ FlushFails \/ SetTarget \/ SeekEnds \/ LoopAround \/ EndReached \/ DelayOver
            \/ Complete \/ BufferingEnds \/ BufferingStarts \/ ChooseFrame \/ UNCHANGED vars
    <2>1. UNCHANGED <<read_pos, packets, decoding, pictq>>
      BY <1>7 DEF Open, SeekBegins, FlushFails, SetTarget, SeekEnds, LoopAround, EndReached, DelayOver, Complete,
                  BufferingEnds, BufferingStarts, ChooseFrame, vars, frameVars
    <2> QED BY <2>1, SameFrames
  <1> QED BY <1>1, <1>2, <1>3, <1>4, <1>5, <1>6, <1>7
          DEF Next, AppNext, MessageNext, ReaderNext, SeekNext, FrameNext

\* While the stream is held for a seek the application and the message thread neither let it go nor step it.
LEMMA HeldStays ==
    ASSUME Typed, NEW p \in Flags, NEW on \in BOOLEAN,
           NEW q \in {TogglePause(p, on), ToggleBuffering(p, TRUE), Stepped(p)}
    PROVE  /\ p.buffering => q.buffering
           /\ q.step => p.step
           /\ q = ToggleBuffering(p, TRUE) => q.buffering
           /\ q = Stepped(p) => ~q.step
  BY DEF Flags, TogglePause, ToggleBuffering, Stepped, Update

\* Steps of others while the seek is decided.
LEMMA HeldPlay ==
    ASSUME Typed, reader = "sought", reader' = "sought",
           \/ \E t \in 0..End : SeekTo(t)
           \/ \E what \in {"REQ_START", "REQ_PAUSE"} : StartOrPause(what)
           \/ MessageNext \/ FrameNext
    PROVE  /\ play.buffering => play'.buffering
           /\ play'.step => play.step
           /\ target' = target /\ failed' = failed /\ exact' = exact /\ (raced => raced')
  <1>0. play \in Flags BY DEF Typed, IInv
  <1>1. UNCHANGED <<target, failed, exact>>
    <2>1. CASE \/ \E t \in 0..End : SeekTo(t)
               \/ \E what \in {"REQ_START", "REQ_PAUSE"} : StartOrPause(what)
      BY <2>1 DEF SeekTo, StartOrPause, readVars, showVars, modeVars
    <2>2. CASE MessageNext
      BY <2>2 DEF MessageNext, HandlePrepared, HandleCompleted, HandleSeekComplete, HandleStart,
                  HandlePause, HandleSeek, HandleStop, readVars, showVars, modeVars
    <2>3. CASE FrameNext
      BY <2>3 DEF FrameNext, BufferingStarts, Decode, QueuePicture, DropFrame, ChooseFrame, ShowFrame, readVars,
                  showVars, modeVars
    <2> QED BY <2>1, <2>2, <2>3
  <1>2. raced => raced'
    <2>1. CASE DropFrame BY <2>1 DEF DropFrame
    <2>2. CASE ChooseFrame BY <2>2 DEF ChooseFrame
    <2>3. CASE \/ \E t \in 0..End : SeekTo(t)
               \/ \E what \in {"REQ_START", "REQ_PAUSE"} : StartOrPause(what)
      <3>1. UNCHANGED raced BY <2>3 DEF SeekTo, StartOrPause, ghostVars
      <3> QED BY <3>1
    <2>4. CASE MessageNext
      <3>1. UNCHANGED raced
        BY <2>4 DEF MessageNext, HandlePrepared, HandleCompleted, HandleSeekComplete, HandleStart,
                    HandlePause, HandleSeek, HandleStop, ghostVars
      <3> QED BY <3>1
    <2>5. CASE BufferingStarts \/ Decode \/ QueuePicture \/ ShowFrame
      <3>1. UNCHANGED raced BY <2>5 DEF BufferingStarts, Decode, QueuePicture, ShowFrame, ghostVars
      <3> QED BY <3>1
    <2> QED BY <2>1, <2>2, <2>3, <2>4, <2>5 DEF FrameNext
  <1>3. (play.buffering => play'.buffering) /\ (play'.step => play.step)
    <2>1. CASE \/ \E t \in 0..End : SeekTo(t)
               \/ \E what \in {"REQ_START", "REQ_PAUSE"} : StartOrPause(what)
      <3>1. play' = play BY <2>1 DEF SeekTo, StartOrPause
      <3> QED BY <3>1
    <2>2. CASE HandleStart
      <3> DEFINE r == [play EXCEPT !.auto_resume = TRUE]
      <3>1. r \in Flags /\ r.buffering = play.buffering /\ r.step = play.step BY <1>0 DEF Flags
      <3>2. play' = ToggleBuffering(r, TRUE) \/ play' = TogglePause(play, FALSE) BY <2>2 DEF HandleStart
      <3> HIDE DEF r
      <3>3. CASE play' = ToggleBuffering(r, TRUE)
        <4>1. (r.buffering => play'.buffering) /\ (play'.step => r.step) BY <3>1, <3>3, HeldStays
        <4> QED BY <3>1, <4>1
      <3>4. CASE play' = TogglePause(play, FALSE) BY <1>0, <3>4, HeldStays
      <3> QED BY <3>2, <3>3, <3>4
    <2>3. CASE HandlePause
      <3>1. play' = TogglePause(play, TRUE) BY <2>3 DEF HandlePause
      <3> QED BY <1>0, <3>1, HeldStays
    <2>4. CASE HandlePrepared \/ HandleCompleted \/ HandleSeekComplete \/ HandleSeek \/ HandleStop
      <3>1. play' = play BY <2>4 DEF HandlePrepared, HandleCompleted, HandleSeekComplete, HandleSeek, HandleStop
      <3> QED BY <3>1
    <2>5. CASE FrameNext
      <3>1. play' \in {play, ToggleBuffering(play, TRUE), Stepped(play)}
        BY <2>5 DEF FrameNext, BufferingStarts, Decode, QueuePicture, DropFrame, ChooseFrame, ShowFrame
      <3>2. CASE play' = play
        <4>1. play'.buffering = play.buffering /\ play'.step = play.step BY <3>2
        <4> QED BY <4>1
      <3>3. CASE play' \in {ToggleBuffering(play, TRUE), Stepped(play)}
        <4>1. CASE play' = ToggleBuffering(play, TRUE) BY <1>0, <4>1, HeldStays
        <4>2. CASE play' = Stepped(play) BY <1>0, <4>2, HeldStays
        <4> QED BY <3>3, <4>1, <4>2
      <3> QED BY <3>1, <3>2, <3>3
    <2> QED BY <2>1, <2>2, <2>3, <2>4, <2>5 DEF MessageNext
  <1> QED BY <1>1, <1>2, <1>3

\* What others do while the seek is decided keeps its target where it is.
LEMMA DecidedHeld ==
    ASSUME Typed, InLine, Gapless, Decided, reader = "sought", reader' = "sought",
           \/ \E t \in 0..End : SeekTo(t)
           \/ \E what \in {"REQ_START", "REQ_PAUSE"} : StartOrPause(what)
           \/ MessageNext \/ FrameNext
    PROVE  Decided'
  <1> SUFFICES ASSUME ~failed', ~raced'
               PROVE  \/ Coming' = {} /\ read_pos' = KeyBefore(target'.to)
                      \/ /\ exact' /\ play'.buffering
                         /\ \/ Ahead(target.to)' \/ target'.to = End
                            \/ shown' = target'.to /\ chosen' = "none" /\ ~play'.step
    <2>1. target' = target BY HeldPlay
    <2> QED BY <2>1 DEF Decided, Ahead
  <1>0. Queued /\ play \in Flags /\ target.to \in Nat /\ Holds(play)
    BY QueuedTyped DEF Typed, IInv, CallsTyped, Requests, Queued
  <1>1. /\ play.buffering => play'.buffering
        /\ play'.step => play.step
        /\ target' = target /\ failed' = failed /\ exact' = exact /\ ~raced
    BY HeldPlay
  <1>2. \/ Coming = {} /\ read_pos = KeyBefore(target.to)
        \/ /\ exact /\ play.buffering
           /\ \/ Ahead(target.to) \/ target.to = End
              \/ shown = target.to /\ chosen = "none" /\ ~play.step
    BY <1>1 DEF Decided
  <1>3. CASE \/ \E t \in 0..End : SeekTo(t)
             \/ \E what \in {"REQ_START", "REQ_PAUSE"} : StartOrPause(what)
             \/ MessageNext \/ BufferingStarts
    <2>1. UNCHANGED <<read_pos, packets, decoding, pictq, shown, chosen>>
      BY <1>3 DEF SeekTo, StartOrPause, MessageNext, HandlePrepared, HandleCompleted, HandleSeekComplete, HandleStart,
                  HandlePause, HandleSeek, HandleStop, BufferingStarts, frameVars, showVars
    <2>2. Coming' = Coming /\ Ahead(target.to)' = Ahead(target.to) BY <1>1, <2>1, SameFrames DEF Ahead
    <2> QED BY <1>1, <1>2, <2>1, <2>2
  <1>4. CASE Decode \/ QueuePicture
    <2>1. Coming' = Coming /\ read_pos' = read_pos BY <1>0, <1>4, MovesKeep
    <2>2. Ahead(target.to)' = Ahead(target.to) BY <1>1, <2>1 DEF Ahead
    <2>3. UNCHANGED <<shown, chosen>> BY <1>4 DEF Decode, QueuePicture, showVars
    <2> QED BY <1>1, <1>2, <2>1, <2>2, <2>3
  <1>5. CASE DropFrame
    <2>1. /\ pictq # <<>> /\ pictq' = Tail(pictq) /\ decoding' = decoding /\ packets' = packets /\ read_pos' = read_pos
          /\ Head(pictq).old /\ shown' = shown /\ chosen' = chosen
      BY <1>5 DEF DropFrame, showVars
    <2>2. Coming = Coming' BY <1>0, <2>1, PopTakes DEF FreshOf
    <2>3. Ahead(target.to)' = Ahead(target.to) BY <1>1, <2>1, <2>2 DEF Ahead
    <2> QED BY <1>1, <1>2, <2>1, <2>2, <2>3
  <1>6. CASE ChooseFrame
    <2>1. UNCHANGED <<read_pos, packets, decoding, pictq, shown, play>> /\ ~play.paused /\ ~play.crossed
      BY <1>6 DEF ChooseFrame, frameVars
    <2>2. play.buffering => play.step BY <1>0, <2>1 DEF Holds
    <2>3. Coming' = Coming /\ Ahead(target.to)' = Ahead(target.to) BY <1>1, <2>1, SameFrames DEF Ahead
    <2> QED BY <1>1, <1>2, <2>1, <2>2, <2>3
  <1>7. CASE ShowFrame
    <2>1. /\ pictq # <<>> /\ pictq' = Tail(pictq) /\ decoding' = decoding /\ packets' = packets /\ read_pos' = read_pos
          /\ shown' = Head(pictq).pos /\ chosen' = "none" /\ play' = Stepped(play) /\ chosen # "none"
      BY <1>7 DEF ShowFrame, Typed, FramesTyped
    <2>2. ~play'.step BY <1>0, <2>1, HeldStays
    <2>3. Coming = {} => Coming' = {} BY <1>0, <2>1, PopTakes
    <2>4. Ahead(target.to) => Ahead(target.to)' \/ shown' = target.to BY <1>0, <1>1, <2>1, PopAhead
    <2> QED BY <1>1, <1>2, <2>1, <2>2, <2>3, <2>4
  <1> QED BY <1>3, <1>4, <1>5, <1>6, <1>7 DEF FrameNext

\* A target that may be skipped to is ahead, or past the end.
LEMMA SkipAhead ==
    ASSUME Typed, InLine, Gapless, CanSkip
    PROVE  Ahead(is_seek_pos.to) \/ is_seek_pos.to = End
  <1>0. Queued /\ is_seek_pos.to \in 0..End BY QueuedTyped DEF Typed, CallsTyped, Requests
  <1>1. PICK i \in DOMAIN pictq : ~pictq[i].old /\ is_seek_pos.to >= pictq[i].pos
    BY DEF CanSkip, Remaining
  <1>2. pictq[i].pos \in Coming BY <1>1 DEF Coming, FreshIn
  <1> DEFINE a == pictq[i].pos
             t == is_seek_pos.to
  <1>2a. a \in Nat /\ End \in Nat /\ read_pos \in Nat BY <1>0, <1>2 DEF Queued
  <1>2b. t \in Nat /\ t <= End BY <1>0, <1>2a
  <1>3. a \in Coming /\ a \in Nat /\ a <= t /\ t \in Nat /\ End \in Nat /\ t <= End /\ read_pos \in Nat
    BY <1>1, <1>2, <1>2a, <1>2b
  <1> HIDE DEF a, t
  <1>4. CASE t < read_pos
    <2>1. t \in a..read_pos - 1 BY <1>3, <1>4
    <2>2. t \in Coming BY <1>3, <2>1 DEF Gapless
    <2> QED BY <2>2 DEF Ahead, t
  <1>5. CASE read_pos <= t
    <2>1. t < End \/ t = End BY <1>3
    <2> QED BY <1>5, <2>1 DEF Ahead, t
  <1> QED BY <1>3, <1>4, <1>5

\* The decision to skip is right, and stays right until the target is set.
LEMMA DecidedNext == Typed /\ InLine /\ Gapless /\ Decided /\ [Next]_vars => Decided'
  <1> SUFFICES ASSUME Typed, InLine, Gapless, Decided, [Next]_vars PROVE Decided' OBVIOUS
  <1>0. play \in Flags BY DEF Typed, IInv
  <1>1. CASE SeekBegins
    <2>1. /\ target' = is_seek_pos /\ play' = ToggleBuffering(play, TRUE) /\ exact' = exact
          /\ UNCHANGED <<read_pos, packets, decoding, pictq>> /\ (reader' = "sought" => CanSkip)
      BY <1>1 DEF SeekBegins, frameVars, showVars, modeVars
    <2>2. play'.buffering BY <1>0, <2>1, HeldStays
    <2>3. CanSkip => exact /\ (Ahead(is_seek_pos.to) \/ is_seek_pos.to = End) BY SkipAhead DEF CanSkip
    <2>4. Ahead(is_seek_pos.to) => is_seek_pos.to \in Coming' \/ (read_pos' <= is_seek_pos.to /\ is_seek_pos.to < End)
      BY <2>1, SameFrames DEF Ahead
    <2> QED BY <2>1, <2>2, <2>3, <2>4 DEF Decided, Ahead
  <1>2. CASE Flush
    <2>1. Coming' = {} BY <1>2, QueuedTyped, FlushTakes
    <2>2. read_pos' = KeyBefore(target.to) /\ target' = target BY <1>2 DEF Flush, readVars
    <2> QED BY <2>1, <2>2 DEF Decided
  <1>3. CASE FlushFails
    BY <1>3 DEF FlushFails, Decided
  <1>4. CASE reader' # "sought"
    BY <1>4 DEF Decided
  <1>5. CASE /\ reader' = "sought"
             /\ \/ \E t \in 0..End : SeekTo(t)
                \/ \E what \in {"REQ_START", "REQ_PAUSE"} : StartOrPause(what)
                \/ MessageNext \/ FrameNext
    <2>1. reader = "sought"
      BY <1>5 DEF SeekTo, StartOrPause, MessageNext, HandlePrepared, HandleCompleted, HandleSeekComplete, HandleStart,
                  HandlePause, HandleSeek, HandleStop, FrameNext, BufferingStarts, Decode, QueuePicture, DropFrame,
                  ChooseFrame, ShowFrame, appVars
    <2> QED BY <1>5, <2>1, DecidedHeld
  <1>6. CASE UNCHANGED vars
    <2>1. UNCHANGED <<reader, failed, raced, target, exact, play, shown, chosen, read_pos, packets, decoding, pictq>>
      BY <1>6 DEF vars, readVars, frameVars, showVars, modeVars, ghostVars
    <2>2. Coming' = Coming BY <2>1, SameFrames
    <2> QED BY <2>1, <2>2 DEF Decided, Ahead
  <1>7. CASE /\ reader' = "sought"
             /\ \/ Stop \/ Prepare \/ Open \/ SetTarget \/ SeekEnds \/ LoopAround \/ EndReached \/ DelayOver \/ Complete
                \/ ReadPacket \/ BufferingEnds
    BY <1>7 DEF Stop, Prepare, Open, SetTarget, SeekEnds, LoopAround, EndReached, DelayOver, Complete, ReadPacket, BufferingEnds
  <1> QED BY <1>1, <1>2, <1>3, <1>4, <1>5, <1>6, <1>7 DEF Next, AppNext, ReaderNext, SeekNext

\* The frame that is to be the first after a seek: on the screen, or ahead and not dropped before it is chosen.
OnScreen == landing = shown /\ chosen # "before"
ToCome ==
    /\ Ahead(landing)
    /\ IF exact THEN seek_pos = landing ELSE landing <= read_pos /\ \A a \in Coming : landing <= a
    /\ chosen = "head" => Head(pictq).pos = landing

LEMMA LandingCases == Landing /\ landing # None => OnScreen \/ ToCome
  BY DEF Landing, OnScreen, ToCome

\* What the next four lemmas assume of the state.
Settled == Queued /\ Typed /\ InLine /\ Gapless /\ Landing /\ landing # None /\ landing \in Nat

\* A packet read.
LEMMA ReadLands == Settled /\ ReadPacket => OnScreen' \/ ToCome'
  <1> SUFFICES ASSUME Settled, ReadPacket PROVE OnScreen' \/ ToCome' OBVIOUS
  <1> USE DEF Settled
  <1>1. UNCHANGED <<landing, shown, chosen, exact, seek_pos, pictq>>
    BY DEF ReadPacket, readVars, showVars, modeVars, ghostVars
  <1>2. Coming' = Coming \cup {read_pos} /\ read_pos' = read_pos + 1 /\ read_pos < End /\ read_pos \in Nat /\ End \in Nat
    BY ReadAdds DEF Queued
  <1>3. CASE OnScreen BY <1>1, <1>3 DEF OnScreen
  <1>4. CASE ToCome
    <2>1. Ahead(landing)'
      <3>1. landing \in Coming \/ (read_pos <= landing /\ landing < End) BY <1>4 DEF ToCome, Ahead
      <3>2. read_pos <= landing => landing = read_pos \/ read_pos + 1 <= landing BY <1>2
      <3> QED BY <1>1, <1>2, <3>1, <3>2 DEF Ahead
    <2>2. landing <= read_pos => landing <= read_pos + 1 BY <1>2
    <2> QED BY <1>1, <1>2, <1>4, <2>1, <2>2 DEF ToCome
  <1> QED BY <1>3, <1>4, LandingCases

\* A frame moved on.
LEMMA MovedLands == Settled /\ (Decode \/ QueuePicture) => OnScreen' \/ ToCome'
  <1> SUFFICES ASSUME Settled, Decode \/ QueuePicture PROVE OnScreen' \/ ToCome' OBVIOUS
  <1> USE DEF Settled
  <1>1. UNCHANGED <<landing, shown, chosen, exact, seek_pos>>
    BY DEF Decode, QueuePicture, readVars, showVars, modeVars, ghostVars
  <1>2. Coming' = Coming /\ read_pos' = read_pos BY MovesKeep
  <1>3. pictq # <<>> => Head(pictq') = Head(pictq)
    <2>1. CASE Decode BY <2>1 DEF Decode
    <2>2. CASE QueuePicture
      <3>1. pictq' = Append(pictq, decoding) /\ pictq \in Seq(FramesAt) /\ decoding \in FramesAt BY <2>2 DEF QueuePicture, Queued
      <3> QED BY ONLY <3>1
    <2> QED BY <2>1, <2>2
  <1>4. chosen # "none" => pictq # <<>> BY DEF Typed, FramesTyped
  <1>5. Ahead(landing)' = Ahead(landing) BY <1>1, <1>2 DEF Ahead
  <1> QED BY <1>1, <1>2, <1>3, <1>4, <1>5, LandingCases DEF OnScreen, ToCome

\* The frame dropped is not the one.
LEMMA DroppedLands == Settled /\ DropFrame => OnScreen' \/ ToCome'
  <1> SUFFICES ASSUME Settled, DropFrame PROVE OnScreen' \/ ToCome' OBVIOUS
  <1> USE DEF Settled
  <1>1. /\ UNCHANGED <<landing, shown, chosen, exact, seek_pos, decoding, packets, read_pos>>
        /\ pictq # <<>> /\ pictq' = Tail(pictq) /\ chosen = "none" /\ Dropped(Head(pictq))
    BY DEF DropFrame, readVars, showVars, modeVars, ghostVars
  <1>2. CASE OnScreen BY <1>1, <1>2 DEF OnScreen
  <1>3. CASE ToCome
    <2>1. Ahead(landing)' \/ (Head(pictq).pos = landing /\ ~Head(pictq).old)
      <3>1. Ahead(landing) BY <1>3 DEF ToCome
      <3> QED BY <1>1, <3>1, PopAhead DEF Ahead
    <2>2. Coming' \subseteq Coming BY <1>1, PopTakes
    <2>3. Head(pictq).pos = landing /\ ~Head(pictq).old => exact /\ landing < landing
      BY <1>1, <1>3 DEF Dropped, ToCome
    <2>4. Ahead(landing)' BY <2>1, <2>3
    <2> QED BY <1>1, <1>3, <2>2, <2>4 DEF ToCome
  <1> QED BY <1>2, <1>3, LandingCases

\* The frame chosen is the least of those that are coming, and so the one.
LEMMA ChosenLands == Settled /\ ChooseFrame => OnScreen' \/ ToCome'
  <1> SUFFICES ASSUME Settled, ChooseFrame PROVE OnScreen' \/ ToCome' OBVIOUS
  <1> USE DEF Settled
  <1> DEFINE h == Head(pictq)
  <1>1. /\ UNCHANGED <<landing, shown, exact, seek_pos, decoding, packets, read_pos, pictq>>
        /\ pictq # <<>> /\ chosen' = "head" /\ ~Dropped(h)
    BY DEF ChooseFrame, readVars, modeVars, frameVars
  <1>2. CASE OnScreen BY <1>1, <1>2 DEF OnScreen
  <1>3. CASE ToCome
    <2>1. ~h.old /\ (exact => ~(h.pos < seek_pos)) BY <1>1 DEF Dropped
    <2>2. FreshIn(pictq) = FreshIn(Tail(pictq)) \cup {h.pos} /\ Less({h.pos}, FreshIn(Tail(pictq)))
      BY <1>1, <2>1, FreshTail DEF Queued, InLine, FreshOf
    <2>3. h.pos \in FreshIn(pictq) BY <2>2
    <2>4. h.pos \in Coming /\ h.pos \in Nat /\ h.pos < read_pos BY <2>3 DEF Coming, Queued, InLine, Less
    <2>5. \A a \in Coming : a = h.pos \/ h.pos < a BY <2>2, <2>3 DEF Coming, InLine, Less
    <2>6. read_pos \in Nat /\ landing \in Nat BY DEF Queued
    <2>7. landing <= h.pos
      <3>1. CASE exact
        <4>1. seek_pos = landing BY <1>3, <3>1 DEF ToCome
        <4> QED BY <2>1, <2>4, <2>6, <3>1, <4>1
      <3>2. CASE ~exact BY <1>3, <2>4, <3>2 DEF ToCome
      <3> QED BY <3>1, <3>2
    <2>8. landing = h.pos
      <3>1. landing \in Coming \/ read_pos <= landing BY <1>3 DEF ToCome, Ahead
      <3> QED BY <2>4, <2>5, <2>6, <2>7, <3>1
    <2>9. Coming' = Coming /\ Ahead(landing)' = Ahead(landing) BY <1>1, SameFrames DEF Ahead
    <2> QED BY <1>1, <1>3, <2>8, <2>9 DEF ToCome
  <1> QED BY <1>2, <1>3, LandingCases

\* A frame chosen before the seek may be shown, and may be the one.
LEMMA ShownLands == Settled /\ ShowFrame => landing' = None \/ OnScreen' \/ ToCome'
  <1> SUFFICES ASSUME Settled, ShowFrame, landing' # None PROVE OnScreen' \/ ToCome' OBVIOUS
  <1> USE DEF Settled
  <1>1. /\ UNCHANGED <<landing, exact, seek_pos, decoding, packets, read_pos>> /\ chosen = "before" /\ chosen' = "none"
        /\ shown' = Head(pictq).pos /\ pictq # <<>> /\ pictq' = Tail(pictq)
    BY DEF ShowFrame, readVars, modeVars, Typed, FramesTyped
  <1>2. ToCome BY <1>1, LandingCases DEF OnScreen
  <1>3. Ahead(landing)' \/ Head(pictq).pos = landing
    <2>1. Ahead(landing) BY <1>2 DEF ToCome
    <2> QED BY <1>1, <2>1, PopAhead DEF Ahead
  <1>4. Coming' \subseteq Coming BY <1>1, PopTakes
  <1> QED BY <1>1, <1>2, <1>3, <1>4 DEF ToCome, OnScreen

\* The seek is answered: where it lands is ahead of the stream or on its screen.
LEMMA SetLands == Typed /\ Queued /\ Decided /\ SetTarget => landing' = None \/ OnScreen' \/ ToCome'
  <1> SUFFICES ASSUME Typed, Queued, Decided, SetTarget, landing' # None PROVE OnScreen' \/ ToCome' OBVIOUS
  <1> DEFINE t == target.to
  <1>1. /\ UNCHANGED <<shown, exact, decoding, packets, read_pos, pictq>> /\ ~failed /\ ~raced
        /\ landing' = LandsAt(t) /\ seek_pos' = t /\ chosen' = (IF chosen = "none" THEN "none" ELSE "before")
        /\ reader = "sought"
    BY DEF SetTarget, frameVars, modeVars
  <1>2. t \in Nat /\ End \in Nat /\ read_pos \in Nat BY DEF Typed, CallsTyped, Requests, Queued
  <1>3. Coming' = Coming BY <1>1, SameFrames
  <1>4. exact => t < End /\ landing' = t BY <1>1 DEF LandsAt
  <1>5. ~exact => landing' = KeyBefore(t) BY <1>1 DEF LandsAt
  <1>6. KeyBefore(t) \in 0..End - 1 /\ KeyBefore(t) <= t BY <1>2, KeyFrameThere
  <1> HIDE DEF t
  <1>7. CASE Coming = {} /\ read_pos = KeyBefore(t)
    <2>1. CASE exact
      <3>1. Ahead(landing)' BY <1>1, <1>4, <1>6, <1>7, <2>1 DEF Ahead
      <3> QED BY <1>1, <1>4, <2>1, <3>1 DEF ToCome
    <2>2. CASE ~exact
      <3>0. read_pos' = landing' /\ landing' < End /\ landing' <= read_pos' BY <1>1, <1>2, <1>5, <1>6, <1>7, <2>2
      <3>1. Ahead(landing)' BY <3>0 DEF Ahead
      <3> QED BY <1>1, <1>3, <1>7, <2>2, <3>0, <3>1 DEF ToCome
    <2> QED BY <2>1, <2>2
  <1>8. CASE exact /\ Ahead(t)
    <2>1. Ahead(landing)' BY <1>1, <1>3, <1>4, <1>8 DEF Ahead
    <2> QED BY <1>1, <1>4, <1>8, <2>1 DEF ToCome
  <1>9. CASE exact /\ shown = t /\ chosen = "none"
    BY <1>1, <1>4, <1>9 DEF OnScreen
  <1>10. ~(exact /\ t = End) BY <1>2, <1>4
  <1> QED BY <1>1, <1>7, <1>8, <1>9, <1>10 DEF Decided, t

\* At the end nothing is ahead, and the loop's own request changes no landing.
LEMMA LoopLands == Settled /\ LoopAround => OnScreen' \/ ToCome'
  <1> SUFFICES ASSUME Settled, LoopAround PROVE OnScreen' \/ ToCome' OBVIOUS
  <1> USE DEF Settled
  <1>1. UNCHANGED <<landing, shown, chosen>> /\ read_pos = End /\ packets = <<>> /\ decoding = None /\ pictq = <<>>
    BY DEF LoopAround, AtEnd, showVars
  <1>2. Coming = {} BY <1>1, FreshNone DEF Coming, InHand
  <1>3. landing \in Nat /\ End \in Nat BY DEF Queued
  <1>4. ~Ahead(landing) BY <1>1, <1>2, <1>3 DEF Ahead
  <1> QED BY <1>1, <1>4, LandingCases DEF ToCome, OnScreen

\* Steps that change nothing of it.
LEMMA StillLands ==
    ASSUME Landing, UNCHANGED <<landing, shown, chosen, exact, seek_pos, decoding, packets, read_pos, pictq>>,
           landing # None
    PROVE  OnScreen' \/ ToCome'
  <1>1. Coming' = Coming /\ Ahead(landing)' = Ahead(landing) BY SameFrames DEF Ahead
  <1> QED BY <1>1, LandingCases DEF ToCome, OnScreen

\* Every step keeps the landing in view.
LEMMA LandingNext == Typed /\ Control /\ InLine /\ Gapless /\ Decided /\ Landing /\ [Next]_vars => Landing'
  <1> SUFFICES ASSUME Typed, Control, InLine, Gapless, Decided, Landing, [Next]_vars PROVE Landing' OBVIOUS
  <1>0. Queued /\ (landing # None => Settled)
    BY QueuedTyped, SeekAssumption DEF Typed, FramesTyped, Positions, Settled
  <1>1. reader' \in {"none", "opening", "seeking", "sought"} => landing' = None
    <2>1. CASE Stop \/ Prepare \/ SeekBegins
      BY <2>1 DEF Stop, Prepare, SeekBegins, Control, Landing, ghostVars
    <2>2. CASE Flush \/ FlushFails
      BY <2>2 DEF Flush, FlushFails, Landing, ghostVars
    <2>3. CASE reader' = reader /\ landing' \in {landing, None}
      BY <2>3 DEF Landing
    <2>4. CASE (\E t \in 0..End : SeekTo(t)) \/ (\E what \in {"REQ_START", "REQ_PAUSE"} : StartOrPause(what))
      BY <2>4, <2>3 DEF SeekTo, StartOrPause, ghostVars
    <2>5. CASE MessageNext \/ UNCHANGED vars
      BY <2>5, <2>3 DEF MessageNext, HandlePrepared, HandleCompleted, HandleSeekComplete, HandleStart,
                  HandlePause, HandleSeek, HandleStop, ghostVars, vars
    <2>6. CASE Open \/ SetTarget \/ SeekEnds \/ EndReached \/ DelayOver \/ Complete
      BY <2>6 DEF Open, SetTarget, SeekEnds, EndReached, DelayOver, Complete
    <2>7. CASE LoopAround \/ ReadPacket \/ BufferingEnds \/ FrameNext
      BY <2>7, <2>3 DEF LoopAround, ReadPacket, BufferingEnds, FrameNext, BufferingStarts, Decode, QueuePicture, DropFrame,
                  ChooseFrame, ShowFrame, ghostVars
    <2> QED BY <2>1, <2>2, <2>4, <2>5, <2>6, <2>7 DEF Next, AppNext, ReaderNext, SeekNext
  <1>2. ASSUME landing' # None PROVE OnScreen' \/ ToCome'
    <2>1. CASE SetTarget BY <1>0, <1>2, <2>1, SetLands
    <2>2. CASE Stop \/ Prepare \/ SeekBegins \/ Flush \/ FlushFails
      <3>1. landing' = None
        BY <2>2 DEF Stop, Prepare, SeekBegins, Flush, FlushFails, Control, Landing, ghostVars
      <3> QED BY <1>2, <3>1
    <2>3. landing # None \/ SetTarget
      BY <1>2 DEF Next, AppNext, SeekTo, StartOrPause, Stop, Prepare, MessageNext, HandlePrepared, HandleCompleted,
                  HandleSeekComplete, HandleStart, HandlePause, HandleSeek, HandleStop, ReaderNext, SeekNext, Open,
                  SeekBegins, Flush, FlushFails, SeekEnds, LoopAround, EndReached, DelayOver, Complete, ReadPacket,
                  BufferingEnds, FrameNext, BufferingStarts, Decode, QueuePicture, DropFrame, ChooseFrame, ShowFrame,
                  ghostVars, vars
    <2>4. CASE Settled /\ (ReadPacket \/ Decode \/ QueuePicture \/ DropFrame \/ ChooseFrame \/ ShowFrame \/ LoopAround)
      BY <1>2, <2>4, ReadLands, MovedLands, DroppedLands, ChosenLands, ShownLands, LoopLands
    <2>5. CASE /\ landing # None
               /\ \/ (\E t \in 0..End : SeekTo(t)) \/ (\E what \in {"REQ_START", "REQ_PAUSE"} : StartOrPause(what))
                  \/ MessageNext \/ Open \/ SeekEnds \/ EndReached \/ DelayOver \/ Complete \/ BufferingEnds
                  \/ BufferingStarts \/ UNCHANGED vars
      <3>1. UNCHANGED <<landing, shown, chosen, exact, seek_pos, decoding, packets, read_pos, pictq>>
        BY <2>5 DEF SeekTo, StartOrPause, MessageNext, HandlePrepared, HandleCompleted, HandleSeekComplete, HandleStart,
                    HandlePause, HandleSeek, HandleStop, Open, SeekEnds, EndReached, DelayOver, Complete, BufferingEnds,
                    BufferingStarts, readVars, frameVars, showVars, modeVars, ghostVars, vars
      <3> QED BY <2>5, <3>1, StillLands
    <2> QED BY <1>0, <2>1, <2>2, <2>3, <2>4, <2>5 DEF Next, AppNext, ReaderNext, SeekNext, FrameNext
  <1> QED BY <1>1, <1>2 DEF Landing, OnScreen, ToCome

\* What holds of the frames on their way, besides the rest.
LInv == SInv /\ InLine /\ Gapless /\ Decided /\ Landing

\* It holds at the start and is kept.
LEMMA InitLInv == Init => LInv
  <1> SUFFICES ASSUME Init PROVE LInv OBVIOUS
  <1>1. packets = <<>> /\ pictq = <<>> /\ decoding = None /\ reader = "none" /\ landing = None BY DEF Init
  <1>2. FreshIn(packets) = {} /\ FreshIn(pictq) = {} /\ InHand = {} /\ Sorted(packets) /\ Sorted(pictq)
    BY <1>1, FreshNone DEF InHand
  <1> QED BY <1>1, <1>2, InitSInv DEF LInv, InLine, Gapless, Less, Coming, Decided, Landing

LEMMA NextLInv == LInv /\ [Next]_vars => LInv'
  BY NextSInv, FramesInLine, DecidedNext, LandingNext DEF LInv, SInv

\* The first frame chosen after a seek is the one asked for, for every file and
\* set of key frames, by a flush or by a skip, and whatever is asked meanwhile.
THEOREM SeeksLand == Spec => LandsWhereAsked
  <1> DEFINE Lands == chosen = "head" /\ chosen' = "none" /\ reader' # "opening" /\ landing # None
                          => landing \in {Head(pictq).pos, shown}
  <1>1. LInv /\ [Next]_vars => [Lands]_vars
    <2> SUFFICES ASSUME LInv, Next, chosen = "head", chosen' = "none", reader' # "opening", landing # None
                 PROVE  landing \in {Head(pictq).pos, shown}
      OBVIOUS
    <2> QED BY DEF LInv, Landing
  <1>2. LInv /\ [Next]_vars => LInv' BY NextLInv
  <1>3. Init => LInv BY InitLInv
  <1> QED BY <1>1, <1>2, <1>3, PTL DEF Spec, LandsWhereAsked
=============================================================================
