-------------------------- MODULE MediaCodecNode_proofs --------------------------
(* Which buffers are out of the codec, and what is drawn where: theorems    *)
(* for any number of buffers, windows, packets and calls.                   *)
EXTENDS MediaCodecNode, TLAPS

Packets == [kind : {"data", "flush", "surface"}, serial : Nat]

Types ==
    /\ voutCodec \in BOOLEAN /\ fed \in BOOLEAN /\ started \in BOOLEAN
    /\ {serial, pktSerial, pending, flushed} \subseteq Nat
    /\ queue \in Seq(Packets) /\ inside \in Seq(Nat)
    /\ lent \in [Buffers -> Nat \cup {None}]
    /\ frame \in Proxy \cup {None} /\ pictq \in Seq(Proxy)
    /\ packet \in {"none", "data", "flush", "surface"}

\* acodec_mutex: held by the draining thread while it dequeues, and by the
\* feeding thread from the first step of a change or a flush to its last.
Locked ==
    /\ drain = "dequeue" <=> lock = "drain"
    /\ feeder \in {"apply", "reconfigure", "flushCodec", "flushed"} <=> lock = "feeder"

\* The draining thread has a frame in hand from Dequeue to the queue.
InHand ==
    /\ drain \in {"frame", "push"} => frame # None
    /\ drain \notin {"clear", "frame", "push"} => frame = None

\* No proxy counts when the codec takes its buffers back.
Emptied ==
    feeder \in {"reconfigure", "flushCodec"} \/ drain \in {"stop", "ended"} => Valid = {}

IInv == Types /\ Locked /\ InHand /\ Emptied /\ ReleasesOnlyLent

\* Nothing is out of a codec that was fed nothing since its flush, or is stopped.
Unfed == ~(fed /\ started) => inside = <<>> /\ Valid = {}

\* Serials never fall along the queue; what is taken later belongs to the last flush or follows it.
Sorted ==
    /\ 0 < serial /\ pktSerial <= serial /\ flushed <= pktSerial
    /\ \A i \in DOMAIN queue : pktSerial <= queue[i].serial /\ queue[i].serial <= serial
    /\ \A i, j \in DOMAIN queue : i <= j => queue[i].serial <= queue[j].serial

\* A flush packet is not lost on its way through the feeding thread.
FlushKept == packet = "flush" => feeder \notin {"loop", "input"}

\* The feeding thread goes on to feed only with a packet pending.
Armed ==
    /\ feeder = "input" => packet = "none"
    /\ packet = "none" /\ feeder \notin {"loop", "take", "ended"} => pending # 0

\* What the codec holds from before the flush, as input or as output.
OldIn  == {i \in DOMAIN inside : inside[i] < flushed}
OldOut == {p \in Valid : p.of < flushed}

\* Without a flush on its way there is one such thing at most, and while it is still to be
\* fed there is none.
Lone ==
    ~FlushDue /\ feeder # "flushCodec" =>
        /\ \A i, j \in OldIn : i = j
        /\ \A p, q \in OldOut : p.buf = q.buf
        /\ OldIn = {} \/ OldOut = {}
        /\ pending # 0 /\ pending < flushed => OldIn = {} /\ OldOut = {}
        /\ OldIn # {} \/ OldOut # {} => revived

FInv == Unfed /\ Sorted /\ FlushKept /\ Armed /\ Lone

\* How far a request for a window has come, if none met another.
Requested ==
    ~overlap /\ ~CodecFails =>
        /\ ~need /\ ~InSetup => codecWindow = window /\ voutCodec
        /\ ~InSetup /\ codecWindow = window => voutCodec
        /\ feeder \in {"change", "apply", "reconfigure"} => target = window
        /\ feeder \in {"applied", "changed"} => codecWindow = window /\ voutCodec

-----------------------------------------------------------------------------
(* The actions, by what they do to proxies and buffers.                     *)

\* Neither a proxy nor a buffer moves.
Still ==
    \/ SendSurface \/ Answered \/ GiveUp \/ SeekAfter \/ SeekTo \/ Abort
    \/ ReadPacket \/ SeekBegins \/ SeekFails \/ FlushQueue \/ SeekSkipped \/ SeekEnds
    \/ FeedLoop \/ TakePacket \/ SetupSurface \/ Applied \/ AwaitFirst \/ SortPacket \/ NewSize
    \/ Flushed \/ Feed \/ DrainLock \/ DrainWake \/ Leave \/ UNCHANGED vars

\* Proxies are made invalid, or left as they are.
Invalidating == SetWindow \/ SetPipeline \/ ChangeBegins \/ ApplySurface \/ FlushBegins \/ Join

\* The codec takes its buffers back.
TakingBack == Reconfigure \/ FlushCodec \/ Stop

\* A proxy is made, moves on, or is released.
Moving == Dequeue \/ ClearFirst \/ DropEarly \/ Offer \/ QueuePicture \/ Show

LEMMA Groups == [Next]_vars => Still \/ Invalidating \/ TakingBack \/ Moving
  BY DEF Next, AppNext, ReaderNext, SetupNext, FeederNext, DrainNext, Still, Invalidating, TakingBack, Moving

LEMMA StillHere ==
    ASSUME Still PROVE UNCHANGED <<frame, pictq, lent>>
  <1>1. CASE SendSurface \/ Answered \/ GiveUp \/ SeekAfter \/ SeekTo \/ Abort
    BY <1>1 DEF SendSurface, Answered, GiveUp, SeekAfter, SeekTo, Abort, drainVars, codecVars
  <1>2. CASE ReadPacket \/ SeekBegins \/ SeekFails \/ FlushQueue \/ SeekSkipped \/ SeekEnds
    BY <1>2 DEF ReadPacket, SeekBegins, SeekFails, FlushQueue, SeekSkipped, SeekEnds, drainVars, codecVars
  <1>3. CASE FeedLoop \/ TakePacket \/ SetupSurface \/ Applied \/ AwaitFirst \/ SortPacket
    BY <1>3 DEF FeedLoop, TakePacket, SetupSurface, Applied, AwaitFirst, SortPacket, drainVars, codecVars
  <1>4. CASE NewSize \/ Flushed \/ Feed \/ DrainLock \/ DrainWake \/ Leave
    BY <1>4 DEF NewSize, Flushed, Feed, DrainLock, DrainWake, Leave, drainVars, codecVars
  <1>5. CASE UNCHANGED vars BY <1>5 DEF vars, drainVars, codecVars
  <1> QED BY <1>1, <1>2, <1>3, <1>4, <1>5 DEF Still

LEMMA InvalidatingHere ==
    ASSUME Invalidating PROVE (InvalidateAll \/ UNCHANGED <<frame, pictq>>) /\ UNCHANGED lent
  BY DEF Invalidating, SetWindow, SetPipeline, ChangeBegins, ApplySurface, FlushBegins, Join, SetCodec,
         drainVars, codecVars

-----------------------------------------------------------------------------
(* Sets of proxies.                                                         *)

LEMMA ValidIsProxy ==
    Types => \A p \in Valid : p \in Proxy /\ p.buf \in Buffers
  <1> SUFFICES ASSUME Types, NEW p \in Valid PROVE p \in Proxy /\ p.buf \in Buffers OBVIOUS
  <1>1. \A i \in DOMAIN pictq : pictq[i] \in Proxy BY DEF Types
  <1>2. p \in Proxy BY <1>1 DEF Types, Valid, Proxies
  <1> QED BY <1>2 DEF Valid, Proxy

\* After InvalidateAll no proxy counts, and each is where it was.
LEMMA InvalidateEmpties ==
    ASSUME Types, InvalidateAll
    PROVE  /\ Valid' = {}
           /\ frame' \in Proxy \cup {None} /\ (frame' = None <=> frame = None)
           /\ pictq' \in Seq(Proxy)
  <1>1. \A p \in Proxy : Invalid(p) \in Proxy /\ Invalid(p).buf = Spent
    BY NoneAssumption DEF Invalid, Proxy
  <1>2. frame' \in Proxy \cup {None} /\ (frame' = None <=> frame = None)
    BY <1>1, NoneAssumption DEF Types, InvalidateAll, Invalid
  <1>3. frame' # None => frame'.buf = Spent
    BY <1>1, <1>2 DEF Types, InvalidateAll
  <1>4. DOMAIN pictq' = DOMAIN pictq /\ \A i \in DOMAIN pictq : pictq'[i] = Invalid(pictq[i])
    BY DEF InvalidateAll
  <1>5. pictq \in Seq(Proxy) BY DEF Types
  <1>6. \A i \in DOMAIN pictq : pictq[i] \in Proxy BY <1>5
  <1>7. pictq' \in Seq(Proxy)
    <2>1. pictq' = [i \in 1..Len(pictq) |-> Invalid(pictq[i])] BY <1>5 DEF InvalidateAll
    <2>2. \A i \in 1..Len(pictq) : Invalid(pictq[i]) \in Proxy BY <1>1, <1>5
    <2>3. Len(pictq) \in Nat BY <1>5
    <2> QED BY <2>1, <2>2, <2>3
  <1>8. Valid' = {} BY <1>1, <1>3, <1>4, <1>6 DEF Valid, Proxies
  <1> QED BY <1>2, <1>7, <1>8

LEMMA SameValid ==
    ASSUME UNCHANGED <<frame, pictq>> PROVE Valid' = Valid
  BY DEF Valid, Proxies

\* Where no proxy counts there is nothing to release wrongly.
LEMMA NoneValid ==
    ASSUME Types', Valid' = {} PROVE ReleasesOnlyLent'
  <1>1. \A i \in DOMAIN pictq' : pictq'[i] \in Proxy BY DEF Types
  <1>2. \A i \in DOMAIN pictq' : pictq'[i].buf = Spent
    BY <1>1, NoneAssumption DEF Valid, Proxies
  <1> QED BY <1>2 DEF ReleasesOnlyLent

\* What remains of the proxies when the first picture goes.
LEMMA TailValid ==
    ASSUME Types, ReleasesOnlyLent, pictq # <<>>, pictq' = Tail(pictq), frame' = frame
    PROVE  /\ Valid' \subseteq Valid
           /\ Head(pictq).buf # Spent => \A p \in Valid' : p.buf # Head(pictq).buf
           /\ pictq' \in Seq(Proxy) /\ Head(pictq) \in Proxy
           /\ \A i \in DOMAIN pictq' : i \in Nat /\ i + 1 \in DOMAIN pictq /\ pictq'[i] = pictq[i + 1]
  <1>1. pictq \in Seq(Proxy) BY DEF Types
  <1>2. /\ pictq' \in Seq(Proxy) /\ Head(pictq) \in Proxy
        /\ 1 \in DOMAIN pictq /\ Head(pictq) = pictq[1]
        /\ \A i \in DOMAIN pictq' : i \in Nat /\ i + 1 \in DOMAIN pictq /\ i + 1 # 1 /\ pictq'[i] = pictq[i + 1]
    BY <1>1
  <1>3. Valid' \subseteq Valid BY <1>2 DEF Valid, Proxies
  <1>4. ASSUME Head(pictq).buf # Spent, NEW p \in Valid' PROVE p.buf # Head(pictq).buf
    <2>1. CASE p = frame
      BY <1>2, <1>4, <2>1 DEF Valid, ReleasesOnlyLent
    <2>2. CASE p # frame
      <3>1. PICK i \in DOMAIN pictq' : p = pictq'[i] BY <1>4, <2>2 DEF Valid, Proxies
      <3>2. pictq[1].buf # pictq[i + 1].buf \/ pictq[1].buf = Spent
        BY <1>2 DEF ReleasesOnlyLent
      <3> QED BY <1>2, <1>4, <3>1, <3>2
    <2> QED BY <2>1, <2>2
  <1> QED BY <1>2, <1>3, <1>4

-----------------------------------------------------------------------------
(* ReleasesOnlyLent.                                                        *)

LEMMA InitIInv == Init => IInv
  <1> SUFFICES ASSUME Init PROVE IInv OBVIOUS
  <1>1. FlushPacket \in Packets BY DEF FlushPacket, Packets
  <1>2. queue \in Seq(Packets) /\ inside \in Seq(Nat) /\ pictq \in Seq(Proxy) BY <1>1 DEF Init
  <1>3. Types
    <2>1. {serial, pktSerial, pending, flushed} \subseteq Nat BY DEF Init
    <2>2. lent \in [Buffers -> Nat \cup {None}] BY DEF Init
    <2> QED BY <1>2, <2>1, <2>2 DEF Init, Types
  <1>4. Valid = {} BY DEF Init, Valid, Proxies
  <1> QED BY <1>3, <1>4 DEF Init, IInv, Locked, InHand, Emptied, ReleasesOnlyLent

LEMMA AppendTyped ==
    ASSUME NEW S, NEW s \in Seq(S), NEW e \in S PROVE Append(s, e) \in Seq(S)
  OBVIOUS

\* What each step may do to the rest of Types.
LEMMA Changes ==
    ASSUME [Next]_vars
    PROVE  /\ voutCodec' = voutCodec \/ voutCodec' \in BOOLEAN
           /\ fed' = fed \/ fed' \in BOOLEAN
           /\ started' = started \/ started' \in BOOLEAN
           /\ serial' = serial \/ serial' = serial + 1
           /\ pending' \in {pending, 0, pktSerial}
           /\ flushed' = flushed \/ flushed' = pktSerial'
           /\ packet' \in {packet, "none"} \/ (queue # <<>> /\ packet' = Head(queue).kind)
           /\ pktSerial' = pktSerial \/ (queue # <<>> /\ pktSerial' = Head(queue).serial)
           /\ \/ queue' = queue \/ (queue # <<>> /\ queue' = Tail(queue))
              \/ \E k \in {"data", "surface"} : queue' = Append(queue, [kind |-> k, serial |-> serial'])
              \/ queue' = <<[kind |-> "flush", serial |-> serial + 1]>>
           /\ \/ inside' = inside \/ inside' = <<>> \/ inside' = Append(inside, pending)
              \/ (inside # <<>> /\ inside' = Tail(inside))
  <1> USE DEF Next, AppNext, ReaderNext, SetupNext, FeederNext, DrainNext, vars, SetWindow, SetPipeline, SendSurface,
           Answered, GiveUp, SeekAfter, SeekTo, Abort, ReadPacket, SeekBegins, SeekFails, FlushQueue, SeekSkipped, SeekEnds,
           FeedLoop, TakePacket, SetupSurface, ChangeBegins, ApplySurface, Reconfigure, Applied, AwaitFirst,
           SortPacket, NewSize, FlushBegins, FlushCodec, Flushed, Feed, DrainLock, DrainWake, Dequeue, ClearFirst,
           DropEarly, Offer, QueuePicture, Leave, Join, Stop, Show, SetCodec, codecVars, feedVars, seenVars, queueVars
  <1>1. voutCodec' = voutCodec \/ voutCodec' \in BOOLEAN OBVIOUS
  <1>2. fed' = fed \/ fed' \in BOOLEAN OBVIOUS
  <1>3. serial' = serial \/ serial' = serial + 1 OBVIOUS
  <1>4. packet' \in {packet, "none"} \/ (queue # <<>> /\ packet' = Head(queue).kind) OBVIOUS
  <1>5. pktSerial' = pktSerial \/ (queue # <<>> /\ pktSerial' = Head(queue).serial) OBVIOUS
  <1>6. \/ queue' = queue \/ (queue # <<>> /\ queue' = Tail(queue))
        \/ \E k \in {"data", "surface"} : queue' = Append(queue, [kind |-> k, serial |-> serial'])
        \/ queue' = <<[kind |-> "flush", serial |-> serial + 1]>>
    OBVIOUS
  <1>7. \/ inside' = inside \/ inside' = <<>> \/ inside' = Append(inside, pending)
        \/ (inside # <<>> /\ inside' = Tail(inside))
    OBVIOUS
  <1>8. started' = started \/ started' \in BOOLEAN OBVIOUS
  <1>9. pending' \in {pending, 0, pktSerial} OBVIOUS
  <1>10. flushed' = flushed \/ flushed' = pktSerial' OBVIOUS
  <1> QED BY ONLY <1>1, <1>2, <1>3, <1>4, <1>5, <1>6, <1>7, <1>8, <1>9, <1>10

LEMMA TypesStill ==
    ASSUME Types, [Next]_vars
    PROVE  /\ voutCodec' \in BOOLEAN /\ fed' \in BOOLEAN /\ started' \in BOOLEAN
           /\ {serial', pktSerial', pending', flushed'} \subseteq Nat
           /\ queue' \in Seq(Packets) /\ inside' \in Seq(Nat)
           /\ packet' \in {"none", "data", "flush", "surface"}
  <1>1. voutCodec' \in BOOLEAN /\ fed' \in BOOLEAN /\ started' \in BOOLEAN /\ serial' \in Nat
    BY Changes DEF Types
  <1>2. queue # <<>> => Head(queue).kind \in {"data", "flush", "surface"} /\ Head(queue).serial \in Nat
    <2>1. queue # <<>> => Head(queue) \in Packets BY DEF Types
    <2> QED BY <2>1 DEF Packets
  <1>3. pktSerial' \in Nat /\ packet' \in {"none", "data", "flush", "surface"}
    BY <1>2, Changes DEF Types
  <1>7. pending' \in Nat /\ flushed' \in Nat BY <1>3, Changes DEF Types
  <1>4. \A k \in {"data", "flush", "surface"}, n \in Nat : [kind |-> k, serial |-> n] \in Packets BY DEF Packets
  <1>5. queue' \in Seq(Packets)
    <2>1. queue \in Seq(Packets) /\ serial \in Nat /\ serial' \in Nat BY <1>1 DEF Types
    <2>2. CASE queue' = queue \/ (queue # <<>> /\ queue' = Tail(queue)) BY <2>1, <2>2
    <2>3. CASE \E k \in {"data", "surface"} : queue' = Append(queue, [kind |-> k, serial |-> serial'])
      <3>1. PICK x \in Packets : queue' = Append(queue, x) BY <1>4, <2>1, <2>3
      <3> QED BY <2>1, <3>1
    <2>4. CASE queue' = <<[kind |-> "flush", serial |-> serial + 1]>>
      <3>1. [kind |-> "flush", serial |-> serial + 1] \in Packets BY <1>4, <2>1
      <3> QED BY <2>4, <3>1
    <2> QED BY <2>2, <2>3, <2>4, Changes
  <1>6. inside' \in Seq(Nat)
    <2>1. inside \in Seq(Nat) /\ pending \in Nat BY DEF Types
    <2>2. \/ inside' = inside \/ inside' = <<>> \/ inside' = Append(inside, pending)
          \/ (inside # <<>> /\ inside' = Tail(inside))
      BY Changes
    <2>3. CASE inside' = Append(inside, pending)
      <3>1. \A s \in Seq(Nat), n \in Nat : Append(s, n) \in Seq(Nat) BY AppendTyped
      <3> QED BY <2>1, <2>3, <3>1
    <2>4. CASE inside # <<>> /\ inside' = Tail(inside) BY <2>1, <2>4
    <2>5. CASE inside' = inside BY <2>1, <2>5
    <2>6. CASE inside' = <<>>
      <3>1. <<>> \in Seq(Nat) OBVIOUS
      <3> QED BY <2>6, <3>1
    <2> QED BY <2>2, <2>3, <2>4, <2>5, <2>6
  <1> QED BY <1>1, <1>3, <1>5, <1>6, <1>7

\* A step that leaves proxies and buffers alone.
LEMMA StillKeeps ==
    ASSUME IInv, Still, Types' PROVE ReleasesOnlyLent' /\ Valid' = Valid
  BY StillHere, SameValid DEF IInv, ReleasesOnlyLent

LEMMA InvalidatingKeeps ==
    ASSUME IInv, Invalidating, Types' PROVE ReleasesOnlyLent' /\ (Valid' = Valid \/ Valid' = {})
  <1>1. CASE InvalidateAll
    BY <1>1, InvalidateEmpties, NoneValid DEF IInv
  <1>2. CASE UNCHANGED <<frame, pictq>>
    BY <1>2, InvalidatingHere, SameValid DEF IInv, ReleasesOnlyLent
  <1> QED BY <1>1, <1>2, InvalidatingHere

\* The codec takes its buffers back when no proxy counts, under acodec_mutex or at the end.
LEMMA TakingBackKeeps ==
    ASSUME IInv, TakingBack, Types' PROVE ReleasesOnlyLent' /\ Valid' = {}
  <1>1. UNCHANGED <<frame, pictq>>
    BY DEF TakingBack, Reconfigure, FlushCodec, Stop, drainVars
  <1>2. Valid = {} BY DEF IInv, Emptied, TakingBack, Reconfigure, FlushCodec, Stop
  <1> QED BY <1>1, <1>2, SameValid, NoneValid

\* A buffer is lent out that no proxy that counts stands for.
LEMMA DequeueKeeps ==
    ASSUME IInv, Dequeue, Types'
    PROVE  /\ ReleasesOnlyLent'
           /\ \/ UNCHANGED <<frame, inside>> /\ Valid' = Valid
              \/ /\ inside # <<>> /\ inside' = Tail(inside)
                 /\ Valid' = Valid \cup {frame'} /\ frame'.of = Head(inside)
  <1>1. pictq' = pictq /\ frame = None BY DEF IInv, InHand, Dequeue
  <1>2. CASE UNCHANGED <<frame, inside, lent>>
    BY <1>1, <1>2, SameValid DEF IInv, ReleasesOnlyLent
  <1>3. CASE /\ inside # <<>> /\ inside' = Tail(inside)
             /\ \E b \in Buffers : /\ lent[b] = None
                                  /\ lent' = [lent EXCEPT ![b] = Head(inside)]
                                  /\ frame' = [buf |-> b, of |-> Head(inside), label |-> 0]
    <2>1. PICK b \in Buffers : /\ lent[b] = None
                               /\ lent' = [lent EXCEPT ![b] = Head(inside)]
                               /\ frame' = [buf |-> b, of |-> Head(inside), label |-> 0]
      BY <1>3
    <2>2. b # Spent /\ frame'.buf = b /\ frame'.of = Head(inside) /\ frame' # None
      <3>1. Head(inside) \in Nat BY <1>3 DEF IInv, Types
      <3>2. frame' \in Proxy BY <2>1, <3>1 DEF Proxy
      <3> QED BY <2>1, <3>2, NodeAssumption, NoneAssumption
    <2>3. \A p \in Valid : p.buf # b /\ p.buf \in Buffers /\ lent[p.buf] = p.of
      <3>1. \A p \in Valid : p.of \in Nat /\ p.buf \in Buffers BY ValidIsProxy DEF IInv, Proxy
      <3> QED BY <3>1, <2>1, NoneAssumption DEF IInv, ReleasesOnlyLent
    <2>4. Valid' = Valid \cup {frame'}
      BY <1>1, <2>2 DEF Valid, Proxies
    <2>5. \A p \in Valid' : lent'[p.buf] = p.of
      BY <2>1, <2>2, <2>3, <2>4 DEF IInv, Types
    <2>6. \A i \in DOMAIN pictq : pictq[i] # None /\ (pictq[i].buf # Spent => pictq[i] \in Valid)
      <3>1. \A i \in DOMAIN pictq : pictq[i] \in Proxy BY DEF IInv, Types
      <3> QED BY <3>1, NoneAssumption DEF Valid, Proxies
    <2>7. \A i \in DOMAIN pictq : pictq[i].buf # frame'.buf
      BY <2>2, <2>3, <2>6
    <2> QED BY <1>1, <1>3, <2>2, <2>4, <2>5, <2>7 DEF IInv, ReleasesOnlyLent
  <1> QED BY <1>2, <1>3 DEF Dequeue

\* Giving back the proxy in hand disturbs no other.
LEMMA ReleaseFrameKeeps ==
    ASSUME IInv, frame \in Proxy, frame' = None, pictq' = pictq, lent' = Returned(frame), Types'
    PROVE  ReleasesOnlyLent' /\ Valid' \subseteq Valid
  <1>1. Valid' \subseteq Valid /\ \A p \in Valid' : \E i \in DOMAIN pictq : p = pictq[i]
    BY DEF Valid, Proxies
  <1>2. frame # None BY NoneAssumption
  <1>3. \A p \in Valid' : p.buf # frame.buf /\ p.buf \in Buffers
    BY <1>1, <1>2, ValidIsProxy, NodeAssumption DEF IInv, ReleasesOnlyLent
  <1>4. \A p \in Valid' : lent'[p.buf] = p.of
    BY <1>1, <1>3 DEF Returned, IInv, ReleasesOnlyLent
  <1> QED BY <1>1, <1>4 DEF IInv, ReleasesOnlyLent

\* Nor does giving back the one on the screen.
LEMMA ShowKeeps ==
    ASSUME IInv, Show, Types' PROVE ReleasesOnlyLent' /\ Valid' \subseteq Valid
  <1>1. /\ pictq # <<>> /\ pictq' = Tail(pictq) /\ frame' = frame /\ lent' = Returned(Head(pictq))
    BY DEF Show, drainVars
  <1>2. /\ Valid' \subseteq Valid
        /\ Head(pictq).buf # Spent => \A p \in Valid' : p.buf # Head(pictq).buf
        /\ \A i \in DOMAIN pictq' : i \in Nat /\ i + 1 \in DOMAIN pictq /\ pictq'[i] = pictq[i + 1]
    BY <1>1, TailValid DEF IInv
  <1>3. \A p \in Valid' : p.buf # Head(pictq).buf /\ p.buf \in Buffers
    BY <1>2, ValidIsProxy, NodeAssumption DEF IInv
  <1>4. \A p \in Valid' : lent'[p.buf] = p.of
    BY <1>1, <1>2, <1>3 DEF Returned, IInv, ReleasesOnlyLent
  <1>5. \A i, j \in DOMAIN pictq' : i # j => pictq'[i].buf # pictq'[j].buf \/ pictq'[i].buf = Spent
    <2> SUFFICES ASSUME NEW i \in DOMAIN pictq', NEW j \in DOMAIN pictq', i # j
                 PROVE  pictq'[i].buf # pictq'[j].buf \/ pictq'[i].buf = Spent
      OBVIOUS
    <2>1. i + 1 # j + 1 BY <1>2
    <2> QED BY <1>2, <2>1 DEF IInv, ReleasesOnlyLent
  <1>6. \A i \in DOMAIN pictq' : frame' # None => pictq'[i].buf # frame'.buf \/ frame'.buf = Spent
    BY <1>1, <1>2 DEF IInv, ReleasesOnlyLent
  <1> QED BY <1>2, <1>4, <1>5, <1>6 DEF ReleasesOnlyLent

\* The draining thread's frame becomes a picture, or its proxy is given back.
LEMMA MovingKeeps ==
    ASSUME IInv, Moving, Types'
    PROVE  /\ ReleasesOnlyLent'
           /\ \/ Valid' \subseteq Valid
              \/ /\ Offer
                 /\ \A p \in Valid' : p \in Valid \/ (p = frame' /\ frame \in Valid /\ p.of = frame.of /\ p.buf = frame.buf)
              \/ /\ Dequeue /\ inside # <<>> /\ frame'.of = Head(inside)
                 /\ Valid' = Valid \cup {frame'}
  <1>1. CASE Dequeue BY <1>1, DequeueKeeps
  <1>2. CASE Show BY <1>2, ShowKeeps
  <1>3. CASE DropEarly
    BY <1>3, ReleaseFrameKeeps DEF DropEarly, IInv, InHand, Types
  <1>4. CASE ClearFirst
    <2>1. CASE aborted /\ frame # None
      BY <1>4, <2>1, ReleaseFrameKeeps DEF ClearFirst, IInv, Types
    <2>2. CASE ~(aborted /\ frame # None)
      BY <1>4, <2>2, SameValid DEF ClearFirst, IInv, ReleasesOnlyLent
    <2> QED BY <2>1, <2>2
  <1>5. CASE QueuePicture
    <2>1. frame \in Proxy BY <1>5 DEF QueuePicture, IInv, InHand, Types
    <2>2. CASE aborted
      BY <1>5, <2>1, <2>2, ReleaseFrameKeeps DEF QueuePicture
    <2>3. CASE ~aborted
      <3>1. pictq' = Append(pictq, frame) /\ frame' = None /\ lent' = lent
        BY <1>5, <2>3 DEF QueuePicture
      <3>2. /\ DOMAIN pictq' = DOMAIN pictq \cup {Len(pictq) + 1} /\ Len(pictq) + 1 \notin DOMAIN pictq
            /\ pictq'[Len(pictq) + 1] = frame /\ \A i \in DOMAIN pictq : pictq'[i] = pictq[i]
        <4>1. pictq \in Seq(Proxy) BY DEF IInv, Types
        <4> QED BY <3>1, <2>1, <4>1
      <3>3. Valid' \subseteq Valid BY <3>1, <3>2 DEF Valid, Proxies
      <3>4. \A i, j \in DOMAIN pictq' : i # j => pictq'[i].buf # pictq'[j].buf \/ pictq'[i].buf = Spent
        BY <3>2, <2>1, NoneAssumption DEF IInv, ReleasesOnlyLent
      <3> QED BY <3>1, <3>3, <3>4 DEF IInv, ReleasesOnlyLent
    <2> QED BY <2>2, <2>3
  <1>6. CASE Offer
    <2>1. frame \in Proxy /\ frame' = [frame EXCEPT !.label = pktSerial] /\ pictq' = pictq /\ lent' = lent
      BY <1>6 DEF Offer, IInv, InHand, Types, codecVars
    <2>2. frame'.buf = frame.buf /\ frame'.of = frame.of /\ frame' # None /\ frame # None
      BY <2>1, <1>6, NoneAssumption DEF IInv, Types, Proxy
    <2>3. \A p \in Valid' : p \in Valid \/ (p = frame' /\ frame \in Valid /\ p.of = frame.of /\ p.buf = frame.buf)
      BY <2>1, <2>2 DEF Valid, Proxies
    <2>4. \A p \in Valid' : lent'[p.buf] = p.of
      BY <2>1, <2>2, <2>3 DEF IInv, ReleasesOnlyLent
    <2> QED BY <1>6, <2>1, <2>2, <2>3, <2>4 DEF IInv, ReleasesOnlyLent
  <1> QED BY <1>1, <1>2, <1>3, <1>4, <1>5, <1>6 DEF Moving

\* Every step keeps the domains.
LEMMA TypesNext ==
    ASSUME IInv, [Next]_vars PROVE Types'
  <1> USE DEF IInv
  <1>1. CASE Still BY <1>1, StillHere, TypesStill DEF Types
  <1>2. CASE Invalidating
    BY <1>2, InvalidatingHere, InvalidateEmpties, TypesStill DEF Types
  <1>3. CASE TakingBack
    BY <1>3, TypesStill DEF Types, TakingBack, Reconfigure, FlushCodec, Stop, drainVars
  <1>4. CASE Moving
    <2>1. CASE Dequeue
      <3>1. inside # <<>> => Head(inside) \in Nat BY DEF Types
      <3>2. frame' = frame \/ frame' \in Proxy BY <2>1, <3>1 DEF Dequeue, Proxy
      <3>3. lent' \in [Buffers -> Nat \cup {None}]
        <4>1. CASE lent' = lent BY <4>1 DEF Types
        <4>2. CASE inside # <<>> /\ \E b \in Buffers : lent' = [lent EXCEPT ![b] = Head(inside)]
          BY <3>1, <4>2 DEF Types
        <4> QED BY <2>1, <4>1, <4>2 DEF Dequeue
      <3>4. pictq' = pictq BY <2>1 DEF Dequeue
      <3> QED BY <3>2, <3>3, <3>4, TypesStill DEF Types
    <2>2. CASE Show
      BY <2>2, TypesStill DEF Types, Show, drainVars, Returned
    <2>3. CASE QueuePicture
      <3>1. frame \in Proxy BY <2>3 DEF QueuePicture, InHand, Types
      <3>2. pictq' \in Seq(Proxy)
        <4>1. pictq \in Seq(Proxy) BY DEF Types
        <4>2. pictq' = pictq \/ pictq' = Append(pictq, frame) BY <2>3 DEF QueuePicture
        <4> QED BY <3>1, <4>1, <4>2, AppendTyped
      <3>3. frame' = None /\ (lent' = lent \/ lent' = Returned(frame)) BY <2>3 DEF QueuePicture
      <3> QED BY <3>2, <3>3, TypesStill DEF Types, Returned
    <2>4. CASE Offer
      <3>1. frame \in Proxy BY <2>4 DEF Offer, InHand, Types
      <3> QED BY <2>4, <3>1, TypesStill DEF Types, Offer, codecVars, Proxy
    <2>5. CASE ClearFirst \/ DropEarly
      BY <2>5, TypesStill DEF Types, ClearFirst, DropEarly, Returned
    <2> QED BY <1>4, <2>1, <2>2, <2>3, <2>4, <2>5 DEF Moving
  <1> QED BY <1>1, <1>2, <1>3, <1>4, Groups

LEMMA InHandNext ==
    ASSUME IInv, [Next]_vars PROVE InHand'
  <1> USE DEF IInv, InHand
  <1>1. CASE Still
    <2>1. frame' = frame BY <1>1, StillHere
    <2>2. drain' = drain \/ (frame = None /\ drain' \in {"cond", "dequeue", "join"})
      BY <1>1 DEF Still, SendSurface, Answered, GiveUp, SeekAfter, SeekTo, Abort, ReadPacket, SeekBegins, SeekFails,
         FlushQueue, SeekSkipped, SeekEnds, FeedLoop, TakePacket, SetupSurface, Applied, AwaitFirst, SortPacket,
         NewSize, Flushed, Feed, DrainLock, DrainWake, Leave, vars, drainVars
    <2> QED BY <2>1, <2>2
  <1>2. CASE Invalidating
    <2>1. frame' = None <=> frame = None BY <1>2, InvalidatingHere, InvalidateEmpties
    <2>2. drain' = drain \/ (drain = "join" /\ drain' = "stop")
      BY <1>2 DEF Invalidating, SetWindow, SetPipeline, ChangeBegins, ApplySurface, FlushBegins, Join, drainVars
    <2> QED BY <2>1, <2>2
  <1>3. CASE TakingBack
    BY <1>3 DEF TakingBack, Reconfigure, FlushCodec, Stop, drainVars
  <1>4. CASE Moving
    <2>1. CASE Dequeue BY <2>1 DEF Dequeue
    <2>2. CASE Show BY <2>2 DEF Show, drainVars
    <2>3. CASE ClearFirst BY <2>3 DEF ClearFirst
    <2>4. CASE DropEarly \/ QueuePicture BY <2>4 DEF DropEarly, QueuePicture
    <2>5. CASE Offer
      <3>1. frame \in Proxy BY <2>5 DEF Offer, Types
      <3>2. frame' = [frame EXCEPT !.label = pktSerial] /\ drain' = "push" BY <2>5 DEF Offer
      <3>3. frame' \in Proxy BY <3>1, <3>2 DEF Proxy, Types
      <3> QED BY <3>2, <3>3, NoneAssumption
    <2> QED BY <1>4, <2>1, <2>2, <2>3, <2>4, <2>5 DEF Moving
  <1> QED BY <1>1, <1>2, <1>3, <1>4, Groups

\* acodec_mutex excludes the two threads of the codec from each other.
LEMMA LockedNext ==
    ASSUME IInv, [Next]_vars PROVE Locked'
  <1> USE DEF IInv, Locked
  <1>1. CASE AppNext \/ ReaderNext \/ Show \/ UNCHANGED vars
    BY <1>1 DEF AppNext, ReaderNext, SetWindow, SetPipeline, SendSurface, Answered, GiveUp, SeekAfter, SeekTo,
       Abort, ReadPacket, SeekBegins, SeekFails, FlushQueue, SeekSkipped, SeekEnds, Show, vars, drainVars, feedVars
  <1>2. CASE SetupNext
    BY <1>2 DEF SetupNext, SetupSurface, ChangeBegins, ApplySurface, Reconfigure, Applied, AwaitFirst, drainVars,
       AfterSetup
  <1>3. CASE FeedLoop \/ TakePacket \/ SortPacket \/ NewSize \/ FlushBegins \/ FlushCodec \/ Flushed \/ Feed
    BY <1>3 DEF FeedLoop, TakePacket, SortPacket, NewSize, FlushBegins, FlushCodec, Flushed, Feed, drainVars
  <1>4. CASE DrainNext
    BY <1>4 DEF DrainNext, DrainLock, DrainWake, Dequeue, ClearFirst, DropEarly, Offer, QueuePicture, Leave,
       Join, Stop, feedVars
  <1> QED BY <1>1, <1>2, <1>3, <1>4 DEF Next, FeederNext

\* Who is about to take the buffers back has made the proxies invalid, and nothing counts since.
LEMMA EmptiedNext ==
    ASSUME IInv, [Next]_vars, Types' PROVE Emptied'
  <1> DEFINE Taking == feeder \in {"reconfigure", "flushCodec"} \/ drain \in {"stop", "ended"}
  <1>1. Taking => Valid = {} BY DEF IInv, Emptied
  <1>2. CASE Still
    <2>1. Taking' => Taking
      BY <1>2 DEF Still, SendSurface, Answered, GiveUp, SeekAfter, SeekTo, Abort, ReadPacket, SeekBegins, SeekFails,
         FlushQueue, SeekSkipped, SeekEnds, FeedLoop, TakePacket, SetupSurface, Applied, AwaitFirst, SortPacket,
         NewSize, Flushed, Feed, DrainLock, DrainWake, Leave, vars, drainVars, feedVars, AfterSetup
    <2> QED BY <1>1, <1>2, <2>1, StillKeeps DEF Emptied
  <1>3. CASE Invalidating
    <2>1. Valid' = Valid \/ Valid' = {} BY <1>3, InvalidatingKeeps
    <2>2. CASE SetWindow \/ SetPipeline \/ ApplySurface
      <3>1. Taking' => Taking BY <2>2 DEF SetWindow, SetPipeline, ApplySurface, feedVars
      <3> QED BY <1>1, <2>1, <3>1 DEF Emptied
    <2>3. CASE InvalidateAll
      <3>1. Valid' = {} BY <2>3, InvalidateEmpties DEF IInv
      <3> QED BY <3>1 DEF Emptied
    <2>4. CASE FlushBegins /\ ~InvalidateAll
      <3>1. Taking' => Taking BY <2>4 DEF FlushBegins
      <3> QED BY <1>1, <2>1, <3>1 DEF Emptied
    <2> QED BY <1>3, <2>2, <2>3, <2>4 DEF Invalidating, ChangeBegins, Join
  <1>4. CASE TakingBack
    BY <1>4, TakingBackKeeps DEF Emptied
  <1>5. CASE Moving
    <2>1. Taking' => Taking
      BY <1>5 DEF Moving, Dequeue, ClearFirst, DropEarly, Offer, QueuePicture, Show, feedVars, drainVars
    <2>2. Taking => ~Dequeue
      BY DEF IInv, Locked, Dequeue
    <2> QED BY <1>1, <1>5, <2>1, <2>2, MovingKeeps DEF Emptied
  <1> QED BY <1>2, <1>3, <1>4, <1>5, Groups

LEMMA NextIInv == IInv /\ [Next]_vars => IInv'
  <1> SUFFICES ASSUME IInv, [Next]_vars PROVE IInv' OBVIOUS
  <1>1. Types' BY TypesNext
  <1>2. ReleasesOnlyLent'
    BY <1>1, Groups, StillKeeps, InvalidatingKeeps, TakingBackKeeps, MovingKeeps
  <1> QED BY <1>1, <1>2, InHandNext, LockedNext, EmptiedNext DEF IInv

LEMMA AlwaysIInv == Spec => []IInv
  BY InitIInv, NextIInv, PTL DEF Spec

\* A buffer of the codec is given back only while it is lent out, and once: no flush, stop,
\* change of window or of codec comes between a proxy and its release.
THEOREM BuffersReleasedOnce == Spec => []ReleasesOnlyLent
  <1>1. IInv => ReleasesOnlyLent BY DEF IInv
  <1> QED BY <1>1, AlwaysIInv, PTL

-----------------------------------------------------------------------------
(* TrueAfterFlush.                                                          *)

\* Packets are taken from the front of the queue and added behind, with its serial, which a
\* set-surface packet and a flush packet raise.
LEMMA QueueSteps ==
    ASSUME [Next]_vars
    PROVE  \/ UNCHANGED <<queue, serial, pktSerial, flushed>>
           \/ /\ queue # <<>> /\ queue' = Tail(queue) /\ serial' = serial
              /\ pktSerial' = Head(queue).serial /\ flushed' \in {flushed, pktSerial'}
           \/ /\ \E k \in {"data", "surface"} : queue' = Append(queue, [kind |-> k, serial |-> serial'])
              /\ serial' \in {serial, serial + 1} /\ UNCHANGED <<pktSerial, flushed>>
           \/ /\ queue' = <<[kind |-> "flush", serial |-> serial + 1]>> /\ serial' = serial + 1
              /\ UNCHANGED <<pktSerial, flushed>>
  BY DEF Next, AppNext, ReaderNext, SetupNext, FeederNext, DrainNext, vars, SetWindow, SetPipeline, SendSurface,
     Answered, GiveUp, SeekAfter, SeekTo, Abort, ReadPacket, SeekBegins, SeekFails, FlushQueue, SeekSkipped, SeekEnds,
     FeedLoop, TakePacket, SetupSurface, ChangeBegins, ApplySurface, Reconfigure, Applied, AwaitFirst,
     SortPacket, NewSize, FlushBegins, FlushCodec, Flushed, Feed, DrainLock, DrainWake, Dequeue, ClearFirst,
     DropEarly, Offer, QueuePicture, Leave, Join, Stop, Show, feedVars, seenVars, queueVars

\* Serials are taken in the order in which they were given.
LEMMA SortedNext ==
    ASSUME Types, Sorted, [Next]_vars PROVE Sorted'
  <1>0. queue \in Seq(Packets) /\ {serial, pktSerial, flushed} \subseteq Nat BY DEF Types
  <1>a. \A i \in DOMAIN queue : queue[i].serial \in Nat
    <2>1. \A i \in DOMAIN queue : queue[i] \in Packets BY <1>0
    <2> QED BY <2>1 DEF Packets
  <1>1. CASE UNCHANGED <<queue, serial, pktSerial, flushed>> BY <1>1 DEF Sorted
  <1>2. CASE /\ queue # <<>> /\ queue' = Tail(queue) /\ serial' = serial
             /\ pktSerial' = Head(queue).serial /\ flushed' \in {flushed, pktSerial'}
    <2>1. 1 \in DOMAIN queue /\ pktSerial' = queue[1].serial BY <1>0, <1>2
    <2>2. \A i \in DOMAIN queue' : i \in Nat /\ i + 1 \in DOMAIN queue /\ 1 <= i + 1 /\ queue'[i] = queue[i + 1]
      BY <1>0, <1>2
    <2>3. 0 < serial' /\ pktSerial' <= serial' /\ flushed' <= pktSerial'
      BY <1>0, <1>a, <1>2, <2>1 DEF Sorted
    <2>4. \A i \in DOMAIN queue' : pktSerial' <= queue'[i].serial /\ queue'[i].serial <= serial'
      BY <1>2, <2>1, <2>2 DEF Sorted
    <2>5. \A i, j \in DOMAIN queue' : i <= j => queue'[i].serial <= queue'[j].serial
      <3> SUFFICES ASSUME NEW i \in DOMAIN queue', NEW j \in DOMAIN queue', i <= j
                   PROVE  queue'[i].serial <= queue'[j].serial
        OBVIOUS
      <3>1. i + 1 <= j + 1 BY <2>2
      <3> QED BY <2>2, <3>1 DEF Sorted
    <2> QED BY <2>3, <2>4, <2>5 DEF Sorted
  <1>3. CASE /\ \E k \in {"data", "surface"} : queue' = Append(queue, [kind |-> k, serial |-> serial'])
             /\ serial' \in {serial, serial + 1} /\ UNCHANGED <<pktSerial, flushed>>
    <2>1. PICK k : queue' = Append(queue, [kind |-> k, serial |-> serial']) BY <1>3
    <2>2. serial <= serial' /\ serial' \in Nat BY <1>0, <1>3
    <2>3. \A i \in DOMAIN queue' : \/ i \in DOMAIN queue /\ queue'[i] = queue[i]
                                   \/ i = Len(queue) + 1 /\ queue'[i].serial = serial'
      BY <1>0, <2>1
    <2>4. \A i \in DOMAIN queue : i <= Len(queue) /\ Len(queue) \in Nat /\ i \in Nat BY <1>0
    <2>5. \A i \in DOMAIN queue' : queue'[i].serial \in Nat /\ pktSerial' <= queue'[i].serial /\ queue'[i].serial <= serial'
      BY <1>0, <1>a, <1>3, <2>2, <2>3 DEF Sorted
    <2>6. \A i, j \in DOMAIN queue' : i <= j => queue'[i].serial <= queue'[j].serial
      <3> SUFFICES ASSUME NEW i \in DOMAIN queue', NEW j \in DOMAIN queue', i <= j
                   PROVE  queue'[i].serial <= queue'[j].serial
        OBVIOUS
      <3>1. CASE queue'[j].serial = serial' BY <2>5, <3>1
      <3>2. CASE j \in DOMAIN queue /\ queue'[j] = queue[j]
        <4>1. i \in DOMAIN queue /\ queue'[i] = queue[i] BY <2>3, <2>4, <3>2
        <4> QED BY <3>2, <4>1 DEF Sorted
      <3> QED BY <2>3, <3>1, <3>2
    <2>7. 0 < serial' /\ pktSerial' <= serial' /\ flushed' <= pktSerial' BY <1>0, <1>3, <2>2 DEF Sorted
    <2> QED BY <2>5, <2>6, <2>7 DEF Sorted
  <1>4. CASE /\ queue' = <<[kind |-> "flush", serial |-> serial + 1]>> /\ serial' = serial + 1
             /\ UNCHANGED <<pktSerial, flushed>>
    <2>1. \A i \in DOMAIN queue' : queue'[i].serial = serial' BY <1>4
    <2>2. pktSerial' <= serial' /\ serial' <= serial' /\ 0 < serial' /\ flushed' <= pktSerial'
      BY <1>0, <1>4 DEF Sorted
    <2> QED BY <2>1, <2>2 DEF Sorted
  <1> QED BY <1>1, <1>2, <1>3, <1>4, QueueSteps

\* The feeding thread handles a flush packet before it feeds or takes another.
LEMMA FlushKeptNext ==
    ASSUME FlushKept, [Next]_vars PROVE FlushKept'
  <1>1. CASE AppNext \/ ReaderNext \/ DrainNext \/ Show \/ UNCHANGED vars
    BY <1>1 DEF FlushKept, AppNext, ReaderNext, DrainNext, SetWindow, SetPipeline, SendSurface, Answered, GiveUp,
       SeekAfter, SeekTo, Abort, ReadPacket, SeekBegins, SeekFails, FlushQueue, SeekSkipped, SeekEnds, Show, DrainLock,
       DrainWake, Dequeue, ClearFirst, DropEarly, Offer, QueuePicture, Leave, Join, Stop, vars, feedVars
  <1>2. CASE FeederNext
    BY <1>2 DEF FlushKept, FeederNext, SetupNext, FeedLoop, TakePacket, SetupSurface, ChangeBegins, ApplySurface,
       Reconfigure, Applied, AwaitFirst, SortPacket, NewSize, FlushBegins, FlushCodec, Flushed, Feed, AfterSetup
  <1> QED BY <1>1, <1>2 DEF Next

\* A packet is pending from before the setup to the input.
LEMMA ArmedNext ==
    ASSUME Types, Sorted, Armed, [Next]_vars PROVE Armed'
  <1>0. {serial, pktSerial} \subseteq Nat /\ 0 < serial BY DEF Types, Sorted
  <1>1. CASE AppNext \/ ReaderNext \/ DrainNext \/ Show \/ UNCHANGED vars
    BY <1>1 DEF Armed, AppNext, ReaderNext, DrainNext, SetWindow, SetPipeline, SendSurface, Answered, GiveUp,
       SeekAfter, SeekTo, Abort, ReadPacket, SeekBegins, SeekFails, FlushQueue, SeekSkipped, SeekEnds, Show,
       DrainLock, DrainWake, Dequeue, ClearFirst, DropEarly, Offer, QueuePicture, Leave, Join, Stop, vars, feedVars
  <1>2. CASE FeedLoop \/ SetupNext \/ NewSize \/ FlushBegins \/ FlushCodec \/ Feed
    BY <1>2 DEF Armed, SetupNext, FeedLoop, SetupSurface, ChangeBegins, ApplySurface, Reconfigure, Applied,
       AwaitFirst, NewSize, FlushBegins, FlushCodec, Feed, AfterSetup
  <1>3. CASE TakePacket
    <2>1. queue # <<>> => Head(queue) \in Packets BY DEF Types
    <2>2. queue # <<>> => Head(queue).kind # "none" BY <2>1 DEF Packets
    <2> QED BY <1>3, <2>2 DEF Armed, TakePacket
  <1>4. CASE SortPacket \/ Flushed
    BY <1>0, <1>4 DEF Armed, SortPacket, Flushed
  <1> QED BY <1>1, <1>2, <1>3, <1>4 DEF Next, FeederNext

LEMMA UnfedNext ==
    ASSUME IInv, Unfed, [Next]_vars, Types' PROVE Unfed'
  <1>1. CASE Still
    <2>1. CASE Feed
      <3>1. UNCHANGED inside \/ (fed' /\ started) BY <2>1 DEF Feed
      <3>2. started' = started /\ (fed => fed') BY <2>1 DEF Feed
      <3> QED BY <1>1, <3>1, <3>2, StillKeeps DEF Unfed
    <2>2. CASE ~Feed
      <3>1. UNCHANGED <<inside, fed, started>>
        BY <1>1, <2>2 DEF Still, SendSurface, Answered, GiveUp, SeekAfter, SeekTo, Abort, ReadPacket, SeekBegins,
           SeekFails, FlushQueue, SeekSkipped, SeekEnds, FeedLoop, TakePacket, SetupSurface, Applied, AwaitFirst,
           SortPacket, NewSize, Flushed, DrainLock, DrainWake, Leave, vars, codecVars
      <3> QED BY <1>1, <3>1, StillKeeps DEF Unfed
    <2> QED BY <2>1, <2>2
  <1>2. CASE Invalidating
    <2>1. UNCHANGED <<inside, fed, started>>
      BY <1>2 DEF Invalidating, SetWindow, SetPipeline, ChangeBegins, ApplySurface, FlushBegins, Join, codecVars
    <2> QED BY <1>2, <2>1, InvalidatingKeeps DEF Unfed
  <1>3. CASE TakingBack
    <2>1. inside' = <<>> BY <1>3 DEF TakingBack, Reconfigure, FlushCodec, Stop
    <2> QED BY <1>3, <2>1, TakingBackKeeps DEF Unfed
  <1>4. CASE Moving
    <2>1. UNCHANGED <<fed, started>> /\ (inside' = inside \/ inside # <<>>)
      BY <1>4 DEF Moving, Dequeue, ClearFirst, DropEarly, Offer, QueuePicture, Show, codecVars
    <2>2. Valid' \subseteq Valid \/ inside # <<>> \/ Valid # {} BY <1>4, MovingKeeps
    <2> QED BY <1>4, <2>1, <2>2, MovingKeeps DEF Unfed
  <1> QED BY <1>1, <1>2, <1>3, <1>4, Groups

\* What is old stays alone where nothing is fed and no flush packet is taken.
LEMMA LoneKept ==
    ASSUME Lone, FlushDue => FlushDue', feeder = "flushCodec" => feeder' = "flushCodec",
           inside' = inside, flushed' = flushed, revived' = revived,
           pending' = pending \/ ~(pending' < flushed),
           Valid' = Valid
    PROVE  Lone'
  <1>1. OldIn' = OldIn /\ OldOut' = OldOut BY DEF OldIn, OldOut
  <1> QED BY <1>1 DEF Lone

LEMMA NothingOld ==
    ASSUME inside' = <<>>, Valid' = {} PROVE Lone'
  <1>1. OldIn' = {} /\ OldOut' = {} BY DEF OldIn, OldOut
  <1> QED BY <1>1 DEF Lone

\* What is fed is old only where nothing else is.
LEMMA FeedLone ==
    ASSUME IInv, FInv, Feed PROVE Lone'
  <1>0. inside \in Seq(Nat) /\ {pending, flushed} \subseteq Nat BY DEF IInv, Types
  <1>1. Valid' = Valid BY StillKeeps, SameValid DEF Feed, drainVars
  <1>2. ~FlushDue /\ feeder = "input" /\ pending # 0 /\ flushed' = flushed
    BY DEF Feed, FInv, FlushKept, FlushDue, Armed
  <1>3. OldOut' = OldOut BY <1>1, <1>2 DEF OldOut
  <1>4. CASE UNCHANGED <<inside, pending, revived>>
    <2>1. OldIn' = OldIn BY <1>2, <1>4 DEF OldIn
    <2> QED BY <1>2, <1>3, <1>4, <2>1 DEF FInv, Lone
  <1>5. CASE inside' = Append(inside, pending) /\ pending' = 0 /\ revived' = (revived \/ pending < flushed)
    <2>1. /\ DOMAIN inside' = DOMAIN inside \cup {Len(inside) + 1}
          /\ inside'[Len(inside) + 1] = pending /\ \A i \in DOMAIN inside : inside'[i] = inside[i]
      BY <1>0, <1>5
    <2>2. CASE pending < flushed
      <3>1. OldIn = {} /\ OldOut = {} BY <1>2, <2>2 DEF FInv, Lone
      <3>2. OldIn' \subseteq {Len(inside) + 1} BY <1>2, <2>1, <3>1 DEF OldIn
      <3> QED BY <1>3, <1>5, <2>2, <3>1, <3>2 DEF Lone
    <2>3. CASE ~(pending < flushed)
      <3>1. OldIn' = OldIn BY <1>2, <2>1, <2>3, <1>0 DEF OldIn
      <3> QED BY <1>2, <1>3, <1>5, <3>1 DEF FInv, Lone
    <2> QED BY <2>2, <2>3
  <1> QED BY <1>4, <1>5 DEF Feed

\* What is old and comes out of the codec was the only old input.
LEMMA DequeueLone ==
    ASSUME IInv, FInv, Dequeue, Types' PROVE Lone'
  <1>0. inside \in Seq(Nat) /\ flushed \in Nat BY DEF IInv, Types
  <1>1. UNCHANGED <<packet, feeder, pending, flushed, revived>> BY DEF Dequeue, feedVars, seenVars
  <1>2. feeder # "flushCodec" BY DEF Dequeue, IInv, Locked
  <1>3. CASE UNCHANGED <<frame, inside>>
    <2>1. Valid' = Valid BY <1>3, SameValid DEF Dequeue
    <2> QED BY <1>1, <1>3, <2>1, LoneKept DEF FlushDue, FInv
  <1>4. CASE inside # <<>> /\ inside' = Tail(inside) /\ Valid' = Valid \cup {frame'} /\ frame'.of = Head(inside)
    <2>1. 1 \in DOMAIN inside /\ Head(inside) = inside[1] BY <1>0, <1>4
    <2>2. \A i \in DOMAIN inside' : i \in Nat /\ i + 1 \in DOMAIN inside /\ i + 1 # 1 /\ inside'[i] = inside[i + 1]
      BY <1>0, <1>4
    <2>3. \A i \in OldIn' : i \in Nat /\ i + 1 \in OldIn /\ i + 1 # 1 BY <1>1, <2>2 DEF OldIn
    <2> SUFFICES ASSUME ~FlushDue' PROVE Lone' BY DEF Lone
    <2>4. ~FlushDue BY <1>1 DEF FlushDue
    <2>5. CASE 1 \in OldIn
      <3>1. OldIn' = {} BY <1>2, <2>3, <2>4, <2>5 DEF FInv, Lone
      <3>2. OldOut = {} /\ revived /\ ~(pending # 0 /\ pending < flushed)
        BY <1>2, <2>4, <2>5 DEF FInv, Lone
      <3>3. OldOut' \subseteq {frame'} BY <1>1, <1>4, <3>2 DEF OldOut
      <3> QED BY <1>1, <3>1, <3>2, <3>3 DEF Lone
    <2>6. CASE 1 \notin OldIn
      <3>1. ~(frame'.of < flushed) BY <1>4, <2>1, <2>6 DEF OldIn
      <3>2. OldOut' = OldOut BY <1>1, <1>4, <3>1 DEF OldOut
      <3>3. \A i, j \in OldIn' : i = j
        <4> SUFFICES ASSUME NEW i \in OldIn', NEW j \in OldIn' PROVE i = j OBVIOUS
        <4>1. i + 1 = j + 1 BY <1>2, <2>3, <2>4 DEF FInv, Lone
        <4> QED BY <2>3, <4>1
      <3>4. OldIn' # {} => OldIn # {} BY <2>3
      <3> QED BY <1>1, <1>2, <2>4, <3>2, <3>3, <3>4 DEF FInv, Lone
    <2> QED BY <2>5, <2>6
  <1> QED BY <1>3, <1>4, DequeueKeeps

\* Nothing old is made by a step: it stays alone until the codec is empty again.
LEMMA LoneNext ==
    ASSUME IInv, FInv, [Next]_vars, Types' PROVE Lone'
  <1>0. {serial, pktSerial, pending, flushed} \subseteq Nat /\ flushed <= pktSerial
    BY DEF IInv, Types, FInv, Sorted
  <1> USE DEF FInv
  <1>1. CASE Still
    <2>1. Valid' = Valid BY <1>1, StillKeeps
    <2>2. CASE TakePacket
      <3>1. inside' = inside /\ pending' = pending /\ revived' = revived /\ feeder = "take" /\ feeder' # "flushCodec"
        BY <2>2 DEF TakePacket, codecVars
      <3>2. FlushDue' \/ flushed' = flushed BY <2>2 DEF TakePacket, FlushDue
      <3>3. CASE flushed' = flushed BY <2>1, <3>1, <3>3, LoneKept DEF FlushDue
      <3>4. CASE FlushDue' BY <3>4 DEF Lone
      <3> QED BY <3>2, <3>3, <3>4
    <2>3. CASE Feed BY <2>3, FeedLone
    <2>4. CASE ~TakePacket /\ ~Feed
      <3>1. UNCHANGED <<inside, flushed, revived>> /\ pending' \in {pending, pktSerial}
        BY <1>1, <2>4 DEF Still, SendSurface, Answered, GiveUp, SeekAfter, SeekTo, Abort, ReadPacket, SeekBegins,
           SeekFails, FlushQueue, SeekSkipped, SeekEnds, FeedLoop, SetupSurface, Applied, AwaitFirst, SortPacket,
           NewSize, Flushed, DrainLock, DrainWake, Leave, vars, codecVars, feedVars, seenVars
      <3>2. (FlushDue => FlushDue') /\ (feeder = "flushCodec" => feeder' = "flushCodec")
        BY <1>1, <2>4 DEF Still, SendSurface, Answered, GiveUp, SeekAfter, SeekTo, Abort, ReadPacket, SeekBegins,
           SeekFails, FlushQueue, SeekSkipped, SeekEnds, FeedLoop, SetupSurface, Applied, AwaitFirst, SortPacket,
           AfterSetup, NewSize, Flushed, DrainLock, DrainWake, Leave, vars, codecVars, feedVars, FlushDue, FlushKept
      <3>3. ~(pktSerial < flushed) BY <1>0
      <3> QED BY <2>1, <3>1, <3>2, <3>3, LoneKept
    <2> QED BY <2>2, <2>3, <2>4
  <1>2. CASE Invalidating
    <2>1. UNCHANGED <<inside, pending, flushed, revived>> /\ (Valid' = Valid \/ Valid' = {})
      BY <1>2, InvalidatingKeeps DEF Invalidating, SetWindow, SetPipeline, ChangeBegins, ApplySurface, FlushBegins,
         Join, codecVars, feedVars, seenVars
    <2>2. CASE FlushBegins
      <3>1. CASE fed /\ started BY <2>2, <3>1 DEF FlushBegins, Lone
      <3>2. CASE ~(fed /\ started)
        <4>1. inside = <<>> /\ Valid = {} BY <3>2 DEF Unfed
        <4> QED BY <2>1, <4>1, NothingOld
      <3> QED BY <3>1, <3>2
    <2>3. CASE SetWindow \/ SetPipeline \/ ChangeBegins \/ ApplySurface \/ Join
      <3>1. (FlushDue => FlushDue') /\ (feeder = "flushCodec" => feeder' = "flushCodec")
        BY <2>3 DEF SetWindow, SetPipeline, ChangeBegins, ApplySurface, Join, feedVars, FlushDue
      <3>2. CASE Valid' = Valid BY <2>1, <3>1, <3>2, LoneKept
      <3>3. CASE Valid' = {}
        <4>1. OldIn' = OldIn /\ OldOut' = {} BY <2>1, <3>3 DEF OldIn, OldOut
        <4> QED BY <2>1, <3>1, <4>1 DEF Lone
      <3> QED BY <2>1, <3>2, <3>3
    <2> QED BY <1>2, <2>2, <2>3 DEF Invalidating
  <1>3. CASE TakingBack
    <2>1. inside' = <<>> /\ Valid' = {}
      BY <1>3, TakingBackKeeps DEF TakingBack, Reconfigure, FlushCodec, Stop
    <2> QED BY <2>1, NothingOld
  <1>4. CASE Moving
    <2>1. CASE Dequeue BY <2>1, DequeueLone
    <2>2. CASE ~Dequeue
      <3>1. UNCHANGED <<packet, feeder, pending, flushed, revived, inside>>
        BY <1>4, <2>2 DEF Moving, ClearFirst, DropEarly, Offer, QueuePicture, Show, feedVars, seenVars, codecVars
      <3>2. \A p \in Valid' : \E q \in Valid : p.of = q.of /\ p.buf = q.buf
        BY <1>4, <2>2, MovingKeeps
      <3>3. OldIn' = OldIn /\ \A p \in OldOut' : \E q \in OldOut : p.buf = q.buf
        BY <3>1, <3>2 DEF OldIn, OldOut
      <3>4. FlushDue' = FlushDue BY <3>1 DEF FlushDue
      <3> QED BY <3>1, <3>3, <3>4 DEF Lone
    <2> QED BY <2>1, <2>2
  <1> QED BY <1>1, <1>2, <1>3, <1>4, Groups

LEMMA InitFInv == Init => FInv
  <1> SUFFICES ASSUME Init PROVE FInv OBVIOUS
  <1>1. Valid = {} BY DEF Init, Valid, Proxies
  <1>2. Sorted BY DEF Init, Sorted, FlushPacket
  <1>3. OldIn = {} /\ OldOut = {} BY <1>1 DEF Init, OldIn, OldOut
  <1> QED BY <1>1, <1>2, <1>3 DEF Init, FInv, Unfed, FlushKept, Armed, Lone

LEMMA NextFInv == IInv /\ FInv /\ [Next]_vars => FInv'
  BY TypesNext, UnfedNext, SortedNext, FlushKeptNext, ArmedNext, LoneNext DEF FInv, IInv

\* Once the codec is flushed for a seek, nothing decoded from before it is left on its way to
\* the screen but one picture at most, of the packet that was pending when a set-surface packet
\* followed the flush packet, and that only after it was fed.
THEOREM OneOldPictureAfterFlush == Spec => []TrueAfterFlush
  <1>1. IInv /\ FInv => TrueAfterFlush
    <2> SUFFICES ASSUME IInv, FInv, ~FlushDue, NEW p \in Valid, NEW q \in Valid, p.of < flushed, q.of < flushed
                 PROVE  revived /\ p.buf = q.buf
      BY DEF TrueAfterFlush
    <2>1. feeder # "flushCodec" BY DEF IInv, Emptied
    <2>2. p \in OldOut /\ q \in OldOut BY DEF OldOut
    <2> QED BY <2>1, <2>2 DEF FInv, Lone
  <1> QED BY <1>1, InitFInv, NextFInv, AlwaysIInv, PTL DEF Spec

-----------------------------------------------------------------------------
(* SettledUnlessOverlap.                                                    *)

LEMMA RequestedNext ==
    ASSUME Requested, [Next]_vars PROVE Requested'
  <1> USE DEF Requested, InSetup
  <1>1. CASE SetPipeline BY <1>1 DEF SetPipeline, SetCodec, codecVars, feedVars
  <1>2. CASE SetWindow \/ SendSurface \/ Answered \/ GiveUp \/ SeekAfter \/ SeekTo \/ Abort \/ UNCHANGED vars
    BY <1>2 DEF SetWindow, SendSurface, Answered, GiveUp, SeekAfter, SeekTo, Abort, vars, appVars, feedVars,
       codecVars
  <1>3. CASE ReaderNext \/ Show
    BY <1>3 DEF ReaderNext, ReadPacket, SeekBegins, SeekFails, FlushQueue, SeekSkipped, SeekEnds, Show, appVars, feedVars,
       codecVars
  <1>4. CASE SetupSurface BY <1>4 DEF SetupSurface, AfterSetup, appVars, codecVars
  <1>5. CASE ChangeBegins BY <1>5 DEF ChangeBegins, appVars, codecVars
  <1>6. CASE ApplySurface BY <1>6 DEF ApplySurface, SetCodec, appVars
  <1>7. CASE Reconfigure BY <1>7 DEF Reconfigure, appVars
  <1>8. CASE Applied BY <1>8 DEF Applied, AfterSetup, codecVars
  <1>9. CASE AwaitFirst \/ FeedLoop \/ TakePacket \/ NewSize \/ FlushBegins
    BY <1>9 DEF AwaitFirst, FeedLoop, TakePacket, NewSize, FlushBegins, AfterSetup, appVars, codecVars
  <1>10. CASE SortPacket \/ FlushCodec \/ Flushed \/ Feed
    BY <1>10 DEF SortPacket, FlushCodec, Flushed, Feed, appVars, codecVars
  <1>11. CASE DrainNext
    BY <1>11 DEF DrainNext, DrainLock, DrainWake, Dequeue, ClearFirst, DropEarly, Offer, QueuePicture, Leave,
       Join, Stop, appVars, feedVars, codecVars
  <1> QED BY <1>1, <1>2, <1>3, <1>4, <1>5, <1>6, <1>7, <1>8, <1>9, <1>10, <1>11
       DEF Next, AppNext, FeederNext, SetupNext

\* A request that met no other leaves the codec on the window asked for last, and the vout
\* knowing the codec.
THEOREM RequestsSettle == Spec => []SettledUnlessOverlap
  <1>1. Init => Requested BY DEF Init, Requested, InSetup
  <1>2. Requested => SettledUnlessOverlap BY DEF Requested, SettledUnlessOverlap
  <1> QED BY <1>1, <1>2, RequestedNext, PTL DEF Spec

-----------------------------------------------------------------------------
(* BuffersComeBack.                                                         *)

\* A flush is on its way: asked for, begun, queued or taken.
FlushComes ==
    \/ seekReq /\ reader = "reading"
    \/ reader = "flushing"
    \/ \E i \in DOMAIN queue : queue[i].kind = "flush"
    \/ FlushDue

\* Buffers without a proxy will be brought back, or were given up.
Returning ==
    \/ aborted \/ failed \/ late \/ lost \/ ~voutCodec
    \/ app \in {"pipeline", "send", "wait", "seek"}
    \/ FlushComes
    \/ feeder \in {"flushCodec", "reconfigure"}

AllBack   == \A b \in Buffers : lent[b] = None
Accounted == \A b \in Buffers : lent[b] # None => \E p \in Valid : p.buf = b

\* Nothing is out of a codec that was fed nothing, or is stopped.
UnfedBack == ~(fed /\ started) => AllBack

\* A request that is not for another picture size has a setter behind it, who will seek.
SetterWaits ==
    need /\ ~recreate /\ feeder \notin {"applied", "changed"} => app \in {"send", "wait"} \/ late \/ aborted

\* A change of the codec answers a request, which may be for another picture size or not.
ChangeAsked ==
    /\ feeder \in {"change", "apply", "reconfigure"} => need
    /\ feeder = "apply" => ~recreate

SeekServed == reader # "reading" => seekReq

Ending == drain \in {"join", "stop", "ended"} => failed

Underway == ChangeAsked /\ SeekServed /\ Ending

BInv == UnfedBack /\ SetterWaits /\ Underway /\ (Returning \/ Accounted)

LEMMA InitBInv == Init => BInv
  BY DEF Init, BInv, UnfedBack, SetterWaits, Underway, ChangeAsked, SeekServed, Ending, Accounted, AllBack

LEMMA SetterWaitsNext ==
    ASSUME SetterWaits, [Next]_vars PROVE SetterWaits'
  <1> USE DEF SetterWaits
  <1>1. CASE AppNext \/ UNCHANGED vars
    BY <1>1 DEF AppNext, SetWindow, SetPipeline, SendSurface, Answered, GiveUp, SeekAfter, SeekTo, Abort,
       vars, appVars, feedVars, queueVars
  <1>2. CASE ReaderNext \/ Show
    BY <1>2 DEF ReaderNext, ReadPacket, SeekBegins, SeekFails, FlushQueue, SeekSkipped, SeekEnds, Show, appVars, feedVars,
       queueVars
  <1>3. CASE SetupNext
    BY <1>3 DEF SetupNext, SetupSurface, ChangeBegins, ApplySurface, Reconfigure, Applied, AwaitFirst, AfterSetup,
       appVars, queueVars
  <1>4. CASE FeedLoop \/ TakePacket \/ SortPacket \/ NewSize \/ FlushBegins \/ FlushCodec \/ Flushed \/ Feed
    BY <1>4 DEF FeedLoop, TakePacket, SortPacket, NewSize, FlushBegins, FlushCodec, Flushed, Feed, appVars,
       queueVars
  <1>5. CASE DrainNext
    BY <1>5 DEF DrainNext, DrainLock, DrainWake, Dequeue, ClearFirst, DropEarly, Offer, QueuePicture, Leave,
       Join, Stop, appVars, feedVars, queueVars
  <1> QED BY <1>1, <1>2, <1>3, <1>4, <1>5 DEF Next, FeederNext

LEMMA ChangeAskedNext ==
    ASSUME ChangeAsked, [Next]_vars PROVE ChangeAsked'
  <1> USE DEF ChangeAsked
  <1>1. CASE AppNext \/ UNCHANGED vars
    <2>1. UNCHANGED feedVars
      BY <1>1 DEF AppNext, SetWindow, SetPipeline, SendSurface, Answered, GiveUp, SeekAfter, SeekTo, Abort, vars
    <2>2. need' = need \/ need'
      BY <1>1 DEF AppNext, SetWindow, SetPipeline, SendSurface, Answered, GiveUp, SeekAfter, SeekTo, Abort, vars,
         appVars
    <2> QED BY <2>1, <2>2 DEF feedVars
  <1>2. CASE ReaderNext \/ Show
    BY <1>2 DEF ReaderNext, ReadPacket, SeekBegins, SeekFails, FlushQueue, SeekSkipped, SeekEnds, Show, appVars, feedVars,
       queueVars, drainVars
  <1>3. CASE SetupNext
    <2>1. CASE SetupSurface BY <2>1 DEF SetupSurface, AfterSetup, appVars
    <2>2. CASE ChangeBegins BY <2>2 DEF ChangeBegins, appVars
    <2>3. CASE ApplySurface BY <2>3 DEF ApplySurface, appVars
    <2>4. CASE Reconfigure BY <2>4 DEF Reconfigure, appVars
    <2>5. CASE Applied BY <2>5 DEF Applied, AfterSetup
    <2>6. CASE AwaitFirst BY <2>6 DEF AwaitFirst, AfterSetup, appVars
    <2> QED BY <1>3, <2>1, <2>2, <2>3, <2>4, <2>5, <2>6 DEF SetupNext
  <1>4. CASE FeedLoop \/ TakePacket \/ SortPacket \/ NewSize \/ FlushBegins \/ FlushCodec \/ Flushed \/ Feed
    BY <1>4 DEF FeedLoop, TakePacket, SortPacket, NewSize, FlushBegins, FlushCodec, Flushed, Feed, appVars,
       queueVars, drainVars
  <1>5. CASE DrainNext
    BY <1>5 DEF DrainNext, DrainLock, DrainWake, Dequeue, ClearFirst, DropEarly, Offer, QueuePicture, Leave,
       Join, Stop, appVars, feedVars, queueVars, drainVars
  <1> QED BY <1>1, <1>2, <1>3, <1>4, <1>5 DEF Next, FeederNext

LEMMA SeekServedNext ==
    ASSUME SeekServed, [Next]_vars PROVE SeekServed'
  <1> USE DEF SeekServed
  <1>1. CASE AppNext \/ UNCHANGED vars
    BY <1>1 DEF AppNext, SetWindow, SetPipeline, SendSurface, Answered, GiveUp, SeekAfter, SeekTo, Abort, AskSeek,
       vars, appVars, feedVars, queueVars, drainVars
  <1>2. CASE ReaderNext \/ Show
    BY <1>2 DEF ReaderNext, ReadPacket, SeekBegins, SeekFails, FlushQueue, SeekSkipped, SeekEnds, Show, appVars, feedVars,
       queueVars, drainVars
  <1>3. CASE SetupNext
    BY <1>3 DEF SetupNext, SetupSurface, ChangeBegins, ApplySurface, Reconfigure, Applied, AwaitFirst, AfterSetup,
       appVars, queueVars, drainVars
  <1>4. CASE FeedLoop \/ TakePacket \/ SortPacket \/ NewSize \/ FlushBegins \/ FlushCodec \/ Flushed \/ Feed
    BY <1>4 DEF FeedLoop, TakePacket, SortPacket, NewSize, FlushBegins, FlushCodec, Flushed, Feed, appVars,
       queueVars, drainVars
  <1>5. CASE DrainNext
    BY <1>5 DEF DrainNext, DrainLock, DrainWake, Dequeue, ClearFirst, DropEarly, Offer, QueuePicture, Leave,
       Join, Stop, appVars, feedVars, queueVars, drainVars
  <1> QED BY <1>1, <1>2, <1>3, <1>4, <1>5 DEF Next, FeederNext

LEMMA EndingNext ==
    ASSUME Ending, [Next]_vars PROVE Ending'
  <1> USE DEF Ending
  <1>1. CASE AppNext \/ UNCHANGED vars
    BY <1>1 DEF AppNext, SetWindow, SetPipeline, SendSurface, Answered, GiveUp, SeekAfter, SeekTo, Abort, AskSeek,
       vars, appVars, feedVars, queueVars, drainVars
  <1>2. CASE ReaderNext \/ Show
    BY <1>2 DEF ReaderNext, ReadPacket, SeekBegins, SeekFails, FlushQueue, SeekSkipped, SeekEnds, Show, appVars, feedVars,
       queueVars, drainVars
  <1>3. CASE SetupNext
    BY <1>3 DEF SetupNext, SetupSurface, ChangeBegins, ApplySurface, Reconfigure, Applied, AwaitFirst, AfterSetup,
       appVars, queueVars, drainVars
  <1>4. CASE FeedLoop \/ TakePacket \/ SortPacket \/ NewSize \/ FlushBegins \/ FlushCodec \/ Flushed \/ Feed
    BY <1>4 DEF FeedLoop, TakePacket, SortPacket, NewSize, FlushBegins, FlushCodec, Flushed, Feed, appVars,
       queueVars, drainVars
  <1>5. CASE DrainNext
    BY <1>5 DEF DrainNext, DrainLock, DrainWake, Dequeue, ClearFirst, DropEarly, Offer, QueuePicture, Leave,
       Join, Stop, appVars, feedVars, queueVars, drainVars
  <1> QED BY <1>1, <1>2, <1>3, <1>4, <1>5 DEF Next, FeederNext

LEMMA UnderwayNext ==
    ASSUME Underway, [Next]_vars PROVE Underway'
  BY ChangeAskedNext, SeekServedNext, EndingNext DEF Underway

\* A flush packet stays in the queue until the feeding thread takes it.
LEMMA FlushQueued ==
    ASSUME Types, [Next]_vars, NEW i \in DOMAIN queue, queue[i].kind = "flush"
    PROVE  (\E j \in DOMAIN queue' : queue'[j].kind = "flush") \/ (TakePacket /\ FlushDue')
  <1>0. queue \in Seq(Packets) BY DEF Types
  <1>2. CASE TakePacket /\ ~aborted
    <2>1. queue # <<>> /\ queue' = Tail(queue) /\ packet' = Head(queue).kind /\ feeder' = "setup"
      BY <1>2 DEF TakePacket
    <2>2. CASE i = 1
      <3>1. Head(queue) = queue[1] BY <1>0, <2>1
      <3> QED BY <1>2, <2>1, <2>2, <3>1 DEF FlushDue
    <2>3. CASE i # 1
      <3>1. i - 1 \in DOMAIN queue' /\ queue'[i - 1] = queue[i]
        <4>1. i \in Nat /\ i >= 1 /\ i <= Len(queue) /\ Len(queue) \in Nat BY <1>0
        <4>2. Len(Tail(queue)) = Len(queue) - 1 /\ DOMAIN Tail(queue) = 1..(Len(queue) - 1)
              /\ \A k \in 1..(Len(queue) - 1) : Tail(queue)[k] = queue[k + 1]
          BY <1>0, <2>1
        <4>3. i - 1 \in 1..(Len(queue) - 1) /\ (i - 1) + 1 = i BY <2>3, <4>1
        <4> QED BY <2>1, <4>2, <4>3
      <3> QED BY <3>1
    <2> QED BY <2>2, <2>3
  <1>4. CASE queue' = <<[kind |-> "flush", serial |-> serial + 1]>>
    <2>1. 1 \in DOMAIN queue' /\ queue'[1].kind = "flush" BY <1>4
    <2> QED BY <2>1
  <1>5. CASE ~(TakePacket /\ ~aborted)
    <2>1. CASE UNCHANGED queue BY <2>1
    <2>2. CASE SendSurface \/ ReadPacket \/ FlushQueue
      <3>1. SendSurface \/ ReadPacket => queue' = queue \/ \E x : queue' = Append(queue, x)
        BY DEF SendSurface, ReadPacket
      <3>2. CASE \E x : queue' = Append(queue, x)
        <4>1. PICK x : queue' = Append(queue, x) BY <3>2
        <4>2. i \in DOMAIN queue' /\ queue'[i] = queue[i] BY <1>0, <4>1
        <4> QED BY <4>2
      <3>3. CASE FlushQueue BY <3>3, <1>4 DEF FlushQueue
      <3> QED BY <2>1, <2>2, <3>1, <3>2, <3>3
    <2>3. UNCHANGED queue \/ SendSurface \/ ReadPacket \/ FlushQueue
      <3>1. CASE AppNext \/ UNCHANGED vars
        BY <3>1 DEF AppNext, SetWindow, SetPipeline, Answered, GiveUp, SeekAfter, SeekTo, Abort, vars, queueVars
      <3>2. CASE ReaderNext \/ Show
        BY <3>2 DEF ReaderNext, SeekBegins, SeekFails, SeekSkipped, SeekEnds, Show, queueVars
      <3>3. CASE SetupNext
        BY <3>3 DEF SetupNext, SetupSurface, ChangeBegins, ApplySurface, Reconfigure, Applied, AwaitFirst, queueVars
      <3>4. CASE FeedLoop \/ SortPacket \/ NewSize \/ FlushBegins \/ FlushCodec \/ Flushed \/ Feed
        BY <3>4 DEF FeedLoop, SortPacket, NewSize, FlushBegins, FlushCodec, Flushed, Feed, queueVars
      <3>5. CASE TakePacket BY <1>5, <3>5 DEF TakePacket
      <3>6. CASE DrainNext
        BY <3>6 DEF DrainNext, DrainLock, DrainWake, Dequeue, ClearFirst, DropEarly, Offer, QueuePicture, Leave,
           Join, Stop, queueVars
      <3> QED BY <3>1, <3>2, <3>3, <3>4, <3>5, <3>6 DEF Next, FeederNext
    <2> QED BY <2>1, <2>2, <2>3
  <1> QED BY <1>2, <1>5

\* What is on its way back is still so after the step, or has come.
LEMMA FlushComesNext ==
    ASSUME ~ExactSeeks, IInv, FInv, BInv, FlushComes, [Next]_vars
    PROVE  FlushComes' \/ feeder' = "flushCodec" \/ AllBack' \/ lost'
  <1>1. CASE seekReq /\ reader = "reading"
    <2>1. (seekReq /\ reader = "reading")' \/ (reader = "flushing")' \/ lost'
      BY <1>1 DEF Next, AppNext, ReaderNext, SetupNext, FeederNext, DrainNext, vars, SetWindow, SetPipeline, SendSurface,
         Answered, GiveUp, SeekAfter, SeekTo, AskSeek, Abort, ReadPacket, SeekBegins, SeekFails, FlushQueue, SeekSkipped, SeekEnds,
         FeedLoop, TakePacket, SetupSurface, ChangeBegins, ApplySurface, Reconfigure, Applied, AwaitFirst,
         SortPacket, NewSize, FlushBegins, FlushCodec, Flushed, Feed, DrainLock, DrainWake, Dequeue, ClearFirst,
         DropEarly, Offer, QueuePicture, Leave, Join, Stop, Show, queueVars
    <2> QED BY <2>1 DEF FlushComes
  <1>2. CASE reader = "flushing"
    <2>1. reader' = "flushing" \/ FlushQueue
      BY <1>2 DEF Next, AppNext, ReaderNext, SetupNext, FeederNext, DrainNext, vars, SetWindow, SetPipeline, SendSurface,
         Answered, GiveUp, SeekAfter, SeekTo, AskSeek, Abort, ReadPacket, SeekBegins, SeekFails, SeekSkipped, SeekEnds,
         FeedLoop, TakePacket, SetupSurface, ChangeBegins, ApplySurface, Reconfigure, Applied, AwaitFirst,
         SortPacket, NewSize, FlushBegins, FlushCodec, Flushed, Feed, DrainLock, DrainWake, Dequeue, ClearFirst,
         DropEarly, Offer, QueuePicture, Leave, Join, Stop, Show, queueVars
    <2>2. CASE FlushQueue
      <3>1. queue' = <<[kind |-> "flush", serial |-> serial + 1]>> BY <2>2 DEF FlushQueue
      <3>2. 1 \in DOMAIN queue' /\ queue'[1].kind = "flush" BY <3>1
      <3> QED BY <3>2 DEF FlushComes
    <2> QED BY <2>1, <2>2 DEF FlushComes
  <1>3. CASE \E i \in DOMAIN queue : queue[i].kind = "flush"
    BY <1>3, FlushQueued DEF FlushComes, IInv
  <1>4. CASE FlushDue
    <2>1. CASE FlushBegins
      <3>1. CASE fed /\ started BY <2>1, <3>1 DEF FlushBegins
      <3>2. CASE ~(fed /\ started)
        <4>1. lent' = lent BY <2>1 DEF FlushBegins, codecVars
        <4> QED BY <3>2, <4>1 DEF BInv, UnfedBack, AllBack
      <3> QED BY <3>1, <3>2
    <2>2. CASE ~FlushBegins
      <3>1. CASE AppNext \/ ReaderNext \/ DrainNext \/ Show \/ UNCHANGED vars
        <4>1. UNCHANGED <<packet, feeder>>
          BY <3>1 DEF AppNext, ReaderNext, DrainNext, SetWindow, SetPipeline, SendSurface, Answered, GiveUp,
             SeekAfter, SeekTo, Abort, ReadPacket, SeekBegins, SeekFails, FlushQueue, SeekSkipped, SeekEnds, Show, DrainLock,
             DrainWake, Dequeue, ClearFirst, DropEarly, Offer, QueuePicture, Leave, Join, Stop, vars, feedVars
        <4> QED BY <1>4, <4>1 DEF FlushComes, FlushDue
      <3>2. CASE FeederNext
        <4>1. FlushDue'
          BY <1>4, <2>2, <3>2 DEF FInv, FlushKept, FlushDue, FeederNext, SetupNext, FeedLoop, TakePacket, SetupSurface,
             ChangeBegins, ApplySurface, Reconfigure, Applied, AwaitFirst, SortPacket, NewSize, FlushCodec,
             Flushed, Feed, AfterSetup
        <4> QED BY <4>1 DEF FlushComes
      <3> QED BY <3>1, <3>2 DEF Next
    <2> QED BY <2>1, <2>2
  <1> QED BY <1>1, <1>2, <1>3, <1>4 DEF FlushComes

LEMMA ReturningNext ==
    ASSUME ~ExactSeeks, IInv, FInv, BInv, Returning, [Next]_vars
    PROVE  Returning' \/ AllBack'
  <1>1. CASE aborted \/ failed \/ late \/ lost
    <2>1. aborted => aborted'
      BY DEF Next, AppNext, ReaderNext, SetupNext, FeederNext, DrainNext, vars, SetWindow, SetPipeline, SendSurface,
         Answered, GiveUp, SeekAfter, SeekTo, AskSeek, Abort, ReadPacket, SeekBegins, SeekFails, FlushQueue, SeekSkipped, SeekEnds,
         FeedLoop, TakePacket, SetupSurface, ChangeBegins, ApplySurface, Reconfigure, Applied, AwaitFirst,
         SortPacket, NewSize, FlushBegins, FlushCodec, Flushed, Feed, DrainLock, DrainWake, Dequeue, ClearFirst,
         DropEarly, Offer, QueuePicture, Leave, Join, Stop, Show, queueVars, appVars, drainVars
    <2>2. failed => failed'
      BY DEF Next, AppNext, ReaderNext, SetupNext, FeederNext, DrainNext, vars, SetWindow, SetPipeline, SendSurface,
         Answered, GiveUp, SeekAfter, SeekTo, AskSeek, Abort, ReadPacket, SeekBegins, SeekFails, FlushQueue, SeekSkipped, SeekEnds,
         FeedLoop, TakePacket, SetupSurface, ChangeBegins, ApplySurface, Reconfigure, Applied, AwaitFirst,
         SortPacket, NewSize, FlushBegins, FlushCodec, Flushed, Feed, DrainLock, DrainWake, Dequeue, ClearFirst,
         DropEarly, Offer, QueuePicture, Leave, Join, Stop, Show, queueVars, appVars, drainVars
    <2>3. late => late'
      BY DEF Next, AppNext, ReaderNext, SetupNext, FeederNext, DrainNext, vars, SetWindow, SetPipeline, SendSurface,
         Answered, GiveUp, SeekAfter, SeekTo, AskSeek, Abort, ReadPacket, SeekBegins, SeekFails, FlushQueue, SeekSkipped, SeekEnds,
         FeedLoop, TakePacket, SetupSurface, ChangeBegins, ApplySurface, Reconfigure, Applied, AwaitFirst,
         SortPacket, NewSize, FlushBegins, FlushCodec, Flushed, Feed, DrainLock, DrainWake, Dequeue, ClearFirst,
         DropEarly, Offer, QueuePicture, Leave, Join, Stop, Show, queueVars, appVars, drainVars
    <2>4. lost => lost'
      BY DEF Next, AppNext, ReaderNext, SetupNext, FeederNext, DrainNext, vars, SetWindow, SetPipeline, SendSurface,
         Answered, GiveUp, SeekAfter, SeekTo, AskSeek, Abort, ReadPacket, SeekBegins, SeekFails, FlushQueue, SeekSkipped, SeekEnds,
         FeedLoop, TakePacket, SetupSurface, ChangeBegins, ApplySurface, Reconfigure, Applied, AwaitFirst,
         SortPacket, NewSize, FlushBegins, FlushCodec, Flushed, Feed, DrainLock, DrainWake, Dequeue, ClearFirst,
         DropEarly, Offer, QueuePicture, Leave, Join, Stop, Show, queueVars, appVars, drainVars
    <2> QED BY <1>1, <2>1, <2>2, <2>3, <2>4 DEF Returning
  <1>2. CASE ~voutCodec
    <2>1. CASE ApplySurface
      <3>1. need /\ ~recreate /\ feeder = "apply" BY <2>1 DEF ApplySurface, BInv, Underway, ChangeAsked
      <3>2. app \in {"send", "wait"} \/ late \/ aborted BY <3>1 DEF BInv, SetterWaits
      <3>3. app' = app /\ late' = late /\ aborted' = aborted BY <2>1 DEF ApplySurface, appVars, queueVars
      <3> QED BY <3>2, <3>3 DEF Returning
    <2>2. CASE Reconfigure BY <2>2 DEF Reconfigure, AllBack
    <2>3. CASE ~ApplySurface /\ ~Reconfigure
      <3>1. ~voutCodec'
        BY <1>2, <2>3 DEF Next, AppNext, ReaderNext, SetupNext, FeederNext, DrainNext, vars, SetWindow, SetPipeline,
         SendSurface, SetCodec,
         Answered, GiveUp, SeekAfter, SeekTo, AskSeek, Abort, ReadPacket, SeekBegins, SeekFails, FlushQueue, SeekSkipped, SeekEnds,
         FeedLoop, TakePacket, SetupSurface, ChangeBegins, Applied, AwaitFirst,
         SortPacket, NewSize, FlushBegins, FlushCodec, Flushed, Feed, DrainLock, DrainWake, Dequeue, ClearFirst,
         DropEarly, Offer, QueuePicture, Leave, Join, Stop, Show
      <3> QED BY <3>1 DEF Returning
    <2> QED BY <2>1, <2>2, <2>3
  <1>3. CASE app \in {"pipeline", "send", "wait", "seek"}
    <2>1. CASE SendSurface BY <2>1 DEF SendSurface, Returning
    <2>2. CASE GiveUp BY <2>2 DEF GiveUp, Returning
    <2>3. CASE SeekAfter BY <2>3 DEF SeekAfter, AskSeek, Returning, FlushComes
    <2>4. CASE ~SendSurface /\ ~GiveUp /\ ~SeekAfter
      <3>1. app' \in {"pipeline", "send", "wait", "seek"}
        BY <1>3, <2>4 DEF Next, AppNext, ReaderNext, SetupNext, FeederNext, DrainNext, vars, SetWindow, SetPipeline,
         Answered, SeekTo, AskSeek, Abort, ReadPacket, SeekBegins, SeekFails, FlushQueue, SeekSkipped, SeekEnds,
         FeedLoop, TakePacket, SetupSurface, ChangeBegins, ApplySurface, Reconfigure, Applied, AwaitFirst,
         SortPacket, NewSize, FlushBegins, FlushCodec, Flushed, Feed, DrainLock, DrainWake, Dequeue, ClearFirst,
         DropEarly, Offer, QueuePicture, Leave, Join, Stop, Show, appVars
      <3> QED BY <3>1 DEF Returning
    <2> QED BY <2>1, <2>2, <2>3, <2>4
  <1>4. CASE FlushComes
    BY <1>4, FlushComesNext DEF Returning
  <1>5. CASE feeder \in {"flushCodec", "reconfigure"}
    <2>1. CASE FlushCodec \/ Reconfigure BY <2>1 DEF FlushCodec, Reconfigure, AllBack
    <2>2. CASE ~FlushCodec /\ ~Reconfigure
      <3>1. feeder' = feeder
        BY <1>5, <2>2 DEF Next, AppNext, ReaderNext, SetupNext, FeederNext, DrainNext, vars, SetWindow, SetPipeline,
         SendSurface,
         Answered, GiveUp, SeekAfter, SeekTo, AskSeek, Abort, ReadPacket, SeekBegins, SeekFails, FlushQueue, SeekSkipped, SeekEnds,
         FeedLoop, TakePacket, SetupSurface, ChangeBegins, ApplySurface, Applied, AwaitFirst,
         SortPacket, NewSize, FlushBegins, Flushed, Feed, DrainLock, DrainWake, Dequeue, ClearFirst,
         DropEarly, Offer, QueuePicture, Leave, Join, Stop, Show, feedVars
      <3> QED BY <1>5, <3>1 DEF Returning
    <2> QED BY <2>1, <2>2
  <1> QED BY <1>1, <1>2, <1>3, <1>4, <1>5 DEF Returning

\* Making every proxy invalid is always followed by a flush, another codec or a stop.
LEMMA InvalidatedReturn ==
    ASSUME BInv, Invalidating PROVE Returning' \/ UNCHANGED <<frame, pictq>>
  <1>1. CASE SetWindow BY <1>1 DEF SetWindow, Returning
  <1>2. CASE SetPipeline BY <1>2 DEF SetPipeline, Returning
  <1>3. CASE ChangeBegins
    <2>1. CASE recreate BY <1>3, <2>1 DEF ChangeBegins, Returning
    <2>2. CASE ~recreate
      <3>1. app \in {"send", "wait"} \/ late \/ aborted
        BY <1>3, <2>2 DEF ChangeBegins, BInv, SetterWaits, Underway, ChangeAsked
      <3>2. app' = app /\ late' = late /\ aborted' = aborted BY <1>3 DEF ChangeBegins, appVars, queueVars
      <3> QED BY <3>1, <3>2 DEF Returning
    <2> QED BY <2>1, <2>2
  <1>4. CASE ApplySurface
    <2>1. app \in {"send", "wait"} \/ late \/ aborted
      BY <1>4 DEF ApplySurface, BInv, SetterWaits, Underway, ChangeAsked
    <2>2. app' = app /\ late' = late /\ aborted' = aborted BY <1>4 DEF ApplySurface, appVars, queueVars
    <2> QED BY <2>1, <2>2 DEF Returning
  <1>5. CASE FlushBegins BY <1>5 DEF FlushBegins, Returning
  <1>6. CASE Join BY <1>6 DEF Join, BInv, Underway, ChangeAsked, SeekServed, Ending, Returning
  <1> QED BY <1>1, <1>2, <1>3, <1>4, <1>5, <1>6 DEF Invalidating

\* A buffer whose proxy is given back goes to the codec, if the vout knows it.
LEMMA ReleaseAccounts ==
    ASSUME IInv, Accounted, voutCodec, NEW q, lent' = Returned(q),
           \A p \in Valid : p # q => p \in Valid'
    PROVE  Accounted'
  <1> SUFFICES ASSUME NEW b \in Buffers, lent'[b] # None PROVE \E p \in Valid' : p.buf = b
    BY DEF Accounted
  <1>1. q.buf # b /\ lent[b] # None BY DEF Returned
  <1>2. PICK p \in Valid : p.buf = b BY <1>1 DEF Accounted
  <1> QED BY <1>1, <1>2

LEMMA DequeueAccounts ==
    ASSUME IInv, Accounted, Dequeue, Types' PROVE Accounted'
  <1>1. pictq' = pictq /\ frame = None BY DEF IInv, InHand, Dequeue
  <1>2. CASE frame' = frame /\ lent' = lent BY <1>1, <1>2, SameValid DEF Accounted
  <1>3. CASE inside # <<>> /\ \E b \in Buffers : /\ lent[b] = None
                                 /\ lent' = [lent EXCEPT ![b] = Head(inside)]
                                 /\ frame' = [buf |-> b, of |-> Head(inside), label |-> 0]
    <2>1. PICK b \in Buffers : /\ lent[b] = None
                               /\ lent' = [lent EXCEPT ![b] = Head(inside)]
                               /\ frame' = [buf |-> b, of |-> Head(inside), label |-> 0]
      BY <1>3
    <2>2. b # Spent /\ frame'.buf = b /\ frame' # None
      <3>1. Head(inside) \in Nat BY <1>3 DEF IInv, Types
      <3>2. frame' \in Proxy BY <2>1, <3>1 DEF Proxy
      <3> QED BY <2>1, <3>2, NodeAssumption, NoneAssumption
    <2>3. Valid' = Valid \cup {frame'} BY <1>1, <2>2 DEF Valid, Proxies
    <2> SUFFICES ASSUME NEW c \in Buffers, lent'[c] # None PROVE \E p \in Valid' : p.buf = c
      BY DEF Accounted
    <2>4. CASE c = b BY <2>2, <2>3, <2>4
    <2>5. CASE c # b
      <3>1. lent'[c] = lent[c] BY <2>1, <2>5 DEF IInv, Types
      <3>2. PICK p \in Valid : p.buf = c BY <3>1 DEF Accounted
      <3> QED BY <2>3, <3>2
    <2> QED BY <2>4, <2>5
  <1> QED BY <1>2, <1>3 DEF Dequeue

\* No step loses sight of a buffer without a flush, another codec or a stop to follow.
LEMMA AccountedNext ==
    ASSUME IInv, BInv, Accounted, [Next]_vars, Types' PROVE Returning' \/ Accounted'
  <1>1. CASE Still BY <1>1, StillHere, SameValid DEF Accounted
  <1>2. CASE Invalidating BY <1>2, InvalidatedReturn, InvalidatingHere, SameValid DEF Accounted
  <1>3. CASE TakingBack BY <1>3 DEF TakingBack, Reconfigure, FlushCodec, Stop, Accounted
  <1>4. CASE Moving
    <2>0. voutCodec' = voutCodec
      BY <1>4 DEF Moving, Dequeue, ClearFirst, DropEarly, Offer, QueuePicture, Show
    <2>a. CASE ~voutCodec BY <2>0, <2>a DEF Returning
    <2>b. CASE voutCodec
      <3>1. CASE Dequeue BY <3>1, DequeueAccounts
      <3>2. CASE Show
        <4>1. pictq # <<>> /\ pictq' = Tail(pictq) /\ frame' = frame /\ lent' = Returned(Head(pictq))
          BY <3>2 DEF Show, drainVars
        <4>2. pictq \in Seq(Proxy) BY DEF IInv, Types
        <4>3. \A i \in DOMAIN pictq : pictq[i] = Head(pictq) \/ \E j \in DOMAIN pictq' : pictq'[j] = pictq[i]
          <5> SUFFICES ASSUME NEW i \in DOMAIN pictq, pictq[i] # Head(pictq)
                       PROVE  \E j \in DOMAIN pictq' : pictq'[j] = pictq[i]
            OBVIOUS
          <5>1. Head(pictq) = pictq[1] BY <4>1, <4>2
          <5>2. i \in Nat /\ i >= 1 /\ i <= Len(pictq) /\ Len(pictq) \in Nat BY <4>2
          <5>3. DOMAIN pictq' = 1..(Len(pictq) - 1) /\ \A k \in 1..(Len(pictq) - 1) : pictq'[k] = pictq[k + 1]
            BY <4>1, <4>2
          <5>4. i # 1 BY <5>1
          <5>5. i - 1 \in 1..(Len(pictq) - 1) /\ (i - 1) + 1 = i BY <5>2, <5>4
          <5> QED BY <5>3, <5>5
        <4>4. \A p \in Valid : p # Head(pictq) => p \in Valid'
          BY <4>1, <4>3 DEF Valid, Proxies
        <4> QED BY <2>b, <4>1, <4>4, ReleaseAccounts
      <3>3. CASE DropEarly
        <4>1. lent' = Returned(frame) /\ pictq' = pictq BY <3>3 DEF DropEarly
        <4>2. \A p \in Valid : p # frame => p \in Valid' BY <4>1 DEF Valid, Proxies
        <4> QED BY <2>b, <4>1, <4>2, ReleaseAccounts
      <3>4. CASE ClearFirst
        <4>1. CASE aborted BY <3>4, <4>1 DEF ClearFirst, Returning, queueVars
        <4>2. CASE ~aborted BY <3>4, <4>2, SameValid DEF ClearFirst, Accounted
        <4> QED BY <4>1, <4>2
      <3>5. CASE QueuePicture
        <4>1. CASE aborted BY <3>5, <4>1 DEF QueuePicture, Returning, queueVars
        <4>2. CASE ~aborted
          <5>1. pictq' = Append(pictq, frame) /\ lent' = lent BY <3>5, <4>2 DEF QueuePicture
          <5>2. /\ DOMAIN pictq' = DOMAIN pictq \cup {Len(pictq) + 1}
                /\ pictq'[Len(pictq) + 1] = frame /\ \A i \in DOMAIN pictq : pictq'[i] = pictq[i]
            <6>1. frame \in Proxy /\ pictq \in Seq(Proxy) BY <3>5 DEF QueuePicture, IInv, InHand, Types
            <6> QED BY <5>1, <6>1
          <5>3. Valid \subseteq Valid' BY <5>2 DEF Valid, Proxies
          <5> QED BY <5>1, <5>3 DEF Accounted
        <4> QED BY <4>1, <4>2
      <3>6. CASE Offer
        <4>1. frame \in Proxy /\ frame' = [frame EXCEPT !.label = pktSerial] /\ pictq' = pictq /\ lent' = lent
          BY <3>6 DEF Offer, IInv, InHand, Types, codecVars
        <4>2. frame' \in Proxy /\ frame'.buf = frame.buf BY <4>1 DEF Proxy, IInv, Types
        <4>3. \A p \in Valid : \E q \in Valid' : q.buf = p.buf
          BY <4>1, <4>2, NoneAssumption DEF Valid, Proxies
        <4> QED BY <4>1, <4>3 DEF Accounted
      <3> QED BY <1>4, <3>1, <3>2, <3>3, <3>4, <3>5, <3>6 DEF Moving
    <2> QED BY <2>a, <2>b
  <1> QED BY <1>1, <1>2, <1>3, <1>4, Groups

LEMMA UnfedBackNext ==
    ASSUME IInv, FInv, UnfedBack, [Next]_vars PROVE UnfedBack'
  <1>1. CASE Still
    <2>1. lent' = lent BY <1>1, StillHere
    <2>2. started' = started /\ (fed' = fed \/ fed')
      BY <1>1 DEF Still, SendSurface, Answered, GiveUp, SeekAfter, SeekTo, Abort, ReadPacket, SeekBegins, SeekFails,
         FlushQueue, SeekSkipped, SeekEnds, FeedLoop, TakePacket, SetupSurface, Applied, AwaitFirst, SortPacket,
         NewSize, Flushed, Feed, DrainLock, DrainWake, Leave, vars, codecVars
    <2> QED BY <2>1, <2>2 DEF UnfedBack, AllBack
  <1>2. CASE Invalidating
    <2>1. UNCHANGED <<fed, started, lent>>
      BY <1>2 DEF Invalidating, SetWindow, SetPipeline, ChangeBegins, ApplySurface, FlushBegins, Join, codecVars
    <2> QED BY <2>1 DEF UnfedBack, AllBack
  <1>3. CASE TakingBack
    BY <1>3 DEF TakingBack, Reconfigure, FlushCodec, Stop, UnfedBack, AllBack
  <1>4. CASE Moving
    <2>1. UNCHANGED <<fed, started>> BY <1>4 DEF Moving, Dequeue, ClearFirst, DropEarly, Offer, QueuePicture, Show, codecVars
    <2>2. CASE fed /\ started BY <2>1, <2>2 DEF UnfedBack
    <2>3. CASE ~(fed /\ started)
      <3>1. inside = <<>> /\ AllBack BY <2>3 DEF FInv, Unfed, UnfedBack
      <3>2. lent' = lent \/ \E q : lent' = Returned(q)
        BY <1>4, <3>1 DEF Moving, Dequeue, ClearFirst, DropEarly, Offer, QueuePicture, Show, codecVars
      <3> QED BY <3>1, <3>2 DEF UnfedBack, AllBack, Returned
    <2> QED BY <2>2, <2>3
  <1> QED BY <1>1, <1>2, <1>3, <1>4, Groups

LEMMA NextBInv ==
    ASSUME ~ExactSeeks PROVE IInv /\ FInv /\ BInv /\ [Next]_vars => BInv'
  <1> SUFFICES ASSUME IInv, FInv, BInv, [Next]_vars PROVE BInv' OBVIOUS
  <1>1. Types' BY TypesNext
  <1>2. UnfedBack' /\ SetterWaits' /\ Underway'
    BY UnfedBackNext, SetterWaitsNext, UnderwayNext DEF BInv
  <1>3. AllBack' => Accounted' BY DEF AllBack, Accounted
  <1>4. Returning' \/ Accounted'
    BY <1>1, <1>3, ReturningNext, AccountedNext DEF BInv
  <1> QED BY <1>2, <1>4 DEF BInv

\* Where near seeks are not skipped, every buffer the codec lent out is back with it, or has
\* a proxy that will give it back, once a change of window and its seek are through; unless
\* the setter gave up, or a seek was forgotten or failed, as BuffersComeBack says.
THEOREM ChangedWindowsReturnBuffers ==
    ASSUME ~ExactSeeks PROVE Spec => []BuffersComeBack
  <1>1. BInv => BuffersComeBack
    BY DEF BInv, Underway, ChangeAsked, SeekServed, Ending, Returning, FlushComes, BuffersComeBack, Quiet, InSetup, Accounted
  <1>2. Spec => []FInv BY InitFInv, NextFInv, AlwaysIInv, PTL DEF Spec
  <1> QED BY <1>1, <1>2, InitBInv, NextBInv, AlwaysIInv, PTL DEF Spec
=============================================================================
