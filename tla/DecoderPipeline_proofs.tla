----------------------- MODULE DecoderPipeline_proofs -----------------------
(* Which pictures are shown, and when playback ends: theorems for any       *)
(* number of packets, seeks and surface changes, and any size of the queues.*)
EXTENDS DecoderPipeline, SequenceTheorems, TLAPS

\* What is on its way comes from no later place, and under no later serial.
Bounded ==
    /\ serial >= 1 /\ pkt.place <= place /\ finished <= pkt_serial
    /\ dec = "push" => pkt_serial >= 1
    /\ \A i \in DOMAIN queue : queue[i].place <= place /\ queue[i].serial <= serial

\* Each serial begins with a flush or surface packet, the only one it has.
Marks == {"flush", "surface"}

Sorted ==
    /\ \A i, j \in DOMAIN queue :
           i < j => /\ queue[i].serial <= queue[j].serial
                    /\ queue[j].what \in Marks => queue[i].serial < queue[j].serial
    /\ \A i \in DOMAIN queue :
           /\ pkt_serial <= queue[i].serial
           /\ queue[i].what \in Marks => pkt_serial < queue[i].serial
    /\ pkt_serial # serial => \A i \in DOMAIN queue :
           queue[i].serial = serial /\ queue[i].what \notin Marks =>
               \E j \in DOMAIN queue : j < i /\ queue[j].serial = serial /\ queue[j].what \in Marks
    /\ pkt_serial # serial /\ reader # "flushed" /\ ~aborted =>
           \E j \in DOMAIN queue : queue[j].serial = serial /\ queue[j].what \in Marks

\* Data of the queue's serial comes from where the reader reads.
DataHere ==
    ~aborted =>
        /\ \A i \in DOMAIN queue : queue[i].what = "data" /\ Current(queue[i]) => queue[i].place = place
        /\ dec = "check" /\ pkt.what = "data" /\ pkt_serial = serial => pkt.place = place

\* So does what the decoder holds ...
Pure == (\A i \in DOMAIN codec : codec[i] = place) /\ (dec = "push" => frame = place)

FlushTaken == dec = "check" /\ pkt.what = "flush" /\ pkt_serial = serial
FlushPending == Queued("flush") \/ FlushTaken \/ reader = "flushed"

\* ... when it has taken a packet of this serial, or no flush packet is on its way.
DecoderPure ==
    ~FlushLost /\ ~aborted =>
        /\ pkt_serial = serial /\ ~FlushTaken => Pure
        /\ ~FlushPending => Pure
        /\ reader = "flushed" => queue = <<>>

\* Who closes the stream has aborted the queue.
Stopped == closing # "no" => aborted

TInv == TypeOK /\ Bounded
IInv == TInv /\ Sorted /\ DataHere /\ DecoderPure /\ LabelsHonest /\ Stopped

-----------------------------------------------------------------------------
LEMMA Appended ==
    ASSUME NEW S, NEW s \in Seq(S), NEW e \in S, NEW q, q = Append(s, e)
    PROVE  /\ q \in Seq(S) /\ Len(q) = Len(s) + 1 /\ Len(s) \in Nat /\ Len(q) \in DOMAIN q
           /\ q[Len(q)] = e /\ q # <<>>
           /\ \A i \in DOMAIN s : i \in DOMAIN q /\ q[i] = s[i] /\ i < Len(q)
           /\ \A i \in DOMAIN q : i \in Nat /\ (i = Len(q) \/ (i \in DOMAIN s /\ q[i] = s[i]))
  OBVIOUS

LEMMA Empty == \A S : <<>> \in Seq(S) /\ DOMAIN <<>> = {} /\ Len(<<>>) = 0
  OBVIOUS

LEMMA Tailed ==
    ASSUME NEW S, NEW s \in Seq(S), s # <<>>, NEW q, q = Tail(s)
    PROVE  /\ q \in Seq(S) /\ Len(s) \in Nat /\ Len(s) >= 1 /\ Len(q) = Len(s) - 1
           /\ Head(s) \in S /\ Head(s) = s[1] /\ 1 \in DOMAIN s
           /\ \A i \in DOMAIN q : i \in Nat /\ i >= 1 /\ i + 1 \in DOMAIN s /\ q[i] = s[i + 1]
           /\ \A i \in DOMAIN s : i \in Nat /\ (i = 1 \/ (i - 1 \in DOMAIN q /\ q[i - 1] = s[i]))
  <1>1. Len(s) \in Nat /\ Len(s) >= 1 /\ Head(s) \in S /\ Head(s) = s[1] /\ 1 \in DOMAIN s
    OBVIOUS
  <1>2. q \in Seq(S) /\ Len(q) = Len(s) - 1
    OBVIOUS
  <1>3. \A i \in DOMAIN q : i \in Nat /\ i >= 1 /\ i + 1 \in DOMAIN s /\ q[i] = s[i + 1]
    OBVIOUS
  <1>4. \A i \in DOMAIN s : i \in Nat /\ (i = 1 \/ (i - 1 \in DOMAIN q /\ q[i - 1] = s[i]))
    OBVIOUS
  <1> QED BY <1>1, <1>2, <1>3, <1>4

-----------------------------------------------------------------------------
LEMMA SeqWider ==
    ASSUME NEW S, NEW T, S \subseteq T, NEW s \in Seq(S) PROVE s \in Seq(T)
  <1>1. Len(s) \in Nat /\ s = [i \in 1..Len(s) |-> s[i]] OBVIOUS
  <1>2. \A i \in 1..Len(s) : s[i] \in T OBVIOUS
  <1> QED BY ONLY <1>1, <1>2

LEMMA ElementOf ==
    ASSUME NEW S, NEW s \in Seq(S) PROVE \A i \in DOMAIN s : s[i] \in S
  OBVIOUS

LEMMA Elements ==
    ASSUME TypeOK
    PROVE  /\ \A i \in DOMAIN queue : /\ i \in Nat /\ queue[i].what \in Kinds
                                     /\ queue[i].serial \in Nat /\ queue[i].place \in Nat
           /\ \A i \in DOMAIN frames : frames[i].serial \in Nat /\ frames[i].serial <= serial
           /\ pkt.what \in Kinds /\ pkt.place \in Nat /\ serial \in Nat /\ place \in Nat
           /\ pkt_serial \in Nat /\ pkt_serial <= serial /\ finished \in Nat
  <1>1. \A i \in DOMAIN queue : i \in Nat /\ queue[i] \in PacketSet BY DEF TypeOK
  <1>2. serial \in Nat /\ place \in Nat BY DEF TypeOK
  <1>3. \A i \in DOMAIN frames : frames[i] \in [serial : 1..serial, place : 0..place]
    <2>1. frames \in Seq([serial : 1..serial, place : 0..place]) BY DEF TypeOK
    <2> QED BY <2>1, ElementOf
  <1>4. \A i \in DOMAIN frames : frames[i].serial \in 1..serial BY <1>3
  <1>5. pkt_serial \in 0..serial /\ finished \in 0..serial /\ pkt \in PacketSet BY DEF TypeOK
  <1>6. \A p \in PacketSet : p.what \in Kinds /\ p.serial \in Nat /\ p.place \in Nat BY DEF PacketSet
  <1> QED BY <1>1, <1>2, <1>4, <1>5, <1>6

-----------------------------------------------------------------------------
(* packet_queue_put.                                                        *)

LEMMA PutAppends ==
    ASSUME TypeOK, NEW what \in Kinds, Put(what), ~aborted
    PROVE  /\ serial' = (IF what \in Marks THEN serial + 1 ELSE serial) /\ serial' \in Nat
           /\ queue' \in Seq(PacketSet) /\ asleep' \in BOOLEAN
           /\ Len(queue') \in DOMAIN queue'
           /\ queue'[Len(queue')].what = what /\ queue'[Len(queue')].serial = serial'
           /\ queue'[Len(queue')].place = (IF what = "data" THEN place ELSE 0)
           /\ \A i \in DOMAIN queue : i \in DOMAIN queue' /\ queue'[i] = queue[i] /\ i < Len(queue')
           /\ \A i \in DOMAIN queue' : i \in Nat /\ (i = Len(queue') \/ (i \in DOMAIN queue /\ queue'[i] = queue[i]))
  <1> DEFINE e == Packet(what, serial', IF what = "data" THEN place ELSE 0)
  <1>1. serial' = (IF what \in Marks THEN serial + 1 ELSE serial) /\ queue' = Append(queue, e) /\ Signal("get")
    BY DEF Put, Marks
  <1>2. serial' \in Nat /\ place \in Nat /\ queue \in Seq(PacketSet) BY <1>1 DEF TypeOK
  <1>3. e \in PacketSet BY <1>2 DEF Packet, PacketSet
  <1>4. asleep' \in BOOLEAN BY <1>1 DEF TypeOK, Signal
  <1>6. e.what = what /\ e.serial = serial' /\ e.place = (IF what = "data" THEN place ELSE 0) BY DEF Packet
  <1> HIDE DEF e
  <1>5. /\ queue' \in Seq(PacketSet) /\ Len(queue') \in DOMAIN queue' /\ queue'[Len(queue')] = e
        /\ \A i \in DOMAIN queue : i \in DOMAIN queue' /\ queue'[i] = queue[i] /\ i < Len(queue')
        /\ \A i \in DOMAIN queue' : i \in Nat /\ (i = Len(queue') \/ (i \in DOMAIN queue /\ queue'[i] = queue[i]))
    BY ONLY <1>1, <1>2, <1>3, Appended
  <1> QED BY <1>1, <1>2, <1>4, <1>5, <1>6

\* A packet put keeps the order of the serials.
LEMMA PutPreserves ==
    ASSUME TInv, Sorted, DataHere, NEW what \in Kinds, Put(what),
           UNCHANGED <<pkt_serial, pkt, dec, aborted, finished>>,
           what = "data" \/ what = "null" => reader # "flushed" /\ reader' # "flushed",
           place' \in Nat, place <= place', place' # place => what = "flush"
    PROVE  Bounded' /\ Sorted' /\ DataHere'
  <1> USE DEF TInv
  <1>0. serial \in Nat /\ place \in Nat /\ pkt_serial \in Nat /\ finished \in Nat /\ pkt_serial <= serial
    BY Elements
  <1>q. \A i \in DOMAIN queue : i \in Nat /\ queue[i].serial \in Nat /\ queue[i].place \in Nat
    BY Elements
  <1>p. pkt.place \in Nat BY Elements
  <1>1. CASE aborted
    <2>1. UNCHANGED <<queue, serial>> BY <1>1 DEF Put
    <2>2. Bounded' BY <1>0, <1>q, <1>p, <2>1 DEF Bounded
    <2>3. Sorted' BY <1>1, <2>1 DEF Sorted
    <2> QED BY <1>1, <2>2, <2>3 DEF DataHere
  <1>2. CASE ~aborted
    <2> DEFINE n == Len(queue')
    <2>1. /\ serial' = (IF what \in Marks THEN serial + 1 ELSE serial)
          /\ n \in DOMAIN queue' /\ queue'[n].what = what /\ queue'[n].serial = serial'
          /\ queue'[n].place = (IF what = "data" THEN place ELSE 0)
          /\ \A i \in DOMAIN queue : i \in DOMAIN queue' /\ queue'[i] = queue[i] /\ i < n
          /\ \A i \in DOMAIN queue' : i \in Nat /\ (i = n \/ (i \in DOMAIN queue /\ queue'[i] = queue[i]))
      BY <1>2, PutAppends
    <2> HIDE DEF n
    <2>2. n \in Nat BY <2>1
    <2>3. serial' \in Nat /\ serial <= serial' /\ (what \in Marks <=> serial' # serial) /\ (what \in Marks => serial < serial')
      BY <1>0, <2>1
    <2>4. Bounded' BY <1>0, <1>q, <1>p, <2>1, <2>3 DEF Bounded
    <2>5. Sorted'
      <3>1. \A i, j \in DOMAIN queue' :
               i < j => /\ queue'[i].serial <= queue'[j].serial
                        /\ queue'[j].what \in Marks => queue'[i].serial < queue'[j].serial
        BY <1>0, <1>q, <2>1, <2>2, <2>3 DEF Sorted, Bounded
      <3>2. \A i \in DOMAIN queue' :
               /\ pkt_serial <= queue'[i].serial
               /\ queue'[i].what \in Marks => pkt_serial < queue'[i].serial
        BY <1>0, <1>q, <2>1, <2>3 DEF Sorted
      <3>3. what \in Marks => \A i \in DOMAIN queue' : queue'[i].serial = serial' => i = n
        BY <1>0, <1>q, <2>1, <2>3 DEF Bounded
      <3>4. what \notin Marks => /\ reader # "flushed" /\ serial' = serial
        BY <2>3 DEF Kinds, Marks
      <3>5. pkt_serial # serial' => \E j \in DOMAIN queue' : queue'[j].serial = serial' /\ queue'[j].what \in Marks
                                                               /\ (j < n \/ what \in Marks)
        BY <1>2, <2>1, <3>4 DEF Sorted
      <3>6. ASSUME pkt_serial # serial', NEW i \in DOMAIN queue', queue'[i].serial = serial', queue'[i].what \notin Marks
            PROVE  \E j \in DOMAIN queue' : j < i /\ queue'[j].serial = serial' /\ queue'[j].what \in Marks
        <4>1. what \notin Marks BY <2>1, <3>3, <3>6
        <4>2. CASE i = n BY <3>5, <3>6, <4>1, <4>2
        <4>3. CASE i # n BY <2>1, <3>4, <3>6, <4>1, <4>3 DEF Sorted
        <4> QED BY <4>2, <4>3
      <3> QED BY <3>1, <3>2, <3>5, <3>6 DEF Sorted
    <2>6. DataHere'
      <3>1. ASSUME NEW i \in DOMAIN queue', queue'[i].what = "data", queue'[i].serial = serial'
            PROVE  queue'[i].place = place'
        <4>1. CASE what \in Marks
          BY <1>0, <1>q, <2>1, <2>3, <3>1, <4>1 DEF Bounded, Marks
        <4>2. CASE what \notin Marks
          BY <1>2, <2>1, <2>3, <3>1, <4>2 DEF DataHere, Marks, Current
        <4> QED BY <4>1, <4>2
      <3>2. dec = "check" /\ pkt.what = "data" /\ pkt_serial = serial' => pkt.place = place'
        BY <1>0, <1>2, <2>1, <2>3 DEF DataHere, Marks
      <3> QED BY <3>1, <3>2 DEF DataHere, Current
    <2> QED BY <2>4, <2>5, <2>6
  <1> QED BY <1>1, <1>2

\* With a flush or surface packet comes a serial that nothing else has.
LEMMA PutMark ==
    ASSUME TInv, NEW what \in Marks, Put(what), ~aborted, UNCHANGED <<pkt_serial, frames>>
    PROVE  /\ pkt_serial' # serial' /\ Queued(what)'
           /\ \A i \in DOMAIN frames' : frames'[i].serial # serial'
  <1>1. serial \in Nat /\ pkt_serial <= serial /\ serial' = serial + 1 /\ pkt_serial \in Nat
    BY PutAppends, Elements DEF TInv, Marks, Kinds
  <1>2. \A i \in DOMAIN frames : frames[i].serial <= serial /\ frames[i].serial \in Nat
    BY Elements DEF TInv
  <1>3. Len(queue') \in DOMAIN queue' /\ queue'[Len(queue')].what = what /\ queue'[Len(queue')].serial = serial'
    BY PutAppends DEF TInv, Marks, Kinds
  <1>4. Queued(what)' BY <1>3 DEF Queued, Current
  <1>5. pkt_serial' # serial' /\ \A i \in DOMAIN frames' : frames'[i].serial # serial' BY <1>1, <1>2
  <1> QED BY <1>4, <1>5

LEMMA PutTyped ==
    ASSUME TypeOK, NEW what \in Kinds, Put(what)
    PROVE  queue' \in Seq(PacketSet) /\ serial' \in Nat /\ serial <= serial' /\ asleep' \in BOOLEAN
  <1>1. serial \in Nat BY DEF TypeOK
  <1>2. CASE aborted BY <1>1, <1>2 DEF Put, TypeOK
  <1>3. CASE ~aborted BY <1>1, <1>3, PutAppends
  <1> QED BY <1>2, <1>3

\* What is on its way stays within bounds that grow.
LEMMA Widened ==
    ASSUME TypeOK, serial' \in Nat, serial <= serial', place' \in Nat, place <= place',
           UNCHANGED <<pkt_serial, finished, codec, frame, frames, rindex_shown>>
    PROVE  /\ pkt_serial' \in 0..serial' /\ finished' \in 0..serial'
           /\ codec' \in Seq(0..place') /\ frame' \in 0..place'
           /\ frames' \in Seq([serial : 1..serial', place : 0..place'])
           /\ Len(frames') <= FrameQueueSize /\ rindex_shown' \in 0..1 /\ (Remaining >= 0)'
  <1>1. serial \in Nat /\ place \in Nat BY DEF TypeOK
  <1>2. 0..place \subseteq 0..place' /\ 0..serial \subseteq 0..serial' /\ 1..serial \subseteq 1..serial' BY <1>1
  <1>3. codec' \in Seq(0..place')
    <2>1. codec \in Seq(0..place) BY DEF TypeOK
    <2> QED BY <1>2, <2>1, SeqWider
  <1>4. frames' \in Seq([serial : 1..serial', place : 0..place'])
    <2>1. frames \in Seq([serial : 1..serial, place : 0..place]) BY DEF TypeOK
    <2>2. [serial : 1..serial, place : 0..place] \subseteq [serial : 1..serial', place : 0..place'] BY <1>2
    <2> QED BY <2>1, <2>2, SeqWider
  <1>5. pkt_serial' \in 0..serial' /\ finished' \in 0..serial' /\ frame' \in 0..place' BY <1>2 DEF TypeOK
  <1>6. Len(frames') <= FrameQueueSize /\ rindex_shown' \in 0..1 /\ (Remaining >= 0)' BY DEF TypeOK, Remaining
  <1> QED BY <1>3, <1>4, <1>5, <1>6

-----------------------------------------------------------------------------
(* packet_queue_get_or_buffering.                                           *)

Waits ==
    /\ UNCHANGED <<queue, serial, aborted, reader, left, place, eof, completed, seek_req, dec, pkt,
                   pkt_serial, finished, codec, draining, frame, frames, rindex_shown, closing,
                   seeks, surfaces, overtaken>>
    /\ asleep' = TRUE /\ dec = "get"

Takes ==
    /\ UNCHANGED <<serial, aborted, reader, left, place, eof, completed, seek_req, asleep, finished,
                   codec, draining, frame, frames, rindex_shown, closing, seeks, surfaces, overtaken>>
    /\ dec = "get" /\ ~aborted /\ queue # <<>> /\ queue' = Tail(queue) /\ pkt_serial' = Head(queue).serial
    /\ \/ finished = pkt_serial' /\ UNCHANGED <<dec, pkt>>
       \/ finished # pkt_serial' /\ dec' = "check" /\ pkt' = Head(queue)

\* What was second in the queue is first.
Shifted ==
    /\ queue' \in Seq(PacketSet) /\ Head(queue) \in PacketSet /\ Head(queue) = queue[1] /\ 1 \in DOMAIN queue
    /\ \A i \in DOMAIN queue' : i \in Nat /\ i >= 1 /\ i + 1 \in DOMAIN queue /\ queue'[i] = queue[i + 1]
    /\ \A i \in DOMAIN queue : i \in Nat /\ (i = 1 \/ (i - 1 \in DOMAIN queue' /\ queue'[i - 1] = queue[i]))

LEMMA Gets ==
    ASSUME TypeOK, Bounded, Sorted, Get
    PROVE  \/ Waits
           \/ /\ Takes /\ Shifted /\ pkt_serial' = queue[1].serial
              /\ pkt_serial <= pkt_serial' /\ pkt_serial' <= serial /\ pkt_serial' \in Nat
  <1>1. CASE queue = <<>>
    BY <1>1 DEF Waits, Get, DecoderAt, queueVars, readVars, codecVars, decVars, frameVars, appVars
  <1>2. CASE queue # <<>>
    <2>1. Takes BY <1>2 DEF Takes, Get, IsFinished, DecoderAt, readVars, codecVars, appVars
    <2>2. Shifted
      <3>1. queue \in Seq(PacketSet) BY DEF TypeOK
      <3>2. queue' = Tail(queue) BY <2>1 DEF Takes
      <3> QED BY ONLY <1>2, <3>1, <3>2, Tailed DEF Shifted
    <2>3. pkt_serial' = queue[1].serial /\ 1 \in DOMAIN queue BY <2>1, <2>2 DEF Takes, Shifted
    <2>4. pkt_serial <= pkt_serial' /\ pkt_serial' <= serial /\ pkt_serial' \in Nat
      BY <2>3, Elements DEF Bounded, Sorted
    <2> QED BY <2>1, <2>2, <2>3, <2>4
  <1> QED BY <1>1, <1>2

-----------------------------------------------------------------------------
\* Whoever puts a packet: a reader that has just flushed puts a flush packet, and the
\* application's surface packet marks what it passes.
LEMMA PuttingPreserves ==
    ASSUME IInv, NEW what \in Kinds, Put(what),
           UNCHANGED <<aborted, dec, pkt, pkt_serial, finished, codec, draining, frame, frames, rindex_shown,
                       closing, seeks>>,
           place' \in Nat, place <= place', place' # place => what = "flush",
           left' \in 0..Packets, surfaces' \in 0..MaxSurfaces, overtaken' \subseteq Kinds,
           reader' \in {"loop", "sought", "reading", reader}, {eof', completed', seek_req'} \subseteq BOOLEAN,
           what # "surface" => reader' # "flushed",
           what \in {"data", "null"} => reader # "flushed" /\ overtaken' = overtaken,
           what = "surface" => reader' = reader /\ overtaken' = overtaken \cup Underway
    PROVE  IInv'
  <1>t. TypeOK BY DEF IInv, TInv
  <1>1. TypeOK'
    <2>1. queue' \in Seq(PacketSet) /\ serial' \in Nat /\ serial <= serial' /\ asleep' \in BOOLEAN
      BY <1>t, PutTyped
    <2>2. /\ pkt_serial' \in 0..serial' /\ finished' \in 0..serial'
          /\ codec' \in Seq(0..place') /\ frame' \in 0..place'
          /\ frames' \in Seq([serial : 1..serial', place : 0..place'])
          /\ Len(frames') <= FrameQueueSize /\ rindex_shown' \in 0..1 /\ (Remaining >= 0)'
      BY <1>t, <2>1, Widened
    <2>3. /\ aborted' \in BOOLEAN /\ pkt' \in PacketSet /\ draining' \in BOOLEAN
          /\ reader' \in {"loop", "flushed", "failed", "skipped", "sought", "check", "completing",
                           "read", "reading", "exited"}
          /\ dec' \in {"receive", "get", "check", "push", "exited"}
          /\ closing' \in {"no", "reader", "decoder", "closed"} /\ seeks' \in 0..MaxSeeks
      BY <1>t DEF TypeOK
    <2> QED BY <2>1, <2>2, <2>3 DEF TypeOK
  <1>2. Bounded' /\ Sorted' /\ DataHere' BY PutPreserves DEF IInv
  <1>3. CASE aborted
    <2>1. DecoderPure' /\ LabelsHonest' BY <1>3 DEF DecoderPure, LabelsHonest
    <2>2. Stopped' BY DEF IInv, Stopped
    <2> QED BY <1>1, <1>2, <2>1, <2>2 DEF IInv, TInv
  <1>4. CASE ~aborted /\ what \in Marks
    <2>1. pkt_serial' # serial' /\ Queued(what)' /\ \A i \in DOMAIN frames' : frames'[i].serial # serial'
      BY <1>4, PutMark DEF IInv
    <2>2. DecoderPure'
      <3>1. CASE what = "flush"
        <4>1. FlushPending' BY <2>1, <3>1 DEF FlushPending, Queued
        <4> QED BY <2>1, <3>1, <4>1 DEF DecoderPure
      <3>2. CASE what = "surface" /\ ~FlushLost'
        <4>1. ~FlushLost /\ "flush" \notin Underway BY <3>2 DEF FlushLost
        <4>2. ~FlushPending BY <4>1 DEF FlushPending, FlushTaken, Queued, Underway
        <4>3. Pure' BY <1>4, <3>2, <4>1, <4>2 DEF IInv, DecoderPure, Pure
        <4>4. reader' # "flushed" BY <3>2, <4>2 DEF FlushPending
        <4> QED BY <2>1, <4>3, <4>4 DEF DecoderPure
      <3>3. CASE FlushLost' BY <3>3 DEF DecoderPure
      <3> QED BY <1>4, <3>1, <3>2, <3>3 DEF Marks
    <2>3. LabelsHonest' BY <2>1 DEF LabelsHonest, Current
    <2>4. Stopped' BY DEF IInv, Stopped
    <2> QED BY <1>1, <1>2, <2>2, <2>3, <2>4 DEF IInv, TInv
  <1>5. CASE ~aborted /\ what \notin Marks
    <2>1. what \in {"data", "null"} BY <1>5 DEF Marks, Kinds
    <2>2. serial' = serial /\ (Queued("flush") => Queued("flush")')
      BY <1>t, <1>5, PutAppends DEF Queued, Current
    <2>3. place' = place BY <2>1
    <2>4. DecoderPure' BY <1>5, <2>1, <2>2, <2>3 DEF IInv, DecoderPure, Pure, FlushPending, FlushTaken, FlushLost
    <2>5. LabelsHonest' BY <1>5, <2>1, <2>2, <2>3 DEF IInv, LabelsHonest, Current, FlushLost
    <2>6. Stopped' BY DEF IInv, Stopped
    <2> QED BY <1>1, <1>2, <2>4, <2>5, <2>6 DEF IInv, TInv
  <1> QED BY <1>3, <1>4, <1>5

-----------------------------------------------------------------------------
LEMMA SeekPutPreserves == ASSUME IInv, SeekPut PROVE IInv'
  <1>1. /\ Put("flush")
        /\ UNCHANGED <<aborted, dec, pkt, pkt_serial, finished, codec, draining, frame, frames, rindex_shown,
                       closing, seeks, left, surfaces, eof, completed, seek_req>>
        /\ place' = place + 1 /\ overtaken' = {} /\ reader' = "sought"
    BY DEF SeekPut, ReaderAt, codecVars, frameVars, appVars
  <1>2. /\ place' \in Nat /\ place <= place' /\ left' \in 0..Packets /\ surfaces' \in 0..MaxSurfaces
    BY <1>1 DEF IInv, TInv, TypeOK
  <1>4. {eof', completed', seek_req'} \subseteq BOOLEAN /\ overtaken \subseteq Kinds
    BY <1>1 DEF IInv, TInv, TypeOK
  <1> QED BY <1>1, <1>2, <1>4, PuttingPreserves DEF Kinds

LEMMA DiscontinuityPreserves == ASSUME IInv, Discontinuity PROVE IInv'
  <1>1. /\ Put("flush")
        /\ UNCHANGED <<aborted, dec, pkt, pkt_serial, finished, codec, draining, frame, frames, rindex_shown,
                       closing, seeks, left, surfaces, place, completed, seek_req>>
        /\ overtaken' = {} /\ reader' = "reading" /\ eof' = FALSE
    BY DEF Discontinuity, ReaderAt, codecVars, frameVars, appVars
  <1>2. /\ place' \in Nat /\ place <= place' /\ left' \in 0..Packets /\ surfaces' \in 0..MaxSurfaces
    BY <1>1 DEF IInv, TInv, TypeOK
  <1>4. {eof', completed', seek_req'} \subseteq BOOLEAN /\ overtaken \subseteq Kinds
    BY <1>1 DEF IInv, TInv, TypeOK
  <1> QED BY <1>1, <1>2, <1>4, PuttingPreserves DEF Kinds

LEMMA ReadPacketPreserves == ASSUME IInv, ReadPacket PROVE IInv'
  <1>1. /\ Put("data")
        /\ UNCHANGED <<aborted, dec, pkt, pkt_serial, finished, codec, draining, frame, frames, rindex_shown,
                       closing, seeks, surfaces, place, completed, seek_req, overtaken>>
        /\ reader # "flushed" /\ reader' = "loop" /\ eof' = FALSE /\ left > 0 /\ left' = left - 1
    BY DEF ReadPacket, ReaderAt, codecVars, frameVars, appVars
  <1>2. /\ place' \in Nat /\ place <= place' /\ left' \in 0..Packets /\ surfaces' \in 0..MaxSurfaces
    BY <1>1, SizeAssumption DEF IInv, TInv, TypeOK
  <1>4. {eof', completed', seek_req'} \subseteq BOOLEAN /\ overtaken \subseteq Kinds
    BY <1>1 DEF IInv, TInv, TypeOK
  <1> QED BY <1>1, <1>2, <1>4, PuttingPreserves DEF Kinds

LEMMA ReadEndPreserves == ASSUME IInv, ReadEnd, ~eof PROVE IInv'
  <1>1. /\ Put("null")
        /\ UNCHANGED <<aborted, dec, pkt, pkt_serial, finished, codec, draining, frame, frames, rindex_shown,
                       closing, seeks, left, surfaces, place, completed, seek_req, overtaken>>
        /\ reader # "flushed" /\ reader' = "loop" /\ eof' = TRUE
    BY DEF ReadEnd, ReaderAt, codecVars, frameVars, appVars
  <1>2. /\ place' \in Nat /\ place <= place' /\ left' \in 0..Packets /\ surfaces' \in 0..MaxSurfaces
    BY <1>1 DEF IInv, TInv, TypeOK
  <1>4. {eof', completed', seek_req'} \subseteq BOOLEAN /\ overtaken \subseteq Kinds
    BY <1>1 DEF IInv, TInv, TypeOK
  <1> QED BY <1>1, <1>2, <1>4, PuttingPreserves DEF Kinds

LEMMA SetSurfacePreserves == ASSUME IInv, SetSurface PROVE IInv'
  <1>1. /\ Put("surface")
        /\ UNCHANGED <<aborted, dec, pkt, pkt_serial, finished, codec, draining, frame, frames, rindex_shown,
                       closing, seeks, reader, left, place, eof, completed, seek_req>>
        /\ overtaken' = overtaken \cup Underway /\ surfaces < MaxSurfaces /\ surfaces' = surfaces + 1
    BY DEF SetSurface, codecVars, frameVars, readVars
  <1>2. /\ place' \in Nat /\ place <= place' /\ left' \in 0..Packets /\ surfaces' \in 0..MaxSurfaces
    BY <1>1, SizeAssumption DEF IInv, TInv, TypeOK
  <1>3. overtaken' \subseteq Kinds
    <2>1. TypeOK BY DEF IInv, TInv
    <2>2. Underway \subseteq Kinds BY <2>1, Elements DEF Underway, Kinds
    <2> QED BY <1>1, <2>1, <2>2 DEF TypeOK
  <1>4. {eof', completed', seek_req'} \subseteq BOOLEAN /\ overtaken \subseteq Kinds
    BY <1>1 DEF IInv, TInv, TypeOK
  <1> QED BY <1>1, <1>2, <1>4, <1>3, PuttingPreserves DEF Kinds

LEMMA SeekBeginPreserves ==
    ASSUME IInv, SeekBegin PROVE IInv'
  <1> USE DEF IInv, TInv, SeekBegin, ReaderAt, Full, Remaining, queueVars, readVars, codecVars, decVars, frameVars, appVars
  <1>1. TypeOK'
    <2>1. queue' \in Seq(PacketSet) BY Empty DEF TypeOK
    <2>2. left' \in 0..Packets BY SizeAssumption DEF TypeOK
    <2> QED BY <2>1, <2>2 DEF TypeOK, Remaining
  <1>2. Bounded'
    <2>1. queue' = queue \/ (queue' = <<>> /\ DOMAIN queue' = {}) BY Empty
    <2> QED BY <2>1 DEF Bounded
  <1>3. Sorted'
    <2>1. queue' = queue \/ (queue' = <<>> /\ DOMAIN queue' = {} /\ reader' = "flushed") BY Empty
    <2>2. reader # "flushed" /\ (reader' = "flushed" => queue' = <<>>) OBVIOUS
    <2> QED BY <2>1, <2>2 DEF Sorted
  <1>4. DataHere' BY DEF DataHere, Current, TypeOK, Bounded
  <1>5. DecoderPure' BY DEF DecoderPure, Pure, FlushPending, FlushTaken, Queued, FlushLost, Current, TypeOK, Bounded
  <1>6. LabelsHonest' BY DEF LabelsHonest, FlushLost, Current, TypeOK, Bounded
  <1>7. Stopped' BY DEF Stopped
  <1> QED BY ONLY <1>1, <1>2, <1>3, <1>4, <1>5, <1>6, <1>7 DEF IInv, TInv

LEMMA ReceiveNothingPreserves ==
    ASSUME IInv, ReceiveNothing PROVE IInv'
  <1> USE DEF IInv, TInv, ReceiveNothing, DecoderAt, readVars, codecVars, decVars, frameVars, appVars
  <1>1. TypeOK' BY DEF TypeOK, Kinds, Remaining
  <1>2. Bounded' BY DEF Bounded, TypeOK
  <1>3. Sorted' BY DEF Sorted, TypeOK, Bounded
  <1>4. DataHere' BY DEF DataHere, Current, TypeOK, Bounded
  <1>5. DecoderPure' BY DEF DecoderPure, Pure, FlushPending, FlushTaken, Queued, FlushLost, Current, TypeOK, Bounded
  <1>6. LabelsHonest' BY DEF LabelsHonest, FlushLost, Current, TypeOK, Bounded
  <1>7. Stopped' BY DEF Stopped
  <1> QED BY ONLY <1>1, <1>2, <1>3, <1>4, <1>5, <1>6, <1>7 DEF IInv, TInv

LEMMA ReceivePreserves ==
    ASSUME IInv, Receive PROVE IInv'
  <1>t. TypeOK BY DEF IInv, TInv
  <1>c. codec \in Seq(0..place) BY <1>t DEF TypeOK
  <1> USE DEF IInv, TInv, Receive, DecoderAt, readVars, codecVars, decVars, frameVars, appVars
  <1>1. TypeOK'
    <2>1. codec' \in Seq(0..place') /\ frame' \in 0..place'
      <3>1. CASE codec # <<>> /\ codec' = Tail(codec)
        <4>1. codec' \in Seq(0..place) /\ Head(codec) \in 0..place BY ONLY <1>c, <3>1, Tailed
        <4> QED BY <1>t, <4>1 DEF TypeOK
      <3>2. CASE UNCHANGED <<codec, frame>> BY <1>t, <3>2 DEF TypeOK
      <3> QED BY <3>1, <3>2
    <2>2. dec' \in {"receive", "get", "check", "push", "exited"} OBVIOUS
    <2> QED BY <1>t, <2>1, <2>2 DEF TypeOK, Remaining
  <1>2. Bounded' BY DEF Bounded, TypeOK
  <1>3. Sorted' BY DEF Sorted, TypeOK, Bounded
  <1>4. DataHere' BY DEF DataHere, Current, TypeOK, Bounded
  <1>5. DecoderPure'
    <2> SUFFICES ASSUME ~FlushLost, ~aborted PROVE Pure' /\ (reader' = "flushed" => queue' = <<>>)
      BY DEF DecoderPure, FlushLost
    <2>1. Pure /\ (reader = "flushed" => queue = <<>>) BY DEF DecoderPure, FlushTaken
    <2>2. CASE codec # <<>> /\ codec' = Tail(codec)
      <3>1. Head(codec) = place /\ \A i \in DOMAIN codec' : codec'[i] = place
        <4>1. \A i \in DOMAIN codec : codec[i] = place BY <2>1 DEF Pure
        <4> QED BY ONLY <1>c, <2>2, <4>1, Tailed
      <3> QED BY <2>1, <2>2, <3>1 DEF Pure
    <2>3. CASE dec' = "get" /\ UNCHANGED codec BY <2>1, <2>3 DEF Pure
    <2> QED BY <2>2, <2>3
  <1>6. LabelsHonest' BY DEF LabelsHonest, FlushLost, Current, TypeOK, Bounded
  <1>7. Stopped' BY DEF Stopped
  <1> QED BY ONLY <1>1, <1>2, <1>3, <1>4, <1>5, <1>6, <1>7 DEF IInv, TInv

LEMMA ReceiveEndPreserves ==
    ASSUME IInv, ReceiveEnd PROVE IInv'
  <1> USE DEF IInv, TInv, ReceiveEnd, DecoderAt, readVars, codecVars, decVars, frameVars, appVars
  <1>1. TypeOK' BY DEF TypeOK, Kinds, Remaining
  <1>2. Bounded' BY DEF Bounded, TypeOK
  <1>3. Sorted' BY DEF Sorted, TypeOK, Bounded
  <1>4. DataHere' BY DEF DataHere, Current, TypeOK, Bounded
  <1>5. DecoderPure' BY DEF DecoderPure, Pure, FlushPending, FlushTaken, Queued, FlushLost, Current, TypeOK, Bounded
  <1>6. LabelsHonest' BY DEF LabelsHonest, FlushLost, Current, TypeOK, Bounded
  <1>7. Stopped' BY DEF Stopped
  <1> QED BY ONLY <1>1, <1>2, <1>3, <1>4, <1>5, <1>6, <1>7 DEF IInv, TInv

LEMMA GetPreserves ==
    ASSUME IInv, Get PROVE IInv'
  <1>t. TypeOK /\ Bounded /\ Sorted BY DEF IInv, TInv
  <1>e. /\ serial \in Nat /\ place \in Nat /\ pkt_serial \in Nat /\ finished \in Nat
        /\ \A i \in DOMAIN queue : i \in Nat /\ queue[i].what \in Kinds /\ queue[i].serial \in Nat /\ queue[i].place \in Nat
    BY <1>t, Elements
  <1>o. CASE Waits
    <2>1. Waits BY <1>o
    <2> USE DEF Waits
    <2>2. TypeOK' BY <1>t, <2>1 DEF TypeOK, Remaining
    <2>3. Bounded' /\ Sorted' /\ DataHere' /\ DecoderPure' /\ LabelsHonest' /\ Stopped'
      BY <2>1 DEF IInv, TInv, Bounded, Sorted, DataHere, DecoderPure, LabelsHonest, Stopped, Pure,
                  FlushPending, FlushTaken, FlushLost, Queued, Current
    <2> QED BY <2>2, <2>3 DEF IInv, TInv
  <1>n. CASE Takes /\ Shifted /\ pkt_serial' = queue[1].serial /\ pkt_serial <= pkt_serial' /\ pkt_serial' <= serial /\ pkt_serial' \in Nat
    <2> USE DEF Takes, Shifted
    <2>h. Takes BY <1>n
    <2>i. Shifted BY <1>n
    <2>s. pkt_serial' = queue[1].serial /\ pkt_serial <= pkt_serial' /\ pkt_serial' <= serial /\ pkt_serial' \in Nat
      BY <1>n
    <2>1. TypeOK'
      <3>1. pkt' \in PacketSet /\ dec' \in {"receive", "get", "check", "push", "exited"} BY <1>t, <2>h, <2>i DEF TypeOK
      <3>2. pkt_serial' \in 0..serial' BY <1>e, <2>h, <2>s
      <3> QED BY <1>t, <2>h, <2>i, <3>1, <3>2 DEF TypeOK, Remaining
    <2>2. Bounded'
      <3>1. pkt'.place <= place' BY <1>t, <2>h, <2>i DEF Bounded
      <3>2. finished' <= pkt_serial' BY <1>t, <1>e, <2>h, <2>s DEF Bounded
      <3>3. dec' # "push" BY <2>h
      <3>4. \A i \in DOMAIN queue' : queue'[i].place <= place' /\ queue'[i].serial <= serial'
        BY <1>t, <2>h, <2>i DEF Bounded
      <3> QED BY <1>t, <2>h, <3>1, <3>2, <3>3, <3>4 DEF Bounded
    <2>3. Sorted'
      <3>1. \A i, j \in DOMAIN queue' :
               i < j => /\ queue'[i].serial <= queue'[j].serial
                        /\ queue'[j].what \in Marks => queue'[i].serial < queue'[j].serial
        <4>1. \A i, j \in DOMAIN queue' : i < j => i + 1 < j + 1 BY <2>i
        <4> QED BY <1>t, <2>i, <4>1 DEF Sorted
      <3>2. \A i \in DOMAIN queue' : /\ pkt_serial' <= queue'[i].serial
                                     /\ queue'[i].what \in Marks => pkt_serial' < queue'[i].serial
        <4>1. \A i \in DOMAIN queue' : 1 < i + 1 BY <2>i
        <4> QED BY <1>t, <2>i, <2>s, <4>1 DEF Sorted
      <3>3. pkt_serial' # serial => pkt_serial # serial /\ queue[1].serial # serial
        BY <1>e, <2>s
      <3>4. pkt_serial' # serial => \A i \in DOMAIN queue' :
              queue'[i].serial = serial /\ queue'[i].what \notin Marks =>
                  \E j \in DOMAIN queue' : j < i /\ queue'[j].serial = serial /\ queue'[j].what \in Marks
        <4> SUFFICES ASSUME pkt_serial' # serial, NEW i \in DOMAIN queue',
                            queue'[i].serial = serial, queue'[i].what \notin Marks
                     PROVE  \E j \in DOMAIN queue' : j < i /\ queue'[j].serial = serial /\ queue'[j].what \in Marks
          OBVIOUS
        <4>1. PICK k \in DOMAIN queue : k < i + 1 /\ queue[k].serial = serial /\ queue[k].what \in Marks
          BY <1>t, <2>i, <3>3 DEF Sorted
        <4>2. k - 1 \in DOMAIN queue' /\ queue'[k - 1] = queue[k] /\ k - 1 < i BY <2>i, <3>3, <4>1
        <4> QED BY <4>1, <4>2
      <3>5. pkt_serial' # serial /\ reader # "flushed" =>
              \E j \in DOMAIN queue' : queue'[j].serial = serial /\ queue'[j].what \in Marks
        <4> SUFFICES ASSUME pkt_serial' # serial, reader # "flushed"
                     PROVE  \E j \in DOMAIN queue' : queue'[j].serial = serial /\ queue'[j].what \in Marks
          OBVIOUS
        <4>1. PICK k \in DOMAIN queue : queue[k].serial = serial /\ queue[k].what \in Marks
          BY <1>t, <2>h, <3>3 DEF Sorted
        <4>2. k - 1 \in DOMAIN queue' /\ queue'[k - 1] = queue[k] BY <2>i, <3>3, <4>1
        <4> QED BY <4>1, <4>2
      <3> QED BY <2>h, <3>1, <3>2, <3>4, <3>5 DEF Sorted
    <2>4. DataHere'
      BY <2>h, <2>i, <2>s DEF IInv, DataHere, Current
    <2>5. DecoderPure'
      <3> SUFFICES ASSUME ~FlushLost
                   PROVE  /\ (pkt_serial' = serial /\ ~FlushTaken') \/ ~FlushPending' => Pure
                          /\ reader # "flushed"
        BY <2>h DEF DecoderPure, FlushLost, Pure
      <3>1. /\ reader # "flushed"
            /\ pkt_serial = serial \/ ~FlushPending => Pure
        BY <2>h, <2>i, Empty DEF IInv, DecoderPure, FlushTaken
      <3>2. queue[1].what = "flush" => dec' = "check" /\ pkt' = queue[1]
        BY <1>t, <1>e, <2>h, <2>i, <2>s DEF Sorted, Bounded, Marks
      <3>3. FlushPending /\ ~FlushPending' => queue[1].what = "flush" /\ queue[1].serial = serial
        BY <2>h, <2>i, <3>1 DEF FlushPending, FlushTaken, Queued, Current
      <3>4. ~FlushPending' => Pure
        BY <2>h, <2>s, <3>1, <3>2, <3>3 DEF FlushPending, FlushTaken
      <3>5. ASSUME pkt_serial' = serial, ~FlushTaken', pkt_serial # serial PROVE Pure
        <4>1. queue[1].what # "flush" BY <2>h, <3>2, <3>5 DEF FlushTaken
        <4>0. \A i \in DOMAIN queue : ~(i < 1) BY <2>i
        <4>2. queue[1].what \in Marks BY <1>t, <2>i, <2>s, <3>5, <4>0 DEF Sorted
        <4>3. ~Queued("flush")
          <5> SUFFICES ASSUME NEW k \in DOMAIN queue, queue[k].what = "flush", queue[k].serial = serial PROVE FALSE
            BY DEF Queued, Current
          <5>1. 1 < k BY <2>i, <4>0, <4>1
          <5>2. queue[1].serial < queue[k].serial BY <1>t, <2>i, <5>1 DEF Sorted, Marks
          <5> QED BY <1>e, <2>i, <2>s, <3>5, <5>2
        <4> QED BY <2>h, <3>1, <4>3 DEF FlushPending, FlushTaken
      <3> QED BY <3>1, <3>4, <3>5
    <2>6. LabelsHonest' /\ Stopped'
      BY <2>h DEF IInv, LabelsHonest, Stopped, FlushLost, Current
    <2> QED BY <2>1, <2>2, <2>3, <2>4, <2>5, <2>6 DEF IInv, TInv
  <1> QED BY <1>t, <1>o, <1>n, Gets

LEMMA CheckPreserves ==
    ASSUME IInv, Check PROVE IInv'
  <1>t. TypeOK /\ Bounded BY DEF IInv, TInv
  <1>c. codec \in Seq(0..place) BY <1>t DEF TypeOK
  <1>e. /\ pkt.place \in 0..place /\ pkt_serial \in 0..serial /\ finished \in 0..serial
        /\ finished <= pkt_serial /\ serial \in Nat /\ place \in Nat
    BY <1>t, Elements DEF Bounded, TypeOK
  <1>n. NoPacket \in PacketSet /\ NoPacket.place = 0 BY DEF NoPacket, Packet, PacketSet, Kinds
  <1>s. \/ serial # pkt_serial /\ dec' = "get" /\ UNCHANGED <<finished, codec, draining>>
        \/ /\ serial = pkt_serial /\ dec' = "receive"
           /\ \/ pkt.what = "flush" /\ finished' = 0 /\ codec' = <<>> /\ draining' = FALSE
              \/ pkt.what \in {"surface", "null"} /\ finished' \in {0, pkt_serial, finished} /\ UNCHANGED codec
                 /\ draining' \in {TRUE, draining}
              \/ pkt.what \notin {"flush", "surface", "null"} /\ codec' = Append(codec, pkt.place)
                 /\ UNCHANGED <<finished, draining>>
    BY DEF Check, Consume, codecVars
  <1> USE DEF IInv, Check, DecoderAt, readVars, codecVars, decVars, frameVars, appVars
  <1>1. TypeOK'
    <2>1. codec' \in Seq(0..place)
      <3>1. UNCHANGED codec \/ codec' = <<>> \/ codec' = Append(codec, pkt.place) BY <1>s
      <3>2. CASE UNCHANGED codec BY ONLY <1>c, <3>2
      <3>3. CASE codec' = <<>> BY ONLY <3>3, Empty
      <3>4. CASE codec' = Append(codec, pkt.place) BY ONLY <1>c, <1>e, <3>4, Appended
      <3> QED BY ONLY <3>1, <3>2, <3>3, <3>4
    <2>2. finished' \in 0..serial
      <3>1. finished' = 0 \/ finished' = pkt_serial \/ finished' = finished BY <1>s
      <3> QED BY ONLY <1>e, <3>1
    <2>3. draining' \in BOOLEAN BY <1>t, <1>s DEF TypeOK
    <2>4. dec' \in {"receive", "get", "check", "push", "exited"} BY <1>s
    <2> QED BY <1>t, <1>n, <2>1, <2>2, <2>3, <2>4 DEF TypeOK, Remaining
  <1>2. Bounded'
    <2>1. finished' <= pkt_serial
      <3>1. finished' = 0 \/ finished' = pkt_serial \/ finished' = finished BY <1>s
      <3> QED BY ONLY <1>e, <3>1
    <2> QED BY <1>t, <1>e, <1>n, <1>s, <2>1 DEF Bounded
  <1>3. Sorted' BY DEF Sorted, TypeOK, Bounded
  <1>4. DataHere' BY DEF DataHere, Current, TypeOK, Bounded
  <1>5. DecoderPure'
    <2> SUFFICES ASSUME ~FlushLost, ~aborted
                 PROVE  /\ (pkt_serial = serial \/ ~FlushPending') => Pure'
                        /\ (reader = "flushed" => queue = <<>>)
      BY DEF DecoderPure, FlushLost
    <2>1. CASE serial # pkt_serial
      <3>1. FlushPending => FlushPending'
        BY <2>1 DEF FlushPending, FlushTaken, Queued, Current
      <3> QED BY <1>s, <2>1, <3>1 DEF IInv, DecoderPure, Pure
    <2>2. CASE serial = pkt_serial
      <3>1. pkt.what # "flush" => \A i \in DOMAIN codec : codec[i] = place
        BY <2>2 DEF IInv, DecoderPure, Pure, FlushTaken
      <3>2. \A i \in DOMAIN codec' : codec'[i] = place
        <4>1. CASE pkt.what = "flush" BY <1>s, <2>2, <4>1, Empty
        <4>2. CASE pkt.what \in {"surface", "null"} BY <1>s, <2>2, <3>1, <4>2
        <4>3. CASE pkt.what \notin {"flush", "surface", "null"}
          <5>1. codec' = Append(codec, pkt.place) /\ pkt.what # "flush" BY <1>s, <2>2, <4>3
          <5>2. pkt.what = "data" BY <1>t, <4>3, Elements DEF Kinds
          <5>3. pkt.place = place BY <2>2, <5>2 DEF IInv, DataHere
          <5> QED BY ONLY <1>c, <1>e, <3>1, <5>1, <5>3, Appended
        <4> QED BY <4>1, <4>2, <4>3
      <3> QED BY <1>s, <2>2, <3>2 DEF IInv, DecoderPure, Pure
    <2> QED BY <2>1, <2>2
  <1>6. LabelsHonest' BY DEF LabelsHonest, FlushLost, Current, TypeOK, Bounded
  <1>7. Stopped' BY DEF Stopped
  <1> QED BY ONLY <1>1, <1>2, <1>3, <1>4, <1>5, <1>6, <1>7 DEF IInv, TInv

LEMMA PushPreserves ==
    ASSUME IInv, Push PROVE IInv'
  <1>t. TypeOK /\ Bounded BY DEF IInv, TInv
  <1>c. /\ frames \in Seq([serial : 1..serial, place : 0..place]) /\ serial \in Nat /\ place \in Nat
        /\ frame \in 0..place /\ pkt_serial \in 0..serial
    BY <1>t DEF TypeOK
  <1> DEFINE f == [serial |-> pkt_serial, place |-> frame]
  <1>f. f \in [serial : 1..serial, place : 0..place] /\ f.serial = pkt_serial /\ f.place = frame
    <2>1. dec = "push" BY DEF Push, DecoderAt
    <2>2. pkt_serial >= 1 BY <1>t, <2>1 DEF Bounded
    <2> QED BY <1>c, <2>2
  <1>d. \/ Len(frames) >= FrameQueueSize /\ asleep' = TRUE /\ UNCHANGED <<dec, frame, frames>>
        \/ /\ ~(Len(frames) >= FrameQueueSize) /\ frames' = Append(frames, f)
           /\ dec' = "receive" /\ frame' = 0 /\ UNCHANGED asleep
    BY DEF Push, NoFrame
  <1> HIDE DEF f
  <1> USE DEF IInv, TInv, Push, DecoderAt, readVars, codecVars, decVars, frameVars, appVars
  <1>1. TypeOK'
    <2>1. CASE UNCHANGED <<dec, frame, frames>> /\ asleep' = TRUE BY <1>t, <2>1 DEF TypeOK, Remaining
    <2>2. CASE /\ ~(Len(frames) >= FrameQueueSize) /\ frames' = Append(frames, f)
               /\ dec' = "receive" /\ frame' = 0 /\ UNCHANGED asleep
      <3>1. /\ frames' \in Seq([serial : 1..serial, place : 0..place]) /\ Len(frames') = Len(frames) + 1
            /\ Len(frames) \in Nat
        BY ONLY <1>c, <1>f, <2>2, Appended
      <3>2. Len(frames') <= FrameQueueSize BY <2>2, <3>1, SizeAssumption
      <3>3. Remaining' >= 0 BY <1>t, <3>1 DEF TypeOK, Remaining
      <3>4. frame' \in 0..place BY <1>c, <2>2
      <3> QED BY <1>t, <2>2, <3>1, <3>2, <3>3, <3>4 DEF TypeOK
    <2> QED BY <1>d, <2>1, <2>2
  <1>2. Bounded' BY DEF Bounded, TypeOK
  <1>3. Sorted' BY DEF Sorted, TypeOK, Bounded
  <1>4. DataHere' BY DEF DataHere, Current, TypeOK, Bounded
  <1>5. DecoderPure' BY DEF DecoderPure, Pure, FlushPending, FlushTaken, Queued, FlushLost, Current, TypeOK, Bounded
  <1>6. LabelsHonest'
    <2> SUFFICES ASSUME ~FlushLost, ~aborted PROVE \A i \in DOMAIN frames' : frames'[i].serial = serial => frames'[i].place = place
      BY DEF LabelsHonest, FlushLost, Current
    <2>1. \A i \in DOMAIN frames : frames[i].serial = serial => frames[i].place = place
      BY DEF IInv, LabelsHonest, Current
    <2>2. pkt_serial = serial => frame = place BY DEF IInv, DecoderPure, Pure, FlushTaken
    <2>3. CASE UNCHANGED frames BY <2>1, <2>3
    <2>4. CASE frames' = Append(frames, f) BY ONLY <1>c, <1>f, <2>1, <2>2, <2>4, Appended
    <2> QED BY <1>d, <2>3, <2>4
  <1>7. Stopped' BY DEF Stopped
  <1> QED BY ONLY <1>1, <1>2, <1>3, <1>4, <1>5, <1>6, <1>7 DEF IInv, TInv

LEMMA DecoderExitsPreserves ==
    ASSUME IInv, DecoderExits PROVE IInv'
  <1> USE DEF IInv, TInv, DecoderExits, DecoderAt, readVars, codecVars, decVars, frameVars, appVars
  <1>1. TypeOK' BY DEF TypeOK, Kinds, Remaining
  <1>2. Bounded' BY DEF Bounded, TypeOK
  <1>3. Sorted' BY DEF Sorted, TypeOK, Bounded
  <1>4. DataHere' BY DEF DataHere, Current, TypeOK, Bounded
  <1>5. DecoderPure' BY DEF DecoderPure, Pure, FlushPending, FlushTaken, Queued, FlushLost, Current, TypeOK, Bounded
  <1>6. LabelsHonest' BY DEF LabelsHonest, FlushLost, Current, TypeOK, Bounded
  <1>7. Stopped' BY DEF Stopped
  <1> QED BY ONLY <1>1, <1>2, <1>3, <1>4, <1>5, <1>6, <1>7 DEF IInv, TInv

LEMMA RefreshPreserves ==
    ASSUME IInv, Refresh PROVE IInv'
  <1>t. TypeOK BY DEF IInv, TInv
  <1>c. frames \in Seq([serial : 1..serial, place : 0..place]) BY <1>t DEF TypeOK
  <1>d. \/ rindex_shown = 0 /\ rindex_shown' = 1 /\ UNCHANGED <<frames, asleep>>
        \/ frames' = Tail(frames) /\ rindex_shown = 1 /\ UNCHANGED rindex_shown /\ asleep' \in BOOLEAN
    BY <1>t DEF Refresh, FrameNext, Signal, TypeOK
  <1>r. Len(frames) \in Nat /\ Len(frames) > rindex_shown /\ frames # <<>>
    BY <1>t, <1>c, Empty DEF Refresh, Remaining, TypeOK
  <1> USE DEF IInv, TInv, Refresh, queueVars, readVars, codecVars, decVars, frameVars, appVars
  <1>1. TypeOK'
    <2>1. CASE rindex_shown = 0 /\ rindex_shown' = 1 /\ UNCHANGED <<frames, asleep>>
      BY <1>t, <1>r, <2>1 DEF TypeOK, Remaining
    <2>2. CASE frames' = Tail(frames) /\ rindex_shown = 1 /\ UNCHANGED rindex_shown /\ asleep' \in BOOLEAN
      <3>1. frames' \in Seq([serial : 1..serial, place : 0..place]) /\ Len(frames') = Len(frames) - 1
        BY ONLY <1>c, <1>r, <2>2, Tailed
      <3>2. Remaining' >= 0 /\ Len(frames') <= FrameQueueSize
        BY <1>t, <1>r, <2>2, <3>1, SizeAssumption DEF TypeOK, Remaining
      <3> QED BY <1>t, <2>2, <3>1, <3>2 DEF TypeOK
    <2> QED BY <1>d, <2>1, <2>2
  <1>2. Bounded' BY DEF Bounded, TypeOK
  <1>3. Sorted' BY DEF Sorted, TypeOK, Bounded
  <1>4. DataHere' BY DEF DataHere, Current, TypeOK, Bounded
  <1>5. DecoderPure' BY DEF DecoderPure, Pure, FlushPending, FlushTaken, Queued, FlushLost, Current, TypeOK, Bounded
  <1>6. LabelsHonest'
    <2>1. (~FlushLost /\ ~aborted) => \A i \in DOMAIN frames : frames[i].serial = serial => frames[i].place = place
      BY DEF IInv, LabelsHonest, Current
    <2>2. CASE UNCHANGED frames BY <2>1, <2>2 DEF LabelsHonest, FlushLost, Current
    <2>3. CASE frames' = Tail(frames)
      <3>1. \A i \in DOMAIN frames' : i + 1 \in DOMAIN frames /\ frames'[i] = frames[i + 1]
        BY ONLY <1>c, <1>r, <2>3, Tailed
      <3> QED BY <2>1, <3>1 DEF LabelsHonest, FlushLost, Current
    <2> QED BY <1>d, <2>2, <2>3
  <1>7. Stopped' BY DEF Stopped
  <1> QED BY ONLY <1>1, <1>2, <1>3, <1>4, <1>5, <1>6, <1>7 DEF IInv, TInv

LEMMA CloseBeginPreserves ==
    ASSUME IInv, CloseBegin PROVE IInv'
  <1> USE DEF IInv, TInv, CloseBegin, Signal, readVars, codecVars, decVars, frameVars, appVars
  <1>1. TypeOK' BY DEF TypeOK, Kinds, Remaining
  <1>2. Bounded' BY DEF Bounded, TypeOK
  <1>3. Sorted' BY DEF Sorted, TypeOK, Bounded
  <1>4. DataHere' BY DEF DataHere, Current, TypeOK, Bounded
  <1>5. DecoderPure' BY DEF DecoderPure, Pure, FlushPending, FlushTaken, Queued, FlushLost, Current, TypeOK, Bounded
  <1>6. LabelsHonest' BY DEF LabelsHonest, FlushLost, Current, TypeOK, Bounded
  <1>7. Stopped' BY DEF Stopped
  <1> QED BY ONLY <1>1, <1>2, <1>3, <1>4, <1>5, <1>6, <1>7 DEF IInv, TInv

LEMMA CloseDecoderPreserves ==
    ASSUME IInv, CloseDecoder PROVE IInv'
  <1> USE DEF IInv, TInv, CloseDecoder, DecoderAbort, readVars, codecVars, decVars, frameVars, appVars
  <1>1. TypeOK' BY DEF TypeOK, Kinds, Remaining
  <1>2. Bounded' BY DEF Bounded, TypeOK
  <1>3. Sorted' BY DEF Sorted, TypeOK, Bounded
  <1>4. DataHere' BY DEF DataHere, Current, TypeOK, Bounded
  <1>5. DecoderPure' BY DEF DecoderPure, Pure, FlushPending, FlushTaken, Queued, FlushLost, Current, TypeOK, Bounded
  <1>6. LabelsHonest' BY DEF LabelsHonest, FlushLost, Current, TypeOK, Bounded
  <1>7. Stopped' BY DEF Stopped
  <1> QED BY ONLY <1>1, <1>2, <1>3, <1>4, <1>5, <1>6, <1>7 DEF IInv, TInv

LEMMA CloseEndPreserves ==
    ASSUME IInv, CloseEnd PROVE IInv'
  <1>a. aborted /\ aborted' /\ queue' = <<>> /\ DOMAIN queue' = {}
    BY Empty DEF CloseEnd, IInv, Stopped
  <1> USE DEF IInv, TInv, CloseEnd, readVars, codecVars, decVars, frameVars, appVars
  <1>1. TypeOK' BY DEF TypeOK, Kinds, Remaining
  <1>2. Bounded' BY DEF Bounded, TypeOK
  <1>3. Sorted' BY <1>a DEF Sorted
  <1>4. DataHere' BY DEF DataHere, Current, TypeOK, Bounded
  <1>5. DecoderPure' BY <1>a DEF DecoderPure
  <1>6. LabelsHonest' BY DEF LabelsHonest, FlushLost, Current, TypeOK, Bounded
  <1>7. Stopped' BY DEF Stopped
  <1> QED BY ONLY <1>1, <1>2, <1>3, <1>4, <1>5, <1>6, <1>7 DEF IInv, TInv

-----------------------------------------------------------------------------
\* The steps that move a thread or a request and touch no queue.
LEMMA QuietPreserves ==
    ASSUME IInv,
           UNCHANGED <<queue, serial, aborted, left, place, dec, asleep, pkt, pkt_serial, finished,
                       codec, draining, frame, frames, rindex_shown, closing, surfaces, overtaken>>,
           reader # "flushed", reader' # "flushed",
           reader' \in {"loop", "check", "completing", "read", "exited", reader},
           {eof', completed', seek_req'} \subseteq BOOLEAN, seeks' \in 0..MaxSeeks
    PROVE  IInv'
  <1> USE DEF IInv, TInv
  <1>1. TypeOK' BY DEF TypeOK, Remaining
  <1>2. Bounded' /\ Sorted' /\ Stopped' BY DEF Bounded, Sorted, Stopped
  <1>3. DataHere' /\ LabelsHonest' BY DEF DataHere, LabelsHonest, FlushLost, Current
  <1>4. DecoderPure' BY DEF DecoderPure, Pure, FlushPending, FlushTaken, FlushLost, Queued, Current
  <1> QED BY <1>1, <1>2, <1>3, <1>4

LEMMA SeekToPreserves == ASSUME IInv, SeekTo PROVE IInv'
  <1> USE DEF IInv, TInv, SeekTo, queueVars, codecVars, decVars, frameVars, appVars
  <1>1. TypeOK'
    <2>1. seeks' \in 0..MaxSeeks BY SizeAssumption DEF TypeOK
    <2> QED BY <2>1 DEF TypeOK, Remaining
  <1>2. Bounded' /\ Sorted' /\ Stopped' BY DEF Bounded, Sorted, Stopped
  <1>3. DataHere' /\ LabelsHonest' BY DEF DataHere, LabelsHonest, FlushLost, Current
  <1>4. DecoderPure' BY DEF DecoderPure, Pure, FlushPending, FlushTaken, FlushLost, Queued, Current
  <1> QED BY <1>1, <1>2, <1>3, <1>4

LEMMA ReaderPreserves ==
    ASSUME IInv, \/ ReaderExits \/ NoSeek \/ SeekEnd \/ ReaderWaits \/ CompleteBegin \/ CompleteEnd
                 \/ GoesOnReading \/ (ReadEnd /\ eof)
    PROVE  IInv'
  <1>1. {eof, completed, seek_req} \subseteq BOOLEAN /\ seeks \in 0..MaxSeeks BY DEF IInv, TInv, TypeOK
  <1>2. /\ UNCHANGED <<queue, serial, aborted, left, place, dec, asleep, pkt, pkt_serial, finished,
                       codec, draining, frame, frames, rindex_shown, closing, surfaces, overtaken, seeks>>
        /\ reader # "flushed" /\ reader' \in {"loop", "check", "completing", "read", "exited"}
        /\ {eof', completed', seek_req'} \subseteq BOOLEAN
    BY <1>1 DEF ReaderExits, NoSeek, SeekEnd, ReaderWaits, CompleteBegin, CompleteEnd, GoesOnReading, ReadEnd,
                ReaderAt, ReaderGoes, codecVars, frameVars, appVars
  <1> QED BY <1>1, <1>2, QuietPreserves

LEMMA InitIInv == Init => IInv
  <1> SUFFICES ASSUME Init PROVE IInv
    OBVIOUS
  <1>1. /\ queue \in Seq(PacketSet) /\ DOMAIN queue = {1}
        /\ queue[1].what = "flush" /\ queue[1].serial = 1 /\ queue[1].place = 0
    BY DEF Init, Packet, PacketSet, Kinds
  <1>2. pkt \in PacketSet /\ pkt.what = "null" /\ pkt.place = 0
    BY DEF Init, NoPacket, Packet, PacketSet, Kinds
  <1>3. codec \in Seq(0..place) /\ frames \in Seq([serial : 1..serial, place : 0..place])
        /\ DOMAIN frames = {} /\ Len(frames) = 0 /\ DOMAIN codec = {}
    BY Empty DEF Init
  <1>4. TypeOK
    <2>1. frame \in 0..place /\ pkt_serial \in 0..serial /\ finished \in 0..serial /\ rindex_shown \in 0..1
          /\ left \in 0..Packets /\ seeks \in 0..MaxSeeks /\ surfaces \in 0..MaxSurfaces
      BY SizeAssumption DEF Init, NoFrame
    <2>2. Len(frames) <= FrameQueueSize /\ Remaining >= 0
      BY <1>3, SizeAssumption DEF Init, Remaining
    <2>3. {eof, completed, seek_req, asleep, draining} \subseteq BOOLEAN /\ overtaken \subseteq Kinds
          /\ aborted \in BOOLEAN /\ serial \in Nat /\ place \in Nat
      BY DEF Init
    <2> QED BY <1>1, <1>2, <1>3, <2>1, <2>2, <2>3 DEF Init, TypeOK
  <1>5. Bounded BY <1>1, <1>2 DEF Init, Bounded
  <1>6. Sorted BY <1>1 DEF Init, Sorted, Marks
  <1>7. DataHere /\ LabelsHonest /\ Stopped BY <1>1, <1>3 DEF Init, DataHere, LabelsHonest, Stopped
  <1>8. DecoderPure BY <1>3 DEF Init, DecoderPure, Pure
  <1> QED BY <1>4, <1>5, <1>6, <1>7, <1>8 DEF IInv, TInv

LEMMA NextIInv == IInv /\ [Next]_vars => IInv'
  <1> SUFFICES ASSUME IInv, [Next]_vars PROVE IInv'
    OBVIOUS
  <1>1. CASE ReaderNext
    <2>1. ReadEnd => eof \/ ~eof OBVIOUS
    <2> QED BY <1>1, <2>1, ReaderPreserves, SeekBeginPreserves, SeekPutPreserves, DiscontinuityPreserves,
               ReadPacketPreserves, ReadEndPreserves
            DEF ReaderNext
  <1>2. CASE DecoderNext
    BY <1>2, ReceiveNothingPreserves, ReceivePreserves, ReceiveEndPreserves, GetPreserves, CheckPreserves,
       PushPreserves, DecoderExitsPreserves
    DEF DecoderNext
  <1>3. CASE Refresh BY <1>3, RefreshPreserves
  <1>4. CASE AppNext BY <1>4, SeekToPreserves, SetSurfacePreserves DEF AppNext
  <1>5. CASE CloseNext BY <1>5, CloseBeginPreserves, CloseDecoderPreserves, CloseEndPreserves DEF CloseNext
  <1>6. CASE UNCHANGED vars
    <2> USE <1>6 DEF vars, queueVars, readVars, codecVars, decVars, frameVars, appVars, IInv, TInv
    <2>1. TypeOK' BY DEF TypeOK, Remaining
    <2>2. Bounded' /\ Sorted' /\ Stopped' BY DEF Bounded, Sorted, Stopped
    <2>3. DataHere' /\ LabelsHonest' BY DEF DataHere, LabelsHonest, FlushLost, Current
    <2>4. DecoderPure' BY DEF DecoderPure, Pure, FlushPending, FlushTaken, FlushLost, Queued, Current
    <2> QED BY <2>1, <2>2, <2>3, <2>4
  <1> QED BY <1>1, <1>2, <1>3, <1>4, <1>5, <1>6 DEF Next

LEMMA AlwaysIInv == Spec => []IInv
  BY InitIInv, NextIInv, PTL DEF Spec

-----------------------------------------------------------------------------
(* What lies between the reader's last packet and completion.              *)

\* A null packet of the queue's serial comes behind all the data of that serial.
Nulls ==
    ~aborted =>
        /\ \A i \in DOMAIN queue : queue[i].what = "null" /\ Current(queue[i]) =>
               /\ left = 0 \/ reader = "flushed"
               /\ \A j \in DOMAIN queue : i < j /\ Current(queue[j]) => queue[j].what # "data"
        /\ dec = "check" /\ pkt.what = "null" /\ pkt_serial = serial =>
               (left = 0 \/ reader = "flushed") /\ ~Queued("data")

\* A packet in hand is no packet of the serial that the decoder has finished.
InHand == dec = "check" => pkt.serial = pkt_serial /\ finished # pkt_serial

AllRead == left = 0 /\ ~Queued("data") /\ ~(dec = "check" /\ pkt.what = "data" /\ pkt_serial = serial)

\* A decoder that drains its codec, or has finished, has been given everything, unless
\* it has a flush packet before it.
Ended ==
    ~FlushLost /\ ~aborted /\ ~FlushPending =>
        /\ draining \/ finished # 0 => AllRead
        /\ finished # 0 => codec = <<>> /\ dec # "push"

\* Nothing is decoded or shown while read_thread waits for the audio output.
Completing ==
    reader = "completing" /\ ~FlushLost /\ ~aborted => finished # 0 /\ ~FlushPending /\ Remaining = 0

EInv == Nulls /\ InHand /\ Ended /\ Completing

-----------------------------------------------------------------------------

\* A decoder that has finished the queue's serial has no flush packet before it.
LEMMA NothingPending ==
    ASSUME IInv, InHand, finished = serial, reader # "flushed"
    PROVE  ~FlushPending /\ pkt_serial = serial
  <1>1. pkt_serial = serial BY Elements DEF IInv, TInv, Bounded
  <1>2. ~Queued("flush")
    <2> SUFFICES ASSUME NEW i \in DOMAIN queue, queue[i].what = "flush", queue[i].serial = serial PROVE FALSE
      BY DEF Queued, Current
    <2>1. pkt_serial < queue[i].serial BY DEF IInv, Sorted, Marks
    <2> QED BY <1>1, <2>1, Elements DEF IInv, TInv
  <1> QED BY <1>1, <1>2 DEF FlushPending, FlushTaken, InHand

\* What a flush or surface packet does: nothing but it has the queue's serial.
LEMMA MarkAlone ==
    ASSUME IInv, NEW what \in Marks, Put(what), ~aborted, UNCHANGED pkt_serial
    PROVE  /\ pkt_serial' # serial'
           /\ \A i \in DOMAIN queue' : Current(queue[i])' => queue'[i].what = what
           /\ Queued(what)'
  <1>t. TypeOK /\ what \in Kinds /\ Bounded BY DEF IInv, TInv, Marks, Kinds
  <1>1. serial \in Nat /\ pkt_serial \in Nat /\ pkt_serial <= serial
        /\ \A i \in DOMAIN queue : queue[i].serial \in Nat /\ queue[i].serial <= serial
    BY <1>t, Elements DEF Bounded
  <1>2. serial' = serial + 1 /\ Len(queue') \in DOMAIN queue' /\ queue'[Len(queue')].what = what
        /\ queue'[Len(queue')].serial = serial'
        /\ \A i \in DOMAIN queue' : i = Len(queue') \/ (i \in DOMAIN queue /\ queue'[i] = queue[i])
    BY <1>t, PutAppends
  <1>3. \A i \in DOMAIN queue' : queue'[i].serial = serial' => i = Len(queue')
    BY <1>1, <1>2
  <1> QED BY <1>1, <1>2, <1>3 DEF Queued, Current

LEMMA PlainAdded ==
    ASSUME IInv, NEW what \in {"data", "null"}, Put(what), ~aborted
    PROVE  /\ serial' = serial
           /\ \A i \in DOMAIN queue : i \in DOMAIN queue' /\ queue'[i] = queue[i]
           /\ \A i \in DOMAIN queue' : \/ i \in DOMAIN queue /\ queue'[i] = queue[i]
                                       \/ queue'[i].what = what /\ \A j \in DOMAIN queue' : ~(i < j)
  <1> DEFINE n == Len(queue')
  <1>1. TypeOK /\ what \in Kinds /\ what \notin Marks BY DEF IInv, TInv, Marks, Kinds
  <1>2. /\ serial' = serial /\ queue'[n].what = what
        /\ \A i \in DOMAIN queue : i \in DOMAIN queue' /\ queue'[i] = queue[i] /\ i < n
        /\ \A i \in DOMAIN queue' : i \in Nat /\ (i = n \/ (i \in DOMAIN queue /\ queue'[i] = queue[i]))
    BY <1>1, PutAppends
  <1>3. n \in Nat /\ n \in DOMAIN queue' BY <1>1, <1>2, PutAppends
  <1> HIDE DEF n
  <1>4. \A j \in DOMAIN queue' : ~(n < j) BY <1>2, <1>3
  <1>5. \A i \in DOMAIN queue' :
            \/ i \in DOMAIN queue /\ queue'[i] = queue[i]
            \/ queue'[i].what = what /\ \A j \in DOMAIN queue' : ~(i < j)
    <2> SUFFICES ASSUME NEW i \in DOMAIN queue'
                 PROVE  \/ i \in DOMAIN queue /\ queue'[i] = queue[i]
                        \/ queue'[i].what = what /\ \A j \in DOMAIN queue' : ~(i < j)
      OBVIOUS
    <2>1. CASE i = n BY <1>2, <1>4, <2>1
    <2>2. CASE i # n BY <1>2, <2>2
    <2> QED BY <2>1, <2>2
  <1> QED BY <1>2, <1>5

\* A packet taken out is still on its way.
LEMMA TakenIsOnItsWay ==
    ASSUME IInv, InHand, Takes, Shifted, pkt_serial' = queue[1].serial
    PROVE  /\ FlushPending' <=> FlushPending
           /\ Queued("data")' \/ (dec' = "check" /\ pkt'.what = "data" /\ pkt_serial' = serial') => Queued("data")
  <1>1. dec = "get" /\ UNCHANGED <<serial, reader>> BY DEF Takes
  <1>2. dec' = "check" => pkt' = queue[1] BY DEF Takes, Shifted
  <1>3. queue[1].what = "flush" => dec' = "check"
    <2>1. queue[1].what \in Marks => pkt_serial < queue[1].serial BY DEF IInv, Sorted, Shifted
    <2>2. finished <= pkt_serial /\ finished \in Nat /\ pkt_serial \in Nat /\ queue[1].serial \in Nat
      BY Elements DEF IInv, TInv, Bounded, Shifted
    <2> QED BY <2>1, <2>2 DEF Takes, Marks
  <1>4. \A w : Queued(w)' => Queued(w) BY <1>1 DEF Queued, Current, Shifted
  <1>5. \A w : dec' = "check" /\ pkt'.what = w /\ pkt_serial' = serial' => Queued(w)
    BY <1>1, <1>2 DEF Queued, Current, Shifted
  <1>6. Queued("flush") => Queued("flush")' \/ FlushTaken'
    <2> SUFFICES ASSUME NEW k \in DOMAIN queue, queue[k].what = "flush", queue[k].serial = serial
                 PROVE  Queued("flush")' \/ FlushTaken'
      BY DEF Queued, Current
    <2>1. CASE k = 1 BY <1>1, <1>2, <1>3, <2>1 DEF FlushTaken
    <2>2. CASE k - 1 \in DOMAIN queue' /\ queue'[k - 1] = queue[k] BY <1>1, <2>2 DEF Queued, Current
    <2> QED BY <2>1, <2>2 DEF Shifted
  <1> QED BY <1>1, <1>4, <1>5, <1>6 DEF FlushPending, FlushTaken

LEMMA SeekBeginEnds ==
    ASSUME IInv, EInv, SeekBegin PROVE EInv'
  <1> USE DEF EInv, SeekBegin, ReaderAt, Remaining, queueVars, readVars, codecVars, decVars, frameVars, appVars
  <1>1. Nulls' BY DEF Nulls, Queued, Current
  <1>2. InHand' BY DEF InHand
  <1>3. Ended' BY DEF Ended, FlushPending, FlushTaken, FlushLost, Queued, Current, AllRead
  <1>4. Completing' BY DEF Completing, Remaining, FlushPending, FlushTaken, FlushLost, Queued, Current, AllRead
  <1> QED BY ONLY <1>1, <1>2, <1>3, <1>4 DEF EInv

LEMMA SeekPutEnds ==
    ASSUME IInv, EInv, SeekPut PROVE EInv'
  <1>k. /\ Put("flush") /\ UNCHANGED <<pkt_serial, pkt, dec, finished, aborted, draining, codec, frames, rindex_shown>>
        /\ left' = left /\ reader' # "completing"
    BY DEF SeekPut, ReaderAt, codecVars, frameVars, readVars
  <1>m. ~aborted => /\ pkt_serial' # serial'
                    /\ \A i \in DOMAIN queue' : Current(queue[i])' => queue'[i].what = "flush"
                    /\ Queued("flush")'
    BY <1>k, MarkAlone DEF Marks
  <1> USE DEF EInv, readVars, codecVars, decVars, frameVars, appVars
  <1>1. Nulls' BY <1>k, <1>m DEF Nulls
  <1>2. InHand' BY <1>k DEF InHand
  <1>3. Ended' BY <1>k, <1>m DEF Ended, FlushPending
  <1>4. Completing' BY <1>k DEF Completing
  <1> QED BY ONLY <1>1, <1>2, <1>3, <1>4 DEF EInv

LEMMA DiscontinuityEnds ==
    ASSUME IInv, EInv, Discontinuity PROVE EInv'
  <1>k. /\ Put("flush") /\ UNCHANGED <<pkt_serial, pkt, dec, finished, aborted, draining, codec, frames, rindex_shown>>
        /\ left' = left /\ reader' # "completing"
    BY DEF Discontinuity, ReaderAt, codecVars, frameVars, readVars
  <1>m. ~aborted => /\ pkt_serial' # serial'
                    /\ \A i \in DOMAIN queue' : Current(queue[i])' => queue'[i].what = "flush"
                    /\ Queued("flush")'
    BY <1>k, MarkAlone DEF Marks
  <1> USE DEF EInv, readVars, codecVars, decVars, frameVars, appVars
  <1>1. Nulls' BY <1>k, <1>m DEF Nulls
  <1>2. InHand' BY <1>k DEF InHand
  <1>3. Ended' BY <1>k, <1>m DEF Ended, FlushPending
  <1>4. Completing' BY <1>k DEF Completing
  <1> QED BY ONLY <1>1, <1>2, <1>3, <1>4 DEF EInv

LEMMA ReadPacketEnds ==
    ASSUME IInv, EInv, ReadPacket PROVE EInv'
  <1>k. /\ Put("data") /\ reader # "flushed" /\ reader' = "loop" /\ overtaken' = overtaken
        /\ left > 0
        /\ UNCHANGED <<pkt_serial, pkt, dec, finished, aborted, draining, codec, frames, rindex_shown>>
    BY DEF ReadPacket, ReaderAt, codecVars, frameVars
  <1>m. ~aborted =>
          /\ serial' = serial
          /\ \A i \in DOMAIN queue : i \in DOMAIN queue' /\ queue'[i] = queue[i]
          /\ \A i \in DOMAIN queue' : \/ i \in DOMAIN queue /\ queue'[i] = queue[i]
                                      \/ queue'[i].what = "data" /\ \A j \in DOMAIN queue' : ~(i < j)
    BY <1>k, PlainAdded
  <1>l. left # 0 BY <1>k DEF IInv, TInv, TypeOK
  <1> USE DEF EInv, readVars, codecVars, decVars, frameVars, appVars
  <1>1. Nulls'
    <2> SUFFICES ASSUME ~aborted
                 PROVE  /\ \A i \in DOMAIN queue' : ~(queue'[i].what = "null" /\ queue'[i].serial = serial')
                        /\ ~(dec = "check" /\ pkt.what = "null" /\ pkt_serial = serial')
      BY <1>k DEF Nulls, Current
    <2>1. \A i \in DOMAIN queue : ~(queue[i].what = "null" /\ queue[i].serial = serial)
      BY <1>k, <1>l DEF Nulls, Current
    <2>2. ~(dec = "check" /\ pkt.what = "null" /\ pkt_serial = serial) BY <1>k, <1>l DEF Nulls
    <2>3. ASSUME NEW i \in DOMAIN queue', queue'[i].what = "null", queue'[i].serial = serial' PROVE FALSE
      <3>1. i \in DOMAIN queue /\ queue'[i] = queue[i] BY <1>m, <2>3
      <3> QED BY <1>m, <2>1, <2>3, <3>1
    <2> QED BY <2>2, <2>3, <1>m
  <1>2. InHand' BY <1>k DEF InHand
  <1>3. Ended'
    <2> SUFFICES ASSUME ~FlushLost, ~aborted, ~FlushPending'
                 PROVE  /\ draining \/ finished # 0 => AllRead'
                        /\ finished # 0 => codec = <<>> /\ dec # "push"
      BY <1>k DEF Ended, FlushLost
    <2>1. ~FlushPending BY <1>k, <1>m DEF FlushPending, FlushTaken, Queued, Current
    <2>2. /\ draining \/ finished # 0 => AllRead
          /\ finished # 0 => codec = <<>> /\ dec # "push"
      BY <2>1 DEF Ended
    <2>3. AllRead => AllRead' BY <1>k, <1>l DEF AllRead
    <2> QED BY <2>2, <2>3
  <1>4. Completing' BY <1>k DEF Completing
  <1> QED BY ONLY <1>1, <1>2, <1>3, <1>4 DEF EInv

LEMMA ReadEndEnds ==
    ASSUME IInv, EInv, ReadEnd, ~eof PROVE EInv'
  <1>k. /\ Put("null") /\ reader # "flushed" /\ reader' = "loop" /\ overtaken' = overtaken
        /\ left = 0 /\ left' = 0
        /\ UNCHANGED <<pkt_serial, pkt, dec, finished, aborted, draining, codec, frames, rindex_shown>>
    BY DEF ReadEnd, ReaderAt, codecVars, frameVars
  <1>m. ~aborted =>
          /\ serial' = serial
          /\ \A i \in DOMAIN queue : i \in DOMAIN queue' /\ queue'[i] = queue[i]
          /\ \A i \in DOMAIN queue' : \/ i \in DOMAIN queue /\ queue'[i] = queue[i]
                                      \/ queue'[i].what = "null" /\ \A j \in DOMAIN queue' : ~(i < j)
    BY <1>k, PlainAdded
  <1>q. ~aborted /\ Queued("data")' => Queued("data")
    BY <1>m DEF Queued, Current
  <1> USE DEF EInv, readVars, codecVars, decVars, frameVars, appVars
  <1>1. Nulls'
    <2> SUFFICES ASSUME ~aborted
                 PROVE  /\ \A i, j \in DOMAIN queue' :
                               queue'[i].what = "null" /\ queue'[i].serial = serial' /\ i < j /\ queue'[j].serial = serial'
                               => queue'[j].what # "data"
                        /\ dec = "check" /\ pkt.what = "null" /\ pkt_serial = serial' => ~Queued("data")'
      BY <1>k DEF Nulls, Current
    <2>1. \A i, j \in DOMAIN queue :
             queue[i].what = "null" /\ queue[i].serial = serial /\ i < j /\ queue[j].serial = serial
             => queue[j].what # "data"
      BY DEF Nulls, Current
    <2>2. dec = "check" /\ pkt.what = "null" /\ pkt_serial = serial' => ~Queued("data")'
      BY <1>m, <1>q DEF Nulls
    <2>3. \A i, j \in DOMAIN queue' :
             queue'[i].what = "null" /\ queue'[i].serial = serial' /\ i < j /\ queue'[j].serial = serial'
             => queue'[j].what # "data"
      <3> SUFFICES ASSUME NEW i \in DOMAIN queue', NEW j \in DOMAIN queue', queue'[i].what = "null",
                          queue'[i].serial = serial', i < j, queue'[j].serial = serial', queue'[j].what = "data"
                   PROVE  FALSE
        OBVIOUS
      <3>1. j \in DOMAIN queue /\ queue'[j] = queue[j] BY <1>m
      <3>2. i \in DOMAIN queue /\ queue'[i] = queue[i] BY <1>m
      <3> QED BY <1>m, <2>1, <3>1, <3>2
    <2> QED BY <2>2, <2>3
  <1>2. InHand' BY <1>k DEF InHand
  <1>3. Ended'
    <2> SUFFICES ASSUME ~FlushLost, ~aborted, ~FlushPending'
                 PROVE  /\ draining \/ finished # 0 => AllRead'
                        /\ finished # 0 => codec = <<>> /\ dec # "push"
      BY <1>k DEF Ended, FlushLost
    <2>1. ~FlushPending BY <1>k, <1>m DEF FlushPending, FlushTaken, Queued, Current
    <2>2. /\ draining \/ finished # 0 => AllRead
          /\ finished # 0 => codec = <<>> /\ dec # "push"
      BY <2>1 DEF Ended
    <2>3. AllRead => AllRead' BY <1>k, <1>m, <1>q DEF AllRead
    <2> QED BY <2>2, <2>3
  <1>4. Completing' BY <1>k DEF Completing
  <1> QED BY ONLY <1>1, <1>2, <1>3, <1>4 DEF EInv

LEMMA SetSurfaceEnds ==
    ASSUME IInv, EInv, SetSurface PROVE EInv'
  <1>k. /\ Put("surface") /\ UNCHANGED <<pkt_serial, pkt, dec, finished, aborted, draining, codec, frames, rindex_shown>>
        /\ left' = left /\ reader' = reader
    BY DEF SetSurface, ReaderAt, codecVars, frameVars, readVars
  <1>m. ~aborted => /\ pkt_serial' # serial'
                    /\ \A i \in DOMAIN queue' : Current(queue[i])' => queue'[i].what = "surface"
                    /\ Queued("surface")'
    BY <1>k, MarkAlone DEF Marks
  <1>f. ~FlushLost' => ~FlushLost /\ ~FlushPending
    BY DEF SetSurface, FlushLost, FlushPending, FlushTaken, Queued, Underway
  <1>n. ~aborted => ~FlushTaken' /\ ~Queued("flush")' /\ ~Queued("data")'
    BY <1>k, <1>m DEF FlushTaken, Queued
  <1> USE DEF EInv, decVars, frameVars, appVars
  <1>1. Nulls' BY <1>k, <1>m DEF Nulls
  <1>2. InHand' BY <1>k DEF InHand
  <1>3. Ended' BY <1>k, <1>m, <1>f, <1>n DEF Ended, AllRead
  <1>4. Completing' BY <1>k, <1>f, <1>n DEF Completing, FlushPending, Remaining
  <1> QED BY ONLY <1>1, <1>2, <1>3, <1>4 DEF EInv

LEMMA ReceiveNothingEnds ==
    ASSUME IInv, EInv, ReceiveNothing PROVE EInv'
  <1> USE DEF EInv, ReceiveNothing, DecoderAt, readVars, codecVars, decVars, frameVars, appVars
  <1>1. Nulls' BY DEF Nulls, Queued, Current
  <1>2. InHand' BY DEF InHand
  <1>3. Ended' BY DEF Ended, FlushPending, FlushTaken, FlushLost, Queued, Current, AllRead
  <1>4. Completing' BY DEF Completing, Remaining, FlushPending, FlushTaken, FlushLost, Queued, Current, AllRead
  <1> QED BY ONLY <1>1, <1>2, <1>3, <1>4 DEF EInv

LEMMA ReceiveEnds ==
    ASSUME IInv, EInv, Receive PROVE EInv'
  <1> USE DEF EInv, Receive, DecoderAt, readVars, codecVars, decVars, frameVars, appVars
  <1>1. Nulls' BY DEF Nulls, Queued, Current
  <1>2. InHand' BY DEF InHand
  <1>3. Ended' BY DEF Ended, FlushPending, FlushTaken, FlushLost, Queued, Current, AllRead
  <1>4. Completing' BY DEF Completing, Remaining, FlushPending, FlushTaken, FlushLost, Queued, Current, AllRead
  <1> QED BY ONLY <1>1, <1>2, <1>3, <1>4 DEF EInv

LEMMA ReceiveEndEnds ==
    ASSUME IInv, EInv, ReceiveEnd PROVE EInv'
  <1> USE DEF EInv, ReceiveEnd, DecoderAt, readVars, codecVars, decVars, frameVars, appVars
  <1>1. Nulls' BY DEF Nulls, Queued, Current
  <1>2. InHand' BY DEF InHand
  <1>3. Ended' BY DEF Ended, FlushPending, FlushTaken, FlushLost, Queued, Current, AllRead
  <1>4. Completing'
    <2>1. pkt_serial # 0 BY DEF IInv, TInv, Bounded
    <2> QED BY <2>1 DEF Completing, Remaining, FlushPending, FlushTaken, FlushLost, Queued, Current
  <1> QED BY ONLY <1>1, <1>2, <1>3, <1>4 DEF EInv

LEMMA GetEnds ==
    ASSUME IInv, EInv, Get PROVE EInv'
  <1> USE DEF EInv
  <1>t. TypeOK /\ Bounded /\ Sorted BY DEF IInv, TInv
  <1>o. CASE Waits
    BY <1>o DEF Waits, Nulls, InHand, Ended, Completing, AllRead, Remaining, FlushPending, FlushTaken, FlushLost,
                Queued, Current
  <1>n. CASE Takes /\ Shifted /\ pkt_serial' = queue[1].serial
    <2> USE DEF Takes, Shifted
    <2>1. /\ FlushPending' <=> FlushPending
          /\ Queued("data")' \/ (dec' = "check" /\ pkt'.what = "data" /\ pkt_serial' = serial') => Queued("data")
      BY <1>n, TakenIsOnItsWay
    <2>2. Nulls'
      <3>1. ASSUME NEW i \in DOMAIN queue', queue'[i].what = "null", queue'[i].serial = serial
            PROVE  /\ left = 0 \/ reader = "flushed"
                   /\ \A j \in DOMAIN queue' : i < j /\ queue'[j].serial = serial => queue'[j].what # "data"
        <4>1. \A j \in DOMAIN queue' : i < j => i + 1 < j + 1 BY <1>n, <3>1
        <4> QED BY <1>n, <3>1, <4>1 DEF Nulls, Current
      <3>2. ASSUME queue[1].what = "null", queue[1].serial = serial
            PROVE  (left = 0 \/ reader = "flushed") /\ ~Queued("data")'
        <4>1. \A j \in DOMAIN queue' : 1 < j + 1 BY <1>n
        <4> QED BY <1>n, <3>2, <4>1 DEF Nulls, Current, Queued
      <3> QED BY <1>n, <3>1, <3>2 DEF Nulls, Current
    <2>3. InHand' BY <1>n DEF InHand
    <2>4. Ended'
      <3>1. AllRead => AllRead' BY <1>n, <2>1 DEF AllRead
      <3> QED BY <1>n, <2>1, <3>1 DEF Ended, FlushLost
    <2>5. Completing' BY <1>n, <2>1 DEF Completing, FlushLost, Remaining
    <2> QED BY <2>2, <2>3, <2>4, <2>5
  <1> QED BY <1>t, <1>o, <1>n, Gets

LEMMA CheckEnds ==
    ASSUME IInv, EInv, Check PROVE EInv'
  <1>t. TypeOK /\ Bounded BY DEF IInv, TInv
  <1>e. pkt.what \in {"data", "null", "flush", "surface"} BY <1>t, Elements DEF Kinds
  <1>s. /\ dec = "check" /\ dec' # "check" /\ dec' # "push"
        /\ UNCHANGED <<queue, serial, pkt_serial, reader, left, aborted, overtaken, frames, rindex_shown>>
        /\ \/ serial # pkt_serial /\ UNCHANGED <<finished, codec, draining>>
           \/ /\ serial = pkt_serial
              /\ \/ pkt.what = "flush" /\ finished' = 0 /\ draining' = FALSE
                 \/ /\ pkt.what = "surface" /\ finished' = (IF finished # 0 THEN pkt_serial ELSE 0)
                    /\ UNCHANGED <<codec, draining>>
                 \/ pkt.what = "null" /\ UNCHANGED <<finished, codec>>
                 \/ pkt.what = "data" /\ UNCHANGED <<finished, draining>>
    BY <1>e DEF Check, Consume, DecoderAt, readVars, codecVars, appVars
  <1>p. serial = pkt_serial => pkt_serial # 0 BY <1>t DEF Bounded
  <1>f. /\ FlushPending' => FlushPending
        /\ FlushPending => FlushPending' \/ (serial = pkt_serial /\ pkt.what = "flush")
        /\ FlushTaken => FlushPending
        /\ AllRead => AllRead'
        /\ serial = pkt_serial /\ pkt.what = "data" => ~AllRead
    BY ONLY <1>s DEF FlushPending, FlushTaken, Queued, Current, AllRead
  <1> USE DEF EInv, Check, DecoderAt, readVars, codecVars, decVars, frameVars, appVars
  <1>1. Nulls' BY DEF Nulls, Queued, Current
  <1>2. InHand' BY DEF InHand
  <1>3. Ended'
    <2> SUFFICES ASSUME ~FlushLost, ~aborted, ~FlushPending'
                 PROVE  /\ draining' \/ finished' # 0 => AllRead'
                        /\ finished' # 0 => codec' = <<>>
      BY <1>s DEF Ended, FlushLost
    <2>1. CASE serial = pkt_serial /\ pkt.what = "flush" BY <1>s, <2>1
    <2>2. CASE ~(serial = pkt_serial /\ pkt.what = "flush")
      <3>1. /\ draining \/ finished # 0 => AllRead
            /\ finished # 0 => codec = <<>>
        BY <1>f, <2>2 DEF Ended
      <3>2. serial = pkt_serial /\ pkt.what = "null" => AllRead'
        BY <1>s DEF Nulls, AllRead, FlushPending, Queued, Current
      <3> QED BY ONLY <1>s, <1>f, <1>p, <2>2, <3>1, <3>2
    <2> QED BY <2>1, <2>2
  <1>4. Completing'
    <2> SUFFICES ASSUME reader = "completing", ~FlushLost, ~aborted PROVE finished' # 0 /\ ~FlushPending' /\ Remaining' = 0
      BY <1>s DEF Completing, FlushLost
    <2>1. finished # 0 /\ ~FlushPending /\ Remaining = 0 BY DEF Completing
    <2>2. ~(serial = pkt_serial /\ pkt.what = "flush") BY <1>s, <1>f, <2>1 DEF FlushTaken
    <2> QED BY ONLY <1>s, <1>f, <1>p, <2>1, <2>2 DEF Remaining
  <1> QED BY ONLY <1>1, <1>2, <1>3, <1>4 DEF EInv

LEMMA PushEnds ==
    ASSUME IInv, EInv, Push PROVE EInv'
  <1> USE DEF EInv, Push, DecoderAt, readVars, codecVars, decVars, frameVars, appVars
  <1>1. Nulls' BY DEF Nulls, Queued, Current
  <1>2. InHand' BY DEF InHand
  <1>3. Ended' BY DEF Ended, FlushPending, FlushTaken, FlushLost, Queued, Current, AllRead
  <1>4. Completing'
    <2>1. ~(reader = "completing" /\ ~FlushLost /\ ~aborted) BY DEF Completing, Ended
    <2> QED BY <2>1 DEF Completing, FlushLost
  <1> QED BY ONLY <1>1, <1>2, <1>3, <1>4 DEF EInv

LEMMA DecoderExitsEnds ==
    ASSUME IInv, EInv, DecoderExits PROVE EInv'
  <1> USE DEF DecoderExits, DecoderAt, codecVars, decVars, frameVars, appVars
  <1>1. Nulls' BY DEF Nulls, Queued, Current
  <1>2. InHand' BY DEF InHand
  <1>3. Ended' BY DEF Ended, FlushPending, FlushTaken, FlushLost, Queued, Current, AllRead
  <1>4. Completing' BY DEF Completing, Remaining, FlushPending, FlushTaken, FlushLost, Queued, Current, AllRead
  <1> QED BY ONLY <1>1, <1>2, <1>3, <1>4 DEF EInv

LEMMA RefreshEnds ==
    ASSUME IInv, EInv, Refresh PROVE EInv'
  <1> USE DEF EInv, Refresh, queueVars, readVars, codecVars, decVars, frameVars, appVars
  <1>1. Nulls' BY DEF Nulls, Queued, Current
  <1>2. InHand' BY DEF InHand
  <1>3. Ended' BY DEF Ended, FlushPending, FlushTaken, FlushLost, Queued, Current, AllRead
  <1>4. Completing' BY DEF Completing, Remaining, FlushPending, FlushTaken, FlushLost, Queued, Current, AllRead
  <1> QED BY ONLY <1>1, <1>2, <1>3, <1>4 DEF EInv

LEMMA CloseBeginEnds ==
    ASSUME IInv, EInv, CloseBegin PROVE EInv'
  <1> USE DEF EInv, CloseBegin, codecVars, decVars, frameVars, appVars
  <1>1. Nulls' BY DEF Nulls, Queued, Current
  <1>2. InHand' BY DEF InHand
  <1>3. Ended' BY DEF Ended, FlushPending, FlushTaken, FlushLost, Queued, Current, AllRead
  <1>4. Completing' BY DEF Completing, Remaining, FlushPending, FlushTaken, FlushLost, Queued, Current, AllRead
  <1> QED BY ONLY <1>1, <1>2, <1>3, <1>4 DEF EInv

LEMMA CloseDecoderEnds ==
    ASSUME IInv, EInv, CloseDecoder PROVE EInv'
  <1> USE DEF EInv, CloseDecoder, DecoderAbort, codecVars, decVars, frameVars, appVars
  <1>1. Nulls' BY DEF Nulls, Queued, Current
  <1>2. InHand' BY DEF InHand
  <1>3. Ended' BY DEF Ended, FlushPending, FlushTaken, FlushLost, Queued, Current, AllRead
  <1>4. Completing' BY DEF Completing, Remaining, FlushPending, FlushTaken, FlushLost, Queued, Current, AllRead
  <1> QED BY ONLY <1>1, <1>2, <1>3, <1>4 DEF EInv

LEMMA CloseEndEnds ==
    ASSUME IInv, EInv, CloseEnd PROVE EInv'
  <1> USE DEF EInv, CloseEnd, readVars, codecVars, decVars, frameVars, appVars
  <1>1. Nulls' BY DEF Nulls, Queued, Current
  <1>2. InHand' BY DEF InHand
  <1>3. Ended'
    <2>1. aborted' BY DEF IInv, Stopped
    <2> QED BY <2>1 DEF Ended
  <1>4. Completing' BY DEF Completing, Remaining, FlushPending, FlushTaken, FlushLost, Queued, Current, AllRead
  <1> QED BY ONLY <1>1, <1>2, <1>3, <1>4 DEF EInv

LEMMA ReaderEnds ==
    ASSUME IInv, EInv, \/ ReaderExits \/ NoSeek \/ SeekEnd \/ ReaderWaits \/ CompleteEnd
                       \/ GoesOnReading \/ (ReadEnd /\ eof) \/ SeekTo
    PROVE  EInv'
  <1>1. /\ UNCHANGED <<queue, serial, aborted, left, dec, pkt, pkt_serial, finished, codec, draining,
                       frames, rindex_shown, overtaken>>
        /\ reader' = reader \/ (reader # "flushed" /\ reader' \notin {"flushed", "completing"})
    BY DEF ReaderExits, NoSeek, SeekEnd, ReaderWaits, CompleteEnd, GoesOnReading, ReadEnd, SeekTo,
           ReaderAt, ReaderGoes, queueVars, decVars, codecVars, frameVars, appVars
  <1> USE <1>1 DEF EInv
  <1>2. Nulls' /\ InHand' BY DEF Nulls, InHand, Queued, Current
  <1>3. Ended' BY DEF Ended, AllRead, FlushPending, FlushTaken, FlushLost, Queued, Current
  <1>4. Completing' BY DEF Completing, Remaining, FlushPending, FlushTaken, FlushLost, Queued, Current
  <1> QED BY <1>2, <1>3, <1>4

LEMMA CompleteBeginEnds == ASSUME IInv, EInv, CompleteBegin PROVE EInv'
  <1>1. /\ UNCHANGED <<queue, serial, aborted, left, dec, pkt, pkt_serial, finished, codec, draining,
                       frames, rindex_shown, overtaken>>
        /\ reader = "check" /\ reader' = "completing" /\ finished = serial /\ Remaining = 0
    BY DEF CompleteBegin, AtEnd, ReaderAt, ReaderGoes, codecVars, frameVars, appVars
  <1>n. ~FlushPending BY <1>1, NothingPending DEF EInv
  <1>s. finished # 0 BY <1>1, Elements DEF IInv, TInv, Bounded
  <1>2. Nulls' /\ InHand' BY <1>1 DEF EInv, Nulls, InHand, Queued, Current
  <1>3. Ended' BY <1>1 DEF EInv, Ended, AllRead, FlushPending, FlushTaken, FlushLost, Queued, Current
  <1>4. Completing'
    BY <1>1, <1>n, <1>s DEF Completing, Remaining, FlushPending, FlushTaken, FlushLost, Queued, Current
  <1> QED BY <1>2, <1>3, <1>4 DEF EInv

LEMMA InitEInv == Init => EInv
  <1> SUFFICES ASSUME Init PROVE EInv
    OBVIOUS
  <1>1. DOMAIN queue = {1} /\ queue[1].what = "flush" BY DEF Init, Packet
  <1>2. Nulls BY <1>1 DEF Init, Nulls
  <1>3. InHand /\ Completing BY DEF Init, InHand, Completing
  <1>4. Ended BY DEF Init, Ended
  <1> QED BY <1>2, <1>3, <1>4 DEF EInv

LEMMA NextEInv == IInv /\ EInv /\ [Next]_vars => EInv'
  <1> SUFFICES ASSUME IInv, EInv, [Next]_vars PROVE EInv'
    OBVIOUS
  <1>1. CASE ReaderNext
    BY <1>1, ReaderEnds, CompleteBeginEnds, SeekBeginEnds, SeekPutEnds, DiscontinuityEnds, ReadPacketEnds, ReadEndEnds
    DEF ReaderNext
  <1>2. CASE DecoderNext
    BY <1>2, ReceiveNothingEnds, ReceiveEnds, ReceiveEndEnds, GetEnds, CheckEnds, PushEnds, DecoderExitsEnds
    DEF DecoderNext
  <1>3. CASE Refresh BY <1>3, RefreshEnds
  <1>4. CASE AppNext BY <1>4, ReaderEnds, SetSurfaceEnds DEF AppNext
  <1>5. CASE CloseNext BY <1>5, CloseBeginEnds, CloseDecoderEnds, CloseEndEnds DEF CloseNext
  <1>6. CASE UNCHANGED vars
    <2> USE <1>6 DEF vars, queueVars, readVars, codecVars, decVars, frameVars, appVars, EInv
    <2>1. Nulls' /\ InHand' BY DEF Nulls, InHand, Queued, Current
    <2>2. Ended' BY DEF Ended, AllRead, FlushPending, FlushTaken, FlushLost, Queued, Current
    <2>3. Completing' BY DEF Completing, Remaining, FlushPending, FlushTaken, FlushLost, Queued, Current
    <2> QED BY <2>1, <2>2, <2>3
  <1> QED BY <1>1, <1>2, <1>3, <1>4, <1>5, <1>6 DEF Next

LEMMA AlwaysEInv == Spec => []EInv
  <1>1. Spec => []IInv BY AlwaysIInv
  <1> QED BY <1>1, InitEInv, NextEInv, PTL DEF Spec

\* The variables keep their domains, and the frame queue never holds more frames
\* than it has room for (frame_queue_peek_writable and frame_queue_push).
THEOREM TypeCorrect == Spec => []TypeOK
  <1>1. IInv => TypeOK BY DEF IInv, TInv
  <1> QED BY <1>1, AlwaysIInv, PTL

\* A frame whose serial is the packet queue's was read from where the reader is now:
\* what is shown after a seek is from after it, whatever the decoder still held.
THEOREM PicturesOfNow == Spec => []LabelsHonest
  <1>1. IInv => LabelsHonest BY DEF IInv
  <1> QED BY <1>1, AlwaysIInv, PTL

\* read_thread completes playback only when everything was read, decoded and shown.
THEOREM CompletionIsEnd == Spec => []CompletedAtEnd
  <1>1. IInv /\ EInv => CompletedAtEnd
    BY DEF EInv, InHand, Completing, Ended, AllRead, CompletedAtEnd, Current
  <1> QED BY <1>1, AlwaysIInv, AlwaysEInv, PTL

\* The test of serials in the decoder drops packets of earlier serials only.
THEOREM AllDecoded == Spec => NothingSkipped
  <1>1. ASSUME IInv, EInv, [Next]_vars, dec = "get", dec' = "get", UNCHANGED reader,
               queue # <<>>, queue' = Tail(queue), ~FlushLost
        PROVE  ~(Head(queue).what = "data" /\ Current(Head(queue)))
    <2>1. queue \in Seq(PacketSet) BY <1>1 DEF IInv, TInv, TypeOK
    <2>t. Len(queue) \in Nat /\ Len(queue) >= 1 /\ Len(queue') = Len(queue) - 1 BY <1>1, <2>1, Tailed
    <2>n. queue' # queue BY <2>t
    <2>2. Get
      <3>1. Len(queue) \in DOMAIN queue BY <2>1, <2>t
      <3>2. \A w \in Kinds : ~Put(w)
        <4> SUFFICES ASSUME NEW w \in Kinds, Put(w) PROVE FALSE
          OBVIOUS
        <4>1. ~aborted BY <2>n DEF Put
        <4>2. Len(queue) < Len(queue') BY <1>1, <3>1, <4>1, PutAppends DEF IInv, TInv
        <4> QED BY <2>t, <4>2
      <3>4. ~ReaderNext
        BY <1>1, <2>n, <3>2 DEF Kinds, ReaderNext, ReaderExits, NoSeek, SeekBegin, SeekPut, SeekEnd, ReaderWaits,
           CompleteBegin, CompleteEnd, GoesOnReading, Discontinuity, ReadPacket, ReadEnd, ReaderAt, ReaderGoes
      <3>5. ~Refresh /\ ~AppNext /\ ~CloseNext /\ ~UNCHANGED vars
        BY <1>1, <2>n, <3>2 DEF Kinds, Refresh, AppNext, SeekTo, SetSurface, CloseNext, CloseBegin, CloseDecoder, CloseEnd,
           vars, queueVars
      <3>6. DecoderNext BY <1>1, <3>4, <3>5 DEF Next
      <3> QED BY <1>1, <2>n, <3>6 DEF DecoderNext, ReceiveNothing, Receive, ReceiveEnd, Check, Push, DecoderExits,
                                  DecoderAt
    <2>3. Takes /\ Shifted /\ pkt_serial' = queue[1].serial
      BY <1>1, <2>2, <2>n, Gets DEF IInv, TInv, Waits
    <2>4. queue[1] = Head(queue) /\ finished = queue[1].serial /\ ~aborted /\ 1 \in DOMAIN queue
      BY <1>1, <2>3 DEF Takes, Shifted
    <2> SUFFICES ASSUME Head(queue).what = "data", Head(queue).serial = serial PROVE FALSE
      BY DEF Current
    <2>5. reader # "flushed" BY <1>1, <2>4, Empty DEF IInv, DecoderPure
    <2>6. ~FlushPending BY <1>1, <2>4, <2>5, NothingPending DEF EInv
    <2>7. finished # 0 BY <1>1, <2>4, Elements DEF IInv, TInv, Bounded
    <2>8. ~Queued("data") BY <1>1, <2>4, <2>6, <2>7 DEF EInv, Ended, AllRead
    <2> QED BY <2>4, <2>8 DEF Queued, Current
  <1>2. IInv /\ EInv /\ [Next]_vars =>
          [dec = "get" /\ dec' = "get" /\ UNCHANGED reader
           /\ queue # <<>> /\ queue' = Tail(queue) /\ ~FlushLost
           => ~(Head(queue).what = "data" /\ Current(Head(queue)))]_vars
    BY <1>1
  <1> QED BY <1>2, AlwaysIInv, AlwaysEInv, PTL DEF Spec, NothingSkipped

=============================================================================
