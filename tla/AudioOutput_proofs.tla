------------------------- MODULE AudioOutput_proofs -------------------------
(* What is in the AudioTrack after a seek: a theorem for any size of sampq, *)
(* any number of seeks, pauses and flushes, and whether or not a new track  *)
(* is refused.                                                              *)
EXTENDS AudioOutput, TLAPS

\* What a buffer may hold, and the domains of the variables the promise depends on.
Pieces == {"new", "old", "rest", "silence"}

Types ==
    /\ need_flush \in BOOLEAN /\ behind \in BOOLEAN /\ noticed \in BOOLEAN /\ missed \in BOOLEAN
    /\ buffer \in Seq(Pieces) /\ sampq \in Seq({"new", "old"})
    /\ hand \in {"none", "new", "old"} /\ audio_buf \in {"none", "new", "old", "silence"}
    /\ inTrack \subseteq Pieces

\* Until the decoder takes the flush packet of a seek nothing is new, and the buffer
\* that is being filled counts for neither.
Behind ==
    behind => /\ hand # "new" /\ "new" \notin Range(sampq) /\ audio_buf # "new"
              /\ Range(buffer) \cap {"new", "old"} = {} /\ "new" \notin inTrack

\* Once the callback has seen the seek, what is old is in the track alone, and that
\* is to be flushed.
Noticed ==
    noticed => /\ ~missed /\ audio_buf # "old" /\ "old" \notin Range(buffer)
               /\ "old" \in inTrack => need_flush /\ "new" \notin inTrack

\* Where no seek was, nothing is old.
Unsought ==
    ~behind /\ ~missed /\ ~noticed => audio_buf # "old" /\ "old" \notin Range(buffer) /\ "old" \notin inTrack

\* The invariant: missed goes with a decoder that has come to the seek.
IInv == Types /\ Behind /\ Noticed /\ Unsought /\ (missed => ~behind)

-----------------------------------------------------------------------------
(* Range and Aged.                                                          *)

LEMMA RangeAppend ==
    ASSUME NEW S, NEW s \in Seq(S), NEW e \in S
    PROVE  Append(s, e) \in Seq(S) /\ Range(Append(s, e)) = Range(s) \cup {e}
  <1>1. Append(s, e) \in Seq(S) /\ Len(Append(s, e)) = Len(s) + 1 /\ Len(s) \in Nat
    OBVIOUS
  <1>2. \A i \in 1..Len(s) : Append(s, e)[i] = s[i]
    OBVIOUS
  <1>3. Append(s, e)[Len(s) + 1] = e
    OBVIOUS
  <1> QED BY ONLY <1>1, <1>2, <1>3 DEF Range

LEMMA RangeTail ==
    ASSUME NEW S, NEW s \in Seq(S), s # <<>>
    PROVE  /\ Tail(s) \in Seq(S) /\ Range(Tail(s)) \subseteq Range(s)
           /\ Head(s) \in Range(s)
  <1>1. Tail(s) \in Seq(S) /\ Len(Tail(s)) = Len(s) - 1 /\ Len(s) \in Nat /\ Len(s) >= 1
    OBVIOUS
  <1>2. \A i \in 1..Len(Tail(s)) : Tail(s)[i] = s[i + 1]
    OBVIOUS
  <1>3. Head(s) = s[1]
    OBVIOUS
  <1> QED BY ONLY <1>1, <1>2, <1>3 DEF Range

LEMMA RangeAged ==
    ASSUME NEW S, NEW s \in Seq(S), NEW as \in S
    PROVE  /\ Aged(s, as) \in Seq(S)
           /\ \A x \in Range(Aged(s, as)) : x = as \/ x \notin {"new", "old"}
  <1>1. Len(s) \in Nat /\ \A i \in 1..Len(s) : s[i] \in S
    OBVIOUS
  <1> DEFINE f == [i \in 1..Len(s) |-> IF s[i] \in {"new", "old"} THEN as ELSE s[i]]
  <1>2. f \in [1..Len(s) -> S]
    BY <1>1
  <1>3. \A i \in 1..Len(s) : f[i] = as \/ f[i] \notin {"new", "old"}
    BY <1>1
  <1>4. Aged(s, as) = f
    BY DEF Aged
  <1> HIDE DEF f
  <1>5. f \in Seq(S) /\ Len(f) = Len(s)
    BY <1>1, <1>2
  <1> QED BY <1>3, <1>4, <1>5 DEF Range

-----------------------------------------------------------------------------
(* Every step keeps the invariant.                                          *)

LEMMA InitIInv == Init => IInv
  <1> SUFFICES ASSUME Init PROVE IInv
    OBVIOUS
  <1>1. Range(buffer) = {} /\ buffer \in Seq(Pieces) /\ sampq \in Seq({"new", "old"})
    BY DEF Init, Range
  <1> QED BY <1>1 DEF Init, IInv, Types, Behind, Noticed, Unsought

LEMMA SeekKeeps == IInv /\ Seek => IInv'
  <1> SUFFICES ASSUME IInv, Seek PROVE IInv'
    OBVIOUS
  <1>1. buffer \in Seq(Pieces) /\ sampq \in Seq({"new", "old"}) /\ inTrack \subseteq Pieces
    BY DEF IInv, Types
  <1>2. "rest" \in Pieces /\ "old" \in Pieces
    BY DEF Pieces
  <1>3. /\ buffer' \in Seq(Pieces) /\ Range(buffer') \cap {"new", "old"} = {}
    <2>1. buffer' = Aged(buffer, "rest")
      BY DEF Seek
    <2>2. /\ Aged(buffer, "rest") \in Seq(Pieces)
          /\ \A x \in Range(Aged(buffer, "rest")) : x = "rest" \/ x \notin {"new", "old"}
      BY <1>1, <1>2, RangeAged
    <2> QED BY <2>1, <2>2 DEF Range
  <1>4. /\ sampq' \in Seq({"new", "old"}) /\ "new" \notin Range(sampq')
    BY <1>1, RangeAged DEF Seek
  <1>5. Types'
    BY <1>2, <1>3, <1>4 DEF IInv, Types, Seek
  <1>6. Behind' /\ ~missed' /\ ~noticed' /\ behind'
    BY <1>3, <1>4 DEF IInv, Types, Behind, Seek
  <1> QED BY <1>5, <1>6 DEF IInv, Noticed, Unsought

\* What the invariant speaks of.
seekVars == <<need_flush, behind, noticed, missed, buffer, sampq, hand, audio_buf, inTrack>>

LEMMA OthersKeep == IInv /\ UNCHANGED seekVars => IInv'
  BY DEF seekVars, IInv, Types, Behind, Noticed, Unsought

LEMMA DecoderKeeps == IInv /\ DecoderNext => IInv'
  <1> SUFFICES ASSUME IInv, DecoderNext PROVE IInv'
    OBVIOUS
  <1>1. CASE Decode
    BY <1>1 DEF Decode, IInv, Types, Behind, Noticed, Unsought, trackVars, seekGhosts, askVars
  <1>2. CASE TakeFlush
    BY <1>2 DEF TakeFlush, IInv, Types, Behind, Noticed, Unsought, trackVars, askVars
  <1>3. CASE QueueSample
    <2>1. sampq' \in Seq({"new", "old"}) /\ Range(sampq') = Range(sampq) \cup {hand}
      BY <1>3, RangeAppend DEF QueueSample, IInv, Types
    <2> QED BY <1>3, <2>1 DEF QueueSample, IInv, Types, Behind, Noticed, Unsought, trackVars, seekGhosts, askVars
  <1> QED BY <1>1, <1>2, <1>3 DEF DecoderNext

LEMMA CloseKeeps == IInv /\ (CloseDecoder \/ CloseNext) => IInv'
  <1> SUFFICES ASSUME IInv, CloseDecoder \/ CloseNext PROVE IInv'
    OBVIOUS
  <1>1. CASE CloseAudio
    BY <1>1 DEF CloseAudio, IInv, Types, Behind, Noticed, Unsought, trackVars, seekGhosts
  <1>2. CASE CloseDecoder \/ CloseEnd
    BY <1>2, OthersKeep DEF CloseDecoder, CloseEnd, seekVars, askVars, trackVars, decVars, seekGhosts
  <1> QED BY <1>1, <1>2 DEF CloseNext

\* A flush empties the track; a loop that starts again has an empty buffer.
LEMMA LoopKeeps == IInv /\ (Wake \/ RunOn) => IInv'
  <1> SUFFICES ASSUME IInv, Wake \/ RunOn PROVE IInv'
    OBVIOUS
  <1>1. /\ buffer' = <<>> /\ need_flush' = FALSE /\ inTrack' = (IF need_flush THEN {} ELSE inTrack)
        /\ UNCHANGED <<behind, noticed, missed, sampq, hand, audio_buf>>
    BY DEF Wake, RunOn, decVars, seekGhosts
  <1>2. Range(buffer') = {} /\ buffer' \in Seq(Pieces)
    BY <1>1 DEF Range
  <1> QED BY <1>1, <1>2 DEF IInv, Types, Behind, Noticed, Unsought

LEMMA FetchKeeps == IInv /\ Fetch => IInv'
  <1> SUFFICES ASSUME IInv, Fetch PROVE IInv'
    OBVIOUS
  <1>1. UNCHANGED <<need_flush, behind, noticed, missed, buffer, hand, inTrack>>
    BY DEF Fetch, askVars, trackVars, seekGhosts
  <1>2. CASE UNCHANGED sampq /\ audio_buf' = "silence"
    BY <1>1, <1>2 DEF IInv, Types, Behind, Noticed, Unsought
  <1>3. CASE /\ sampq # <<>> /\ sampq' = Tail(sampq)
             /\ UNCHANGED audio_buf \/ (Head(sampq) = "new" /\ audio_buf' = "new")
    <2>1. /\ sampq' \in Seq({"new", "old"}) /\ Range(sampq') \subseteq Range(sampq)
          /\ Head(sampq) \in Range(sampq)
      BY <1>3, RangeTail DEF IInv, Types
    <2> QED BY <1>1, <1>3, <2>1 DEF IInv, Types, Behind, Noticed, Unsought
  <1> QED BY <1>2, <1>3 DEF Fetch

LEMMA NoticeKeeps == IInv /\ Notice => IInv'
  BY DEF Notice, IInv, Types, Behind, Noticed, Unsought, trackVars, decVars

LEMMA CopyKeeps == IInv /\ Copy => IInv'
  <1> SUFFICES ASSUME IInv, Copy PROVE IInv'
    OBVIOUS
  <1>1. audio_buf \in Pieces /\ buffer \in Seq(Pieces)
    BY DEF Copy, IInv, Types, Pieces
  <1>2. buffer' \in Seq(Pieces) /\ Range(buffer') = Range(buffer) \cup {audio_buf}
    BY <1>1, RangeAppend DEF Copy
  <1>3. /\ UNCHANGED <<need_flush, behind, noticed, missed, sampq, hand, inTrack>>
        /\ audio_buf' \in {"none", audio_buf} /\ ~behind
    BY DEF Copy, askVars, trackVars, decVars, seekGhosts
  <1> QED BY <1>2, <1>3 DEF IInv, Types, Behind, Noticed, Unsought

LEMMA WriteKeeps == IInv /\ Write => IInv'
  <1> SUFFICES ASSUME IInv, Write PROVE IInv'
    OBVIOUS
  <1>1. UNCHANGED <<need_flush, behind, noticed, missed, buffer, sampq, hand, audio_buf>> /\ ~need_flush
    BY DEF Write, askVars, decVars, seekGhosts
  <1>2. inTrack' \subseteq inTrack \cup Range(buffer)
    BY DEF Write
  <1>3. Range(buffer) \subseteq Pieces
    BY DEF IInv, Types, Range
  <1> QED BY <1>1, <1>2, <1>3 DEF IInv, Types, Behind, Noticed, Unsought

LEMMA ThreadKeeps == IInv /\ ThreadNext => IInv'
  <1> SUFFICES ASSUME IInv, ThreadNext PROVE IInv'
    OBVIOUS
  <1>1. CASE Begin \/ Pause \/ End \/ FetchBegin \/ Apply \/ KeepTrack
    BY <1>1, OthersKeep DEF Begin, Pause, End, FetchBegin, Apply, KeepTrack,
       seekVars, askVars, trackVars, decVars, seekGhosts
  <1>2. CASE Silence
    BY <1>2 DEF Silence, IInv, Types, Behind, Noticed, Unsought, askVars, trackVars, decVars, seekGhosts
  <1>3. CASE Renew
    BY <1>3 DEF Renew, IInv, Types, Behind, Noticed, Unsought, decVars, seekGhosts
  <1> QED BY <1>1, <1>2, <1>3, LoopKeeps, FetchKeeps, NoticeKeeps, CopyKeeps, WriteKeeps DEF ThreadNext

LEMMA NextIInv == IInv /\ [Next]_vars => IInv'
  <1>1. ASSUME IInv, \E on \in BOOLEAN : PauseAudio(on)
        PROVE  IInv'
    BY <1>1, OthersKeep DEF PauseAudio, seekVars, trackVars, decVars, seekGhosts
  <1>2. ASSUME IInv, UNCHANGED vars
        PROVE  IInv'
    BY <1>2, OthersKeep DEF vars, seekVars, askVars, trackVars, decVars, seekGhosts
  <1> QED BY <1>1, <1>2, SeekKeeps, DecoderKeeps, CloseKeeps, ThreadKeeps DEF Next, PlayerNext

\* Sound from before and after a seek meet in the AudioTrack only where the decoder
\* came to the seek before the callback looked: every other way the flush that the
\* callback asks for comes before the first new sample is written.
THEOREM OldIsCleared == Spec => []OldCleared
  <1>1. IInv => OldCleared
    BY DEF IInv, Behind, Noticed, Unsought, Types, OldCleared
  <1>2. Spec => []IInv
    BY InitIInv, NextIInv, PTL DEF Spec
  <1> QED BY <1>1, <1>2, PTL

=============================================================================
