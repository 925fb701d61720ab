--------------------------- MODULE MCMediaCodecNode ---------------------------
(* MediaCodecNode for TLC: neither buffers nor windows are distinguished.   *)
EXTENDS MediaCodecNode, TLC

Symmetry == Permutations(Buffers) \cup Permutations(Windows)

\* What neither a step nor an invariant looks at: a label but where seeks may be skipped; which
\* of late and lost it was; first but where it is waited for; and once the stream is closed,
\* what only a seek, a packet or a further call would have changed.
Seen(p) == IF p = None \/ ExactSeeks THEN p ELSE <<p.buf, p.of>>

View ==
    <<IF aborted
      THEN <<app = "pipeline", serial = pktSerial, reader = "flushing", calls < MaxCalls>>
      ELSE <<app, serial, reader, queue, seekReq, late \/ lost, calls, reconfReq,
             first /\ feeder \in {"changed", "first"}>>,
      aborted, wanted, window, need, overlap, voutCodec,
      feeder, packet, pktSerial, target, recreate, pending, flushed, revived,
      flushReq, lock, started, codecWindow, inside, fed, lent,
      drain, Seen(frame), failed, [i \in DOMAIN pictq |-> Seen(pictq[i])]>>

\* Liveness is checked without symmetry; which window comes first makes no difference.
LiveInit == window = (CHOOSE w \in Windows : TRUE) /\ Init
LiveSpec == LiveInit /\ [][Next]_vars /\ Fairness
=============================================================================
