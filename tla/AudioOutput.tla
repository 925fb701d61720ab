----------------------------- MODULE AudioOutput -----------------------------
(* The thread that feeds an AudioTrack (ijksdl_aout_android_audiotrack.c),  *)
(* the callback in which it takes samples, and the decoder behind it        *)
(* (ff_ffplay.c), while other threads pause, resume, seek and close.        *)
(* A seek makes everything "old" that was "new"; serials are compared by    *)
(* behind alone.  The AudioTrack is external.                               *)
EXTENDS Naturals, Sequences

CONSTANTS
    SampqSize,   \* frames of sampq
    TrackFails   \* whether a new AudioTrack may be refused

ASSUME AudioAssumption == SampqSize \in Nat \ {0} /\ TrackFails \in BOOLEAN

VARIABLES
    pause_on, need_flush, abort_request,  \* SDL_Aout_Opaque
    at, buffer,          \* aout_thread: where it is, the pieces of its buffer
    track, inTrack,      \* the AudioTrack, and what was written to it
    silent, audio_buf,   \* is->paused, step or no picture yet; the frame in use
    behind,              \* auddec.pkt_serial is not audioq.serial
    hand, sampq,         \* the decoder's frame, decoded frames
    aborted, closing,    \* audioq.abort_request, stream_component_close
    noticed, missed,     \* what the callback saw of the last seek
    crossed              \* the thread did not see a resumption

askVars == <<pause_on, need_flush, abort_request>>
trackVars == <<track, inTrack>>
decVars == <<behind, hand, sampq>>
closeVars == <<aborted, closing>>
seekGhosts == <<noticed, missed>>
vars == <<askVars, at, buffer, trackVars, silent, audio_buf, decVars, closeVars, seekGhosts, crossed>>

\* aout_open_audio_n: pause_on is set before the thread starts.
Init ==
    /\ pause_on = TRUE /\ need_flush = FALSE /\ abort_request = FALSE
    /\ at = "starting" /\ buffer = <<>> /\ track = "stopped" /\ inTrack = {}
    /\ silent \in BOOLEAN /\ audio_buf = "none"
    /\ behind = FALSE /\ hand = "none" /\ sampq = <<>>
    /\ aborted = FALSE /\ closing = "no"
    /\ noticed = FALSE /\ missed = FALSE /\ crossed = FALSE

Range(s) == {s[i] : i \in 1..Len(s)}

-----------------------------------------------------------------------------
(* The player.                                                              *)

\* Where the thread has looked at pause_on and not yet taken wakeup_mutex.
Unlocked == at \in {"renewed", "top"}

\* stream_toggle_pause_l and aout_pause_audio, outside a step.  A resumption
\* that comes where the thread is Unlocked is not seen.  A resumed stream may
\* still be silent, as it waits for its first picture.
PauseAudio(on) ==
    /\ closing = "no" /\ silent' \in {on, TRUE} /\ pause_on' = on
    /\ crossed' = (crossed \/ (pause_on /\ ~on /\ track \in {"stopped", "paused"} /\ Unlocked))
    /\ UNCHANGED <<need_flush, abort_request, at, buffer, trackVars, audio_buf, decVars, closeVars, seekGhosts>>

\* What was new is not any more.
Aged(s, as) == [i \in 1..Len(s) |-> IF s[i] \in {"new", "old"} THEN as ELSE s[i]]

\* read_thread flushes audioq, and the device itself after completion only.
Seek ==
    /\ closing = "no" /\ behind' = TRUE
    /\ \E completed \in {c \in BOOLEAN : c => pause_on /\ sampq = <<>> /\ hand = "none" /\ ~behind} :
          need_flush' = (need_flush \/ completed)
    /\ sampq' = Aged(sampq, "old") /\ hand' = (IF hand = "new" THEN "old" ELSE hand)
    /\ audio_buf' = (IF audio_buf = "new" THEN "old" ELSE audio_buf)
    /\ buffer' = Aged(buffer, "rest")
    /\ inTrack' = (IF inTrack = {} THEN {} ELSE {"old"})
    /\ noticed' = FALSE /\ missed' = FALSE
    /\ UNCHANGED <<pause_on, abort_request, at, track, silent, closeVars, crossed>>

\* Mutant of CloseDecoder: the device is closed before the decoder.
CloseDecoderLater ==
    /\ closing = "no" /\ closing' = "decoder"
    /\ UNCHANGED <<askVars, at, buffer, trackVars, silent, audio_buf, decVars, aborted, seekGhosts, crossed>>

\* stream_component_close: decoder_abort ends the decoder, and wakes who waits
\* for its frames ...
CloseDecoder ==
    /\ closing = "no" /\ closing' = "decoder" /\ aborted' = TRUE
    /\ UNCHANGED <<askVars, at, buffer, trackVars, silent, audio_buf, decVars, seekGhosts, crossed>>

\* ... aout_close_audio then asks the thread to end ...
CloseAudio ==
    /\ closing = "decoder" /\ closing' = "audio"
    /\ hand' = "none" /\ abort_request' = TRUE
    /\ UNCHANGED <<pause_on, need_flush, at, buffer, trackVars, silent, audio_buf, behind, sampq, aborted, seekGhosts, crossed>>

\* ... and joins it.
CloseEnd ==
    /\ closing = "audio" /\ at = "gone" /\ closing' = "done"
    /\ UNCHANGED <<askVars, at, buffer, trackVars, silent, audio_buf, decVars, aborted, seekGhosts, crossed>>

PlayerNext == Seek \/ \E on \in BOOLEAN : PauseAudio(on)

CloseNext == CloseAudio \/ CloseEnd

-----------------------------------------------------------------------------
(* audio_thread, the decoder.                                               *)

\* Until it takes the flush packet it still has frames from before.
Decode ==
    /\ ~aborted /\ hand = "none"
    /\ hand' = IF behind THEN "old" ELSE "new"
    /\ UNCHANGED <<askVars, at, buffer, trackVars, silent, audio_buf, behind, sampq, closeVars, seekGhosts, crossed>>

TakeFlush ==
    /\ ~aborted /\ hand = "none" /\ behind
    /\ behind' = FALSE /\ missed' = ~noticed
    /\ UNCHANGED <<askVars, at, buffer, trackVars, silent, audio_buf, hand, sampq, closeVars, noticed, crossed>>

QueueSample ==
    /\ ~aborted /\ hand # "none" /\ Len(sampq) < SampqSize
    /\ sampq' = Append(sampq, hand) /\ hand' = "none"
    /\ UNCHANGED <<askVars, at, buffer, trackVars, silent, audio_buf, behind, closeVars, seekGhosts, crossed>>

DecoderNext == Decode \/ TakeFlush \/ QueueSample

-----------------------------------------------------------------------------
(* aout_thread_n                                                            *)

\* What a recreated track may be in.
Renewed(state) == {state} \cup (IF TrackFails THEN {"none"} ELSE {})

\* A device that was resumed before the thread came up is played at once.
Begin ==
    /\ at = "starting" /\ at' = "top"
    /\ track' = IF abort_request \/ pause_on THEN track ELSE "playing"
    /\ UNCHANGED <<askVars, buffer, inTrack, silent, audio_buf, decVars, closeVars, seekGhosts, crossed>>

\* Under wakeup_mutex: a pause is seen here only.
Pause ==
    /\ at = "top" /\ ~abort_request /\ pause_on
    /\ at' = "waiting" /\ track' = IF track = "none" THEN "none" ELSE "paused"
    /\ UNCHANGED <<askVars, buffer, inTrack, silent, audio_buf, decVars, closeVars, seekGhosts, crossed>>

\* Mutant of Wake: the track is played before it is renewed.
WakeThenRenew ==
    /\ at = "waiting" /\ (abort_request \/ ~pause_on)
    /\ at' = "filling" /\ buffer' = <<>> /\ need_flush' = FALSE /\ crossed' = FALSE
    /\ inTrack' = IF need_flush THEN {} ELSE inTrack
    /\ IF need_flush THEN track' \in Renewed("stopped")
       ELSE track' = IF track = "none" \/ pause_on THEN track ELSE "playing"
    /\ UNCHANGED <<pause_on, abort_request, silent, audio_buf, decVars, closeVars, seekGhosts>>

\* The wait ends, also when the device closes, and a flush is made up for.
Wake ==
    /\ at = "waiting" /\ (abort_request \/ ~pause_on)
    /\ at' = "filling" /\ buffer' = <<>> /\ need_flush' = FALSE /\ crossed' = FALSE
    /\ inTrack' = IF need_flush THEN {} ELSE inTrack
    /\ IF need_flush THEN track' \in Renewed(IF pause_on THEN "paused" ELSE "playing")
       ELSE track' = IF track = "none" \/ abort_request THEN track ELSE "playing"
    /\ UNCHANGED <<pause_on, abort_request, silent, audio_buf, decVars, closeVars, seekGhosts>>

\* Not paused: the track keeps its state, or is renewed.
RunOn ==
    /\ at = "top" /\ ~abort_request /\ ~pause_on
    /\ at' = "filling" /\ buffer' = <<>> /\ need_flush' = FALSE
    /\ crossed' = (crossed /\ ~need_flush)
    /\ inTrack' = IF need_flush THEN {} ELSE inTrack
    /\ IF need_flush THEN track' \in Renewed("playing") ELSE UNCHANGED track
    /\ UNCHANGED <<pause_on, abort_request, silent, audio_buf, decVars, closeVars, seekGhosts>>

End ==
    /\ at = "top" /\ abort_request
    /\ at' = "gone" /\ track' = "none"
    /\ UNCHANGED <<askVars, buffer, inTrack, silent, audio_buf, decVars, closeVars, seekGhosts, crossed>>

\* sdl_audio_callback: a stream that is paused, in a step or
\* without its first picture gives silence ...
Silence ==
    /\ at = "filling" /\ audio_buf = "none" /\ silent
    /\ audio_buf' = "silence"
    /\ UNCHANGED <<askVars, at, buffer, trackVars, silent, decVars, closeVars, seekGhosts, crossed>>

\* ... or else audio_decode_frame waits for a frame, whatever is asked
\* meanwhile, and drops old ones.
FetchBegin ==
    /\ at = "filling" /\ audio_buf = "none" /\ ~silent
    /\ at' = "fetching"
    /\ UNCHANGED <<askVars, buffer, trackVars, silent, audio_buf, decVars, closeVars, seekGhosts, crossed>>

Fetch ==
    /\ at = "fetching"
    /\ \/ aborted /\ audio_buf' = "silence" /\ at' = "filling" /\ UNCHANGED sampq
       \/ /\ ~aborted /\ sampq # <<>> /\ sampq' = Tail(sampq)
          /\ IF Head(sampq) = "new" THEN audio_buf' = "new" /\ at' = "filling"
             ELSE UNCHANGED <<audio_buf, at>>
    /\ UNCHANGED <<askVars, buffer, trackVars, silent, behind, hand, closeVars, seekGhosts, crossed>>

\* Mutant of Notice: what is left of the frame is kept.
NoticeKeeping ==
    /\ at = "filling" /\ audio_buf # "none" /\ behind
    /\ at' = "returned" /\ need_flush' = TRUE /\ noticed' = TRUE
    /\ UNCHANGED <<pause_on, abort_request, buffer, trackVars, silent, audio_buf, decVars, closeVars, missed, crossed>>

\* The decoder has not come to the seek: the frame is dropped, and the device
\* to be flushed.
Notice ==
    /\ at = "filling" /\ audio_buf # "none" /\ behind
    /\ at' = "returned" /\ audio_buf' = "none" /\ need_flush' = TRUE /\ noticed' = TRUE
    /\ UNCHANGED <<pause_on, abort_request, buffer, trackVars, silent, decVars, closeVars, missed, crossed>>

\* A piece of the frame is copied; the buffer may take the start of another.
Copy ==
    /\ at = "filling" /\ audio_buf # "none" /\ ~behind
    /\ buffer' = Append(buffer, audio_buf)
    /\ \/ audio_buf' = "none" /\ Len(buffer') < 2 /\ UNCHANGED at
       \/ audio_buf' \in {"none", audio_buf} /\ at' = "returned"
    /\ UNCHANGED <<askVars, trackVars, silent, decVars, closeVars, seekGhosts, crossed>>

\* A flush asked for meanwhile, now without wakeup_mutex: the track is renewed
\* and then, as pause_on is at that moment, paused or played.
Renew ==
    /\ at \in {"returned", "renewed"} /\ need_flush
    /\ need_flush' = FALSE /\ inTrack' = {}
    /\ track' \in Renewed("stopped")
    /\ at' = IF at = "returned" THEN "renewing" ELSE "renewing again"
    /\ UNCHANGED <<pause_on, abort_request, buffer, silent, audio_buf, decVars, closeVars, seekGhosts, crossed>>

Apply ==
    /\ at \in {"renewing", "renewing again"}
    /\ track' = IF track = "none" THEN "none" ELSE IF pause_on THEN "paused" ELSE "playing"
    /\ crossed' = FALSE
    /\ at' = IF at = "renewing" THEN "renewed" ELSE "top"
    /\ UNCHANGED <<askVars, buffer, inTrack, silent, audio_buf, decVars, closeVars, seekGhosts>>

KeepTrack ==
    /\ at = "returned" /\ ~need_flush /\ at' = "renewed"
    /\ UNCHANGED <<askVars, buffer, trackVars, silent, audio_buf, decVars, closeVars, seekGhosts, crossed>>

\* The buffer is written, unless a flush came again.
Write ==
    /\ at = "renewed" /\ ~need_flush /\ at' = "top"
    /\ inTrack' = IF track = "none" THEN {} ELSE inTrack \cup (Range(buffer) \ {"silence"})
    /\ UNCHANGED <<askVars, buffer, track, silent, audio_buf, decVars, closeVars, seekGhosts, crossed>>

ThreadNext ==
    \/ Begin \/ Pause \/ Wake \/ RunOn \/ End
    \/ Silence \/ FetchBegin \/ Fetch \/ Notice \/ Copy
    \/ Renew \/ Apply \/ KeepTrack \/ Write

Next == PlayerNext \/ CloseDecoder \/ CloseNext \/ DecoderNext \/ ThreadNext

Spec == Init /\ [][Next]_vars

\* The thread runs, and a close goes on; a decoder may have nothing to decode.
FairSpec == Spec /\ WF_vars(ThreadNext) /\ WF_vars(CloseNext)

-----------------------------------------------------------------------------

\* What was decoded after a seek does not queue up behind what was decoded
\* before it: the device is flushed in between (except for a buffer that was
\* being filled), unless the decoder had come to the seek before the callback
\* looked (sdl_audio_callback compares the serials of decoder and queue).
OldCleared == {"old", "new"} \subseteq inTrack => missed

\* The device ends up as it was last told: paused, unless the callback waits
\* for a frame; or playing, unless it has been lost, or the resumption came
\* just after the thread had looked at pause_on (see Unlocked).
TrackFollows ==
    /\ <>[](pause_on /\ ~abort_request) => <>[](track # "playing" \/ at = "fetching")
    /\ <>[](~pause_on /\ ~abort_request) => []<>(track \in {"playing", "none"} \/ crossed)

\* The device closes, wherever its thread is.
CloseReturns == closing # "no" ~> closing = "done"

=============================================================================
