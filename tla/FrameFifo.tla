------------------------------ MODULE FrameFifo ------------------------------
(* What a FrameQueue promises to its two threads: frames leave in the order *)
(* in which they came, never more than Capacity of them are held, and a     *)
(* queue that keeps the last frame keeps the one that is on the screen.     *)
EXTENDS Naturals, Sequences

CONSTANTS Frames, Capacity

VARIABLES
    items,   \* the frames held, the shown one included
    keep,    \* the last frame shown stays (keep_last)
    shown    \* 1 once the first of items has been shown and is kept

vars == <<items, keep, shown>>

Init == items = <<>> /\ keep \in BOOLEAN /\ shown = 0

Put ==
    /\ Len(items) < Capacity
    /\ \E x \in Frames : items' = Append(items, x)
    /\ UNCHANGED <<keep, shown>>

\* The first frame is shown and kept.
Show ==
    /\ keep /\ shown = 0 /\ items # <<>>
    /\ shown' = 1 /\ UNCHANGED <<items, keep>>

\* The next frame is taken; with it, the one kept goes.
Take ==
    /\ keep => shown = 1
    /\ Len(items) > shown
    /\ items' = Tail(items) /\ UNCHANGED <<keep, shown>>

Next == Put \/ Show \/ Take

Spec == Init /\ [][Next]_vars
=============================================================================
