------------------------------ MODULE MsgQueue ------------------------------
(* The AVMessage list of ff_ffmsg_queue.h as operators on its contents.     *)
(* A queue is the sequence of its links, oldest first.  msg_queue_remove    *)
(* takes links out of the middle of the list; here the slot of a removed    *)
(* link is overwritten with Blank, and msg_queue_get passes over blank      *)
(* slots, so that the non-blank slots are the C list.  The abort flag is a  *)
(* parameter: a put or a remove on an aborted queue changes nothing.        *)
EXTENDS Naturals, Sequences

\* An AVMessage, reduced to what it is and its first argument.
Msg(what, arg) == [what |-> what, arg |-> arg]

Blank == Msg("BLANK", "-")

\* msg_queue_put: silently refused when the queue is aborted.
Put(q, aborted, m) == IF aborted THEN q ELSE Append(q, m)

\* msg_queue_remove: every link of that kind goes, unless aborted.
Remove(q, aborted, what) ==
    IF aborted
    THEN q
    ELSE [i \in 1..Len(q) |-> IF q[i].what = what THEN Blank ELSE q[i]]

\* msg_queue_get takes the link in slot i ...
IsFirst(q, i) ==
    /\ i \in 1..Len(q)
    /\ q[i] # Blank
    /\ \A j \in 1..(i - 1) : q[j] = Blank

\* ... and leaves these.
Rest(q, i) == SubSeq(q, i + 1, Len(q))

\* Some link of that kind is in the list.
Holds(q, what) == \E i \in 1..Len(q) : q[i].what = what
=============================================================================
