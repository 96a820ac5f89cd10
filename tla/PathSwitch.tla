----------------------------- MODULE PathSwitch -----------------------------
(***************************************************************************)
(* What the double buffers of the components promise: the main thread      *)
(* publishes a new path for a slot, and the worker that runs the slot goes *)
(* on with the old one until, between two polls, it takes the new one.  A  *)
(* path is never changed while it is used, none is published before the    *)
(* previous one was taken, and it is taken while nobody polls the slot.    *)
(***************************************************************************)
CONSTANTS Slot, Content, Reader

VARIABLES
    cur,      \* the path in force, for each slot
    next,     \* the published path that waits to be taken, else cur
    asked,    \* the slots for which one waits
    reading   \* who polls which slot with which path

vars == <<cur, next, asked, reading>>

Init ==
    /\ cur \in [Slot -> Content]
    /\ next = cur
    /\ asked = {}
    /\ reading = {}

Publish(s) ==
    /\ s \notin asked
    /\ asked' = asked \cup {s}
    /\ \E c \in Content : next' = [next EXCEPT ![s] = c]
    /\ UNCHANGED <<cur, reading>>

Idle(w) == \A r \in reading : r[1] # w

(* Taking a path and starting to poll with it is one step; a reader that    *)
(* finds nothing to do with the path does not poll.                         *)
Take(w, s) ==
    /\ Idle(w)
    /\ s \in asked
    /\ \A r \in reading : r[2] # s
    /\ asked' = asked \ {s}
    /\ cur' = [cur EXCEPT ![s] = next[s]]
    /\ reading' \in {reading, reading \cup {<<w, s, next[s]>>}}
    /\ UNCHANGED next

Poll(w, s) ==
    /\ Idle(w)
    /\ s \notin asked
    /\ reading' = reading \cup {<<w, s, cur[s]>>}
    /\ UNCHANGED <<cur, next, asked>>

Finish(r) ==
    /\ reading' = reading \ {r}
    /\ UNCHANGED <<cur, next, asked>>

Next ==
    \/ \E s \in Slot : Publish(s) \/ \E w \in Reader : Take(w, s) \/ Poll(w, s)
    \/ \E r \in reading : Finish(r)

Spec == Init /\ [][Next]_vars
=============================================================================
