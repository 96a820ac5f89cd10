------------------------------ MODULE Delivery ------------------------------
(***************************************************************************)
(* What a classifier promises for its packets: the ports a packet has to   *)
(* go to are settled when it is received, and every copy leaves through    *)
(* its port once, unless that port's driver refuses it.  Nothing else      *)
(* makes a copy disappear.                                                 *)
(***************************************************************************)
EXTENDS SequencesExt

CONSTANTS Packet, Port

VARIABLES
    seen,     \* the packets received so far
    todo,     \* the ports each packet still has to leave through
    left,     \* the packets each port has sent, in order
    refused   \* the packets each port has refused

vars == <<seen, todo, left, refused>>

Init ==
    /\ seen = {}
    /\ todo = [p \in Packet |-> {}]
    /\ left = [q \in Port |-> <<>>]
    /\ refused = [q \in Port |-> {}]

Receive ==
    /\ seen \subseteq seen'
    /\ todo' \in [Packet -> SUBSET Port]
    /\ \A p \in Packet \ (seen' \ seen) : todo'[p] = todo[p]
    /\ UNCHANGED <<left, refused>>

(* What port q sends in this step, after what it has sent before.           *)
Sent(q) == SubSeq(left'[q], Len(left[q]) + 1, Len(left'[q]))

Leave ==
    /\ \A q \in Port :
          LET done == ToSet(Sent(q)) \cup (refused'[q] \ refused[q]) IN
          /\ IsPrefix(left[q], left'[q])
          /\ IsInjective(Sent(q))
          /\ refused[q] \subseteq refused'[q]
          /\ ToSet(Sent(q)) \cap refused'[q] = {}
          /\ \A p \in Packet :
                IF p \in done THEN q \in todo[p] /\ q \notin todo'[p]
                              ELSE q \in todo[p] <=> q \in todo'[p]
    /\ UNCHANGED seen

Next == Receive \/ Leave

Spec == Init /\ [][Next]_vars
=============================================================================
