---------------------------- MODULE MCClassifier ----------------------------
(* Classifier on small instances: the configurations updates come with.     *)
EXTENDS Classifier

CONSTANTS p1, p2, untagged, tagged, m1, group

ASSUME {p1, p2} = Port /\ {untagged, tagged} = Vid
       /\ untagged = Untagged /\ {m1, group} = Mac

E(q, v, m) == [port |-> q, vid |-> v, mac |-> m]
C(tx) == [rx |-> TRUE, tx |-> tx]

(* An address and a default; the same ports at other indices, a class twice *)
(* and no default; a group address in the table; a port without an entry    *)
(* beside the default of a VLAN; nothing to receive and to send.            *)
Chosen ==
    {C(<<E(p1, untagged, m1), E(p2, untagged, DefaultMac)>>),
     C(<<E(p2, tagged, m1), E(p1, tagged, m1)>>),
     C(<<E(p1, tagged, group), E(p2, untagged, DefaultMac)>>),
     C(<<E(p1, untagged, NoMac), E(p2, tagged, DefaultMac)>>),
     [rx |-> FALSE, tx |-> <<>>]}

(* Two ports of one VLAN, one of them tags.                                 *)
Flooding == {C(<<E(p1, untagged, m1), E(p2, untagged, DefaultMac)>>)}
=============================================================================
