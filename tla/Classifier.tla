----------------------------- MODULE Classifier -----------------------------
(***************************************************************************)
(* The packets of one classifier_mac component.  Its worker receives a     *)
(* burst, looks each packet up in the MAC tables of the area in force,     *)
(* and collects packets per tx port; the main thread replaces the area.    *)
(* SppVf models how commands lead to an update and to the component's      *)
(* start and stop; here an update comes with any registered configuration. *)
(*                                                                         *)
(* Tx indices count from 1, and 0 stands for the code's -1.  A packet is   *)
(* an mbuf, numbered as it is received, with the header it has after the   *)
(* rx port's VLAN operations; rx and tx bursts are atomic.                 *)
(***************************************************************************)
EXTENDS Integers, FiniteSets, SequencesExt

CONSTANTS
    Port,           \* tx ports
    TaggingPort,    \* those added with add_vlantag ...
    TagVid,         \* ... and the VLAN id they set
    Vid, Untagged,  \* VLAN ids, with VLAN_UNTAGGED_VID
    Mac, Multicast, \* destination addresses, and the group addresses of them
    DefaultMac,     \* SPP_DEFAULT_CLASSIFIED_DMY_ADDR, the "default" entry
    NoMac,          \* class_id.mac_addr of a port without an entry
    NoTable,        \* mac_classifications[vid] when it is NULL
    Config,         \* the registered configurations an update may come with
    BurstSize,      \* MAX_PKT_BURST
    Faults,         \* {"table"}: a MAC table may fail to be made or filled
    MaxTx,          \* bound: tx ports of a configuration (RTE_MAX_ETHPORTS)
    MaxPacket,      \* bound: packets that arrive
    MaxCommand      \* bound: updates and stops

Entry  == [port : Port, vid : Vid, mac : Mac \cup {DefaultMac, NoMac}]
Header == [vid : Vid, mac : Mac]
Index  == 1 .. MaxTx
Packet == 1 .. MaxPacket
Area   == 0 .. 1

(* struct mac_classification: a tx index for each address, the indices of a *)
(* VLAN, and the default.                                                   *)
Table  == [tab : [Mac -> Index \cup {0}], active : Seq(Index),
           default : Index \cup {0}]

ASSUME VidAssumption == Untagged \in Vid /\ TagVid \in Vid
ASSUME MacAssumption ==
    /\ Mac # {} /\ Multicast \subseteq Mac
    /\ DefaultMac \notin Mac /\ NoMac \notin Mac /\ DefaultMac # NoMac
ASSUME PortAssumption == TaggingPort \subseteq Port
ASSUME TableAssumption == NoTable \notin Table
ASSUME BoundAssumption ==
    /\ BurstSize \in Nat \ {0} /\ MaxTx \in Nat \ {0}
    /\ MaxPacket \in Nat /\ MaxCommand \in Nat
    /\ Faults \subseteq {"table"}
ASSUME ConfigAssumption ==
    \A c \in Config :
        /\ c.rx \in BOOLEAN /\ c.tx \in Seq(Entry) /\ Len(c.tx) <= MaxTx
        /\ IsInjective([i \in DOMAIN c.tx |-> c.tx[i].port])

VARIABLES
    area,       \* management_info.cmp_infos[]
    ref, upd,   \* management_info.ref_index and upd_index
    buf,        \* classified_data_tx[].pkts of each area
    running,    \* the component is in its worker's list
    mpc, ncmd,  \* main: where it is, and how many commands it took
    wpc, burst, \* worker: where it is, and rx_pkts still to be classified
    received,   \* how many packets have arrived
    hdr, vid,   \* each packet's header as received, its VLAN id by now
    refcnt,     \* reference count of each mbuf
    out,        \* what each port has sent ...
    refused,    \* ... and the packets its driver did not take
    spoiled     \* an area filled over the remains of a failed fill was used

mainVars   == <<mpc, ncmd, running>>
workerVars == <<wpc, burst, received, hdr>>
pktVars    == <<buf, refcnt, vid, out, refused>>
vars == <<area, ref, upd, mainVars, workerVars, pktVars, spoiled>>

-----------------------------------------------------------------------------
(* The area of a configuration: init_component_info.                        *)

EmptyTable == [tab |-> [m \in Mac |-> 0], active |-> <<>>, default |-> 0]

(* uninit_component_info.  "config" and "remains" are for the properties:   *)
(* what the area was filled from, and whether a failed fill is left in it.  *)
EmptyArea == [rx |-> FALSE, n |-> 0, port |-> <<>>, entry |-> FALSE,
              cls |-> [v \in Vid |-> NoTable],
              config |-> [rx |-> FALSE, tx |-> <<>>], remains |-> FALSE]
EmptyBuffers == [i \in Index |-> <<>>]

TableOf(a, v) == IF a.cls[v] = NoTable THEN EmptyTable ELSE a.cls[v]

Activated(a, i, e) ==
    [a EXCEPT !.entry = TRUE,
              !.cls[e.vid] = [TableOf(a, e.vid) EXCEPT
                                 !.active = Append(@, i)]]

(* One turn of the loop over the tx ports.  A later port with the same      *)
(* class replaces the earlier one in the table.                             *)
WithEntry(a, i, e) ==
    LET b == Activated(a, i, e) IN
    CASE e.mac = NoMac      -> a
      [] e.mac = DefaultMac -> [b EXCEPT !.cls[e.vid].default = i]
      [] OTHER              -> [b EXCEPT !.cls[e.vid].tab[e.mac] = i]

WithEntries(a, c, n) ==
    LET filled[i \in 0 .. n] ==
            IF i = 0 THEN a ELSE WithEntry(filled[i - 1], i, c.tx[i])
    IN  filled[n]

(* The ports are set one by one, over those a failed fill left.             *)
WithPorts(a, c, n) ==
    [a EXCEPT !.rx = c.rx, !.n = Len(c.tx), !.entry = FALSE, !.config = c,
              !.port = [i \in 1 .. n |-> c.tx[i].port]
                          \o SubSeq(@, n + 1, Len(@))]

Filled(a, c) == WithEntries(WithPorts(a, c, Len(c.tx)), c, Len(c.tx))

(* What was filled when the entry of tx port n fails.                       *)
FilledUpTo(a, c, n) ==
    [WithEntries(WithPorts(a, c, n), c, n - 1) EXCEPT !.remains = TRUE]

-----------------------------------------------------------------------------
(* Where a packet goes: select_classified_index, and                        *)
(* handle_l2multicast_packet for a group address that is not in the table.  *)

GeneralDefault(a) == TableOf(a, Untagged).default

DefaultOfVlan(a, v) == TableOf(a, v).default

(* A table of a VLAN without a default entry falls back to the untagged's.  *)
DefaultIndex(a, v) ==
    IF TableOf(a, v).default # 0 THEN TableOf(a, v).default
                                 ELSE GeneralDefault(a)

(* A table that was made has an active port.                                *)
Flooded(a, h) ==
    LET t == TableOf(a, h.vid) IN
    h.mac \in Multicast /\ t.tab[h.mac] = 0 /\ t.active # <<>>

OneIndex(i) == IF i = 0 THEN <<>> ELSE <<i>>

AlsoGeneral(a, h) == IF h.vid = Untagged THEN 0 ELSE GeneralDefault(a)

(* The tx indices a packet is pushed to, in order; none, and it is freed.   *)
Targets(a, h) ==
    LET t == TableOf(a, h.vid) IN
    IF Flooded(a, h)         THEN t.active \o OneIndex(AlsoGeneral(a, h))
    ELSE IF t.tab[h.mac] # 0 THEN <<t.tab[h.mac]>>
    ELSE OneIndex(DefaultIndex(a, h.vid))

(* What rte_mbuf_refcnt_update adds before the packet is pushed.            *)
ExtraRefs(a, h) ==
    IF Flooded(a, h)
    THEN Len(TableOf(a, h.vid).active) + Len(OneIndex(AlsoGeneral(a, h))) - 1
    ELSE 0

-----------------------------------------------------------------------------
(* Buffers and bursts.  A state of the packets is a record of pktVars.      *)

Packets == [buf |-> buf, refcnt |-> refcnt, vid |-> vid, out |-> out,
            refused |-> refused]

PacketsBecome(s) ==
    /\ buf' = s.buf
    /\ refcnt' = s.refcnt
    /\ vid' = s.vid
    /\ out' = s.out
    /\ refused' = s.refused

BufferKept(b) == b
BufferAfter(b) == <<>>

SentVid(q, v) == IF q \in TaggingPort THEN TagVid ELSE v

(* transmit_packet with spp_eth_tx_burst: the tag of the port is written to *)
(* the mbufs, the driver takes the first room[q] of them and the others are *)
(* freed, so that this buffer's reference to each is gone.                  *)
Transmit(s, k, i, room) ==
    LET q == area[k].port[i]
        b == s.buf[k][i]
        n == IF room[q] < Len(b) THEN room[q] ELSE Len(b)
        Vlan(p) == IF p \in ToSet(b) THEN SentVid(q, s.vid[p]) ELSE s.vid[p]
    IN  [buf    |-> [s.buf EXCEPT ![k][i] = BufferAfter(b)],
         refcnt |-> [p \in Packet |-> s.refcnt[p]
                        - Cardinality({j \in DOMAIN b : b[j] = p})],
         vid    |-> [p \in Packet |-> Vlan(p)],
         out    |-> [s.out EXCEPT ![q] = @ \o
                        [j \in 1 .. n |-> [pkt |-> b[j], vid |-> Vlan(b[j])]]],
         refused |-> [s.refused EXCEPT ![q] =
                        @ \cup {b[j] : j \in n + 1 .. Len(b)}]]

LastTxMissed(k) == IF area[k].n = 0 THEN 0 ELSE area[k].n - 1
LastTx(k) == area[k].n

TransmitIfAny(s, k, i, room) ==
    IF s.buf[k][i] = <<>> THEN s ELSE Transmit(s, k, i, room)

(* transmit_all_packet, port by port.                                       *)
TransmitAll(s, k, room) ==
    LET sent[i \in 0 .. LastTx(k)] ==
            IF i = 0 THEN s ELSE TransmitIfAny(sent[i - 1], k, i, room)
    IN  sent[LastTx(k)]

FullTooLate(b) == Len(b) > BurstSize
Full(b) == Len(b) = BurstSize

(* push_packet *)
Push(s, k, i, p, room) ==
    LET t == [s EXCEPT !.buf[k][i] = Append(@, p)] IN
    IF Full(t.buf[k][i]) THEN Transmit(t, k, i, room) ELSE t

(* The packet is pushed to one tx index after the other.                    *)
PushAll(s, k, t, p, room) ==
    LET pushed[j \in 0 .. Len(t)] ==
            IF j = 0 THEN s ELSE Push(pushed[j - 1], k, t[j], p, room)
    IN  pushed[Len(t)]

Classified(s, k, p, room) ==
    LET h == hdr[p]
        t == Targets(area[k], h)
        n == IF t = <<>> THEN -1 ELSE ExtraRefs(area[k], h)
    IN  PushAll([s EXCEPT !.refcnt[p] = @ + n], k, t, p, room)

(* How many packets each driver takes at the moment.                        *)
Room == [Port -> 0 .. BurstSize]

-----------------------------------------------------------------------------
(* The worker: spp_classifier_mac_do.                                       *)

Runnable(a) == a.rx /\ a.n >= 1 /\ a.entry

NothingSent(s, k, room) == s

(* What change_classifier_index does with the packets of the area it leaves.*)
Drained(s, k, room) == TransmitAll(s, k, room)

Enter ==
    LET flip == ref = upd
        r    == IF flip THEN 1 - upd ELSE ref
    IN  /\ running
        /\ wpc = "top"
        /\ IF flip THEN \E room \in Room :
                           PacketsBecome(Drained(Packets, ref, room))
                   ELSE UNCHANGED pktVars
        /\ ref' = r
        /\ spoiled' = (spoiled \/ area[r].remains)
        /\ wpc' = IF Runnable(area[r]) THEN "drain" ELSE "top"
        /\ UNCHANGED <<area, upd, mainVars, burst, received, hdr>>

(* prev_tsc is a local variable that starts at 0: every call drains.        *)
Drain ==
    /\ wpc = "drain"
    /\ \E room \in Room : PacketsBecome(TransmitAll(Packets, ref, room))
    /\ wpc' = "receive"
    /\ UNCHANGED <<area, ref, upd, mainVars, burst, received, hdr, spoiled>>

Receive ==
    /\ wpc = "receive"
    /\ \E last \in received .. received + BurstSize :
          /\ last <= MaxPacket
          /\ \E h \in [received + 1 .. last -> Header] :
                /\ hdr' = [p \in Packet |-> IF p \in DOMAIN h THEN h[p]
                                            ELSE hdr[p]]
                /\ vid' = [p \in Packet |-> IF p \in DOMAIN h THEN h[p].vid
                                            ELSE vid[p]]
                /\ refcnt' = [p \in Packet |-> IF p \in DOMAIN h THEN 1
                                               ELSE refcnt[p]]
          /\ burst' = [i \in 1 .. last - received |-> received + i]
          /\ received' = last
          /\ wpc' = IF last = received THEN "top" ELSE "classify"
    /\ UNCHANGED <<area, ref, upd, mainVars, buf, out, refused, spoiled>>

(* One turn of classify_packet.                                             *)
Classify ==
    /\ wpc = "classify"
    /\ \E room \in Room :
          PacketsBecome(Classified(Packets, ref, Head(burst), room))
    /\ burst' = Tail(burst)
    /\ wpc' = IF Len(burst) = 1 THEN "top" ELSE "classify"
    /\ UNCHANGED <<area, ref, upd, mainVars, received, hdr, spoiled>>

Worker == Enter \/ Drain \/ Receive \/ Classify

-----------------------------------------------------------------------------
(* The main thread: spp_classifier_mac_update.                              *)

Command ==
    /\ mpc = "command"
    /\ ncmd < MaxCommand
    /\ ncmd' = ncmd + 1

(* num_pkt of the ports that are set is zeroed.                             *)
Cleared(b, n) == [i \in Index |-> IF i <= n THEN <<>> ELSE b[i]]

Fill(c) ==
    /\ running
    /\ Command
    /\ area' = [area EXCEPT ![upd] = Filled(@, c)]
    /\ buf' = [buf EXCEPT ![upd] = Cleared(@, Len(c.tx))]
    /\ mpc' = "request"
    /\ UNCHANGED <<ref, upd, running, workerVars, refcnt, vid, out, refused,
                   spoiled>>

(* The update is given up; what was filled stays in the area.               *)
FillFails(c, n) ==
    LET a == FilledUpTo(area[upd], c, n)
        e == c.tx[n]
    IN  /\ "table" \in Faults
        /\ running
        /\ Command
        /\ \/ e.mac # NoMac /\ a.cls[e.vid] = NoTable
              /\ area' = [area EXCEPT ![upd] = a]
           \/ e.mac \in Mac
              /\ area' = [area EXCEPT ![upd] = Activated(a, n, e)]
        /\ buf' = [buf EXCEPT ![upd] = Cleared(@, n)]
        /\ UNCHANGED <<ref, upd, running, mpc, workerVars, refcnt, vid, out,
                       refused, spoiled>>

Request ==
    /\ mpc = "request"
    /\ upd' = ref
    /\ mpc' = "wait"
    /\ UNCHANGED <<area, ref, ncmd, running, workerVars, pktVars, spoiled>>

Switched == ref # upd

Uninit ==
    /\ mpc = "wait"
    /\ Switched
    /\ area' = [area EXCEPT ![upd] = EmptyArea]
    /\ buf' = [buf EXCEPT ![upd] = EmptyBuffers]
    /\ mpc' = "command"
    /\ UNCHANGED <<ref, upd, ncmd, running, workerVars, refcnt, vid, out, refused,
                   spoiled>>

(* flush_core takes the stopped component from its worker between two       *)
(* calls.  Its buffers keep their packets.                                  *)
Stop ==
    /\ running
    /\ wpc = "top"
    /\ Command
    /\ running' = FALSE
    /\ UNCHANGED <<area, ref, upd, mpc, workerVars, pktVars, spoiled>>

(* A classifier is started in the slot.                                     *)
Start ==
    /\ ~running
    /\ running' = TRUE
    /\ UNCHANGED <<area, ref, upd, mpc, ncmd, workerVars, pktVars, spoiled>>

Main ==
    \/ \E c \in Config :
          Fill(c) \/ \E n \in DOMAIN c.tx : FillFails(c, n)
    \/ Request
    \/ Uninit
    \/ Stop
    \/ Start

(* spp_classifier_mac_init, and the component is not started yet.           *)
Init ==
    /\ area = [k \in Area |-> EmptyArea]
    /\ ref = 0
    /\ upd = 0
    /\ buf = [k \in Area |-> EmptyBuffers]
    /\ running = FALSE
    /\ mpc = "command"
    /\ ncmd = 0
    /\ wpc = "top"
    /\ burst = <<>>
    /\ received = 0
    /\ hdr = [p \in Packet |->
                 [vid |-> Untagged, mac |-> CHOOSE m \in Mac : TRUE]]
    /\ vid = [p \in Packet |-> Untagged]
    /\ refcnt = [p \in Packet |-> 0]
    /\ out = [q \in Port |-> <<>>]
    /\ refused = [q \in Port |-> {}]
    /\ spoiled = FALSE

Next == Worker \/ Main

Spec == Init /\ [][Next]_vars

(* Weak fairness of Worker, and of Request and Uninit, with the conditions  *)
(* under which they can step written out: the worker calls a component that *)
(* runs for ever, and main's wait ends when it may.  Commands need not come.*)
WorkerRuns  == []<>(~running) \/ []<><<workerVars' # workerVars>>_vars
UpdateGoesOn == mpc = "request" \/ (mpc = "wait" /\ Switched)
MainGoesOn  == []<>(~UpdateGoesOn) \/ []<><<mpc' # mpc>>_vars

FairSpec == Spec /\ WorkerRuns /\ MainGoesOn

-----------------------------------------------------------------------------
(* Properties.  They are about histories in which no area that was filled   *)
(* over the remains of a failed fill came into force.                       *)

(* Every variable has the type its C declaration and use give it, and no    *)
(* buffer is left full.                                                     *)
TypeOK ==
    /\ ref \in Area /\ upd \in Area
    /\ \A k \in Area, i \in Index :
          buf[k][i] \in Seq(Packet) /\ Len(buf[k][i]) < BurstSize
    /\ mpc \in {"command", "request", "wait"}
    /\ wpc \in {"top", "drain", "receive", "classify"}
    /\ hdr \in [Packet -> Header]
    /\ vid \in [Packet -> Vid]
    /\ \A k \in Area : area[k].n <= MaxTx

(* Where the references to a packet are.                                    *)
Held(p) == {x \in Area \X Index \X (1 .. BurstSize) :
                /\ x[3] \in DOMAIN buf[x[1]][x[2]]
                /\ buf[x[1]][x[2]][x[3]] = p}
Waiting(p) == IF p \in ToSet(burst) THEN 1 ELSE 0

(* No mbuf is lost and none is freed while it is still to be sent: the      *)
(* reference count of a packet is always the number of buffers that hold    *)
(* it, through floods to several ports, full buffers, refused bursts,       *)
(* switches of the area and restarts.                                       *)
Conserved ==
    ~spoiled => \A p \in Packet : refcnt[p] = Cardinality(Held(p)) + Waiting(p)

(* Each port sends packets in the order they came, and none twice.          *)
InOrder ==
    ~spoiled => \A q \in Port : \A i, j \in DOMAIN out[q] :
                   i < j => out[q][i].pkt < out[q][j].pkt

(* A received packet leaves the classifier, sent or freed, as long as the   *)
(* component is not stopped.                                                *)
Leaves ==
    \A p \in Packet :
        refcnt[p] > 0 ~> refcnt[p] = 0 \/ ~running \/ spoiled

(* A port sends packets with the VLAN tag that was configured for it: those *)
(* of a port without add_vlantag leave as they were received.               *)
TagOfThePort ==
    \A q \in Port : \A i \in DOMAIN out[q] :
        out[q][i].vid = SentVid(q, hdr[out[q][i].pkt].vid)

-----------------------------------------------------------------------------
(* The ports a packet belongs to, from the registered configuration alone:  *)
(* the port of its address, or else for a group address all ports of its    *)
(* VLAN and the untagged default, or else the default of its VLAN, or else  *)
(* the untagged default.  Of two ports with one class the last counts.      *)
Class(c, v, m) == {i \in DOMAIN c.tx : c.tx[i].vid = v /\ c.tx[i].mac = m}
LastOf(S) == {i \in S : \A j \in S : j <= i}
Listed(c, v) == {i \in DOMAIN c.tx : c.tx[i].vid = v /\ c.tx[i].mac # NoMac}

Belongs(c, h) ==
    LET default == LastOf(Class(c, Untagged, DefaultMac))
        choices == << LastOf(Class(c, h.vid, h.mac)),
                      IF h.mac \in Multicast /\ Listed(c, h.vid) # {}
                      THEN Listed(c, h.vid) \cup default ELSE {},
                      LastOf(Class(c, h.vid, DefaultMac)),
                      default >>
        first   == {n \in 1 .. 4 : /\ choices[n] # {}
                                   /\ \A m \in 1 .. n - 1 : choices[m] = {}}
    IN  {c.tx[i].port : i \in UNION {choices[n] : n \in first}}

PortsHolding(p) ==
    {area[x[1]].port[x[2]] :
        x \in {y \in Area \X Index : p \in ToSet(buf[y[1]][y[2]])}}

ToDo(p) == IF p \in ToSet(burst) THEN Belongs(area[ref].config, hdr[p])
                                 ELSE PortsHolding(p)

(* What is still to be done for a packet is where it belongs while it waits *)
(* in rx_pkts, and then the ports whose buffers hold it.                    *)
Delivered == INSTANCE Delivery WITH
    seen <- 1 .. received,
    todo <- [p \in Packet |-> IF spoiled THEN {} ELSE ToDo(p)],
    left <- [q \in Port |-> [i \in DOMAIN out[q] |-> out[q][i].pkt]]

(* classify_packet, the buffers and the switch of the area deliver packets  *)
(* as Delivery has it, and to the ports they belong to.                     *)
DeliverySpec ==
    Delivered!Init /\ [][Delivered!Next \/ spoiled']_(Delivered!vars)
=============================================================================
