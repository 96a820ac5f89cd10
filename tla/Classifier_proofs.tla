-------------------------- MODULE Classifier_proofs ---------------------------
(***************************************************************************)
(* Proofs about Classifier for any ports, addresses, VLANs and             *)
(* configurations, any number of packets and updates, bursts of any size,  *)
(* drivers that take any part of a burst, and updates that fail.           *)
(***************************************************************************)
EXTENDS Classifier, FiniteSetTheorems, FunctionTheorems, SequenceTheorems,
        WellFoundedInduction, TLAPS

-----------------------------------------------------------------------------
(* Induction over the loops.                                                *)
LEMMA NatSetInduction ==
    ASSUME NEW S, 0 \in S, \A n \in Nat : n \in S => n + 1 \in S
    PROVE  Nat \subseteq S
<1>1. SUFFICES ASSUME Nat \ S # {} PROVE FALSE
  OBVIOUS
<1>2. PICK m \in Nat \ S : \A k \in Nat \ S : ~ (<<k, m>> \in OpToRel(<, Nat))
  BY <1>1, WFMin, NatLessThanWellFounded, Zenon
<1>3. \A k \in Nat \ S : ~ (k < m)
  BY <1>2 DEF OpToRel
<1>4. m # 0 /\ m - 1 \in Nat /\ m - 1 < m
  OBVIOUS
<1>5. m - 1 \in S
  BY <1>3, <1>4
<1> QED BY <1>4, <1>5

(* The three loops of the code, as sequences of steps each of which leads   *)
(* from one set to the next.                                                *)
LEMMA WithEntriesInduction ==
    ASSUME NEW a, NEW c, NEW n \in Nat, NEW S, a \in S[0],
           \A i \in 1 .. n : \A x \in S[i - 1] :
               WithEntry(x, i, c.tx[i]) \in S[i]
    PROVE  WithEntries(a, c, n) \in S[n]
<1> DEFINE E == {m \in Nat :
                   \E g : g = [i \in 0 .. m |-> IF i = 0 THEN a ELSE
                                  WithEntry(g[i - 1], i, c.tx[i])]}
<1>1. 0 \in E
  <2> DEFINE g == [i \in 0 .. 0 |-> a]
  <2>1. g = [i \in 0 .. 0 |-> IF i = 0 THEN a ELSE
                                  WithEntry(g[i - 1], i, c.tx[i])]
    OBVIOUS
  <2> QED BY <2>1
<1>2. ASSUME NEW m \in Nat, m \in E PROVE m + 1 \in E
  <2>1. PICK g : g = [i \in 0 .. m |-> IF i = 0 THEN a ELSE
                                  WithEntry(g[i - 1], i, c.tx[i])]
    BY <1>2
  <2> DEFINE h == [i \in 0 .. m + 1 |-> IF i = m + 1 THEN
                      WithEntry(g[m], m + 1, c.tx[m + 1]) ELSE g[i]]
  <2>2. \A i \in 0 .. m : h[i] = g[i]
    OBVIOUS
  <2>3. \A i \in 0 .. m + 1 : h[i] = IF i = 0 THEN a ELSE
                                  WithEntry(h[i - 1], i, c.tx[i])
    <3>1. ASSUME NEW i \in 0 .. m
          PROVE  h[i] = IF i = 0 THEN a ELSE WithEntry(h[i - 1], i, c.tx[i])
      <4>1. i # 0 => i - 1 \in 0 .. m
        OBVIOUS
      <4>2. h[i] = g[i] /\ (i # 0 => h[i - 1] = g[i - 1])
        BY <2>2, <4>1
      <4>3. g[i] = IF i = 0 THEN a ELSE WithEntry(g[i - 1], i, c.tx[i])
        BY <2>1
      <4> HIDE DEF h
      <4> QED BY <4>2, <4>3
    <3>2. h[m + 1] = WithEntry(h[m], m + 1, c.tx[m + 1]) /\ m + 1 # 0 /\ m + 1 - 1 = m
      BY <2>2
    <3> HIDE DEF h
    <3>3. \A i \in 0 .. m + 1 : i \in 0 .. m \/ i = m + 1
      OBVIOUS
    <3> QED BY <3>1, <3>2, <3>3
  <2>4. h = [i \in 0 .. m + 1 |-> h[i]]
    OBVIOUS
  <2> HIDE DEF h
  <2>5. h = [i \in 0 .. m + 1 |-> IF i = 0 THEN a ELSE
                                  WithEntry(h[i - 1], i, c.tx[i])]
    BY <2>3, <2>4
  <2> QED BY <2>5
<1>3. n \in E
  BY <1>1, <1>2, NatSetInduction
<1> DEFINE f == CHOOSE g : g = [i \in 0 .. n |-> IF i = 0 THEN a ELSE
                                  WithEntry(g[i - 1], i, c.tx[i])]
<1>4. f = [i \in 0 .. n |-> IF i = 0 THEN a ELSE
                                  WithEntry(f[i - 1], i, c.tx[i])]
  BY <1>3, Zenon
<1>5. WithEntries(a, c, n) = f[n]
  BY Zenon DEF WithEntries
<1> HIDE DEF f
<1> DEFINE R == {m \in Nat : m <= n => f[m] \in S[m]}
<1>6. 0 \in R
  BY <1>4
<1>7. ASSUME NEW m \in Nat, m \in R, m + 1 <= n
      PROVE  f[m + 1] \in S[m + 1]
  <2>1. f[m + 1] = WithEntry(f[m], m + 1, c.tx[m + 1])
    BY <1>4, <1>7
  <2>2. m + 1 \in 1 .. n /\ m + 1 - 1 = m /\ f[m] \in S[m]
    BY <1>7
  <2>3. WithEntry(f[m], m + 1, c.tx[m + 1]) \in S[m + 1]
    BY <2>2
  <2> QED BY <2>1, <2>3
<1>8. \A m \in Nat : m \in R => m + 1 \in R
  BY <1>7
<1>9. n \in R
  BY <1>6, <1>8, NatSetInduction
<1> QED BY <1>5, <1>9

(* The loop of transmit_all_packet.                                         *)
LEMMA TransmitAllInduction ==
    ASSUME NEW k, NEW room, NEW s, LastTx(k) \in Nat, NEW S, s \in S[0],
           \A i \in 1 .. LastTx(k) : \A x \in S[i - 1] :
               TransmitIfAny(x, k, i, room) \in S[i]
    PROVE  TransmitAll(s, k, room) \in S[LastTx(k)]
<1> DEFINE E == {m \in Nat :
                   \E g : g = [i \in 0 .. m |-> IF i = 0 THEN s ELSE
                                  TransmitIfAny(g[i - 1], k, i, room)]}
<1>1. 0 \in E
  <2> DEFINE g == [i \in 0 .. 0 |-> s]
  <2>1. g = [i \in 0 .. 0 |-> IF i = 0 THEN s ELSE
                                  TransmitIfAny(g[i - 1], k, i, room)]
    OBVIOUS
  <2> QED BY <2>1
<1>2. ASSUME NEW m \in Nat, m \in E PROVE m + 1 \in E
  <2>1. PICK g : g = [i \in 0 .. m |-> IF i = 0 THEN s ELSE
                                  TransmitIfAny(g[i - 1], k, i, room)]
    BY <1>2
  <2> DEFINE h == [i \in 0 .. m + 1 |-> IF i = m + 1 THEN
                      TransmitIfAny(g[m], k, m + 1, room) ELSE g[i]]
  <2>2. \A i \in 0 .. m : h[i] = g[i]
    OBVIOUS
  <2>3. \A i \in 0 .. m + 1 : h[i] = IF i = 0 THEN s ELSE
                                  TransmitIfAny(h[i - 1], k, i, room)
    <3>1. ASSUME NEW i \in 0 .. m
          PROVE  h[i] = IF i = 0 THEN s ELSE TransmitIfAny(h[i - 1], k, i, room)
      <4>1. i # 0 => i - 1 \in 0 .. m
        OBVIOUS
      <4>2. h[i] = g[i] /\ (i # 0 => h[i - 1] = g[i - 1])
        BY <2>2, <4>1
      <4>3. g[i] = IF i = 0 THEN s ELSE TransmitIfAny(g[i - 1], k, i, room)
        BY <2>1
      <4> HIDE DEF h
      <4> QED BY <4>2, <4>3
    <3>2. h[m + 1] = TransmitIfAny(h[m], k, m + 1, room) /\ m + 1 # 0 /\ m + 1 - 1 = m
      BY <2>2
    <3> HIDE DEF h
    <3>3. \A i \in 0 .. m + 1 : i \in 0 .. m \/ i = m + 1
      OBVIOUS
    <3> QED BY <3>1, <3>2, <3>3
  <2>4. h = [i \in 0 .. m + 1 |-> h[i]]
    OBVIOUS
  <2> HIDE DEF h
  <2>5. h = [i \in 0 .. m + 1 |-> IF i = 0 THEN s ELSE
                                  TransmitIfAny(h[i - 1], k, i, room)]
    BY <2>3, <2>4
  <2> QED BY <2>5
<1>3. LastTx(k) \in E
  BY <1>1, <1>2, NatSetInduction
<1> DEFINE f == CHOOSE g : g = [i \in 0 .. LastTx(k) |-> IF i = 0 THEN s ELSE
                                  TransmitIfAny(g[i - 1], k, i, room)]
<1>4. f = [i \in 0 .. LastTx(k) |-> IF i = 0 THEN s ELSE
                                  TransmitIfAny(f[i - 1], k, i, room)]
  BY <1>3, Zenon
<1>5. TransmitAll(s, k, room) = f[LastTx(k)]
  BY Zenon DEF TransmitAll
<1> HIDE DEF f
<1> DEFINE R == {m \in Nat : m <= LastTx(k) => f[m] \in S[m]}
<1>6. 0 \in R
  BY <1>4
<1>7. ASSUME NEW m \in Nat, m \in R, m + 1 <= LastTx(k)
      PROVE  f[m + 1] \in S[m + 1]
  <2>1. f[m + 1] = TransmitIfAny(f[m], k, m + 1, room)
    BY <1>4, <1>7
  <2>2. m + 1 \in 1 .. LastTx(k) /\ m + 1 - 1 = m /\ f[m] \in S[m]
    BY <1>7
  <2>3. TransmitIfAny(f[m], k, m + 1, room) \in S[m + 1]
    BY <2>2
  <2> QED BY <2>1, <2>3
<1>8. \A m \in Nat : m \in R => m + 1 \in R
  BY <1>7
<1>9. LastTx(k) \in R
  BY <1>6, <1>8, NatSetInduction
<1> QED BY <1>5, <1>9

(* The loop over the tx indices of one packet.                              *)
LEMMA PushAllInduction ==
    ASSUME NEW s, NEW k, NEW t, NEW p, NEW room, Len(t) \in Nat, NEW S,
           s \in S[0],
           \A j \in 1 .. Len(t) : \A x \in S[j - 1] :
               Push(x, k, t[j], p, room) \in S[j]
    PROVE  PushAll(s, k, t, p, room) \in S[Len(t)]
<1> DEFINE E == {m \in Nat :
                   \E g : g = [i \in 0 .. m |-> IF i = 0 THEN s ELSE
                                  Push(g[i - 1], k, t[i], p, room)]}
<1>1. 0 \in E
  <2> DEFINE g == [i \in 0 .. 0 |-> s]
  <2>1. g = [i \in 0 .. 0 |-> IF i = 0 THEN s ELSE
                                  Push(g[i - 1], k, t[i], p, room)]
    OBVIOUS
  <2> QED BY <2>1
<1>2. ASSUME NEW m \in Nat, m \in E PROVE m + 1 \in E
  <2>1. PICK g : g = [i \in 0 .. m |-> IF i = 0 THEN s ELSE
                                  Push(g[i - 1], k, t[i], p, room)]
    BY <1>2
  <2> DEFINE h == [i \in 0 .. m + 1 |-> IF i = m + 1 THEN
                      Push(g[m], k, t[m + 1], p, room) ELSE g[i]]
  <2>2. \A i \in 0 .. m : h[i] = g[i]
    OBVIOUS
  <2>3. \A i \in 0 .. m + 1 : h[i] = IF i = 0 THEN s ELSE
                                  Push(h[i - 1], k, t[i], p, room)
    <3>1. ASSUME NEW i \in 0 .. m
          PROVE  h[i] = IF i = 0 THEN s ELSE Push(h[i - 1], k, t[i], p, room)
      <4>1. i # 0 => i - 1 \in 0 .. m
        OBVIOUS
      <4>2. h[i] = g[i] /\ (i # 0 => h[i - 1] = g[i - 1])
        BY <2>2, <4>1
      <4>3. g[i] = IF i = 0 THEN s ELSE Push(g[i - 1], k, t[i], p, room)
        BY <2>1
      <4> HIDE DEF h
      <4> QED BY <4>2, <4>3
    <3>2. h[m + 1] = Push(h[m], k, t[m + 1], p, room) /\ m + 1 # 0 /\ m + 1 - 1 = m
      BY <2>2
    <3> HIDE DEF h
    <3>3. \A i \in 0 .. m + 1 : i \in 0 .. m \/ i = m + 1
      OBVIOUS
    <3> QED BY <3>1, <3>2, <3>3
  <2>4. h = [i \in 0 .. m + 1 |-> h[i]]
    OBVIOUS
  <2> HIDE DEF h
  <2>5. h = [i \in 0 .. m + 1 |-> IF i = 0 THEN s ELSE
                                  Push(h[i - 1], k, t[i], p, room)]
    BY <2>3, <2>4
  <2> QED BY <2>5
<1>3. Len(t) \in E
  BY <1>1, <1>2, NatSetInduction
<1> DEFINE f == CHOOSE g : g = [i \in 0 .. Len(t) |-> IF i = 0 THEN s ELSE
                                  Push(g[i - 1], k, t[i], p, room)]
<1>4. f = [i \in 0 .. Len(t) |-> IF i = 0 THEN s ELSE
                                  Push(f[i - 1], k, t[i], p, room)]
  BY <1>3, Zenon
<1>5. PushAll(s, k, t, p, room) = f[Len(t)]
  BY Zenon DEF PushAll
<1> HIDE DEF f
<1> DEFINE R == {m \in Nat : m <= Len(t) => f[m] \in S[m]}
<1>6. 0 \in R
  BY <1>4
<1>7. ASSUME NEW m \in Nat, m \in R, m + 1 <= Len(t)
      PROVE  f[m + 1] \in S[m + 1]
  <2>1. f[m + 1] = Push(f[m], k, t[m + 1], p, room)
    BY <1>4, <1>7
  <2>2. m + 1 \in 1 .. Len(t) /\ m + 1 - 1 = m /\ f[m] \in S[m]
    BY <1>7
  <2>3. Push(f[m], k, t[m + 1], p, room) \in S[m + 1]
    BY <2>2
  <2> QED BY <2>1, <2>3
<1>8. \A m \in Nat : m \in R => m + 1 \in R
  BY <1>7
<1>9. Len(t) \in R
  BY <1>6, <1>8, NatSetInduction
<1> QED BY <1>5, <1>9
-----------------------------------------------------------------------------
(* Types.                                                                   *)
NoConfig == [rx |-> FALSE, tx |-> <<>>]

AreaRecord ==
    [rx : BOOLEAN, n : 0 .. MaxTx, port : Seq(Port), entry : BOOLEAN,
     cls : [Vid -> Table \cup {NoTable}], config : Config \cup {NoConfig},
     remains : BOOLEAN]

Copy == [pkt : Packet, vid : Vid]
Buffers == [Area -> [Index -> Seq(Packet)]]

PacketRecord ==
    [buf : Buffers, refcnt : [Packet -> Int], vid : [Packet -> Vid],
     out : [Port -> Seq(Copy)], refused : [Port -> SUBSET Packet]]
PacketState ==
    {s \in PacketRecord :
        \A k \in Area, i \in Index : Len(s.buf[k][i]) < BurstSize}

TypeInv ==
    /\ area \in [Area -> AreaRecord] /\ ref \in Area /\ upd \in Area
    /\ running \in BOOLEAN /\ ncmd \in Nat /\ spoiled \in BOOLEAN
    /\ mpc \in {"command", "request", "wait"}
    /\ wpc \in {"top", "drain", "receive", "classify"}
    /\ received \in 0 .. MaxPacket
    /\ burst \in Seq(Packet)
    /\ wpc = "classify" <=> burst # <<>>
    /\ hdr \in [Packet -> Header]
    /\ Packets \in PacketState

-----------------------------------------------------------------------------
(* The tables of an area that was filled from its configuration alone.      *)

(* i is the last element of S, or there is none.                            *)
IsLast(i, S) == \/ i = 0 /\ S = {}
                \/ i \in S /\ \A j \in S : j <= i

(* The first n tx ports of a configuration by class, and those with any.    *)
ClassTo(c, n, v, m) == {i \in 1 .. n : c.tx[i].vid = v /\ c.tx[i].mac = m}
ListedTo(c, n, v) == {i \in 1 .. n : c.tx[i].vid = v /\ c.tx[i].mac # NoMac}

Ascending(s) == \A i, j \in DOMAIN s : i < j => s[i] < s[j]

TablesOf(a, c, n) ==
    \A v \in Vid :
        /\ \A m \in Mac : IsLast(TableOf(a, v).tab[m], ClassTo(c, n, v, m))
        /\ IsLast(TableOf(a, v).default, ClassTo(c, n, v, DefaultMac))
        /\ Ascending(TableOf(a, v).active)
        /\ ToSet(TableOf(a, v).active) = ListedTo(c, n, v)

Whole(a) ==
    /\ a.n = Len(a.config.tx)
    /\ Len(a.port) = a.n
    /\ \A i \in 1 .. a.n : a.port[i] = a.config.tx[i].port
    /\ TablesOf(a, a.config, a.n)

(* What is not filled over the remains of a failed fill is right, and main  *)
(* starts to fill an area that is empty.                                    *)
AreaInv ==
    /\ \A k \in Area : ~area[k].remains => Whole(area[k])
    /\ mpc = "command" /\ ~area[upd].remains => area[upd] = EmptyArea

(* No worker has looked at the component, or it has switched to the other   *)
(* area; what it uses is not what main fills.                               *)
NoneBuffered == \A k \in Area, i \in Index : buf[k][i] = <<>>
Unseen == ref = upd /\ wpc = "top" /\ NoneBuffered

SwitchInv ==
    /\ ref = upd => mpc = "wait" \/ Unseen
    /\ ~spoiled /\ area[ref].remains => Unseen

-----------------------------------------------------------------------------
(* The packets.  First is the number of those that were classified; what    *)
(* is known of a state of the packets is said of the record that the        *)
(* operators on them take.                                                  *)
First == received - Len(burst)

(* Buffers are filled in the order of reception, and only those of the area *)
(* in use, whose ports are known.                                           *)
BuffersOf(s, k, m) ==
    /\ \A i \in Index : s.buf[1 - k][i] = <<>>
    /\ \A i \in Index : s.buf[k][i] # <<>> => i <= area[k].n
    /\ \A i \in Index : Ascending(s.buf[k][i])
    /\ \A i \in Index : \A j \in DOMAIN s.buf[k][i] : s.buf[k][i][j] <= m

(* What a port has sent is in order, and older than what it has to send.    *)
Left(s, q) == {s.out[q][j].pkt : j \in DOMAIN s.out[q]}

PortsOf(s, k, m) ==
    /\ \A q \in Port : \A i, j \in DOMAIN s.out[q] :
          i < j => s.out[q][i].pkt < s.out[q][j].pkt
    /\ \A q \in Port : Left(s, q) \cap s.refused[q] = {}
    /\ \A q \in Port : \A p \in Left(s, q) \cup s.refused[q] : p <= m
    /\ \A i \in 1 .. area[k].n : \A j \in DOMAIN s.buf[k][i] :
          \A p \in Left(s, area[k].port[i]) \cup s.refused[area[k].port[i]] :
              p < s.buf[k][i][j]

(* The tx indices that hold a packet, and what its reference count is apart *)
(* from them.                                                               *)
Holders(b, p) == {i \in Index : \E j \in DOMAIN b[i] : b[i][j] = p}

Counted(s, k, w) ==
    \A p \in Packet : s.refcnt[p] = Cardinality(Holders(s.buf[k], p)) + w[p]

Good(s, k, m, w) == BuffersOf(s, k, m) /\ PortsOf(s, k, m) /\ Counted(s, k, w)
Waits == [p \in Packet |-> Waiting(p)]

PacketInv ==
    ~spoiled =>
        /\ Good(Packets, ref, First, Waits)
        /\ Len(burst) <= received
        /\ \A j \in DOMAIN burst : burst[j] = First + j

ClassifierInv == TypeInv /\ AreaInv /\ SwitchInv /\ PacketInv

(* Bounds and areas.                                                        *)
LEMMA IndexFacts == /\ MaxTx \in Nat \ {0} /\ BurstSize \in Nat \ {0}
                    /\ Index = 1 .. MaxTx /\ Area = {0, 1}
  BY BoundAssumption DEF Index, Area

LEMMA EmptyTableType == EmptyTable \in Table
  BY DEF EmptyTable, Table

LEMMA TableOfType ==
    ASSUME NEW a \in AreaRecord, NEW v \in Vid PROVE TableOf(a, v) \in Table
  BY EmptyTableType DEF TableOf, AreaRecord

(* A table index is added to the active ports.                              *)
LEMMA AppendType ==
    ASSUME NEW S, NEW s \in Seq(S), NEW x \in S
    PROVE  /\ Append(s, x) \in Seq(S)
           /\ Len(Append(s, x)) = Len(s) + 1
           /\ \A i \in 1 .. Len(s) : Append(s, x)[i] = s[i]
           /\ Append(s, x)[Len(s) + 1] = x
  OBVIOUS

(* The fields of an area that its tables are not part of.                   *)
Kept(a, b) == /\ b.rx = a.rx /\ b.n = a.n /\ b.port = a.port
              /\ b.config = a.config /\ b.remains = a.remains

(* What the code does for a port with an entry, field by field.             *)
LEMMA ActivatedIs ==
    ASSUME NEW a \in AreaRecord, NEW i \in Index, NEW e \in Entry,
           NEW b, b = Activated(a, i, e), NEW t, t = TableOf(a, e.vid)
    PROVE  /\ b \in AreaRecord
           /\ Kept(a, b)
           /\ b.cls[e.vid] = [tab |-> t.tab, active |-> Append(t.active, i),
                              default |-> t.default]
           /\ b.cls[e.vid] \in Table
           /\ \A v \in Vid \ {e.vid} : b.cls[v] = a.cls[v]
<1>1. t \in Table /\ e.vid \in Vid
  BY TableOfType DEF Entry
<1> DEFINE u == [tab |-> t.tab, active |-> Append(t.active, i), default |-> t.default]
<1>2. [t EXCEPT !.active = Append(@, i)] = u
  <2>1. t = [tab |-> t.tab, active |-> t.active, default |-> t.default]
    BY <1>1 DEF Table
  <2> QED BY <2>1
<1>3. u \in Table
  <2>1. t.tab \in [Mac -> Index \cup {0}] /\ t.active \in Seq(Index)
        /\ t.default \in Index \cup {0}
    BY <1>1 DEF Table
  <2>2. Append(t.active, i) \in Seq(Index)
    BY <2>1, AppendType
  <2> QED BY <2>1, <2>2 DEF Table
<1> HIDE DEF u
<1>4. b = [a EXCEPT !.entry = TRUE, !.cls[e.vid] = u]
  BY <1>2 DEF Activated
<1>5. a.cls \in [Vid -> Table \cup {NoTable}]
  BY DEF AreaRecord
<1>6. b = [rx |-> a.rx, n |-> a.n, port |-> a.port, entry |-> TRUE,
           cls |-> [a.cls EXCEPT ![e.vid] = u], config |-> a.config, remains |-> a.remains]
  BY <1>4 DEF AreaRecord
<1>7. [a.cls EXCEPT ![e.vid] = u] \in [Vid -> Table \cup {NoTable}]
  BY <1>5, <1>3
<1>8. b \in AreaRecord
  BY <1>6, <1>7 DEF AreaRecord
<1>9. b.cls = [a.cls EXCEPT ![e.vid] = u]
  BY <1>6
<1>10. b.cls[e.vid] = u /\ \A v \in Vid \ {e.vid} : b.cls[v] = a.cls[v]
  BY <1>9, <1>5, <1>1
<1>11. b.cls[e.vid] = [tab |-> t.tab, active |-> Append(t.active, i), default |-> t.default]
  BY <1>10 DEF u
<1>12. Kept(a, b)
  BY <1>6 DEF Kept
<1> QED BY <1>3, <1>8, <1>10, <1>11, <1>12, Zenon

(* What an entry does to the area: its VLAN's table is changed.             *)
TableWith(t, i, m) ==
    [tab     |-> IF m = DefaultMac THEN t.tab ELSE [t.tab EXCEPT ![m] = i],
     active  |-> Append(t.active, i),
     default |-> IF m = DefaultMac THEN i ELSE t.default]

LEMMA WithEntryIs ==
    ASSUME NEW a \in AreaRecord, NEW i \in Index, NEW e \in Entry, e.mac # NoMac,
           NEW b, b = WithEntry(a, i, e)
    PROVE  /\ b \in AreaRecord
           /\ Kept(a, b)
           /\ TableOf(b, e.vid) = TableWith(TableOf(a, e.vid), i, e.mac)
           /\ \A v \in Vid : v # e.vid => TableOf(b, v) = TableOf(a, v)
<1>0. PICK t : t = TableOf(a, e.vid)
  OBVIOUS
<1> DEFINE w == Activated(a, i, e)
           u == [tab |-> t.tab, active |-> Append(t.active, i), default |-> t.default]
           z == [tab |-> IF e.mac = DefaultMac THEN t.tab ELSE [t.tab EXCEPT ![e.mac] = i],
                  active |-> Append(t.active, i),
                  default |-> IF e.mac = DefaultMac THEN i ELSE t.default]
<1>1. t \in Table /\ e.vid \in Vid /\ e.mac \in Mac \cup {DefaultMac}
  BY <1>0, TableOfType DEF Entry
<1>2. /\ w \in AreaRecord
      /\ Kept(a, w)
      /\ w.cls[e.vid] = u
      /\ \A v \in Vid \ {e.vid} : w.cls[v] = a.cls[v]
  BY <1>0, ActivatedIs
<1>3. z \in Table
  <2>1. CASE e.mac = DefaultMac
    BY <1>1, <2>1 DEF Table
  <2>2. CASE e.mac # DefaultMac
    <3>1. [t.tab EXCEPT ![e.mac] = i] \in [Mac -> Index \cup {0}]
      BY <1>1, <2>2 DEF Table
    <3> QED BY <1>1, <2>2, <3>1 DEF Table
  <2> QED BY <2>1, <2>2
<1>4. w.cls \in [Vid -> Table \cup {NoTable}]
  BY <1>2 DEF AreaRecord
<1>5. b = [w EXCEPT !.cls[e.vid] = z]
  <2>1. CASE e.mac = DefaultMac
    <3>1. b = [w EXCEPT !.cls[e.vid].default = i]
      BY <2>1, MacAssumption DEF WithEntry
    <3>2. [w.cls[e.vid] EXCEPT !.default = i] = z
      <4>1. w.cls[e.vid] = u
        BY <1>2
      <4>2. [u EXCEPT !.default = i] = z
        BY <2>1
      <4> QED BY <4>1, <4>2, Zenon
    <3>3. b = [w EXCEPT !.cls[e.vid] = [w.cls[e.vid] EXCEPT !.default = i]]
      BY <3>1
    <3> QED BY <3>2, <3>3, Zenon
  <2>2. CASE e.mac # DefaultMac
    <3>1. b = [w EXCEPT !.cls[e.vid].tab[e.mac] = i]
      BY <2>2 DEF WithEntry
    <3>2. [w.cls[e.vid] EXCEPT !.tab[e.mac] = i] = z
      <4>1. w.cls[e.vid] = u
        BY <1>2
      <4>2. u.tab = t.tab
        OBVIOUS
      <4>3. [u EXCEPT !.tab[e.mac] = i] = [u EXCEPT !.tab = [t.tab EXCEPT ![e.mac] = i]]
        BY <4>2
      <4>4. [u EXCEPT !.tab = [t.tab EXCEPT ![e.mac] = i]] = z
        BY <2>2
      <4> QED BY <4>1, <4>3, <4>4, Zenon
    <3>3. b = [w EXCEPT !.cls[e.vid] = [w.cls[e.vid] EXCEPT !.tab[e.mac] = i]]
      BY <3>1
    <3> QED BY <3>2, <3>3, Zenon
  <2> QED BY <2>1, <2>2
<1> HIDE DEF z, w
<1>6. b = [rx |-> w.rx, n |-> w.n, port |-> w.port, entry |-> w.entry,
           cls |-> [w.cls EXCEPT ![e.vid] = z], config |-> w.config, remains |-> w.remains]
  BY <1>5, <1>2 DEF AreaRecord
<1>7. [w.cls EXCEPT ![e.vid] = z] \in [Vid -> Table \cup {NoTable}]
  BY <1>4, <1>3
<1>8. b \in AreaRecord
  BY <1>6, <1>7, <1>2 DEF AreaRecord
<1>9. b.cls = [w.cls EXCEPT ![e.vid] = z]
  BY <1>6
<1>10. b.cls[e.vid] = z /\ \A v \in Vid \ {e.vid} : b.cls[v] = a.cls[v]
  BY <1>9, <1>4, <1>1, <1>2
<1>11. TableOf(b, e.vid) = TableWith(TableOf(a, e.vid), i, e.mac)
  <2>1. TableOf(b, e.vid) = b.cls[e.vid]
    BY <1>10, <1>3, TableAssumption, Zenon DEF TableOf
  <2>2. z = TableWith(t, i, e.mac)
    BY Zenon DEF z, TableWith
  <2> QED BY <2>1, <2>2, <1>0, <1>10, Zenon
<1>12. Kept(a, b)
  BY <1>6, <1>2 DEF Kept
<1>13. ASSUME NEW v \in Vid, v # e.vid PROVE TableOf(b, v) = TableOf(a, v)
  <2>1. b.cls[v] = a.cls[v]
    BY <1>10, <1>13
  <2> QED BY <2>1, Zenon DEF TableOf
<1> QED BY <1>8, <1>11, <1>12, <1>13, Zenon

(* What a configuration is.                                                 *)
LEMMA ConfigFacts ==
    ASSUME NEW c \in Config
    PROVE  /\ c.rx \in BOOLEAN /\ c.tx \in Seq(Entry) /\ Len(c.tx) \in 0 .. MaxTx
           /\ DOMAIN c.tx = 1 .. Len(c.tx)
           /\ \A i \in 1 .. Len(c.tx) : i \in Index /\ c.tx[i] \in Entry
<1>1. c.rx \in BOOLEAN /\ c.tx \in Seq(Entry) /\ Len(c.tx) <= MaxTx
  BY ConfigAssumption
<1>2. \A i \in 1 .. Len(c.tx) : i \in Index /\ c.tx[i] \in Entry
  BY <1>1, IndexFacts
<1> QED BY <1>1, <1>2, IndexFacts

(* What the first loop over the tx ports sets.                              *)
PortsSet(a, b, c, n) ==
    /\ b.rx = c.rx /\ b.n = Len(c.tx) /\ b.config = c
    /\ b.cls = a.cls /\ b.remains = a.remains
    /\ a.port = <<>> =>
          Len(b.port) = n /\ \A i \in 1 .. n : b.port[i] = c.tx[i].port

(* The ports are set before the tables are filled.                          *)
LEMMA WithPortsIs ==
    ASSUME NEW a \in AreaRecord, NEW c \in Config, NEW n \in 0 .. Len(c.tx),
           NEW b, b = WithPorts(a, c, n)
    PROVE  b \in AreaRecord /\ PortsSet(a, b, c, n)
<1> DEFINE f == [i \in 1 .. n |-> c.tx[i].port]
           g == SubSeq(a.port, n + 1, Len(a.port))
<1>1. a.port \in Seq(Port)
  BY DEF AreaRecord
<1>2. f \in Seq(Port) /\ Len(f) = n /\ \A i \in 1 .. n : f[i] = c.tx[i].port
  <2>1. \A i \in 1 .. n : c.tx[i].port \in Port
    BY ConfigFacts DEF Entry
  <2> QED BY <2>1
<1>3. g \in Seq(Port) /\ (a.port = <<>> => g = <<>>)
  <2>1. g \in Seq(Port)
    BY <1>1
  <2>2. ASSUME a.port = <<>> PROVE g = <<>>
    <3>1. Len(g) = 0
      BY <1>1, <2>2
    <3> QED BY <2>1, <3>1
  <2> QED BY <2>1, <2>2
<1> HIDE DEF f, g
<1>4. f \o g \in Seq(Port)
  BY <1>2, <1>3
<1>5. b = [rx |-> c.rx, n |-> Len(c.tx), port |-> f \o g, entry |-> FALSE, cls |-> a.cls,
           config |-> c, remains |-> a.remains]
  <2>1. a = [rx |-> a.rx, n |-> a.n, port |-> a.port, entry |-> a.entry, cls |-> a.cls,
             config |-> a.config, remains |-> a.remains]
    BY DEF AreaRecord
  <2>2. b = [a EXCEPT !.rx = c.rx, !.n = Len(c.tx), !.entry = FALSE, !.config = c,
                      !.port = f \o g]
    BY DEF WithPorts, f, g
  <2> QED BY <2>1, <2>2
<1>6. b \in AreaRecord
  BY <1>4, <1>5, ConfigFacts DEF AreaRecord
<1>7. ASSUME a.port = <<>> PROVE b.port = f
  <2>1. g = <<>> /\ b.port = f \o g
    BY <1>3, <1>5, <1>7
  <2> QED BY <2>1, <1>2
<1> QED BY <1>5, <1>6, <1>7, <1>2 DEF PortsSet

(* One more tx port: its class, the last port of a class, and the active    *)
(* list.                                                                    *)
LEMMA TableOfSame ==
    ASSUME NEW a, NEW b, NEW v, a.cls[v] = b.cls[v]
    PROVE  TableOf(a, v) = TableOf(b, v)
  BY DEF TableOf

LEMMA ClassStep ==
    ASSUME NEW c, NEW i \in Nat \ {0}, NEW v, NEW m
    PROVE  /\ c.tx[i].vid = v /\ c.tx[i].mac = m =>
                 ClassTo(c, i, v, m) = ClassTo(c, i - 1, v, m) \cup {i}
           /\ ~(c.tx[i].vid = v /\ c.tx[i].mac = m) =>
                 ClassTo(c, i, v, m) = ClassTo(c, i - 1, v, m)
           /\ c.tx[i].vid = v /\ c.tx[i].mac # NoMac =>
                 ListedTo(c, i, v) = ListedTo(c, i - 1, v) \cup {i}
           /\ ~(c.tx[i].vid = v /\ c.tx[i].mac # NoMac) =>
                 ListedTo(c, i, v) = ListedTo(c, i - 1, v)
<1>1. 1 .. i = (1 .. i - 1) \cup {i}
  OBVIOUS
<1> QED BY <1>1 DEF ClassTo, ListedTo

LEMMA LastStep ==
    ASSUME NEW c, NEW i \in Nat \ {0}, NEW v, NEW m, NEW x,
           IsLast(x, ClassTo(c, i - 1, v, m))
    PROVE  IsLast(IF c.tx[i].vid = v /\ c.tx[i].mac = m THEN i ELSE x,
                  ClassTo(c, i, v, m))
<1>1. ClassTo(c, i - 1, v, m) \subseteq 1 .. i - 1
  BY DEF ClassTo
<1>2. CASE c.tx[i].vid = v /\ c.tx[i].mac = m
  BY <1>1, <1>2, ClassStep DEF IsLast
<1>3. CASE ~(c.tx[i].vid = v /\ c.tx[i].mac = m)
  BY <1>3, ClassStep
<1> QED BY <1>2, <1>3

LEMMA AscendingExtended ==
    ASSUME NEW s \in Seq(Int), NEW u \in Seq(Int), NEW x \in Int, Ascending(s),
           Len(u) = Len(s) + 1, \A j \in 1 .. Len(s) : u[j] = s[j],
           u[Len(s) + 1] = x, \A j \in 1 .. Len(s) : s[j] < x
    PROVE  Ascending(u) /\ ToSet(u) = ToSet(s) \cup {x}
<1>1. Len(s) \in Nat /\ DOMAIN s = 1 .. Len(s) /\ DOMAIN u = 1 .. Len(s) + 1
  OBVIOUS
<1>2. Ascending(u)
  <2>1. SUFFICES ASSUME NEW i \in 1 .. Len(s) + 1, NEW j \in 1 .. Len(s) + 1, i < j
        PROVE  u[i] < u[j]
    BY <1>1 DEF Ascending
  <2>2. i \in 1 .. Len(s) /\ u[i] = s[i]
    BY <1>1, <2>1
  <2>3. CASE j = Len(s) + 1
    BY <2>2, <2>3
  <2>4. CASE j # Len(s) + 1
    <3>1. j \in 1 .. Len(s) /\ u[j] = s[j]
      BY <1>1, <2>4
    <3> QED BY <3>1, <2>1, <2>2, <1>1 DEF Ascending
  <2> QED BY <2>3, <2>4
<1>3. ToSet(u) = {u[j] : j \in 1 .. Len(s) + 1} /\ ToSet(s) = {s[j] : j \in 1 .. Len(s)}
  BY <1>1 DEF ToSet
<1>4. \A j : j \in 1 .. Len(s) + 1 <=> j \in 1 .. Len(s) \/ j = Len(s) + 1
  BY <1>1
<1> QED BY <1>2, <1>3, <1>4

(* One turn of the loop keeps the tables right.                             *)
LEMMA TablesStep ==
    ASSUME NEW a \in AreaRecord, NEW c \in Config, NEW i \in 1 .. Len(c.tx),
           TablesOf(a, c, i - 1)
    PROVE  TablesOf(WithEntry(a, i, c.tx[i]), c, i)
<1>0. PICK e : e = c.tx[i]
  OBVIOUS
<1>1. i \in Index /\ e \in Entry /\ i \in Nat \ {0} /\ i - 1 \in Nat
  BY <1>0, ConfigFacts
<1>2. PICK b : b = WithEntry(a, i, e)
  OBVIOUS
<1>3. SUFFICES ASSUME NEW v \in Vid
      PROVE  /\ \A m \in Mac : IsLast(TableOf(b, v).tab[m], ClassTo(c, i, v, m))
             /\ IsLast(TableOf(b, v).default, ClassTo(c, i, v, DefaultMac))
             /\ Ascending(TableOf(b, v).active)
             /\ ToSet(TableOf(b, v).active) = ListedTo(c, i, v)
  BY <1>0, <1>2 DEF TablesOf
<1>4. PICK t : t = TableOf(a, v)
  OBVIOUS
<1>5. t \in Table
  BY <1>4, TableOfType
<1>6. /\ \A m \in Mac : IsLast(t.tab[m], ClassTo(c, i - 1, v, m))
      /\ IsLast(t.default, ClassTo(c, i - 1, v, DefaultMac))
      /\ Ascending(t.active)
      /\ ToSet(t.active) = ListedTo(c, i - 1, v)
  BY <1>4 DEF TablesOf
<1>7. ASSUME e.mac = NoMac \/ v # e.vid PROVE TableOf(b, v) = t
  <2>1. CASE e.mac = NoMac
    BY <1>2, <1>4, <2>1, MacAssumption DEF WithEntry
  <2>2. CASE e.mac # NoMac /\ v # e.vid
    BY <1>1, <1>2, <1>4, <2>2, WithEntryIs
  <2> QED BY <1>7, <2>1, <2>2
<1>8. ASSUME e.mac # NoMac, v = e.vid PROVE TableOf(b, v) = TableWith(t, i, e.mac)
  BY <1>1, <1>2, <1>4, <1>8, WithEntryIs
<1>9. CASE e.mac = NoMac \/ v # e.vid
  <2>1. \A m \in Mac \cup {DefaultMac} : ClassTo(c, i, v, m) = ClassTo(c, i - 1, v, m)
    BY <1>0, <1>9, <1>1, ClassStep, MacAssumption
  <2>2. ListedTo(c, i, v) = ListedTo(c, i - 1, v)
    BY <1>0, <1>9, <1>1, ClassStep
  <2>3. TableOf(b, v) = t
    BY <1>7, <1>9
  <2> QED BY <2>1, <2>2, <2>3, <1>6
<1>10. CASE e.mac # NoMac /\ v = e.vid
  <2>1. PICK u : u = TableOf(b, v)
    OBVIOUS
  <2>2. /\ u.tab = IF e.mac = DefaultMac THEN t.tab ELSE [t.tab EXCEPT ![e.mac] = i]
        /\ u.active = Append(t.active, i)
        /\ u.default = IF e.mac = DefaultMac THEN i ELSE t.default
    BY <2>1, <1>8, <1>10 DEF TableWith
  <2>3. t.tab \in [Mac -> Index \cup {0}] /\ t.active \in Seq(Index)
    BY <1>5 DEF Table
  <2>4. ASSUME NEW m \in Mac PROVE IsLast(u.tab[m], ClassTo(c, i, v, m))
    <3>1. u.tab[m] = IF c.tx[i].vid = v /\ c.tx[i].mac = m THEN i ELSE t.tab[m]
      BY <1>0, <2>2, <2>3, <1>10, MacAssumption
    <3>2. IsLast(t.tab[m], ClassTo(c, i - 1, v, m))
      BY <1>6
    <3> QED BY <3>1, <3>2, LastStep, <1>1
  <2>5. IsLast(u.default, ClassTo(c, i, v, DefaultMac))
    <3>1. u.default = IF c.tx[i].vid = v /\ c.tx[i].mac = DefaultMac THEN i ELSE t.default
      BY <1>0, <2>2, <1>10
    <3> QED BY <3>1, <1>6, LastStep, <1>1
  <2>6. /\ Len(u.active) = Len(t.active) + 1
        /\ \A j \in 1 .. Len(t.active) : u.active[j] = t.active[j]
        /\ u.active[Len(t.active) + 1] = i
        /\ u.active \in Seq(Index)
    BY <2>2, <2>3, <1>1, AppendType
  <2>7. \A j \in 1 .. Len(t.active) : t.active[j] \in 1 .. i - 1
    <3>1. ToSet(t.active) \subseteq 1 .. i - 1
      BY <1>6 DEF ListedTo
    <3> QED BY <3>1, <2>3 DEF ToSet
  <2>8. Ascending(u.active) /\ ToSet(u.active) = ToSet(t.active) \cup {i}
    <3>1. t.active \in Seq(Int) /\ u.active \in Seq(Int) /\ i \in Int
      BY <2>3, <2>6, IndexFacts
    <3>2. \A j \in 1 .. Len(t.active) : t.active[j] < i
      BY <2>7
    <3>3. PICK s, r : s = t.active /\ r = u.active
      OBVIOUS
    <3>4. /\ s \in Seq(Int) /\ r \in Seq(Int) /\ Ascending(s) /\ Len(r) = Len(s) + 1
          /\ \A j \in 1 .. Len(s) : r[j] = s[j]
          /\ r[Len(s) + 1] = i /\ \A j \in 1 .. Len(s) : s[j] < i
      BY <2>6, <3>1, <3>2, <3>3, <1>6
    <3>5. Ascending(r) /\ ToSet(r) = ToSet(s) \cup {i}
      BY <3>1, <3>4, AscendingExtended
    <3> QED BY <3>3, <3>5, Zenon
  <2>10. ListedTo(c, i, v) = ListedTo(c, i - 1, v) \cup {i}
    BY <1>0, <1>10, <1>1, ClassStep
  <2>11. ToSet(u.active) = ListedTo(c, i, v)
    BY <2>8, <2>10, <1>6
  <2> QED BY <2>1, <2>4, <2>5, <2>8, <2>11
<1> QED BY <1>9, <1>10

(* All turns: the tables are those of the configuration.                    *)
LEMMA WithEntriesAre ==
    ASSUME NEW a \in AreaRecord, NEW c \in Config, NEW n \in 0 .. Len(c.tx),
           NEW b, b = WithEntries(a, c, n)
    PROVE  /\ b \in AreaRecord
           /\ Kept(a, b)
           /\ (\A v \in Vid : a.cls[v] = NoTable) => TablesOf(b, c, n)
<1> DEFINE P(x, i) ==
             /\ Kept(a, x)
             /\ (\A v \in Vid : a.cls[v] = NoTable) => TablesOf(x, c, i)
           S == [i \in 0 .. n |-> {x \in AreaRecord : P(x, i)}]
<1>0. n \in Nat /\ Len(c.tx) \in Nat
  BY ConfigFacts, IndexFacts
<1>1. a \in S[0]
  <2>1. ASSUME \A v \in Vid : a.cls[v] = NoTable PROVE TablesOf(a, c, 0)
    <3>1. \A v \in Vid : TableOf(a, v) = EmptyTable
      BY <2>1 DEF TableOf
    <3>2. \A v, m : ClassTo(c, 0, v, m) = {} /\ ListedTo(c, 0, v) = {}
      BY DEF ClassTo, ListedTo
    <3>3. \A v \in Vid :
            /\ TableOf(a, v).default = 0 /\ TableOf(a, v).active = <<>>
            /\ \A m \in Mac : TableOf(a, v).tab[m] = 0
      BY <3>1 DEF EmptyTable
    <3>4. ToSet(<<>>) = {} /\ Ascending(<<>>)
      BY DEF ToSet, Ascending
    <3> QED BY <3>2, <3>3, <3>4 DEF TablesOf, IsLast
  <2> QED BY <2>1, <1>0 DEF Kept
<1>2. ASSUME NEW i \in 1 .. n, NEW x \in S[i - 1]
      PROVE  WithEntry(x, i, c.tx[i]) \in S[i]
  <2>1. x \in AreaRecord /\ P(x, i - 1)
    BY <1>2
  <2>2. i \in 1 .. Len(c.tx) /\ i \in Index /\ c.tx[i] \in Entry
    BY ConfigFacts, <1>0
  <2>3. PICK y : y = WithEntry(x, i, c.tx[i])
    OBVIOUS
  <2>4. y \in AreaRecord /\ Kept(x, y)
    <3>1. CASE c.tx[i].mac = NoMac
      BY <3>1, <2>1, <2>3, MacAssumption DEF WithEntry, Kept
    <3>2. CASE c.tx[i].mac # NoMac
      BY <3>2, <2>1, <2>2, <2>3, WithEntryIs
    <3> QED BY <3>1, <3>2
  <2>5. TablesOf(x, c, i - 1) => TablesOf(y, c, i)
    BY <2>1, <2>2, <2>3, TablesStep
  <2>6. P(y, i)
    BY <2>1, <2>4, <2>5 DEF Kept
  <2>7. i \in 0 .. n
    OBVIOUS
  <2> HIDE DEF P
  <2> QED BY <2>3, <2>4, <2>6, <2>7
<1>3. WithEntries(a, c, n) \in S[n]
  <2> HIDE DEF S
  <2> QED BY <1>0, <1>1, <1>2, WithEntriesInduction
<1>4. b \in AreaRecord /\ P(b, n)
  <2>1. n \in 0 .. n
    BY <1>0
  <2> HIDE DEF P
  <2> QED BY <1>3, <2>1
<1> QED BY <1>4

(* What a transmit_packet of buffer b to port q does, when the driver takes *)
(* n of its packets.                                                        *)
BuffersAfter(s, r, k, i) ==
    \A l \in Area, j \in Index :
        r.buf[l][j] = IF l = k /\ j = i THEN <<>> ELSE s.buf[l][j]
CountsAfter(s, r, b) ==
    \A p \in Packet :
        r.refcnt[p] = s.refcnt[p] - Cardinality({j \in DOMAIN b : b[j] = p})
OtherPortsKeep(s, r, q) ==
    \A x \in Port : x # q => r.out[x] = s.out[x] /\ r.refused[x] = s.refused[x]
SentBy(s, r, b, q, n) ==
    /\ Len(r.out[q]) = Len(s.out[q]) + n
    /\ \A j \in 1 .. Len(s.out[q]) : r.out[q][j] = s.out[q][j]
    /\ \A j \in 1 .. n : r.out[q][Len(s.out[q]) + j].pkt = b[j]
    /\ r.refused[q] = s.refused[q] \cup {b[j] : j \in n + 1 .. Len(b)}

(* The fields of a state of the packets.                                    *)
LEMMA RecordIs ==
    ASSUME NEW s \in PacketRecord
    PROVE  /\ s = [buf |-> s.buf, refcnt |-> s.refcnt, vid |-> s.vid, out |-> s.out,
                   refused |-> s.refused]
           /\ s.buf \in Buffers /\ s.refcnt \in [Packet -> Int] /\ s.vid \in [Packet -> Vid]
           /\ s.out \in [Port -> Seq(Copy)] /\ s.refused \in [Port -> SUBSET Packet]
  BY DEF PacketRecord

LEMMA CountType ==
    ASSUME NEW b \in Seq(Packet), NEW p
    PROVE  Cardinality({j \in DOMAIN b : b[j] = p}) \in Nat
<1>1. IsFiniteSet(1 .. Len(b))
  BY FS_Interval
<1>2. {j \in DOMAIN b : b[j] = p} \subseteq 1 .. Len(b)
  OBVIOUS
<1>3. IsFiniteSet({j \in DOMAIN b : b[j] = p})
  BY <1>1, <1>2, FS_Subset
<1> QED BY <1>3, FS_CardinalityType

(* What transmit_packet does to one buffer, as facts about the fields.      *)
LEMMA TransmitIs ==
    ASSUME NEW s \in PacketRecord, NEW k \in Area, NEW i \in Index, NEW room \in Room,
           NEW b, b = s.buf[k][i], NEW q, q = area[k].port[i],
           NEW r, r = Transmit(s, k, i, room)
    PROVE  /\ r \in PacketRecord
           /\ BuffersAfter(s, r, k, i) /\ CountsAfter(s, r, b) /\ OtherPortsKeep(s, r, q)
           /\ q \in Port => \E n \in 0 .. Len(b) : SentBy(s, r, b, q, n)
<1>1. PICK B, C, V, O, R : /\ B = s.buf /\ C = s.refcnt /\ V = s.vid /\ O = s.out
                           /\ R = s.refused
  OBVIOUS
<1>2. /\ B \in [Area -> [Index -> Seq(Packet)]] /\ C \in [Packet -> Int] /\ V \in [Packet -> Vid]
      /\ O \in [Port -> Seq(Copy)] /\ R \in [Port -> SUBSET Packet]
      /\ b = B[k][i] /\ b \in Seq(Packet)
  BY <1>1, RecordIs DEF Buffers
<1> DEFINE n == IF room[q] < Len(b) THEN room[q] ELSE Len(b)
           W(p) == IF p \in ToSet(b) THEN SentVid(q, V[p]) ELSE V[p]
           B2 == [B EXCEPT ![k][i] = <<>>]
           C2 == [p \in Packet |-> C[p] - Cardinality({j \in DOMAIN b : b[j] = p})]
           V2 == [p \in Packet |-> W(p)]
           d == [j \in 1 .. n |-> [pkt |-> b[j], vid |-> W(b[j])]]
           O2 == [O EXCEPT ![q] = @ \o d]
           R2 == [R EXCEPT ![q] = @ \cup {b[j] : j \in n + 1 .. Len(b)}]
<1>3. r = [buf |-> B2, refcnt |-> C2, vid |-> V2, out |-> O2, refused |-> R2]
  BY <1>1 DEF Transmit, BufferAfter
<1>4. r.buf = B2 /\ r.refcnt = C2 /\ r.vid = V2 /\ r.out = O2 /\ r.refused = R2
  <2> HIDE DEF B2, C2, V2, O2, R2
  <2> QED BY <1>3
<1>5. \A p \in Packet : W(p) \in Vid
  BY <1>2, VidAssumption DEF SentVid
<1>6. B2 \in Buffers /\ \A l \in Area, j \in Index :
                           B2[l][j] = IF l = k /\ j = i THEN <<>> ELSE B[l][j]
  <2>1. [B[k] EXCEPT ![i] = <<>>] \in [Index -> Seq(Packet)]
    BY <1>2
  <2>2. B2 = [B EXCEPT ![k] = [B[k] EXCEPT ![i] = <<>>]]
    OBVIOUS
  <2> QED BY <2>1, <2>2, <1>2 DEF Buffers
<1>7. C2 \in [Packet -> Int]
  <2>1. SUFFICES ASSUME NEW p \in Packet
        PROVE  C[p] - Cardinality({j \in DOMAIN b : b[j] = p}) \in Int
    OBVIOUS
  <2>2. PICK z : z = Cardinality({j \in DOMAIN b : b[j] = p})
    OBVIOUS
  <2>3. z \in Nat
    BY <1>2, <2>2, CountType
  <2> QED BY <1>2, <2>2, <2>3
<1>8. V2 \in [Packet -> Vid]
  BY <1>5
<1>9. q \in Port => n \in 0 .. Len(b)
  BY <1>2, IndexFacts DEF Room
<1>10. O2 \in [Port -> Seq(Copy)] /\ (\A x \in Port : x # q => O2[x] = O[x])
       /\ (q \in Port => O2[q] = O[q] \o d /\ d \in Seq(Copy) /\ Len(d) = n)
  <2>1. CASE q \in Port
    <3>1. \A j \in 1 .. n : b[j] \in Packet
      BY <1>9, <1>2, <2>1
    <3>2. \A j \in 1 .. n : [pkt |-> b[j], vid |-> W(b[j])] \in Copy
      BY <3>1, <1>5 DEF Copy
    <3>3. n \in Nat
      BY <1>9, <2>1, <1>2
    <3> HIDE DEF n, W
    <3>4. d \in Seq(Copy) /\ Len(d) = n
      BY <3>2, <3>3
    <3> HIDE DEF d
    <3>5. O[q] \o d \in Seq(Copy)
      BY <1>2, <2>1, <3>4
    <3> QED BY <3>4, <3>5, <1>2, <2>1
  <2>2. CASE q \notin Port
    BY <1>2, <2>2
  <2> QED BY <2>1, <2>2
<1>11. R2 \in [Port -> SUBSET Packet] /\ (\A x \in Port : x # q => R2[x] = R[x])
       /\ (q \in Port => R2[q] = R[q] \cup {b[j] : j \in n + 1 .. Len(b)})
  <2>1. CASE q \in Port
    <3>1. n \in 0 .. Len(b)
      BY <1>9, <2>1
    <3> HIDE DEF n
    <3>2. {b[j] : j \in n + 1 .. Len(b)} \subseteq Packet
      BY <3>1, <1>2
    <3> QED BY <3>2, <1>2, <2>1
  <2>2. CASE q \notin Port
    BY <1>2, <2>2
  <2> QED BY <2>1, <2>2
<1> HIDE DEF B2, C2, V2, O2, R2
<1>12. r \in PacketRecord
  <2>1. /\ B2 \in Buffers /\ C2 \in [Packet -> Int] /\ V2 \in [Packet -> Vid]
        /\ O2 \in [Port -> Seq(Copy)] /\ R2 \in [Port -> SUBSET Packet]
    BY <1>6, <1>7, <1>8, <1>10, <1>11
  <2> QED BY <1>3, <2>1 DEF PacketRecord
<1>13. BuffersAfter(s, r, k, i)
  BY <1>1, <1>4, <1>6 DEF BuffersAfter
<1>14. CountsAfter(s, r, b)
  BY <1>1, <1>4 DEF CountsAfter, C2
<1>15. OtherPortsKeep(s, r, q)
  BY <1>1, <1>4, <1>10, <1>11 DEF OtherPortsKeep
<1>16. ASSUME q \in Port PROVE SentBy(s, r, b, q, n)
  <2>2. \A j \in 1 .. n : d[j].pkt = b[j]
    OBVIOUS
  <2>0. n \in Nat
    <3>1. n \in 0 .. Len(b)
      BY <1>9, <1>16
    <3> HIDE DEF n
    <3> QED BY <3>1, <1>2
  <2> HIDE DEF d, n
  <2>1. O2[q] = O[q] \o d /\ d \in Seq(Copy) /\ Len(d) = n /\ O[q] \in Seq(Copy)
    BY <1>2, <1>10, <1>16
  <2>3. /\ Len(O2[q]) = Len(O[q]) + n
        /\ \A j \in 1 .. Len(O[q]) : O2[q][j] = O[q][j]
        /\ \A j \in 1 .. n : O2[q][Len(O[q]) + j] = d[j]
    <3>1. PICK x, y : x = O[q] /\ y = O2[q]
      OBVIOUS
    <3>2. y = x \o d /\ x \in Seq(Copy) /\ d \in Seq(Copy) /\ Len(d) = n
      BY <2>1, <3>1
    <3>3. Len(y) = Len(x) + n /\ \A j \in 1 .. Len(x) : y[j] = x[j]
      <4>1. Len(y) = Len(x) + Len(d)
        BY <3>2, ConcatProperties, Zenon
      <4>2. ASSUME NEW j \in 1 .. Len(x) PROVE y[j] = x[j]
        BY <3>2
      <4> QED BY <4>1, <4>2, <3>2, Zenon
    <3>4. \A j \in 1 .. n : y[Len(x) + j] = d[j]
      BY <3>2, <2>0
    <3> QED BY <3>1, <3>3, <3>4
  <2>4. \A j \in 1 .. n : O2[q][Len(O[q]) + j].pkt = b[j]
    BY <2>2, <2>3
  <2> QED BY <1>1, <1>4, <1>11, <1>16, <2>3, <2>4 DEF SentBy
<1> HIDE DEF n
<1> QED BY <1>9, <1>12, <1>13, <1>14, <1>15, <1>16

(* The area of a configuration: its ports are known, and no two the same.   *)
PortsKnown(k) ==
    /\ area[k].n \in 0 .. MaxTx
    /\ \A i \in 1 .. area[k].n : area[k].port[i] \in Port
    /\ \A i, j \in 1 .. area[k].n : area[k].port[i] = area[k].port[j] => i = j

(* Where the copies of the packets are or went: to each port, those that it *)
(* has sent or refused and those in its buffer.                             *)
Gone(s, q) == Left(s, q) \cup s.refused[q]
Due(s, k, q) ==
    {p \in Packet : \/ p \in Gone(s, q)
                    \/ \E i \in 1 .. area[k].n :
                          /\ area[k].port[i] = q
                          /\ \E j \in DOMAIN s.buf[k][i] : s.buf[k][i][j] = p}

(* What is sent or refused stays so.                                        *)
Grown(s, r) ==
    \A q \in Port :
        /\ Len(s.out[q]) <= Len(r.out[q])
        /\ \A j \in 1 .. Len(s.out[q]) : r.out[q][j].pkt = s.out[q][j].pkt
        /\ s.refused[q] \subseteq r.refused[q]

(* No packet above m has been pushed to tx index i.                         *)
Fresh(s, k, i, m) ==
    /\ \A j \in DOMAIN s.buf[k][i] : s.buf[k][i][j] <= m
    /\ \A p \in Gone(s, area[k].port[i]) : p <= m

(* An ascending buffer holds a packet once, so one reference is taken for   *)
(* each holder that sends.                                                  *)
LEMMA CountOnce ==
    ASSUME NEW b \in Seq(Packet), Ascending(b), NEW p
    PROVE  Cardinality({j \in DOMAIN b : b[j] = p}) =
              IF \E j \in DOMAIN b : b[j] = p THEN 1 ELSE 0
<1>1. CASE \E j \in DOMAIN b : b[j] = p
  <2>1. PICK j \in DOMAIN b : b[j] = p
    BY <1>1
  <2>2. ASSUME NEW i \in DOMAIN b, b[i] = p PROVE i = j
    <3>1. b[i] \in Int /\ b[j] \in Int /\ i \in Int /\ j \in Int
      BY BoundAssumption DEF Packet
    <3>2. ~(i < j) /\ ~(j < i)
      BY <3>1, <2>1, <2>2 DEF Ascending
    <3> QED BY <3>1, <3>2
  <2>3. {i \in DOMAIN b : b[i] = p} = {j}
    BY <2>1, <2>2
  <2> QED BY <2>3, <1>1, FS_Singleton
<1>2. CASE ~ \E j \in DOMAIN b : b[j] = p
  <2>1. {j \in DOMAIN b : b[j] = p} = {}
    BY <1>2
  <2> QED BY <2>1, <1>2, FS_EmptySet
<1> QED BY <1>1, <1>2

LEMMA HoldersFinite ==
    ASSUME NEW b, NEW p
    PROVE  IsFiniteSet(Holders(b, p)) /\ Cardinality(Holders(b, p)) \in Nat
<1>1. IsFiniteSet(1 .. MaxTx)
  BY FS_Interval, IndexFacts
<1>2. Holders(b, p) \subseteq 1 .. MaxTx
  BY IndexFacts DEF Holders
<1>3. IsFiniteSet(Holders(b, p))
  BY <1>1, <1>2, FS_Subset
<1> QED BY <1>3, FS_CardinalityType

(* One of the holders is gone, or comes.                                    *)
LEMMA HoldersWithout ==
    ASSUME NEW S, IsFiniteSet(S), NEW i, NEW T, T = S \ {i}
    PROVE  Cardinality(S) = Cardinality(T) + (IF i \in S THEN 1 ELSE 0)
<1>0. Cardinality(S) \in Nat
  BY FS_CardinalityType
<1>1. CASE i \in S
  <2>1. Cardinality(T) = Cardinality(S) - 1
    BY <1>1, FS_RemoveElement
  <2> QED BY <2>1, <1>0, <1>1
<1>2. CASE i \notin S
  <2>1. T = S
    BY <1>2
  <2> QED BY <2>1, <1>0, <1>2
<1> QED BY <1>1, <1>2

(* Reference counts stay right when a buffer is sent.                       *)
LEMMA TransmitCounted ==
    ASSUME NEW s \in PacketRecord, NEW r \in PacketRecord, NEW k \in Area, NEW i \in Index,
           NEW b, b = s.buf[k][i], Ascending(b), NEW w \in [Packet -> Int],
           BuffersAfter(s, r, k, i), CountsAfter(s, r, b), Counted(s, k, w)
    PROVE  Counted(r, k, w)
<1>1. SUFFICES ASSUME NEW p \in Packet
      PROVE  r.refcnt[p] = Cardinality(Holders(r.buf[k], p)) + w[p]
  BY DEF Counted
<1>2. PICK B, C, B2, C2 : B = s.buf[k] /\ C = s.refcnt[p] /\ B2 = r.buf[k] /\ C2 = r.refcnt[p]
  OBVIOUS
<1>3. b = B[i] /\ \A j \in Index : B2[j] = IF j = i THEN <<>> ELSE B[j]
  BY <1>2 DEF BuffersAfter
<1>4. b \in Seq(Packet)
  BY RecordIs DEF Buffers
<1>5. PICK S, T, e : /\ S = Holders(B, p) /\ T = Holders(B2, p)
                     /\ e = Cardinality({j \in DOMAIN b : b[j] = p})
  OBVIOUS
<1>6. C2 = C - e
  BY <1>2, <1>5 DEF CountsAfter
<1>7. C = Cardinality(S) + w[p]
  BY <1>2, <1>5 DEF Counted
<1>8. T = S \ {i} /\ (i \in S <=> \E j \in DOMAIN b : b[j] = p)
  <2>1. \A l \in Index : l # i => B2[l] = B[l]
    BY <1>3
  <2>2. B2[i] = <<>> /\ B[i] = b
    BY <1>3
  <2>3. DOMAIN B2[i] = {}
    BY <2>2
  <2> QED BY <2>1, <2>2, <2>3, <1>5 DEF Holders
<1>9. e = IF i \in S THEN 1 ELSE 0
  BY <1>4, <1>5, <1>8, CountOnce
<1>10. IsFiniteSet(S) /\ Cardinality(S) \in Nat /\ Cardinality(T) \in Nat
  BY <1>5, HoldersFinite
<1>11. Cardinality(S) = Cardinality(T) + e
  BY <1>8, <1>9, <1>10, HoldersWithout
<1>12. C2 = Cardinality(T) + w[p]
  BY <1>6, <1>7, <1>9, <1>10, <1>11
<1> QED BY <1>2, <1>5, <1>12

(* The other buffers stay.                                                  *)
LEMMA TransmitBuffers ==
    ASSUME NEW s \in PacketRecord, NEW r \in PacketRecord, NEW k \in Area, NEW i \in Index,
           NEW m, BuffersAfter(s, r, k, i), BuffersOf(s, k, m)
    PROVE  BuffersOf(r, k, m)
<1>1. PICK B, B2, D, D2 : B = s.buf[k] /\ B2 = r.buf[k] /\ D = s.buf[1 - k] /\ D2 = r.buf[1 - k]
  OBVIOUS
<1>2. 1 - k \in Area /\ 1 - k # k
  BY IndexFacts
<1>3. /\ \A j \in Index : B2[j] = IF j = i THEN <<>> ELSE B[j]
      /\ \A j \in Index : D2[j] = D[j]
  BY <1>1, <1>2 DEF BuffersAfter
<1>4. /\ \A j \in Index : D[j] = <<>>
      /\ \A j \in Index : B[j] # <<>> => j <= area[k].n
      /\ \A j \in Index : Ascending(B[j])
      /\ \A j \in Index : \A l \in DOMAIN B[j] : B[j][l] <= m
  BY <1>1 DEF BuffersOf
<1>5. DOMAIN <<>> = {} /\ Ascending(<<>>)
  BY DEF Ascending
<1>6. /\ \A j \in Index : D2[j] = <<>>
      /\ \A j \in Index : B2[j] # <<>> => j <= area[k].n
      /\ \A j \in Index : Ascending(B2[j])
      /\ \A j \in Index : \A l \in DOMAIN B2[j] : B2[j][l] <= m
  <2>1. ASSUME NEW j \in Index
        PROVE  /\ D2[j] = <<>> /\ (B2[j] # <<>> => j <= area[k].n)
               /\ Ascending(B2[j]) /\ \A l \in DOMAIN B2[j] : B2[j][l] <= m
    <3>1. CASE j = i
      <4>1. B2[j] = <<>> /\ D2[j] = <<>>
        BY <1>3, <1>4, <3>1
      <4> QED BY <4>1, <1>5
    <3>2. CASE j # i
      <4>1. B2[j] = B[j] /\ D2[j] = <<>>
        BY <1>3, <1>4, <3>2
      <4> QED BY <4>1, <1>4
    <3> QED BY <3>1, <3>2
  <2> QED BY <2>1
<1> QED BY <1>1, <1>6 DEF BuffersOf

LEMMA PacketInt == \A p \in Packet : p \in Nat /\ p \in Int /\ p >= 1
  BY BoundAssumption DEF Packet

PktsOf(o) == {o[j].pkt : j \in DOMAIN o}
Extended(o, o2, b, n) ==
    /\ Len(o2) = Len(o) + n
    /\ \A j \in 1 .. Len(o) : o2[j] = o[j]
    /\ \A j \in 1 .. n : o2[Len(o) + j].pkt = b[j]
Refusing(R, R2, b, n) == R2 = R \cup {b[j] : j \in n + 1 .. Len(b)}
Younger(b, S, m) == \A j \in DOMAIN b : b[j] <= m /\ \A p \in S : p < b[j]
Sorted(o) == \A i, j \in DOMAIN o : i < j => o[i].pkt < o[j].pkt

InOrderAfter(o2, L2, R2, S, b, m) ==
    /\ Sorted(o2) /\ L2 \cap R2 = {}
    /\ L2 \cup R2 = S \cup ToSet(b)
    /\ \A p \in L2 \cup R2 : p <= m

(* The same of two sequences and two sets: those of the port that sends.    *)
LEMMA SendLast ==
    ASSUME NEW O \in Seq(Copy), NEW O2 \in Seq(Copy), NEW R \in SUBSET Packet,
           NEW R2, NEW b \in Seq(Packet), NEW n \in 0 .. Len(b), NEW m \in Int,
           Ascending(b),
           Sorted(O),
           NEW L, L = PktsOf(O), L \cap R = {},
           \A p \in L \cup R : p <= m,
           Younger(b, L \cup R, m),
           Extended(O, O2, b, n),
           Refusing(R, R2, b, n),
           NEW L2, L2 = PktsOf(O2)
    PROVE  InOrderAfter(O2, L2, R2, L \cup R, b, m)
<1>0. /\ Len(O2) = Len(O) + n
      /\ \A j \in 1 .. Len(O) : O2[j] = O[j]
      /\ \A j \in 1 .. n : O2[Len(O) + j].pkt = b[j]
      /\ R2 = R \cup {b[j] : j \in n + 1 .. Len(b)}
      /\ \A j \in DOMAIN b : b[j] <= m /\ \A p \in L \cup R : p < b[j]
  BY DEF Extended, Refusing, Younger
<1>1. /\ Len(O) \in Nat /\ DOMAIN O = 1 .. Len(O) /\ DOMAIN O2 = 1 .. Len(O) + n
      /\ Len(b) \in Nat /\ DOMAIN b = 1 .. Len(b) /\ n \in Nat /\ n <= Len(b)
  BY <1>0
<1>2. \A j \in 1 .. Len(b) : b[j] \in Packet /\ b[j] \in Int
  <2>1. \A j \in 1 .. Len(b) : b[j] \in Packet
    OBVIOUS
  <2> QED BY <2>1, PacketInt
<1>3. \A j \in 1 .. Len(O) : O[j].pkt \in L /\ O2[j].pkt = O[j].pkt /\ O[j].pkt \in Int
  <2>1. \A j \in 1 .. Len(O) : O[j].pkt \in Packet
    <3>1. \A j \in 1 .. Len(O) : O[j] \in Copy
      OBVIOUS
    <3> QED BY <3>1 DEF Copy
  <2>2. \A j \in 1 .. Len(O) : O[j].pkt \in L
    BY <1>1 DEF PktsOf
  <2> QED BY <2>1, <2>2, <1>0, <1>1, PacketInt
<1>4. L2 = L \cup {b[j] : j \in 1 .. n}
  <2>1. \A j \in 1 .. Len(O) + n : j \in 1 .. Len(O) \/ j - Len(O) \in 1 .. n
    BY <1>1
  <2>2. ASSUME NEW j \in 1 .. Len(O) + n PROVE O2[j].pkt \in L \cup {b[l] : l \in 1 .. n}
    <3>1. CASE j \in 1 .. Len(O)
      BY <3>1, <1>3
    <3>2. CASE j - Len(O) \in 1 .. n
      <4>1. O2[Len(O) + (j - Len(O))].pkt = b[j - Len(O)]
        BY <1>0, <3>2
      <4>2. Len(O) + (j - Len(O)) = j
        BY <1>1
      <4> QED BY <4>1, <4>2, <3>2
    <3> QED BY <2>1, <3>1, <3>2
  <2>3. ASSUME NEW l \in 1 .. n PROVE b[l] \in L2
    <3>1. Len(O) + l \in DOMAIN O2 /\ O2[Len(O) + l].pkt = b[l]
      BY <1>0, <1>1
    <3> QED BY <3>1 DEF PktsOf
  <2>4. ASSUME NEW p \in L PROVE p \in L2
    <3>1. PICK j \in 1 .. Len(O) : p = O[j].pkt
      BY <1>1 DEF PktsOf
    <3>2. j \in DOMAIN O2 /\ O2[j].pkt = p
      BY <1>1, <1>3, <3>1
    <3> QED BY <3>2 DEF PktsOf
  <2>5. L2 \subseteq L \cup {b[l] : l \in 1 .. n}
    BY <1>1, <2>2 DEF PktsOf
  <2>6. L \cup {b[l] : l \in 1 .. n} \subseteq L2
    BY <2>3, <2>4
  <2> QED BY <2>5, <2>6
<1>5. \A i, j \in 1 .. Len(b) : i < j => b[i] < b[j]
  BY <1>1 DEF Ascending
<1>6. ASSUME NEW i \in 1 .. Len(O) + n, NEW j \in 1 .. Len(O) + n, i < j
      PROVE  O2[i].pkt < O2[j].pkt
  <2>1. CASE j \in 1 .. Len(O)
    <3>1. i \in 1 .. Len(O)
      BY <2>1, <1>6, <1>1
    <3> QED BY <2>1, <3>1, <1>1, <1>3, <1>6 DEF Sorted
  <2>2. CASE j \notin 1 .. Len(O)
    <3>1. PICK l \in 1 .. n : j = Len(O) + l
      <4>1. j - Len(O) \in 1 .. n /\ j = Len(O) + (j - Len(O))
        BY <2>2, <1>1
      <4> QED BY <4>1
    <3>2. O2[j].pkt = b[l] /\ l \in DOMAIN b
      BY <1>0, <3>1, <1>1
    <3>3. CASE i \in 1 .. Len(O)
      <4>1. O2[i].pkt \in L
        BY <3>3, <1>3
      <4> QED BY <4>1, <3>2, <1>0
    <3>4. CASE i \notin 1 .. Len(O)
      <4>1. PICK h \in 1 .. n : i = Len(O) + h
        <5>1. i - Len(O) \in 1 .. n /\ i = Len(O) + (i - Len(O))
          BY <3>4, <1>1
        <5> QED BY <5>1
      <4>2. O2[i].pkt = b[h] /\ h \in 1 .. Len(b) /\ l \in 1 .. Len(b) /\ h < l
        BY <1>0, <4>1, <3>1, <1>1, <1>6
      <4> QED BY <4>2, <3>2, <1>5
    <3> QED BY <3>3, <3>4
  <2> QED BY <2>1, <2>2
<1>7. L2 \cap R2 = {}
  <2>1. ASSUME NEW p, p \in L2, p \in R2 PROVE FALSE
    <3>1. CASE p \in L /\ p \notin R
      <4>1. PICK j \in n + 1 .. Len(b) : p = b[j]
        BY <2>1, <3>1, <1>0
      <4>2. j \in DOMAIN b /\ b[j] \in Int
        BY <1>1, <1>2
      <4> QED BY <4>1, <4>2, <3>1, <1>0
    <3>2. CASE p \notin L
      <4>1. PICK l \in 1 .. n : p = b[l]
        BY <2>1, <3>2, <1>4
      <4>2. l \in 1 .. Len(b) /\ b[l] \in Int
        BY <1>1, <1>2
      <4>3. CASE p \in R
        <5>1. p < b[l]
          BY <4>2, <4>3, <1>0, <1>1
        <5> QED BY <4>1, <4>2, <5>1
      <4>4. CASE p \notin R
        <5>1. PICK j \in n + 1 .. Len(b) : p = b[j]
          BY <2>1, <4>4, <1>0
        <5>2. l < j /\ j \in 1 .. Len(b)
          BY <1>1
        <5>3. b[l] < b[j]
          BY <5>2, <4>2, <1>5
        <5> QED BY <5>1, <5>3, <4>1, <4>2
      <4> QED BY <4>3, <4>4
    <3>3. p \in L => p \notin R
      OBVIOUS
    <3> QED BY <3>1, <3>2, <3>3
  <2> QED BY <2>1
<1>8. L2 \cup R2 = L \cup R \cup {b[j] : j \in DOMAIN b}
  <2>1. 1 .. Len(b) = (1 .. n) \cup (n + 1 .. Len(b))
    BY <1>1
  <2>2. {b[j] : j \in DOMAIN b} = {b[j] : j \in 1 .. n} \cup {b[j] : j \in n + 1 .. Len(b)}
    BY <2>1, <1>1
  <2> QED BY <2>2, <1>0, <1>4
<1>9. \A p \in L2 \cup R2 : p <= m
  BY <1>0, <1>8
<1>11. L2 \cup R2 = L \cup R \cup ToSet(b)
  BY <1>8 DEF ToSet
<1>10. Sorted(O2)
  BY <1>1, <1>6 DEF Sorted
<1> QED BY <1>7, <1>9, <1>10, <1>11 DEF InOrderAfter

(* The packets of the buffer are gone through the port.                     *)
GoneBy(s, r, q, b) ==
    /\ \A x \in Port : x # q => Gone(r, x) = Gone(s, x)
    /\ Gone(r, q) = Gone(s, q) \cup ToSet(b)

(* What a port has sent stays in order, and older than what it has to       *)
(* send.                                                                    *)
LEMMA TransmitPorts ==
    ASSUME NEW s \in PacketRecord, NEW r \in PacketRecord, NEW k \in Area,
           NEW i \in 1 .. area[k].n, i \in Index, PortsKnown(k), NEW m \in Int,
           NEW b, b = s.buf[k][i], NEW q, q = area[k].port[i], NEW n \in 0 .. Len(b),
           BuffersAfter(s, r, k, i), OtherPortsKeep(s, r, q), SentBy(s, r, b, q, n),
           BuffersOf(s, k, m), PortsOf(s, k, m)
    PROVE  PortsOf(r, k, m) /\ Grown(s, r) /\ GoneBy(s, r, q, b)
<1>1. PICK O, O2, R, R2 : O = s.out /\ O2 = r.out /\ R = s.refused /\ R2 = r.refused
  OBVIOUS
<1>2. PICK B, B2 : B = s.buf[k] /\ B2 = r.buf[k]
  OBVIOUS
<1>3. /\ O \in [Port -> Seq(Copy)] /\ O2 \in [Port -> Seq(Copy)]
      /\ R \in [Port -> SUBSET Packet] /\ R2 \in [Port -> SUBSET Packet]
      /\ B \in [Index -> Seq(Packet)]
  BY <1>1, <1>2, RecordIs DEF Buffers
<1>4. q \in Port /\ b = B[i] /\ b \in Seq(Packet)
  BY <1>2, <1>3 DEF PortsKnown
<1>5. PICK L, L2 : L = [x \in Port |-> Left(s, x)] /\ L2 = [x \in Port |-> Left(r, x)]
  OBVIOUS
<1>6. \A x \in Port : /\ L[x] = PktsOf(O[x])
                      /\ L2[x] = PktsOf(O2[x])
                      /\ Gone(s, x) = L[x] \cup R[x] /\ Gone(r, x) = L2[x] \cup R2[x]
  BY <1>1, <1>5 DEF Left, Gone, PktsOf
<1>7. \A x \in Port : x # q => O2[x] = O[x] /\ R2[x] = R[x] /\ L2[x] = L[x]
  <2>1. \A x \in Port : x # q => O2[x] = O[x] /\ R2[x] = R[x]
    BY <1>1 DEF OtherPortsKeep
  <2>2. ASSUME NEW x \in Port, x # q PROVE L2[x] = L[x]
    <3>1. O2[x] = O[x]
      BY <2>1, <2>2
    <3>2. /\ L[x] = PktsOf(O[x])
          /\ L2[x] = PktsOf(O2[x])
      BY <1>6
    <3> QED BY <3>1, <3>2, Zenon
  <2> QED BY <2>1, <2>2
<1>8. /\ \A x \in Port : Sorted(O[x])
      /\ \A x \in Port : L[x] \cap R[x] = {}
      /\ \A x \in Port : \A p \in L[x] \cup R[x] : p <= m
      /\ \A j \in 1 .. area[k].n : \A h \in DOMAIN B[j] :
            \A p \in L[area[k].port[j]] \cup R[area[k].port[j]] : p < B[j][h]
  <2>1. \A x \in Port : Left(s, x) = L[x]
    BY <1>5
  <2>2. \A j \in 1 .. area[k].n : area[k].port[j] \in Port
    BY DEF PortsKnown
  <2>3. \A j \in 1 .. area[k].n : Left(s, area[k].port[j]) = L[area[k].port[j]]
    BY <2>1, <2>2
  <2>4. \A x \in Port : Sorted(O[x])
    BY <1>1 DEF PortsOf, Sorted
  <2>5. \A x \in Port : Left(s, x) \cap R[x] = {} /\ \A p \in Left(s, x) \cup R[x] : p <= m
    BY <1>1 DEF PortsOf
  <2>6. \A j \in 1 .. area[k].n : \A h \in DOMAIN B[j] :
            \A p \in Left(s, area[k].port[j]) \cup R[area[k].port[j]] : p < B[j][h]
    BY <1>1, <1>2 DEF PortsOf
  <2>7. /\ \A x \in Port : L[x] \cap R[x] = {}
        /\ \A x \in Port : \A p \in L[x] \cup R[x] : p <= m
    BY <2>1, <2>5
  <2>8. \A j \in 1 .. area[k].n : \A h \in DOMAIN B[j] :
            \A p \in L[area[k].port[j]] \cup R[area[k].port[j]] : p < B[j][h]
    BY <2>3, <2>6
  <2> QED BY <2>4, <2>7, <2>8
<1>9. Ascending(b) /\ \A j \in DOMAIN b : b[j] <= m
  BY <1>2, <1>4 DEF BuffersOf
<1>10. PICK o, o2, e, e2, l, l2 : /\ o = O[q] /\ o2 = O2[q] /\ e = R[q] /\ e2 = R2[q]
                                  /\ l = L[q] /\ l2 = L2[q]
  OBVIOUS
<1>11. /\ o \in Seq(Copy) /\ o2 \in Seq(Copy) /\ e \in SUBSET Packet
       /\ Sorted(o)
       /\ l = PktsOf(o) /\ l \cap e = {}
       /\ l2 = PktsOf(o2)
       /\ \A p \in l \cup e : p <= m
       /\ \A j \in DOMAIN b : b[j] <= m /\ \A p \in l \cup e : p < b[j]
  <2>1. \A j \in DOMAIN b : \A p \in l \cup e : p < b[j]
    BY <1>8, <1>10, <1>4
  <2>2. o \in Seq(Copy) /\ o2 \in Seq(Copy) /\ e \in SUBSET Packet
    BY <1>3, <1>4, <1>10
  <2>3. /\ l = PktsOf(o) /\ l2 = PktsOf(o2)
    <3>1. /\ L[q] = PktsOf(O[q])
          /\ L2[q] = PktsOf(O2[q])
      BY <1>4, <1>6
    <3> QED BY <3>1, <1>10, Zenon
  <2>4. /\ Sorted(o)
        /\ l \cap e = {} /\ \A p \in l \cup e : p <= m
    BY <1>4, <1>8, <1>10
  <2> QED BY <2>1, <2>2, <2>3, <2>4, <1>9
<1>12. /\ Len(o2) = Len(o) + n /\ \A j \in 1 .. Len(o) : o2[j] = o[j]
       /\ \A j \in 1 .. n : o2[Len(o) + j].pkt = b[j]
       /\ e2 = e \cup {b[j] : j \in n + 1 .. Len(b)}
  BY <1>1, <1>10 DEF SentBy
<1>17. Extended(o, o2, b, n) /\ Refusing(e, e2, b, n) /\ Younger(b, l \cup e, m)
  BY <1>11, <1>12 DEF Extended, Refusing, Younger
<1>13. /\ Sorted(o2)
       /\ l2 \cap e2 = {}
       /\ l2 \cup e2 = l \cup e \cup ToSet(b)
       /\ \A p \in l2 \cup e2 : p <= m
  <2>1. InOrderAfter(o2, l2, e2, l \cup e, b, m)
    BY <1>4, <1>9, <1>11, <1>12, <1>17, SendLast
  <2> QED BY <2>1 DEF InOrderAfter
<1>14. GoneBy(s, r, q, b)
  <2>1. ASSUME NEW x \in Port, x # q PROVE Gone(r, x) = Gone(s, x)
    BY <2>1, <1>6, <1>7
  <2>2. Gone(r, q) = l2 \cup e2 /\ Gone(s, q) = l \cup e
    BY <1>4, <1>6, <1>10
  <2> QED BY <2>1, <2>2, <1>13 DEF GoneBy
<1>15. Grown(s, r)
  <2>1. SUFFICES ASSUME NEW x \in Port
        PROVE  /\ Len(O[x]) <= Len(O2[x])
               /\ \A j \in 1 .. Len(O[x]) : O2[x][j].pkt = O[x][j].pkt
               /\ R[x] \subseteq R2[x]
    BY <1>1 DEF Grown
  <2>2. CASE x = q
    <3>1. Len(o) <= Len(o2) /\ \A j \in 1 .. Len(o) : o2[j].pkt = o[j].pkt
      BY <1>11, <1>12
    <3> QED BY <3>1, <2>2, <1>10, <1>12
  <2>3. CASE x # q
    <3>1. Len(O[x]) \in Nat
      BY <1>3
    <3> QED BY <2>3, <1>7, <3>1
  <2> QED BY <2>2, <2>3
<1>16. PortsOf(r, k, m)
  <2>1. \A x \in Port : Sorted(O2[x])
    BY <1>7, <1>8, <1>10, <1>13
  <2>2. \A x \in Port : L2[x] \cap R2[x] = {} /\ \A p \in L2[x] \cup R2[x] : p <= m
    BY <1>7, <1>8, <1>10, <1>13
  <2>3. ASSUME NEW j \in 1 .. area[k].n, NEW h \in DOMAIN B2[j],
               NEW p \in L2[area[k].port[j]] \cup R2[area[k].port[j]]
        PROVE  p < B2[j][h]
    <3>0. j \in Index
      BY IndexFacts DEF PortsKnown
    <3>1. CASE j = i
      <4>1. B2[j] = <<>>
        BY <3>0, <3>1, <1>2 DEF BuffersAfter
      <4> QED BY <4>1
    <3>2. CASE j # i
      <4>1. B2[j] = B[j]
        BY <3>0, <3>2, <1>2 DEF BuffersAfter
      <4>2. area[k].port[j] # q /\ area[k].port[j] \in Port
        BY <3>2 DEF PortsKnown
      <4>3. p \in L[area[k].port[j]] \cup R[area[k].port[j]]
        BY <4>2, <1>7
      <4> QED BY <4>1, <4>3, <1>8
    <3> QED BY <3>1, <3>2
  <2>4. \A x \in Port : Left(r, x) = L2[x]
    BY <1>5
  <2>5. \A j \in 1 .. area[k].n : Left(r, area[k].port[j]) = L2[area[k].port[j]]
    BY <2>4 DEF PortsKnown
  <2>6. \A x \in Port : \A g, h \in DOMAIN r.out[x] : g < h => r.out[x][g].pkt < r.out[x][h].pkt
    BY <1>1, <2>1 DEF Sorted
  <2>7. \A x \in Port : /\ Left(r, x) \cap r.refused[x] = {}
                        /\ \A p \in Left(r, x) \cup r.refused[x] : p <= m
    BY <1>1, <2>2, <2>4
  <2>8. \A j \in 1 .. area[k].n : \A h \in DOMAIN r.buf[k][j] :
          \A p \in Left(r, area[k].port[j]) \cup r.refused[area[k].port[j]] : p < r.buf[k][j][h]
    BY <1>1, <1>2, <2>3, <2>5
  <2> QED BY <2>6, <2>7, <2>8 DEF PortsOf
<1> QED BY <1>14, <1>15, <1>16

SameDue(s, r, k) == \A q \in Port : Due(r, k, q) = Due(s, k, q)
OthersFresh(s, r, k, i, m) ==
    \A j \in 1 .. area[k].n : j # i /\ Fresh(s, k, j, m) => Fresh(r, k, j, m)

LEMMA IndexOfArea ==
    ASSUME NEW k, PortsKnown(k)
    PROVE  \A i \in 1 .. area[k].n : i \in Index /\ area[k].port[i] \in Port
  BY IndexFacts DEF PortsKnown

(* Sending changes where a copy is, not the port it is for.                 *)
LEMMA TransmitDue ==
    ASSUME NEW s \in PacketRecord, NEW r \in PacketRecord, NEW k \in Area,
           NEW i \in 1 .. area[k].n, PortsKnown(k),
           NEW b, b = s.buf[k][i], NEW q, q = area[k].port[i],
           BuffersAfter(s, r, k, i),
           GoneBy(s, r, q, b)
    PROVE  SameDue(s, r, k) /\ \A m : OthersFresh(s, r, k, i, m)
<1>1. PICK B, B2 : B = s.buf[k] /\ B2 = r.buf[k]
  OBVIOUS
<1>2. /\ \A j \in Index : B2[j] = IF j = i THEN <<>> ELSE B[j]
      /\ b = B[i]
  BY <1>1 DEF BuffersAfter
<1>3. PICK P, n : P = area[k].port /\ n = area[k].n
  OBVIOUS
<1>4. /\ \A j \in 1 .. n : j \in Index /\ P[j] \in Port
      /\ \A j, l \in 1 .. n : P[j] = P[l] => j = l
      /\ i \in 1 .. n /\ q = P[i]
  BY <1>3, IndexOfArea DEF PortsKnown
<1>5. SameDue(s, r, k)
  <2>1. SUFFICES ASSUME NEW x \in Port, NEW p \in Packet
        PROVE  p \in Due(r, k, x) <=> p \in Due(s, k, x)
    BY DEF SameDue, Due
  <2>2. /\ p \in Due(s, k, x) <=> \/ p \in Gone(s, x)
                                  \/ \E j \in 1 .. n : P[j] = x /\ \E l \in DOMAIN B[j] : B[j][l] = p
        /\ p \in Due(r, k, x) <=> \/ p \in Gone(r, x)
                                  \/ \E j \in 1 .. n : P[j] = x /\ \E l \in DOMAIN B2[j] : B2[j][l] = p
    BY <1>1, <1>3 DEF Due
  <2>0. (x # q => Gone(r, x) = Gone(s, x)) /\ Gone(r, q) = Gone(s, q) \cup ToSet(b)
    BY DEF GoneBy
  <2>3. CASE x # q
    <3>1. \A j \in 1 .. n : P[j] = x => B2[j] = B[j]
      BY <1>2, <1>4, <2>3
    <3>2. Gone(r, x) = Gone(s, x)
      BY <2>3, <2>0
    <3> QED BY <3>1, <3>2, <2>2
  <2>4. CASE x = q
    <3>1. \A j \in 1 .. n : P[j] = x <=> j = i
      BY <1>4, <2>4
    <3>2. B2[i] = <<>> /\ B[i] = b
      BY <1>2, <1>4
    <3>3. ~ \E l \in DOMAIN B2[i] : B2[i][l] = p
      BY <3>2
    <3>4. p \in ToSet(b) <=> \E l \in DOMAIN B[i] : B[i][l] = p
      BY <3>2 DEF ToSet
    <3>5. p \in Gone(r, x) <=> p \in Gone(s, x) \/ p \in ToSet(b)
      BY <2>4, <2>0
    <3>6. p \in Due(r, k, x) <=> p \in Gone(r, x)
      BY <2>2, <3>1, <3>3
    <3>7. p \in Due(s, k, x) <=> p \in Gone(s, x) \/ p \in ToSet(b)
      BY <2>2, <3>1, <3>4, <1>4
    <3> QED BY <3>5, <3>6, <3>7
  <2> QED BY <2>3, <2>4
<1>6. ASSUME NEW m PROVE OthersFresh(s, r, k, i, m)
  <2>1. SUFFICES ASSUME NEW j \in 1 .. area[k].n, j # i, Fresh(s, k, j, m)
        PROVE  Fresh(r, k, j, m)
    BY DEF OthersFresh
  <2>2. j \in 1 .. n /\ B2[j] = B[j]
    BY <1>2, <1>3, <1>4, <2>1
  <2>3. P[j] # q /\ P[j] \in Port
    BY <2>1, <2>2, <1>4
  <2>4. Gone(r, P[j]) = Gone(s, P[j])
    BY <2>3 DEF GoneBy
  <2> QED BY <2>1, <2>2, <2>4, <1>1, <1>3 DEF Fresh
<1> QED BY <1>5, <1>6

(* All of it, for one buffer.                                               *)
LEMMA TransmitSound ==
    ASSUME NEW s \in PacketRecord, NEW k \in Area, NEW i \in 1 .. area[k].n,
           NEW room \in Room, NEW m \in Int, NEW w \in [Packet -> Int],
           PortsKnown(k), Good(s, k, m, w), NEW r, r = Transmit(s, k, i, room)
    PROVE  /\ r \in PacketRecord /\ BuffersAfter(s, r, k, i)
           /\ Good(r, k, m, w) /\ Grown(s, r) /\ SameDue(s, r, k)
           /\ \A j : OthersFresh(s, r, k, i, j)
<1>1. i \in Index /\ area[k].port[i] \in Port
  BY IndexOfArea
<1>2. PICK b, q : b = s.buf[k][i] /\ q = area[k].port[i]
  OBVIOUS
<1>3. /\ r \in PacketRecord
      /\ BuffersAfter(s, r, k, i) /\ CountsAfter(s, r, b) /\ OtherPortsKeep(s, r, q)
      /\ q \in Port => \E n \in 0 .. Len(b) : SentBy(s, r, b, q, n)
  BY <1>1, <1>2, TransmitIs, Zenon
<1>4. PICK n \in 0 .. Len(b) : SentBy(s, r, b, q, n)
  BY <1>1, <1>2, <1>3
<1>5. BuffersOf(s, k, m) /\ PortsOf(s, k, m) /\ Counted(s, k, w)
  BY DEF Good
<1>6. /\ PortsOf(r, k, m) /\ Grown(s, r) /\ GoneBy(s, r, q, b)
  BY <1>1, <1>2, <1>3, <1>4, <1>5, TransmitPorts
<1>7. Ascending(b)
  BY <1>1, <1>2, <1>5 DEF BuffersOf
<1>8. BuffersOf(r, k, m)
  BY <1>1, <1>3, <1>5, TransmitBuffers
<1>9. Counted(r, k, w)
  BY <1>1, <1>2, <1>3, <1>5, <1>7, TransmitCounted
<1>10. SameDue(s, r, k) /\ \A j : OthersFresh(s, r, k, i, j)
  BY <1>1, <1>2, <1>3, <1>6, TransmitDue
<1> QED BY <1>3, <1>6, <1>8, <1>9, <1>10 DEF Good

(* What is sent stays sent, over several steps.                             *)
LEMMA GrownTransitive ==
    ASSUME NEW s \in PacketRecord, NEW r \in PacketRecord, NEW t \in PacketRecord,
           Grown(s, r), Grown(r, t)
    PROVE  Grown(s, t)
<1>1. SUFFICES ASSUME NEW q \in Port
      PROVE  /\ Len(s.out[q]) <= Len(t.out[q])
             /\ \A j \in 1 .. Len(s.out[q]) : t.out[q][j].pkt = s.out[q][j].pkt
             /\ s.refused[q] \subseteq t.refused[q]
  BY DEF Grown
<1>2. PICK O, P, Q, R, S, T : /\ O = s.out[q] /\ P = r.out[q] /\ Q = t.out[q]
                              /\ R = s.refused[q] /\ S = r.refused[q] /\ T = t.refused[q]
  OBVIOUS
<1>3. O \in Seq(Copy) /\ P \in Seq(Copy) /\ Q \in Seq(Copy)
  BY <1>2, RecordIs
<1>4. /\ Len(O) <= Len(P) /\ R \subseteq S
      /\ \A j \in 1 .. Len(O) : P[j].pkt = O[j].pkt
  BY <1>2 DEF Grown
<1>5. /\ Len(P) <= Len(Q) /\ S \subseteq T
      /\ \A j \in 1 .. Len(P) : Q[j].pkt = P[j].pkt
  BY <1>2 DEF Grown
<1>6. Len(O) \in Nat /\ Len(P) \in Nat /\ Len(Q) \in Nat
  BY <1>3
<1>7. \A j \in 1 .. Len(O) : j \in 1 .. Len(P)
  BY <1>4, <1>6
<1>8. \A j \in 1 .. Len(O) : Q[j].pkt = O[j].pkt
  BY <1>4, <1>5, <1>7
<1>9. Len(O) <= Len(Q) /\ R \subseteq T
  BY <1>4, <1>5, <1>6
<1> QED BY <1>2, <1>8, <1>9

LEMMA GrownReflexive ==
    ASSUME NEW s \in PacketRecord PROVE Grown(s, s)
<1>1. \A q \in Port : Len(s.out[q]) \in Nat
  <2>1. \A q \in Port : s.out[q] \in Seq(Copy)
    BY RecordIs
  <2> QED BY <2>1
<1> QED BY <1>1 DEF Grown

(* A state between two loop turns is a state of the packets.                *)
LEMMA StateIsRecord == PacketState \subseteq PacketRecord
  BY DEF PacketState

(* A record becomes a state again when the only buffer that may be full is  *)
(* emptied.                                                                 *)
LEMMA StateAfter ==
    ASSUME NEW s, NEW r \in PacketRecord, NEW k, NEW i, BuffersAfter(s, r, k, i),
           \A l \in Area, j \in Index : <<l, j>> # <<k, i>> => Len(s.buf[l][j]) < BurstSize
    PROVE  r \in PacketState
<1>1. ASSUME NEW l \in Area, NEW j \in Index PROVE Len(r.buf[l][j]) < BurstSize
  <2>1. CASE l = k /\ j = i
    <3>1. r.buf[l][j] = <<>>
      BY <2>1 DEF BuffersAfter
    <3>2. Len(<<>>) = 0
      OBVIOUS
    <3> QED BY <3>1, <3>2, IndexFacts
  <2>2. CASE ~(l = k /\ j = i)
    <3>1. r.buf[l][j] = s.buf[l][j]
      BY <2>2 DEF BuffersAfter
    <3> QED BY <3>1, <2>2
  <2> QED BY <2>1, <2>2
<1> QED BY <1>1 DEF PacketState

(* Types through transmit_all_packet.                                       *)
LEMMA TransmitAnyType ==
    ASSUME NEW s \in PacketState, NEW k \in Area, NEW i \in Index, NEW room \in Room
    PROVE  TransmitIfAny(s, k, i, room) \in PacketState
<1>1. CASE s.buf[k][i] = <<>>
  BY <1>1 DEF TransmitIfAny
<1>2. CASE s.buf[k][i] # <<>>
  <2>1. PICK r, b, q : /\ r = Transmit(s, k, i, room)
                       /\ b = s.buf[k][i] /\ q = area[k].port[i]
    OBVIOUS
  <2>2. r \in PacketRecord /\ BuffersAfter(s, r, k, i)
    BY <2>1, StateIsRecord, TransmitIs, Zenon
  <2>3. \A l \in Area, j \in Index : Len(s.buf[l][j]) < BurstSize
    BY DEF PacketState
  <2>4. r \in PacketState
    BY <2>2, <2>3, StateAfter
  <2> QED BY <1>2, <2>1, <2>4 DEF TransmitIfAny
<1> QED BY <1>1, <1>2

LEMMA TransmitAllType ==
    ASSUME NEW s \in PacketState, NEW k \in Area, NEW room \in Room,
           area[k].n \in 0 .. MaxTx
    PROVE  TransmitAll(s, k, room) \in PacketState
<1> DEFINE S == [i \in 0 .. LastTx(k) |-> PacketState]
<1>1. LastTx(k) \in Nat /\ 1 .. LastTx(k) \subseteq Index
  BY IndexFacts DEF LastTx
<1>2. \A i \in 0 .. LastTx(k) : S[i] = PacketState
  OBVIOUS
<1> HIDE DEF S
<1>3. s \in S[0]
  BY <1>1, <1>2
<1>4. ASSUME NEW i \in 1 .. LastTx(k), NEW x \in S[i - 1]
      PROVE  TransmitIfAny(x, k, i, room) \in S[i]
  <2>1. i \in Index /\ x \in PacketState /\ S[i] = PacketState
    BY <1>1, <1>2
  <2> QED BY <2>1, TransmitAnyType
<1>5. TransmitAll(s, k, room) \in S[LastTx(k)]
  BY <1>1, <1>3, <1>4, TransmitAllInduction
<1> QED BY <1>1, <1>2, <1>5

(* Nothing is sent when nothing is buffered.                                *)
LEMMA TransmitNothing ==
    ASSUME NEW s, NEW k \in Area, NEW room, area[k].n \in 0 .. MaxTx,
           \A i \in Index : s.buf[k][i] = <<>>
    PROVE  TransmitAll(s, k, room) = s
<1> DEFINE S == [i \in 0 .. LastTx(k) |-> {s}]
<1>1. LastTx(k) \in Nat /\ 1 .. LastTx(k) \subseteq Index
  BY IndexFacts DEF LastTx
<1>2. \A i \in 0 .. LastTx(k) : S[i] = {s}
  OBVIOUS
<1> HIDE DEF S
<1>3. s \in S[0]
  BY <1>1, <1>2
<1>4. ASSUME NEW i \in 1 .. LastTx(k), NEW x \in S[i - 1]
      PROVE  TransmitIfAny(x, k, i, room) \in S[i]
  <2>1. i \in Index /\ x = s /\ S[i] = {s}
    BY <1>1, <1>2
  <2>2. TransmitIfAny(s, k, i, room) = s
    BY <2>1 DEF TransmitIfAny
  <2> QED BY <2>1, <2>2
<1>5. TransmitAll(s, k, room) \in S[LastTx(k)]
  BY <1>1, <1>3, <1>4, TransmitAllInduction
<1> QED BY <1>1, <1>2, <1>5

EmptyTo(s, k, n) == \A j \in 1 .. n : s.buf[k][j] = <<>>
AllEmpty(s) == \A l \in Area, j \in Index : s.buf[l][j] = <<>>

(* All buffers are sent: nothing is left, and nothing is lost.              *)
LEMMA TransmitAllSound ==
    ASSUME NEW s \in PacketState, NEW k \in Area, NEW room \in Room, NEW m \in Int,
           NEW w \in [Packet -> Int], PortsKnown(k), Good(s, k, m, w),
           NEW r, r = TransmitAll(s, k, room)
    PROVE  /\ r \in PacketState /\ Good(r, k, m, w) /\ Grown(s, r) /\ SameDue(s, r, k)
           /\ AllEmpty(r)
<1> DEFINE P(x, i) == Good(x, k, m, w) /\ Grown(s, x) /\ SameDue(s, x, k) /\ EmptyTo(x, k, i)
           S == [i \in 0 .. LastTx(k) |-> {x \in PacketState : P(x, i)}]
<1>1. LastTx(k) \in Nat /\ LastTx(k) = area[k].n
  BY IndexFacts DEF LastTx, PortsKnown
<1>2. \A i \in 0 .. LastTx(k) : S[i] = {x \in PacketState : P(x, i)}
  OBVIOUS
<1> HIDE DEF S
<1>3. s \in S[0]
  <2>1. Grown(s, s) /\ SameDue(s, s, k) /\ EmptyTo(s, k, 0)
    BY GrownReflexive, StateIsRecord DEF SameDue, EmptyTo
  <2> QED BY <1>1, <1>2, <2>1
<1>4. ASSUME NEW i \in 1 .. LastTx(k), NEW x \in S[i - 1]
      PROVE  TransmitIfAny(x, k, i, room) \in S[i]
  <2>1. i \in Index /\ i \in 1 .. area[k].n /\ i - 1 \in 0 .. LastTx(k) /\ i \in 0 .. LastTx(k)
    BY <1>1, IndexOfArea
  <2>2. x \in PacketState /\ P(x, i - 1) /\ x \in PacketRecord /\ s \in PacketRecord
    BY <1>2, <2>1, StateIsRecord
  <2>3. PICK y : y = TransmitIfAny(x, k, i, room)
    OBVIOUS
  <2>4. y \in PacketState
    BY <2>1, <2>2, <2>3, TransmitAnyType
  <2>5. CASE x.buf[k][i] = <<>>
    <3>1. y = x
      BY <2>3, <2>5 DEF TransmitIfAny
    <3>2. EmptyTo(x, k, i)
      BY <2>2, <2>5, <2>1 DEF EmptyTo
    <3> QED BY <3>1, <3>2, <2>1, <2>2, <2>3, <1>2
  <2>6. CASE x.buf[k][i] # <<>>
    <3>1. y = Transmit(x, k, i, room)
      BY <2>3, <2>6 DEF TransmitIfAny
    <3>2. Good(x, k, m, w) /\ Grown(s, x) /\ SameDue(s, x, k) /\ EmptyTo(x, k, i - 1)
      BY <2>2
    <3> HIDE DEF P
    <3>3. /\ BuffersAfter(x, y, k, i) /\ Good(y, k, m, w) /\ Grown(x, y)
          /\ SameDue(x, y, k) /\ y \in PacketRecord
      BY <2>1, <2>2, <3>1, <3>2, TransmitSound
    <3>4. Grown(s, y)
      BY <2>2, <3>2, <3>3, GrownTransitive
    <3>5. SameDue(s, y, k)
      BY <3>2, <3>3 DEF SameDue
    <3>6. EmptyTo(y, k, i)
      <4>1. SUFFICES ASSUME NEW j \in 1 .. i PROVE y.buf[k][j] = <<>>
        BY DEF EmptyTo
      <4>2. j \in Index
        BY <2>1, IndexFacts
      <4>3. j # i => x.buf[k][j] = <<>>
        <5>1. j # i => j \in 1 .. i - 1
          BY <2>1
        <5> QED BY <5>1, <3>2 DEF EmptyTo
      <4> QED BY <4>2, <4>3, <3>3 DEF BuffersAfter
    <3>7. P(y, i)
      BY <3>3, <3>4, <3>5, <3>6 DEF P
    <3> QED BY <3>7, <2>1, <2>3, <2>4, <1>2
  <2> QED BY <2>5, <2>6
<1>5. r \in S[LastTx(k)]
  BY <1>1, <1>3, <1>4, TransmitAllInduction
<1>6. r \in PacketState /\ P(r, LastTx(k))
  BY <1>1, <1>2, <1>5
<1>7. AllEmpty(r)
  <2>1. BuffersOf(r, k, m) /\ EmptyTo(r, k, area[k].n)
    BY <1>1, <1>6 DEF Good
  <2>2. ASSUME NEW j \in Index PROVE r.buf[k][j] = <<>>
    <3>1. r.buf[k][j] # <<>> => j <= area[k].n
      BY <2>1 DEF BuffersOf
    <3>2. j <= area[k].n => j \in 1 .. area[k].n
      BY IndexFacts, <1>1
    <3> QED BY <3>1, <3>2, <2>1 DEF EmptyTo
  <2>3. \A j \in Index : r.buf[1 - k][j] = <<>>
    BY <2>1 DEF BuffersOf
  <2>4. ASSUME NEW l \in Area PROVE l = k \/ l = 1 - k
    BY IndexFacts
  <2> QED BY <2>2, <2>3, <2>4 DEF AllEmpty
<1> QED BY <1>6, <1>7

(* push_packet before it looks whether the buffer is full.                  *)
Appended(s, k, i, p) == [s EXCEPT !.buf[k][i] = Append(@, p)]
BuffersWith(s, t, k, i, p) ==
    \A l \in Area, j \in Index :
        t.buf[l][j] = IF l = k /\ j = i THEN Append(s.buf[l][j], p) ELSE s.buf[l][j]
SameElse(s, t) == t.out = s.out /\ t.refused = s.refused /\ t.refcnt = s.refcnt

(* push_packet before the buffer is full.                                   *)
LEMMA AppendedIs ==
    ASSUME NEW s \in PacketRecord, NEW k \in Area, NEW i \in Index, NEW p \in Packet,
           NEW t, t = Appended(s, k, i, p)
    PROVE  t \in PacketRecord /\ BuffersWith(s, t, k, i, p) /\ SameElse(s, t)
<1>1. PICK B, b : B = s.buf /\ b = Append(s.buf[k][i], p)
  OBVIOUS
<1>2. B \in [Area -> [Index -> Seq(Packet)]] /\ s.buf[k][i] \in Seq(Packet)
  BY <1>1, RecordIs DEF Buffers
<1>3. b \in Seq(Packet)
  BY <1>1, <1>2, AppendType
<1>4. PICK B2 : B2 = [B EXCEPT ![k] = [B[k] EXCEPT ![i] = b]]
  OBVIOUS
<1>5. t = [s EXCEPT !.buf = B2]
  BY <1>1, <1>4 DEF Appended
<1>6. t = [buf |-> B2, refcnt |-> s.refcnt, vid |-> s.vid, out |-> s.out,
           refused |-> s.refused]
  BY <1>5, RecordIs
<1>7. /\ B2 \in [Area -> [Index -> Seq(Packet)]]
      /\ \A l \in Area, j \in Index : B2[l][j] = IF l = k /\ j = i THEN b ELSE B[l][j]
  BY <1>2, <1>3, <1>4
<1>8. t.buf = B2 /\ t.refcnt = s.refcnt /\ t.out = s.out /\ t.refused = s.refused
  BY <1>6
<1>9. t \in PacketRecord
  BY <1>6, <1>7, RecordIs DEF PacketRecord, Buffers
<1>10. BuffersWith(s, t, k, i, p)
  BY <1>1, <1>7, <1>8 DEF BuffersWith
<1> QED BY <1>8, <1>9, <1>10 DEF SameElse

LEMMA PushIs ==
    ASSUME NEW s, NEW k, NEW i, NEW p, NEW room, NEW t, t = Appended(s, k, i, p)
    PROVE  Push(s, k, i, p, room) = IF Len(t.buf[k][i]) = BurstSize
                                    THEN Transmit(t, k, i, room) ELSE t
  BY Zenon DEF Push, Full, Appended

(* Types through the pushes of one packet.                                  *)
LEMMA PushType ==
    ASSUME NEW s \in PacketState, NEW k \in Area, NEW i \in Index, NEW p \in Packet,
           NEW room \in Room
    PROVE  Push(s, k, i, p, room) \in PacketState
<1>1. PICK t, b, q : /\ t = Appended(s, k, i, p)
                     /\ b = t.buf[k][i] /\ q = area[k].port[i]
  OBVIOUS
<1>2. s \in PacketRecord /\ t \in PacketRecord /\ BuffersWith(s, t, k, i, p)
  BY <1>1, StateIsRecord, AppendedIs
<1>3. \A l \in Area, j \in Index : Len(s.buf[l][j]) < BurstSize /\ s.buf[l][j] \in Seq(Packet)
  BY <1>2, RecordIs DEF PacketState, Buffers
<1>4. b = Append(s.buf[k][i], p) /\ Len(b) = Len(s.buf[k][i]) + 1
  <2>1. b = Append(s.buf[k][i], p)
    BY <1>1, <1>2 DEF BuffersWith
  <2>2. s.buf[k][i] \in Seq(Packet)
    BY <1>3
  <2> QED BY <2>1, <2>2
<1>5. \A l \in Area, j \in Index : <<l, j>> # <<k, i>> => Len(t.buf[l][j]) < BurstSize
  BY <1>2, <1>3 DEF BuffersWith
<1>6. CASE Len(b) = BurstSize
  <2>1. PICK r : r = Transmit(t, k, i, room)
    OBVIOUS
  <2>2. r \in PacketRecord /\ BuffersAfter(t, r, k, i)
    BY <1>1, <1>2, <2>1, TransmitIs, Zenon
  <2>3. r \in PacketState
    BY <1>5, <2>2, StateAfter
  <2> QED BY <1>1, <1>6, <2>1, <2>3, PushIs
<1>7. CASE Len(b) # BurstSize
  <2>1. Len(s.buf[k][i]) \in Nat /\ Len(s.buf[k][i]) < BurstSize
    BY <1>3
  <2>2. Len(b) < BurstSize
    BY <2>1, <1>4, <1>7, IndexFacts
  <2>3. \A l \in Area, j \in Index : Len(t.buf[l][j]) < BurstSize
    <3>1. SUFFICES ASSUME NEW l \in Area, NEW j \in Index
          PROVE  Len(t.buf[l][j]) < BurstSize
      OBVIOUS
    <3>2. CASE l = k /\ j = i
      BY <3>2, <2>2, <1>1
    <3>3. CASE ~(l = k /\ j = i)
      BY <3>3, <1>5
    <3> QED BY <3>2, <3>3
  <2>4. t \in PacketState
    BY <1>2, <2>3 DEF PacketState
  <2> QED BY <1>1, <1>7, <2>4, PushIs
<1> QED BY <1>6, <1>7

LEMMA PushAllType ==
    ASSUME NEW s \in PacketState, NEW k \in Area, NEW t \in Seq(Index), NEW p \in Packet,
           NEW room \in Room
    PROVE  PushAll(s, k, t, p, room) \in PacketState
<1> DEFINE S == [j \in 0 .. Len(t) |-> PacketState]
<1>1. Len(t) \in Nat /\ \A j \in 1 .. Len(t) : t[j] \in Index
  OBVIOUS
<1>2. \A j \in 0 .. Len(t) : S[j] = PacketState
  OBVIOUS
<1> HIDE DEF S
<1>3. s \in S[0]
  BY <1>1, <1>2
<1>4. ASSUME NEW j \in 1 .. Len(t), NEW x \in S[j - 1]
      PROVE  Push(x, k, t[j], p, room) \in S[j]
  <2>1. t[j] \in Index /\ x \in PacketState /\ S[j] = PacketState
    BY <1>1, <1>2
  <2> QED BY <2>1, PushType
<1>5. PushAll(s, k, t, p, room) \in S[Len(t)]
  BY <1>1, <1>3, <1>4, PushAllInduction
<1> QED BY <1>1, <1>2, <1>5

(* The port of tx index i has the packet besides what it had.               *)
DueWith(s, r, k, i, p) ==
    \A q \in Port : Due(r, k, q) = Due(s, k, q) \cup
                       {x \in {p} : q = area[k].port[i]}
One(w, p) == [w EXCEPT ![p] = @ - 1]

(* Sequences of packets.                                                    *)
LEMMA NumberSequence ==
    ASSUME NEW b \in Seq(Packet) PROVE b \in Seq(Int)
<1>1. \A j \in 1 .. Len(b) : b[j] \in Int
  <2>1. \A j \in 1 .. Len(b) : b[j] \in Packet
    OBVIOUS
  <2> QED BY <2>1, PacketInt
<1>2. Len(b) \in Nat /\ b \in [1 .. Len(b) -> Packet]
  OBVIOUS
<1>3. b \in [1 .. Len(b) -> Int]
  BY <1>1, <1>2
<1> QED BY <1>2, <1>3

(* The pushed packet is the newest of its buffer, of its port, and          *)
(* counted.                                                                 *)
LEMMA AppendBuffers ==
    ASSUME NEW s \in PacketRecord, NEW t \in PacketRecord, NEW k \in Area,
           NEW i \in 1 .. area[k].n, PortsKnown(k), NEW p \in Packet, NEW m \in Int, m < p,
           BuffersWith(s, t, k, i, p), BuffersOf(s, k, p), Fresh(s, k, i, m)
    PROVE  BuffersOf(t, k, p)
<1>1. PICK B, B2, D, D2 : B = s.buf[k] /\ B2 = t.buf[k] /\ D = s.buf[1 - k] /\ D2 = t.buf[1 - k]
  OBVIOUS
<1>2. 1 - k \in Area /\ 1 - k # k /\ i \in Index /\ area[k].n \in Nat
  BY IndexFacts, IndexOfArea DEF PortsKnown
<1>3. /\ \A j \in Index : B2[j] = IF j = i THEN Append(B[j], p) ELSE B[j]
      /\ \A j \in Index : D2[j] = D[j]
  BY <1>1, <1>2 DEF BuffersWith
<1>4. /\ \A j \in Index : D[j] = <<>>
      /\ \A j \in Index : B[j] # <<>> => j <= area[k].n
      /\ \A j \in Index : Ascending(B[j])
      /\ \A j \in Index : \A l \in DOMAIN B[j] : B[j][l] <= p
  BY <1>1 DEF BuffersOf
<1>5. B \in [Index -> Seq(Packet)]
  BY <1>1, RecordIs DEF Buffers
<1>6. ASSUME NEW j \in Index, j = i
      PROVE  Ascending(B2[j]) /\ \A l \in DOMAIN B2[j] : B2[j][l] <= p
  <2>1. PICK b, c : b = B[j] /\ c = B2[j]
    OBVIOUS
  <2>2. b \in Seq(Packet) /\ c = Append(b, p)
    BY <1>3, <1>5, <1>6, <2>1
  <2>3. \A l \in DOMAIN b : b[l] <= m
    BY <1>1, <1>6, <2>1 DEF Fresh
  <2>4. Packet \subseteq Int /\ p \in Int
    BY PacketInt
  <2>5. b \in Seq(Int) /\ c \in Seq(Int)
    <3>1. c \in Seq(Packet)
      BY <2>2, AppendType
    <3> QED BY <3>1, <2>2, NumberSequence
  <2>6. /\ Len(c) = Len(b) + 1 /\ \A l \in 1 .. Len(b) : c[l] = b[l]
        /\ c[Len(b) + 1] = p
    BY <2>2, AppendType
  <2>7. \A l \in 1 .. Len(b) : b[l] < p
    <3>1. \A l \in 1 .. Len(b) : b[l] \in Int /\ l \in DOMAIN b
      BY <2>5
    <3> QED BY <2>3, <2>4, <3>1
  <2>8. Ascending(b)
    BY <1>4, <2>1
  <2>9. Ascending(c)
    BY <2>4, <2>5, <2>6, <2>7, <2>8, AscendingExtended
  <2>10. ASSUME NEW l \in DOMAIN c PROVE c[l] <= p
    <3>1. l \in 1 .. Len(b) \/ l = Len(b) + 1
      BY <2>5, <2>6
    <3>2. CASE l \in 1 .. Len(b)
      <4>1. c[l] = b[l] /\ b[l] \in Int /\ b[l] < p
        BY <3>2, <2>5, <2>6, <2>7
      <4> QED BY <4>1, <2>4
    <3>3. CASE l = Len(b) + 1
      BY <3>3, <2>4, <2>6
    <3> QED BY <3>1, <3>2, <3>3
  <2> QED BY <2>1, <2>9, <2>10
<1>7. ASSUME NEW j \in Index
      PROVE  /\ D2[j] = <<>> /\ (B2[j] # <<>> => j <= area[k].n)
             /\ Ascending(B2[j]) /\ \A l \in DOMAIN B2[j] : B2[j][l] <= p
  <2>1. D2[j] = <<>>
    BY <1>3, <1>4
  <2>2. CASE j = i
    BY <2>1, <2>2, <1>6, <1>2
  <2>3. CASE j # i
    <3>1. B2[j] = B[j]
      BY <1>3, <2>3
    <3> QED BY <3>1, <2>1, <1>4
  <2> QED BY <2>2, <2>3
<1> QED BY <1>1, <1>7 DEF BuffersOf

LEMMA AppendPorts ==
    ASSUME NEW s \in PacketRecord, NEW t \in PacketRecord, NEW k \in Area,
           NEW i \in 1 .. area[k].n, PortsKnown(k), NEW p \in Packet, NEW m \in Int, m < p,
           BuffersWith(s, t, k, i, p), SameElse(s, t), PortsOf(s, k, p), Fresh(s, k, i, m)
    PROVE  /\ PortsOf(t, k, p) /\ Grown(s, t) /\ DueWith(s, t, k, i, p)
           /\ OthersFresh(s, t, k, i, m)
<1>1. /\ t.out = s.out /\ t.refused = s.refused
      /\ \A q : Left(t, q) = Left(s, q) /\ Gone(t, q) = Gone(s, q)
  BY DEF SameElse, Left, Gone
<1>2. PICK B, B2 : B = s.buf[k] /\ B2 = t.buf[k]
  OBVIOUS
<1>3. /\ \A j \in 1 .. area[k].n : j # i => B2[j] = B[j]
      /\ B2[i] = Append(B[i], p)
      /\ \A j \in 1 .. area[k].n : B[j] \in Seq(Packet)
  <2>1. \A j \in Index : B2[j] = IF j = i THEN Append(B[j], p) ELSE B[j]
    BY <1>2 DEF BuffersWith
  <2>2. \A j \in Index : B[j] \in Seq(Packet)
    BY <1>2, RecordIs DEF Buffers
  <2>3. i \in Index /\ \A j \in 1 .. area[k].n : j \in Index
    BY IndexOfArea
  <2> QED BY <2>1, <2>2, <2>3
<1>4. PICK n, P : n = area[k].n /\ P = area[k].port
  OBVIOUS
<1>5. PICK b, c : b = B[i] /\ c = B2[i]
  OBVIOUS
<1>6. b \in Seq(Packet) /\ c = Append(b, p) /\ p \in Int
  BY <1>3, <1>5, PacketInt
<1>7. /\ \A l \in DOMAIN c : (l \in DOMAIN b /\ c[l] = b[l]) \/ c[l] = p
      /\ \A l \in DOMAIN b : l \in DOMAIN c /\ c[l] = b[l]
      /\ Len(b) + 1 \in DOMAIN c /\ c[Len(b) + 1] = p
  <2>1. Len(b) \in Nat /\ DOMAIN b = 1 .. Len(b) /\ DOMAIN c = 1 .. Len(b) + 1
    BY <1>6
  <2>2. \A l \in 1 .. Len(b) : c[l] = b[l]
    BY <1>6
  <2>3. c[Len(b) + 1] = p
    BY <1>6
  <2> QED BY <2>1, <2>2, <2>3
<1>8. \A x \in Gone(s, P[i]) : x <= m
  BY <1>4 DEF Fresh
<1>9. PortsOf(t, k, p)
  <2>1. ASSUME NEW j \in 1 .. n, NEW l \in DOMAIN B2[j], NEW x \in Gone(s, P[j])
        PROVE  x < B2[j][l]
    <3>1. \A h \in DOMAIN B[j] : x < B[j][h]
      BY <1>2, <1>4 DEF PortsOf, Gone
    <3>2. CASE j # i
      <4>1. B2[j] = B[j]
        BY <1>3, <1>4, <3>2
      <4> QED BY <4>1, <3>1
    <3>3. CASE j = i
      <4>1. x <= m /\ x \in Int
        <5>1. x <= m
          BY <3>3, <1>8
        <5>2. P[j] \in Port
          BY <1>4, IndexOfArea
        <5>3. x \in Packet
          <6>1. s.out[P[j]] \in Seq(Copy) /\ s.refused[P[j]] \subseteq Packet
            BY <5>2, RecordIs
          <6>2. \A h \in DOMAIN s.out[P[j]] : s.out[P[j]][h] \in Copy
            BY <6>1
          <6> QED BY <6>1, <6>2 DEF Gone, Left, Copy
        <5> QED BY <5>1, <5>3, PacketInt
      <4>2. x < p
        BY <4>1, <1>6
      <4>3. l \in DOMAIN c /\ B2[j][l] = c[l]
        BY <3>3, <1>5
      <4>4. CASE c[l] = p
        BY <4>2, <4>3, <4>4
      <4>5. CASE l \in DOMAIN b /\ c[l] = b[l]
        <5>1. x < b[l]
          BY <3>1, <3>3, <4>5, <1>5
        <5> QED BY <5>1, <4>3, <4>5
      <4> QED BY <4>3, <4>4, <4>5, <1>7
    <3> QED BY <3>2, <3>3
  <2>2. \A j \in 1 .. n : \A l \in DOMAIN B2[j] :
            \A x \in Left(t, P[j]) \cup t.refused[P[j]] : x < B2[j][l]
    <3>1. \A j : Gone(s, P[j]) = Left(t, P[j]) \cup t.refused[P[j]]
      BY <1>1 DEF Gone
    <3> QED BY <2>1, <3>1
  <2>3. /\ \A q \in Port : \A g, h \in DOMAIN t.out[q] : g < h => t.out[q][g].pkt < t.out[q][h].pkt
        /\ \A q \in Port : Left(t, q) \cap t.refused[q] = {}
        /\ \A q \in Port : \A x \in Left(t, q) \cup t.refused[q] : x <= p
    BY <1>1, Zenon DEF PortsOf
  <2> QED BY <1>2, <1>4, <2>2, <2>3 DEF PortsOf
<1>10. Grown(s, t)
  <2>1. Grown(s, s)
    BY GrownReflexive
  <2> QED BY <2>1, <1>1, Zenon DEF Grown
<1>11. DueWith(s, t, k, i, p)
  <2>1. SUFFICES ASSUME NEW q \in Port, NEW x
        PROVE  x \in Due(t, k, q) <=> x \in Due(s, k, q) \/ (x = p /\ q = P[i])
    BY <1>4 DEF DueWith
  <2>2. /\ x \in Due(s, k, q) <=> /\ x \in Packet
                                  /\ \/ x \in Gone(s, q)
                                     \/ \E j \in 1 .. n : P[j] = q /\ \E l \in DOMAIN B[j] : B[j][l] = x
        /\ x \in Due(t, k, q) <=> /\ x \in Packet
                                  /\ \/ x \in Gone(s, q)
                                     \/ \E j \in 1 .. n : P[j] = q /\ \E l \in DOMAIN B2[j] : B2[j][l] = x
    BY <1>1, <1>2, <1>4 DEF Due
  <2>3. ASSUME NEW j \in 1 .. n
        PROVE  (\E l \in DOMAIN B2[j] : B2[j][l] = x) <=>
                  (\E l \in DOMAIN B[j] : B[j][l] = x) \/ (x = p /\ j = i)
    <3>1. CASE j # i
      <4>1. B2[j] = B[j]
        BY <1>3, <1>4, <3>1
      <4> QED BY <4>1, <3>1
    <3>2. CASE j = i
      <4>1. B[j] = b /\ B2[j] = c
        BY <3>2, <1>5
      <4>2. (\E l \in DOMAIN c : c[l] = x) <=> (\E l \in DOMAIN b : b[l] = x) \/ x = p
        BY <1>7
      <4> QED BY <4>1, <4>2, <3>2
    <3> QED BY <3>1, <3>2
  <2>4. i \in 1 .. n
    BY <1>4
  <2> QED BY <2>2, <2>3, <2>4
<1>12. OthersFresh(s, t, k, i, m)
  <2>1. SUFFICES ASSUME NEW j \in 1 .. area[k].n, j # i, Fresh(s, k, j, m)
        PROVE  Fresh(t, k, j, m)
    BY DEF OthersFresh
  <2>2. B2[j] = B[j]
    BY <1>3, <2>1
  <2> QED BY <2>1, <2>2, <1>1, <1>2 DEF Fresh
<1> QED BY <1>9, <1>10, <1>11, <1>12

LEMMA AppendCounted ==
    ASSUME NEW s \in PacketRecord, NEW t \in PacketRecord, NEW k \in Area,
           NEW i \in Index, NEW p \in Packet, NEW m \in Int, m < p,
           BuffersWith(s, t, k, i, p), SameElse(s, t), NEW w \in [Packet -> Int],
           Counted(s, k, w), Fresh(s, k, i, m)
    PROVE  Counted(t, k, One(w, p))
<1>1. SUFFICES ASSUME NEW x \in Packet
      PROVE  t.refcnt[x] = Cardinality(Holders(t.buf[k], x)) + One(w, p)[x]
  BY DEF Counted
<1>2. PICK B, B2, C : B = s.buf[k] /\ B2 = t.buf[k] /\ C = s.refcnt[x]
  OBVIOUS
<1>3. /\ \A j \in Index : B2[j] = IF j = i THEN Append(B[j], p) ELSE B[j]
      /\ \A j \in Index : B[j] \in Seq(Packet)
      /\ t.refcnt[x] = C
  BY <1>2, RecordIs DEF BuffersWith, SameElse, Buffers
<1>4. PICK S, T : S = Holders(B, x) /\ T = Holders(B2, x)
  OBVIOUS
<1>5. C = Cardinality(S) + w[x]
  BY <1>2, <1>4 DEF Counted
<1>6. PICK b, c : b = B[i] /\ c = B2[i]
  OBVIOUS
<1>7. b \in Seq(Packet) /\ c = Append(b, p) /\ p \in Int
  BY <1>3, <1>6, PacketInt
<1>8. (\E l \in DOMAIN c : c[l] = x) <=> (\E l \in DOMAIN b : b[l] = x) \/ x = p
  <2>1. Len(b) \in Nat /\ DOMAIN b = 1 .. Len(b) /\ DOMAIN c = 1 .. Len(b) + 1
    BY <1>7
  <2>2. (\A l \in 1 .. Len(b) : c[l] = b[l]) /\ c[Len(b) + 1] = p
    BY <1>7
  <2> QED BY <2>1, <2>2
<1>9. /\ i \in T <=> i \in S \/ x = p
      /\ \A j : j # i => (j \in T <=> j \in S)
  <2>1. i \in T <=> \E l \in DOMAIN c : c[l] = x
    BY <1>4, <1>6 DEF Holders
  <2>2. i \in S <=> \E l \in DOMAIN b : b[l] = x
    BY <1>4, <1>6 DEF Holders
  <2>3. ASSUME NEW j, j # i PROVE j \in T <=> j \in S
    <3>1. j \in Index => B2[j] = B[j]
      BY <1>3, <2>3
    <3> QED BY <3>1, <1>4 DEF Holders
  <2> QED BY <2>1, <2>2, <2>3, <1>8
<1>10. IsFiniteSet(S) /\ IsFiniteSet(T) /\ Cardinality(S) \in Nat /\ Cardinality(T) \in Nat
  BY <1>4, HoldersFinite
<1>11. CASE x # p
  <2>1. S = T
    BY <1>9, <1>11
  <2>2. One(w, p)[x] = w[x]
    BY <1>11 DEF One
  <2> QED BY <2>1, <2>2, <1>2, <1>3, <1>4, <1>5
<1>12. CASE x = p
  <2>1. \A l \in DOMAIN b : b[l] # p
    <3>1. \A l \in DOMAIN b : b[l] <= m /\ b[l] \in Int
      <4>1. \A l \in DOMAIN b : b[l] \in Packet
        BY <1>7
      <4> QED BY <1>2, <1>6, <4>1, PacketInt DEF Fresh
    <3> QED BY <3>1, <1>7
  <2>2. i \notin S
    BY <2>1, <1>4, <1>6, <1>12 DEF Holders
  <2>3. S = T \ {i} /\ i \in T
    BY <2>2, <1>9, <1>12
  <2>4. Cardinality(T) = Cardinality(S) + 1
    BY <2>3, <1>10, HoldersWithout
  <2>5. One(w, p)[x] = w[x] - 1
    BY <1>12 DEF One
  <2>6. C = Cardinality(T) + (w[x] - 1)
    BY <2>4, <1>5, <1>10
  <2> QED BY <2>5, <2>6, <1>2, <1>3, <1>4
<1> QED BY <1>11, <1>12

(* push_packet, whether it sends the buffer or not.                         *)
LEMMA PushSound ==
    ASSUME NEW s \in PacketState, NEW k \in Area, NEW i \in 1 .. area[k].n,
           PortsKnown(k), NEW p \in Packet, NEW m \in Int, m < p, NEW room \in Room,
           NEW w \in [Packet -> Int], Good(s, k, p, w), Fresh(s, k, i, m),
           NEW r, r = Push(s, k, i, p, room)
    PROVE  /\ r \in PacketState /\ Good(r, k, p, One(w, p)) /\ Grown(s, r)
           /\ DueWith(s, r, k, i, p) /\ OthersFresh(s, r, k, i, m)
<1>1. i \in Index /\ s \in PacketRecord /\ p \in Int
  BY IndexOfArea, StateIsRecord, PacketInt
<1>2. PICK t : t = Appended(s, k, i, p)
  OBVIOUS
<1>3. t \in PacketRecord /\ BuffersWith(s, t, k, i, p) /\ SameElse(s, t)
  BY <1>1, <1>2, AppendedIs
<1>4. BuffersOf(s, k, p) /\ PortsOf(s, k, p) /\ Counted(s, k, w)
  BY DEF Good
<1>5. BuffersOf(t, k, p)
  BY <1>1, <1>3, <1>4, AppendBuffers
<1>6. /\ PortsOf(t, k, p) /\ Grown(s, t) /\ DueWith(s, t, k, i, p)
      /\ OthersFresh(s, t, k, i, m)
  BY <1>1, <1>3, <1>4, AppendPorts
<1>7. PICK v : v = One(w, p)
  OBVIOUS
<1>8. v \in [Packet -> Int]
  BY <1>7 DEF One
<1>9. Counted(t, k, v)
  BY <1>1, <1>3, <1>4, <1>7, AppendCounted
<1>10. Good(t, k, p, v)
  BY <1>5, <1>6, <1>9 DEF Good
<1>11. r \in PacketState /\ r \in PacketRecord
  BY <1>1, PushType, StateIsRecord
<1>12. CASE Len(t.buf[k][i]) # BurstSize
  <2>1. r = t
    BY <1>2, <1>12, PushIs
  <2> QED BY <2>1, <1>6, <1>7, <1>10, <1>11
<1>13. CASE Len(t.buf[k][i]) = BurstSize
  <2>1. r = Transmit(t, k, i, room)
    BY <1>2, <1>13, PushIs
  <2>2. /\ Good(r, k, p, v) /\ Grown(t, r) /\ SameDue(t, r, k)
        /\ \A j : OthersFresh(t, r, k, i, j)
    BY <1>1, <1>3, <1>8, <1>10, <2>1, TransmitSound
  <2>3. Grown(s, r)
    BY <1>1, <1>3, <1>6, <1>11, <2>2, GrownTransitive
  <2>4. DueWith(s, r, k, i, p)
    BY <1>6, <2>2 DEF DueWith, SameDue
  <2>5. OthersFresh(s, r, k, i, m)
    BY <1>6, <2>2 DEF OthersFresh
  <2> QED BY <1>7, <1>11, <2>2, <2>3, <2>4, <2>5
<1> QED BY <1>12, <1>13

(* After j pushes of packet p.                                              *)
Less(w, p, j) == [w EXCEPT ![p] = @ - j]
DueTo(s, r, k, t, j, p) ==
    \A q \in Port : Due(r, k, q) = Due(s, k, q) \cup
                       {x \in {p} : \E h \in 1 .. j : q = area[k].port[t[h]]}
RestFresh(s, k, t, j, m) ==
    \A l \in 1 .. area[k].n : (\A h \in 1 .. j : t[h] # l) => Fresh(s, k, l, m)

LEMMA ElementsOf ==
    ASSUME NEW S, NEW s \in Seq(S)
    PROVE  Len(s) \in Nat /\ \A j \in 1 .. Len(s) : s[j] \in S
  OBVIOUS

(* All pushes of a packet: one reference goes to each tx index.             *)
LEMMA PushAllSound ==
    ASSUME NEW s \in PacketState, NEW k \in Area, PortsKnown(k),
           NEW p \in Packet, NEW m \in Int, m < p, NEW room \in Room,
           NEW w \in [Packet -> Int], Good(s, k, p, w),
           NEW t \in Seq(1 .. area[k].n),
           \A i, j \in 1 .. Len(t) : i # j => t[i] # t[j],
           RestFresh(s, k, t, 0, m),
           NEW r, r = PushAll(s, k, t, p, room)
    PROVE  /\ r \in PacketState /\ Good(r, k, p, Less(w, p, Len(t))) /\ Grown(s, r)
           /\ DueTo(s, r, k, t, Len(t), p)
<1> DEFINE P(x, j) == /\ Good(x, k, p, Less(w, p, j)) /\ Grown(s, x)
                      /\ DueTo(s, x, k, t, j, p) /\ RestFresh(x, k, t, j, m)
           S == [j \in 0 .. Len(t) |-> {x \in PacketState : P(x, j)}]
<1>1. Len(t) \in Nat /\ \A j \in 1 .. Len(t) : t[j] \in 1 .. area[k].n /\ t[j] \in Index
  <2>1. Len(t) \in Nat /\ \A j \in 1 .. Len(t) : t[j] \in 1 .. area[k].n
    BY ElementsOf
  <2> QED BY <2>1, IndexOfArea
<1>2. \A j \in 0 .. Len(t) : S[j] = {x \in PacketState : P(x, j)}
  OBVIOUS
<1> HIDE DEF S
<1>3. s \in S[0]
  <2>1. Grown(s, s)
    BY GrownReflexive, StateIsRecord
  <2>2. DueTo(s, s, k, t, 0, p)
    BY DEF DueTo
  <2>3. Less(w, p, 0) = w
    BY DEF Less
  <2> QED BY <1>1, <1>2, <2>1, <2>2, <2>3
<1>4. ASSUME NEW j \in 1 .. Len(t), NEW x \in S[j - 1]
      PROVE  Push(x, k, t[j], p, room) \in S[j]
  <2>1. j - 1 \in 0 .. Len(t) /\ j \in 0 .. Len(t) /\ j \in Int
    BY <1>1
  <2>2. x \in PacketState /\ P(x, j - 1)
    BY <1>2, <2>1
  <2>3. PICK i, y, v : i = t[j] /\ y = Push(x, k, i, p, room) /\ v = Less(w, p, j - 1)
    OBVIOUS
  <2>4. /\ Good(x, k, p, v) /\ Grown(s, x)
        /\ DueTo(s, x, k, t, j - 1, p) /\ RestFresh(x, k, t, j - 1, m)
    BY <2>2, <2>3
  <2> HIDE DEF P
  <2>5. i \in 1 .. area[k].n /\ v \in [Packet -> Int]
    BY <1>1, <2>1, <2>3 DEF Less
  <2>6. Fresh(x, k, i, m)
    <3>1. \A h \in 1 .. j - 1 : h \in 1 .. Len(t) /\ h # j
      BY <1>1
    <3>2. \A h \in 1 .. j - 1 : t[h] # i
      BY <2>3, <3>1
    <3> QED BY <2>4, <2>5, <3>2 DEF RestFresh
  <2>7. /\ y \in PacketState /\ Good(y, k, p, One(v, p)) /\ Grown(x, y)
        /\ DueWith(x, y, k, i, p) /\ OthersFresh(x, y, k, i, m)
    BY <2>2, <2>3, <2>4, <2>5, <2>6, PushSound, Zenon
  <2>8. One(v, p) = Less(w, p, j)
    BY <2>1, <2>3 DEF One, Less
  <2>9. Grown(s, y)
    BY <2>2, <2>4, <2>7, GrownTransitive, StateIsRecord
  <2>10. \A h : h \in 1 .. j <=> h \in 1 .. j - 1 \/ h = j
    BY <2>1
  <2>11. DueTo(s, y, k, t, j, p)
    <3>1. SUFFICES ASSUME NEW q \in Port, NEW z
          PROVE  z \in Due(y, k, q) <=>
                    z \in Due(s, k, q) \/ (z = p /\ \E h \in 1 .. j : q = area[k].port[t[h]])
      BY DEF DueTo
    <3>2. z \in Due(x, k, q) <=>
             z \in Due(s, k, q) \/ (z = p /\ \E h \in 1 .. j - 1 : q = area[k].port[t[h]])
      BY <2>4 DEF DueTo
    <3>3. z \in Due(y, k, q) <=> z \in Due(x, k, q) \/ (z = p /\ q = area[k].port[i])
      BY <2>7 DEF DueWith
    <3> QED BY <3>2, <3>3, <2>3, <2>10
  <2>12. RestFresh(y, k, t, j, m)
    <3>1. SUFFICES ASSUME NEW l \in 1 .. area[k].n, \A h \in 1 .. j : t[h] # l
          PROVE  Fresh(y, k, l, m)
      BY DEF RestFresh
    <3>2. l # i /\ \A h \in 1 .. j - 1 : t[h] # l
      BY <3>1, <2>3, <2>10
    <3>3. Fresh(x, k, l, m)
      BY <3>2, <2>4 DEF RestFresh
    <3> QED BY <3>2, <3>3, <2>7 DEF OthersFresh
  <2>13. P(y, j)
    BY <2>7, <2>8, <2>9, <2>11, <2>12 DEF P
  <2> QED BY <2>1, <2>3, <2>7, <2>13, <1>2
<1>5. r \in S[Len(t)]
  BY <1>1, <1>3, <1>4, PushAllInduction
<1>6. r \in PacketState /\ P(r, Len(t))
  BY <1>1, <1>2, <1>5
<1> QED BY <1>6

(* A tx index as a set.                                                     *)
Only(x) == {i \in {x} : i # 0}

(* The ports a packet belongs to, by the first choice that has any.         *)
LEMMA LastIsOnly ==
    ASSUME NEW S \in SUBSET (Nat \ {0}), NEW x, IsLast(x, S)
    PROVE  LastOf(S) = Only(x) /\ (x = 0 <=> S = {}) /\ (x # 0 => x \in S)
<1>1. CASE x = 0 /\ S = {}
  BY <1>1 DEF LastOf, Only
<1>2. CASE x \in S /\ \A j \in S : j <= x
  <2>1. x # 0 /\ x \in Nat
    BY <1>2
  <2>2. \A i \in S : (\A j \in S : j <= i) => i = x
    BY <1>2
  <2> QED BY <1>2, <2>1, <2>2 DEF LastOf, Only
<1> QED BY <1>1, <1>2 DEF IsLast

(* The first of four sets that has an element.                              *)
LEMMA FirstOfFour ==
    ASSUME NEW A, NEW B, NEW C, NEW D, NEW c, c = <<A, B, C, D>>,
           NEW first, first = {n \in 1 .. 4 : /\ c[n] # {}
                                              /\ \A m \in 1 .. n - 1 : c[m] = {}},
           NEW E, E = IF A # {} THEN A ELSE IF B # {} THEN B ELSE IF C # {} THEN C ELSE D
    PROVE  UNION {c[n] : n \in first} = E
<1>1. c[1] = A /\ c[2] = B /\ c[3] = C /\ c[4] = D
  OBVIOUS
<1>2. \A n \in 1 .. 4 : n = 1 \/ n = 2 \/ n = 3 \/ n = 4
  OBVIOUS
<1>3. /\ 1 .. 1 - 1 = {} /\ 1 .. 2 - 1 = {1} /\ 1 .. 3 - 1 = {1, 2} /\ 1 .. 4 - 1 = {1, 2, 3}
  OBVIOUS
<1>4. /\ 1 \in first <=> A # {}
      /\ 2 \in first <=> B # {} /\ A = {}
      /\ 3 \in first <=> C # {} /\ A = {} /\ B = {}
      /\ 4 \in first <=> D # {} /\ A = {} /\ B = {} /\ C = {}
      /\ first \subseteq {1, 2, 3, 4}
  BY <1>1, <1>2, <1>3
<1>5. \A x : x \in UNION {c[n] : n \in first} <=> \E n \in first : x \in c[n]
  OBVIOUS
<1>6. \A x : (\E n \in first : x \in c[n]) <=> \/ 1 \in first /\ x \in A
                                               \/ 2 \in first /\ x \in B
                                               \/ 3 \in first /\ x \in C
                                               \/ 4 \in first /\ x \in D
  BY <1>1, <1>4
<1>7. ASSUME NEW x PROVE x \in UNION {c[n] : n \in first} <=> x \in E
  <2>1. x \in E <=> \/ A # {} /\ x \in A
                    \/ B # {} /\ A = {} /\ x \in B
                    \/ C # {} /\ A = {} /\ B = {} /\ x \in C
                    \/ D # {} /\ A = {} /\ B = {} /\ C = {} /\ x \in D
    OBVIOUS
  <2> QED BY <2>1, <1>4, <1>5, <1>6
<1> QED BY <1>7

(* The tx indices a packet belongs to.                                      *)
IndicesFor(c, h) ==
    LET default == LastOf(Class(c, Untagged, DefaultMac))
        direct  == LastOf(Class(c, h.vid, h.mac))
        flood   == IF h.mac \in Multicast /\ Listed(c, h.vid) # {}
                   THEN Listed(c, h.vid) \cup default ELSE {}
        own     == LastOf(Class(c, h.vid, DefaultMac))
    IN  IF direct # {} THEN direct ELSE IF flood # {} THEN flood
        ELSE IF own # {} THEN own ELSE default

(* Belongs as a set of tx indices.                                          *)
LEMMA BelongsIs ==
    ASSUME NEW c, NEW h
    PROVE  Belongs(c, h) = {c.tx[i].port : i \in IndicesFor(c, h)}
<1> DEFINE default == LastOf(Class(c, Untagged, DefaultMac))
           direct == LastOf(Class(c, h.vid, h.mac))
           flood == IF h.mac \in Multicast /\ Listed(c, h.vid) # {}
                    THEN Listed(c, h.vid) \cup default ELSE {}
           own == LastOf(Class(c, h.vid, DefaultMac))
           choices == <<direct, flood, own, default>>
           first == {n \in 1 .. 4 : /\ choices[n] # {}
                                    /\ \A m \in 1 .. n - 1 : choices[m] = {}}
           E == IF direct # {} THEN direct ELSE IF flood # {} THEN flood
                ELSE IF own # {} THEN own ELSE default
<1>1. UNION {choices[n] : n \in first} = E
  <2> HIDE DEF default, direct, flood, own
  <2>1. PICK ch, fi, e : ch = choices /\ fi = first /\ e = E
    OBVIOUS
  <2>2. UNION {ch[n] : n \in fi} = e
    BY <2>1, FirstOfFour
  <2> QED BY <2>1, <2>2, Zenon
<1>2. Belongs(c, h) = {c.tx[i].port : i \in UNION {choices[n] : n \in first}}
  BY Zenon DEF Belongs
<1>3. IndicesFor(c, h) = E
  BY Zenon DEF IndicesFor
<1> HIDE DEF first, choices, E
<1> QED BY <1>1, <1>2, <1>3, Zenon

Distinct(t) == \A i, j \in 1 .. Len(t) : i # j => t[i] # t[j]

(* What classify_packet needs of the tx indices it pushes a packet to.      *)
TargetsRight(a, h, t) ==
    /\ t \in Seq(1 .. a.n)
    /\ Distinct(t)
    /\ (IF t = <<>> THEN -1 ELSE ExtraRefs(a, h)) = Len(t) - 1
    /\ ToSet(t) = IndicesFor(a.config, h)

(* Elements of a sequence.                                                  *)
LEMMA ToSetIs ==
    ASSUME NEW S, NEW s \in Seq(S), NEW y
    PROVE  y \in ToSet(s) <=> \E j \in 1 .. Len(s) : y = s[j]
  BY DEF ToSet

(* A sequence of at most one index.                                         *)
LEMMA OneIndexIs ==
    ASSUME NEW x, NEW n \in Nat, x \in 1 .. n \/ x = 0, NEW t, t = OneIndex(x)
    PROVE  /\ t \in Seq(1 .. n) /\ Len(t) = (IF x = 0 THEN 0 ELSE 1)
           /\ ToSet(t) = Only(x)
           /\ x # 0 => t[1] = x
           /\ t = <<>> <=> x = 0
<1>1. CASE x = 0
  <2>1. t = <<>>
    BY <1>1 DEF OneIndex
  <2>2. Len(t) = 0
    BY <2>1
  <2>3. ToSet(t) = {} /\ Only(x) = {}
    <3>1. DOMAIN t = {}
      BY <2>1
    <3> QED BY <3>1, <1>1 DEF Only, ToSet
  <2> QED BY <2>1, <2>2, <2>3, <1>1
<1>2. CASE x # 0
  <2>1. t = <<x>> /\ x \in 1 .. n
    BY <1>2 DEF OneIndex
  <2>2. t \in Seq(1 .. n) /\ Len(t) = 1 /\ t[1] = x /\ t # <<>>
    BY <2>1
  <2>3. ToSet(t) = {x} /\ Only(x) = {x}
    <3>1. DOMAIN t = {1}
      BY <2>1
    <3> QED BY <3>1, <2>2, <1>2 DEF Only, ToSet
  <2> QED BY <2>2, <2>3, <1>2
<1> QED BY <1>1, <1>2

FloodTo(t, n, s, u, x) ==
    /\ t \in Seq(1 .. n) /\ t # <<>> /\ Distinct(t)
    /\ Len(t) = Len(s) + Len(u)
    /\ ToSet(t) = ToSet(s) \cup Only(x)

(* A group address goes to the active ports and the untagged default,       *)
(* each once.                                                               *)
LEMMA FloodIs ==
    ASSUME NEW n \in Nat, NEW s \in Seq(Index), NEW x, x \in 1 .. n \/ x = 0,
           Ascending(s), ToSet(s) \subseteq 1 .. n, x \notin ToSet(s), s # <<>>,
           NEW u, u = OneIndex(x), NEW t, t = s \o u
    PROVE  FloodTo(t, n, s, u, x)
<1>1. /\ u \in Seq(1 .. n) /\ Len(u) = (IF x = 0 THEN 0 ELSE 1) /\ (x # 0 => u[1] = x)
      /\ ToSet(u) = Only(x)
  BY OneIndexIs
<1>2. s \in Seq(1 .. n)
  <2>1. \A j \in 1 .. Len(s) : s[j] \in ToSet(s)
    BY DEF ToSet
  <2>2. \A j \in 1 .. Len(s) : s[j] \in 1 .. n
    BY <2>1
  <2>3. s \in [1 .. Len(s) -> 1 .. n] /\ Len(s) \in Nat
    BY <2>2
  <2> QED BY <2>3
<1>3. /\ t \in Seq(1 .. n) /\ Len(t) = Len(s) + Len(u)
      /\ \A j \in 1 .. Len(s) : t[j] = s[j]
      /\ \A j \in 1 .. Len(u) : t[Len(s) + j] = u[j]
  <2>1. t \in Seq(1 .. n) /\ Len(t) = Len(s) + Len(u)
    BY <1>1, <1>2, ConcatProperties
  <2>2. \A j \in 1 .. Len(s) + Len(u) : t[j] = IF j <= Len(s) THEN s[j] ELSE u[j - Len(s)]
    BY <1>1, <1>2, ConcatProperties
  <2>3. Len(s) \in Nat /\ Len(u) \in Nat
    BY <1>1, <1>2
  <2>4. ASSUME NEW j \in 1 .. Len(u) PROVE t[Len(s) + j] = u[j]
    <3>1. Len(s) + j \in 1 .. Len(s) + Len(u) /\ ~(Len(s) + j <= Len(s))
          /\ (Len(s) + j) - Len(s) = j
      BY <2>3
    <3> QED BY <2>2, <3>1
  <2>5. ASSUME NEW j \in 1 .. Len(s) PROVE t[j] = s[j]
    <3>1. j \in 1 .. Len(s) + Len(u) /\ j <= Len(s)
      BY <2>3
    <3> QED BY <2>2, <3>1
  <2> QED BY <2>1, <2>4, <2>5
<1>4. Len(s) \in Nat /\ Len(s) > 0 /\ DOMAIN s = 1 .. Len(s)
  BY <1>2
<1>5. ASSUME NEW i \in 1 .. Len(t), NEW j \in 1 .. Len(t), i < j PROVE t[i] # t[j]
  <2>1. i \in 1 .. Len(s)
    BY <1>1, <1>3, <1>4, <1>5
  <2>2. CASE j \in 1 .. Len(s)
    <3>1. s[i] < s[j]
      BY <1>4, <1>5, <2>1, <2>2 DEF Ascending
    <3>2. s[i] \in 1 .. n /\ s[j] \in 1 .. n
      BY <1>2, <2>1, <2>2, ElementsOf
    <3> QED BY <3>1, <3>2, <1>3, <2>1, <2>2
  <2>3. CASE j \notin 1 .. Len(s)
    <3>1. x # 0 /\ j = Len(s) + 1
      BY <1>1, <1>3, <1>4, <2>3
    <3>2. t[j] = x
      BY <1>1, <1>3, <3>1
    <3>3. t[i] \in ToSet(s)
      BY <1>3, <1>4, <2>1 DEF ToSet
    <3> QED BY <3>2, <3>3
  <2> QED BY <2>2, <2>3
<1>6. Distinct(t)
  <2>1. \A i, j \in 1 .. Len(t) : i # j => i < j \/ j < i
    OBVIOUS
  <2> QED BY <2>1, <1>5 DEF Distinct
<1>7. ToSet(t) = ToSet(s) \cup Only(x)
  <2>1. ToSet(s) = {s[j] : j \in 1 .. Len(s)}
    BY <1>4 DEF ToSet
  <2>2. \A j : j \in 1 .. Len(t) <=> j \in 1 .. Len(s) \/ \E l \in 1 .. Len(u) : j = Len(s) + l
    <3>1. Len(u) = 0 \/ Len(u) = 1
      BY <1>1
    <3>2. CASE Len(u) = 0
      BY <3>2, <1>3, <1>4
    <3>3. CASE Len(u) = 1
      BY <3>3, <1>3, <1>4
    <3> QED BY <3>1, <3>2, <3>3
  <2>3. ASSUME NEW y PROVE (\E j \in 1 .. Len(t) : y = t[j]) <=>
            (\E j \in 1 .. Len(s) : y = s[j]) \/ (\E l \in 1 .. Len(u) : y = u[l])
    <3>1. ASSUME NEW j \in 1 .. Len(t)
          PROVE  (\E i \in 1 .. Len(s) : t[j] = s[i]) \/ (\E l \in 1 .. Len(u) : t[j] = u[l])
      BY <2>2, <1>3
    <3>2. ASSUME NEW j \in 1 .. Len(s) PROVE j \in 1 .. Len(t) /\ t[j] = s[j]
      BY <2>2, <1>3
    <3>3. ASSUME NEW l \in 1 .. Len(u)
          PROVE  Len(s) + l \in 1 .. Len(t) /\ t[Len(s) + l] = u[l]
      BY <2>2, <1>3
    <3>4. ASSUME NEW j \in 1 .. Len(t), y = t[j]
          PROVE  (\E i \in 1 .. Len(s) : y = s[i]) \/ (\E l \in 1 .. Len(u) : y = u[l])
      BY <3>1, <3>4
    <3>5. ASSUME NEW j \in 1 .. Len(s), y = s[j] PROVE \E i \in 1 .. Len(t) : y = t[i]
      BY <3>2, <3>5
    <3>6. ASSUME NEW l \in 1 .. Len(u), y = u[l] PROVE \E i \in 1 .. Len(t) : y = t[i]
      BY <3>3, <3>6
    <3> QED BY <3>4, <3>5, <3>6
  <2>4. ASSUME NEW y PROVE y \in ToSet(t) <=> y \in ToSet(s) \cup Only(x)
    <3>1. y \in ToSet(t) <=> \E j \in 1 .. Len(t) : y = t[j]
      <4>1. t \in Seq(1 .. n)
        BY <1>3
      <4>2. PICK z : z = t
        OBVIOUS
      <4>3. z \in Seq(1 .. n)
        BY <4>1, <4>2
      <4>4. y \in ToSet(z) <=> \E j \in 1 .. Len(z) : y = z[j]
        BY <4>3, ToSetIs
      <4> QED BY <4>2, <4>4, Zenon
    <3>2. y \in ToSet(s) <=> \E j \in 1 .. Len(s) : y = s[j]
      BY <2>1
    <3>3. y \in Only(x) <=> \E l \in 1 .. Len(u) : y = u[l]
      BY <1>1, ToSetIs
    <3> QED BY <3>1, <3>2, <3>3, <2>3
  <2> QED BY <2>4
<1> QED BY <1>3, <1>4, <1>6, <1>7 DEF FloodTo

(* select_classified_index and handle_l2multicast_packet choose the tx      *)
(* ports the packet belongs to, each once, and add the references they      *)
(* take.                                                                    *)
LEMMA TargetsAreRight ==
    ASSUME NEW a \in AreaRecord, Whole(a), NEW h \in Header
    PROVE  TargetsRight(a, h, Targets(a, h))
<1>1. PICK c, n, v, m : c = a.config /\ n = a.n /\ v = h.vid /\ m = h.mac
  OBVIOUS
<1>2. v \in Vid /\ m \in Mac /\ Untagged \in Vid
  BY <1>1, VidAssumption DEF Header
<1>3. n \in Nat /\ n = Len(c.tx) /\ DOMAIN c.tx = 1 .. n
  <2>1. a.n \in 0 .. MaxTx /\ a.config \in Config \cup {NoConfig}
    BY DEF AreaRecord
  <2>2. a.n = Len(a.config.tx)
    BY DEF Whole
  <2>3. c.tx \in Seq(Entry)
    <3>1. CASE c \in Config
      BY <3>1, ConfigFacts
    <3>2. CASE c = NoConfig
      BY <3>2 DEF NoConfig
    <3> QED BY <3>1, <3>2, <2>1, <1>1
  <2> QED BY <2>1, <2>2, <2>3, <1>1, IndexFacts
<1>4. PICK t, g : t = TableOf(a, v) /\ g = TableOf(a, Untagged)
  OBVIOUS
<1>5. t \in Table /\ g \in Table
  BY <1>2, <1>4, TableOfType
<1>6. /\ \A w \in Vid : \A x : ClassTo(c, n, w, x) = Class(c, w, x)
      /\ \A w \in Vid : ListedTo(c, n, w) = Listed(c, w)
  BY <1>3 DEF ClassTo, Class, ListedTo, Listed
<1>7. /\ \A w \in Vid : \A x : Class(c, w, x) \subseteq 1 .. n
      /\ \A w \in Vid : Listed(c, w) \subseteq 1 .. n
  BY <1>3 DEF Class, Listed
<1>8. /\ IsLast(t.tab[m], Class(c, v, m)) /\ IsLast(t.default, Class(c, v, DefaultMac))
      /\ Ascending(t.active) /\ ToSet(t.active) = Listed(c, v)
      /\ IsLast(g.default, Class(c, Untagged, DefaultMac))
  BY <1>1, <1>2, <1>4, <1>6 DEF Whole, TablesOf
<1>9. PICK i, d, o : i = t.tab[m] /\ d = t.default /\ o = g.default
  OBVIOUS
<1>10. /\ LastOf(Class(c, v, m)) = Only(i) /\ (i = 0 \/ i \in Class(c, v, m))
       /\ LastOf(Class(c, v, DefaultMac)) = Only(d) /\ (d = 0 \/ d \in Class(c, v, DefaultMac))
       /\ LastOf(Class(c, Untagged, DefaultMac)) = Only(o)
       /\ (o = 0 \/ o \in Class(c, Untagged, DefaultMac))
  <2>1. \A w \in Vid : \A x : Class(c, w, x) \in SUBSET (Nat \ {0})
    BY <1>7, <1>3
  <2> QED BY <2>1, <1>2, <1>8, <1>9, LastIsOnly
<1>11. /\ i = 0 \/ i \in 1 .. n
       /\ d = 0 \/ d \in 1 .. n
       /\ o = 0 \/ o \in 1 .. n
  BY <1>2, <1>7, <1>10
<1>12. \A x : Only(x) = {} <=> x = 0
  BY DEF Only
<1>13. t.active \in Seq(Index) /\ (t.active = <<>> <=> Listed(c, v) = {})
  <2>1. t.active \in Seq(Index)
    BY <1>5 DEF Table
  <2>2. t.active = <<>> <=> ToSet(t.active) = {}
    <3>1. ToSet(t.active) = {t.active[j] : j \in 1 .. Len(t.active)}
      BY <2>1 DEF ToSet
    <3>2. t.active = <<>> <=> Len(t.active) = 0
      BY <2>1
    <3>3. Len(t.active) \in Nat /\ (Len(t.active) # 0 => 1 \in 1 .. Len(t.active))
      BY <2>1
    <3>4. CASE Len(t.active) = 0
      BY <3>1, <3>2, <3>4
    <3>5. CASE Len(t.active) # 0
      <4>1. t.active[1] \in ToSet(t.active)
        BY <3>1, <3>3, <3>5
      <4> QED BY <4>1, <3>2, <3>5
    <3> QED BY <3>4, <3>5
  <2> QED BY <2>1, <2>2, <1>8
<1>14. Flooded(a, h) <=> m \in Multicast /\ i = 0 /\ Listed(c, v) # {}
  BY <1>1, <1>4, <1>9, <1>13 DEF Flooded
<1>15. PICK r, e : r = Targets(a, h) /\ e = ExtraRefs(a, h)
  OBVIOUS
<1>16. PICK x : x = AlsoGeneral(a, h)
  OBVIOUS
<1>17. x = IF v = Untagged THEN 0 ELSE o
  BY <1>1, <1>4, <1>9, <1>16 DEF AlsoGeneral, GeneralDefault
<1>18. PICK D, F : /\ D = IndicesFor(c, h)
                   /\ F = IF m \in Multicast /\ Listed(c, v) # {}
                          THEN Listed(c, v) \cup Only(o) ELSE {}
  OBVIOUS
<1>19. D = IF i # 0 THEN Only(i) ELSE IF F # {} THEN F
           ELSE IF d # 0 THEN Only(d) ELSE Only(o)
  <2>1. D = IF Only(i) # {} THEN Only(i) ELSE IF F # {} THEN F
            ELSE IF Only(d) # {} THEN Only(d) ELSE Only(o)
    BY <1>1, <1>10, <1>18, Zenon DEF IndicesFor
  <2> QED BY <2>1, <1>12
<1>20. SUFFICES /\ r \in Seq(1 .. n)
                /\ Distinct(r)
                /\ (IF r = <<>> THEN -1 ELSE e) = Len(r) - 1
                /\ ToSet(r) = D
  BY <1>1, <1>15, <1>18 DEF TargetsRight
<1>21. CASE Flooded(a, h)
  <2>1. PICK s, u : s = t.active /\ u = OneIndex(x)
    OBVIOUS
  <2>2. r = s \o u /\ e = Len(s) + Len(u) - 1
    BY <1>1, <1>4, <1>15, <1>16, <1>21, <2>1 DEF Targets, ExtraRefs
  <2>3. ToSet(s) = Listed(c, v) /\ Ascending(s) /\ s \in Seq(Index) /\ s # <<>>
        /\ ToSet(s) \subseteq 1 .. n
    BY <1>2, <1>7, <1>8, <1>13, <1>14, <1>21, <2>1
  <2>4. x = 0 \/ x \in 1 .. n
    BY <1>11, <1>17
  <2>5. x \notin ToSet(s)
    <3>1. 0 \notin ToSet(s)
      BY <2>3
    <3>2. o # 0 => c.tx[o].vid = Untagged
      BY <1>10 DEF Class
    <3> QED BY <3>1, <3>2, <2>3, <1>17 DEF Listed
  <2>6. Listed(c, v) \cup Only(x) = Listed(c, v) \cup Only(o)
    <3>1. CASE v # Untagged
      BY <3>1, <1>17
    <3>2. CASE v = Untagged
      <4>1. Only(o) \subseteq Listed(c, v)
        BY <3>2, <1>10, MacAssumption DEF Only, Class, Listed
      <4>2. Only(x) = {}
        BY <3>2, <1>12, <1>17
      <4> QED BY <4>1, <4>2
    <3> QED BY <3>1, <3>2
  <2>7. D = Listed(c, v) \cup Only(o)
    BY <1>14, <1>18, <1>19, <1>21
  <2>8. /\ r \in Seq(1 .. n) /\ r # <<>>
        /\ Distinct(r)
        /\ Len(r) = Len(s) + Len(u)
        /\ ToSet(r) = ToSet(s) \cup Only(x)
    <3>1. FloodTo(r, n, s, u, x)
      BY <1>3, <2>1, <2>2, <2>3, <2>4, <2>5, FloodIs
    <3> QED BY <3>1 DEF FloodTo
  <2> QED BY <2>2, <2>3, <2>6, <2>7, <2>8
<1>22. CASE ~Flooded(a, h)
  <2>1. PICK y : y = IF i # 0 THEN i ELSE IF d # 0 THEN d ELSE o
    OBVIOUS
  <2>2. r = OneIndex(y)
    <3>1. CASE i # 0
      BY <1>1, <1>4, <1>9, <1>15, <1>22, <2>1, <3>1 DEF Targets, OneIndex
    <3>2. CASE i = 0
      BY <1>1, <1>4, <1>9, <1>15, <1>22, <2>1, <3>2 DEF Targets, DefaultIndex, GeneralDefault
    <3> QED BY <3>1, <3>2
  <2>3. e = 0
    BY <1>15, <1>22 DEF ExtraRefs
  <2>4. y = 0 \/ y \in 1 .. n
    BY <1>11, <2>1
  <2>5. /\ r \in Seq(1 .. n) /\ Len(r) = (IF y = 0 THEN 0 ELSE 1)
        /\ ToSet(r) = Only(y)
        /\ (r = <<>> <=> y = 0)
    BY <1>3, <2>2, <2>4, OneIndexIs
  <2>6. D = Only(y)
    BY <1>14, <1>18, <1>19, <1>22, <2>1
  <2>7. Distinct(r)
    BY <2>5 DEF Distinct
  <2>8. (IF r = <<>> THEN -1 ELSE e) = Len(r) - 1
    BY <2>3, <2>5
  <2> QED BY <2>5, <2>6, <2>7, <2>8
<1> QED BY <1>21, <1>22

(* An empty area, and one that init_component_info fills.                   *)
LEMMA EmptyAreaIs ==
    /\ EmptyArea \in AreaRecord /\ Whole(EmptyArea) /\ ~EmptyArea.remains
    /\ EmptyArea.port = <<>> /\ \A v \in Vid : EmptyArea.cls[v] = NoTable
<1>1. EmptyArea \in AreaRecord
  <2>1. <<>> \in Seq(Port) /\ 0 \in 0 .. MaxTx
    BY IndexFacts
  <2>2. NoConfig = [rx |-> FALSE, tx |-> <<>>]
    BY DEF NoConfig
  <2>3. [v \in Vid |-> NoTable] \in [Vid -> Table \cup {NoTable}]
    OBVIOUS
  <2> QED BY <2>1, <2>2, <2>3 DEF EmptyArea, AreaRecord
<1>2. /\ ~EmptyArea.remains /\ EmptyArea.port = <<>> /\ EmptyArea.n = 0
      /\ EmptyArea.config = [rx |-> FALSE, tx |-> <<>>]
      /\ \A v \in Vid : EmptyArea.cls[v] = NoTable
  BY DEF EmptyArea
<1>3. \A v \in Vid : TableOf(EmptyArea, v) = EmptyTable
  BY <1>2 DEF TableOf
<1>4. \A c, v, m : ClassTo(c, 0, v, m) = {} /\ ListedTo(c, 0, v) = {}
  BY DEF ClassTo, ListedTo
<1>5. /\ EmptyTable.default = 0 /\ EmptyTable.active = <<>>
      /\ \A m \in Mac : EmptyTable.tab[m] = 0
  BY DEF EmptyTable
<1>6. ToSet(<<>>) = {} /\ Ascending(<<>>)
  BY DEF ToSet, Ascending
<1>7. TablesOf(EmptyArea, EmptyArea.config, 0)
  <2>1. SUFFICES ASSUME NEW v \in Vid, NEW t, t = TableOf(EmptyArea, v)
        PROVE  /\ \A m \in Mac : IsLast(t.tab[m], ClassTo(EmptyArea.config, 0, v, m))
               /\ IsLast(t.default, ClassTo(EmptyArea.config, 0, v, DefaultMac))
               /\ Ascending(t.active)
               /\ ToSet(t.active) = ListedTo(EmptyArea.config, 0, v)
    BY Zenon DEF TablesOf
  <2>2. t.default = 0 /\ t.active = <<>> /\ \A m \in Mac : t.tab[m] = 0
    BY <1>3, <1>5, <2>1
  <2>3. IsLast(0, {})
    BY DEF IsLast
  <2> QED BY <1>4, <1>6, <2>2, <2>3, Zenon
<1>8. Whole(EmptyArea)
  <2>1. EmptyArea.config.tx = <<>>
    BY <1>2
  <2>2. Len(<<>>) = 0 /\ 1 .. 0 = {}
    OBVIOUS
  <2> QED BY <1>2, <1>7, <2>1, <2>2 DEF Whole
<1> QED BY <1>1, <1>2, <1>8

LEMMA FilledIs ==
    ASSUME NEW a \in AreaRecord, NEW c \in Config, NEW b, b = Filled(a, c)
    PROVE  /\ b \in AreaRecord /\ b.remains = a.remains
           /\ a = EmptyArea => Whole(b)
<1>1. PICK n, x : n = Len(c.tx) /\ x = WithPorts(a, c, n)
  OBVIOUS
<1>2. n \in 0 .. Len(c.tx) /\ n \in Nat
  BY <1>1, ConfigFacts, IndexFacts
<1>3. /\ x \in AreaRecord
      /\ PortsSet(a, x, c, n)
  BY <1>1, <1>2, WithPortsIs
<1>4. b = WithEntries(x, c, n)
  BY <1>1 DEF Filled
<1>5. /\ b \in AreaRecord /\ Kept(x, b)
      /\ (\A v \in Vid : x.cls[v] = NoTable) => TablesOf(b, c, n)
  BY <1>2, <1>3, <1>4, WithEntriesAre
<1>6. /\ b.remains = a.remains /\ b.n = n /\ b.config = c /\ b.port = x.port
  BY <1>1, <1>3, <1>5, Zenon DEF Kept, PortsSet
<1>7. ASSUME a = EmptyArea PROVE Whole(b)
  <2>1. a.port = <<>> /\ \A v \in Vid : x.cls[v] = NoTable
    BY <1>3, <1>7, EmptyAreaIs, Zenon DEF PortsSet
  <2>2. TablesOf(b, c, n)
    BY <1>5, <2>1
  <2>3. Len(b.port) = n /\ \A i \in 1 .. n : b.port[i] = c.tx[i].port
    BY <1>3, <1>6, <2>1, Zenon DEF PortsSet
  <2> QED BY <1>1, <1>6, <2>2, <2>3, Zenon DEF Whole
<1> QED BY <1>5, <1>6, <1>7

(* What a failed fill leaves.                                               *)
LEMMA FilledUpToIs ==
    ASSUME NEW a \in AreaRecord, NEW c \in Config, NEW n \in 1 .. Len(c.tx),
           NEW b, b = FilledUpTo(a, c, n)
    PROVE  b \in AreaRecord /\ b.remains
<1>1. PICK x, y : x = WithPorts(a, c, n) /\ y = WithEntries(x, c, n - 1)
  OBVIOUS
<1>2. n \in 0 .. Len(c.tx) /\ n - 1 \in 0 .. Len(c.tx)
  BY ConfigFacts, IndexFacts
<1>3. x \in AreaRecord
  BY <1>1, <1>2, WithPortsIs
<1>4. y \in AreaRecord
  BY <1>1, <1>2, <1>3, WithEntriesAre
<1>5. b = [y EXCEPT !.remains = TRUE]
  BY <1>1 DEF FilledUpTo
<1> QED BY <1>4, <1>5 DEF AreaRecord

LEMMA ActivatedType ==
    ASSUME NEW a \in AreaRecord, NEW i \in Index, NEW e \in Entry
    PROVE  Activated(a, i, e) \in AreaRecord /\ Activated(a, i, e).remains = a.remains
<1>1. PICK b, t : b = Activated(a, i, e) /\ t = TableOf(a, e.vid)
  OBVIOUS
<1>2. b \in AreaRecord /\ Kept(a, b)
  BY <1>1, ActivatedIs
<1>3. b.remains = a.remains
  BY <1>2 DEF Kept
<1> QED BY <1>1, <1>2, <1>3

(* The ports of an area that is whole are known.                            *)
LEMMA WholePorts ==
    ASSUME NEW k, area[k] \in AreaRecord, Whole(area[k])
    PROVE  PortsKnown(k)
<1>1. PICK a, c, n, P : a = area[k] /\ c = a.config /\ n = a.n /\ P = a.port
  OBVIOUS
<1>2. n \in 0 .. MaxTx /\ P \in Seq(Port) /\ c \in Config \cup {NoConfig}
  BY <1>1 DEF AreaRecord
<1>3. n = Len(c.tx) /\ Len(P) = n /\ \A i \in 1 .. n : P[i] = c.tx[i].port
  BY <1>1, Zenon DEF Whole
<1>4. \A i \in 1 .. n : P[i] \in Port
  BY <1>2, <1>3
<1>5. \A i, j \in 1 .. n : P[i] = P[j] => i = j
  <2>1. CASE c \in Config
    <3>1. IsInjective([i \in DOMAIN c.tx |-> c.tx[i].port])
      BY <2>1, ConfigAssumption
    <3>2. DOMAIN c.tx = 1 .. n
      BY <2>1, <1>3, ConfigFacts
    <3> QED BY <3>1, <3>2, <1>3 DEF IsInjective
  <2>2. CASE c = NoConfig
    <3>1. c.tx = <<>>
      BY <2>2 DEF NoConfig
    <3>2. n = 0
      BY <3>1, <1>3
    <3> QED BY <3>2
  <2> QED BY <2>1, <2>2, <1>2
<1> QED BY <1>1, <1>2, <1>4, <1>5 DEF PortsKnown

-----------------------------------------------------------------------------
(* The areas after a step.                                                  *)
LEMMA AreaStep ==
    ASSUME TypeInv, AreaInv, Next PROVE AreaInv' /\ area' \in [Area -> AreaRecord]
<1>0. /\ area \in [Area -> AreaRecord] /\ upd \in Area /\ ref \in Area
  BY DEF TypeInv
<1>1. ASSUME UNCHANGED <<area, upd, mpc>>
      PROVE  AreaInv' /\ area' \in [Area -> AreaRecord]
  BY <1>0, <1>1 DEF AreaInv
<1>2. ASSUME mpc' # "command", UNCHANGED area
      PROVE  AreaInv' /\ area' \in [Area -> AreaRecord]
  BY <1>0, <1>2 DEF AreaInv
<1>3. ASSUME NEW b \in AreaRecord, area' = [area EXCEPT ![upd] = b], upd' = upd,
             ~b.remains => Whole(b),
             ~b.remains => mpc' # "command" \/ b = EmptyArea
      PROVE  AreaInv' /\ area' \in [Area -> AreaRecord]
  <2>1. area' \in [Area -> AreaRecord]
    BY <1>0, <1>3
  <2>2. area'[upd] = b /\ \A k \in Area : k # upd => area'[k] = area[k]
    BY <1>0, <1>3
  <2>3. \A k \in Area : ~area'[k].remains => Whole(area'[k])
    <3>1. SUFFICES ASSUME NEW k \in Area, ~area'[k].remains PROVE Whole(area'[k])
      OBVIOUS
    <3>2. CASE k = upd
      BY <1>3, <2>2, <3>1, <3>2
    <3>3. CASE k # upd
      BY <2>2, <3>1, <3>3 DEF AreaInv
    <3> QED BY <3>2, <3>3
  <2>4. mpc' = "command" /\ ~area'[upd'].remains => area'[upd'] = EmptyArea
    BY <1>3, <2>2
  <2> QED BY <2>1, <2>3, <2>4 DEF AreaInv
<1>4. CASE Worker
  BY <1>1, <1>4 DEF Worker, Enter, Drain, Receive, Classify, mainVars
<1>5. ASSUME NEW c \in Config, Fill(c) PROVE AreaInv' /\ area' \in [Area -> AreaRecord]
  <2>1. PICK b : b = Filled(area[upd], c)
    OBVIOUS
  <2>2. b \in AreaRecord /\ (~b.remains => Whole(b))
    <3>1. /\ b \in AreaRecord /\ b.remains = area[upd].remains
          /\ (area[upd] = EmptyArea => Whole(b))
      BY <1>0, <2>1, FilledIs
    <3>2. ~area[upd].remains => area[upd] = EmptyArea
      BY <1>5 DEF AreaInv, Fill, Command
    <3> QED BY <3>1, <3>2
  <2>3. area' = [area EXCEPT ![upd] = b] /\ upd' = upd /\ mpc' # "command"
    BY <1>5, <2>1 DEF Fill
  <2> QED BY <1>3, <2>2, <2>3
<1>6. ASSUME NEW c \in Config, NEW n \in DOMAIN c.tx, FillFails(c, n)
      PROVE  AreaInv' /\ area' \in [Area -> AreaRecord]
  <2>1. PICK a, e : a = FilledUpTo(area[upd], c, n) /\ e = c.tx[n]
    OBVIOUS
  <2>2. a \in AreaRecord /\ a.remains /\ n \in Index /\ e \in Entry
    <3>1. n \in 1 .. Len(c.tx)
      BY ConfigFacts
    <3> QED BY <1>0, <2>1, <3>1, FilledUpToIs, ConfigFacts
  <2>3. Activated(a, n, e) \in AreaRecord /\ Activated(a, n, e).remains
    BY <2>2, ActivatedType
  <2>4. PICK b \in {a, Activated(a, n, e)} : area' = [area EXCEPT ![upd] = b]
    BY <1>6, <2>1 DEF FillFails
  <2>5. upd' = upd
    BY <1>6 DEF FillFails
  <2> QED BY <1>3, <2>2, <2>3, <2>4, <2>5
<1>7. CASE Request
  BY <1>2, <1>7 DEF Request
<1>8. CASE Uninit
  <2>1. area' = [area EXCEPT ![upd] = EmptyArea] /\ upd' = upd
    BY <1>8 DEF Uninit
  <2> QED BY <2>1, <1>3, EmptyAreaIs
<1>9. CASE Stop \/ Start
  BY <1>1, <1>9 DEF Stop, Start, Command
<1> QED BY <1>4, <1>5, <1>6, <1>7, <1>8, <1>9 DEF Next, Main

(* Main fills the area that is not in use, after a step.                    *)
LEMMA SwitchStep ==
    ASSUME TypeInv, AreaInv, SwitchInv, Next PROVE SwitchInv'
<1>0. /\ area \in [Area -> AreaRecord] /\ upd \in Area /\ ref \in Area
      /\ buf \in Buffers
  BY RecordIs, StateIsRecord DEF TypeInv, Packets
<1>1. ASSUME wpc # "top", UNCHANGED <<area, ref, upd, mpc, spoiled>>
      PROVE  SwitchInv'
  BY <1>1 DEF SwitchInv, Unseen
<1>2. ASSUME NEW b, NEW n, area' = [area EXCEPT ![upd] = b], mpc = "command",
             buf' = [buf EXCEPT ![upd] = Cleared(@, n)],
             UNCHANGED <<ref, upd, wpc, spoiled>>
      PROVE  SwitchInv'
  <2>1. ASSUME Unseen PROVE Unseen'
    <3>1. \A i \in Index : Cleared(buf[upd], n)[i] = <<>>
      BY <1>0, <2>1 DEF Cleared, Unseen, NoneBuffered
    <3>2. \A k \in Area, i \in Index : buf'[k][i] = <<>>
      <4>1. SUFFICES ASSUME NEW k \in Area, NEW i \in Index PROVE buf'[k][i] = <<>>
        OBVIOUS
      <4>2. buf[k][i] = <<>>
        BY <2>1 DEF Unseen, NoneBuffered
      <4>3. buf'[k] = IF k = upd THEN Cleared(buf[upd], n) ELSE buf[k]
        BY <1>0, <1>2 DEF Buffers
      <4> QED BY <3>1, <4>2, <4>3
    <3> QED BY <1>2, <2>1, <3>2 DEF Unseen, NoneBuffered
  <2>2. ref = upd => Unseen
    BY <1>2 DEF SwitchInv
  <2>3. ref # upd => area'[ref] = area[ref]
    BY <1>0, <1>2
  <2>4. ref # upd => ~Unseen
    BY DEF Unseen
  <2> QED BY <1>2, <2>1, <2>2, <2>3, <2>4 DEF SwitchInv
<1>3. CASE Enter
  <2>1. ref' # upd'
    BY <1>0, <1>3, IndexFacts DEF Enter
  <2>2. ~spoiled' => ~area'[ref'].remains
    BY <1>3 DEF Enter
  <2> QED BY <2>1, <2>2 DEF SwitchInv
<1>4. CASE Drain \/ Receive \/ Classify
  BY <1>1, <1>4 DEF Drain, Receive, Classify, mainVars
<1>5. ASSUME NEW c \in Config, Fill(c) PROVE SwitchInv'
  <2>1. PICK b, n : b = Filled(area[upd], c) /\ n = Len(c.tx)
    OBVIOUS
  <2> QED BY <1>2, <1>5, <2>1 DEF Fill, Command, workerVars
<1>6. ASSUME NEW c \in Config, NEW n \in DOMAIN c.tx, FillFails(c, n)
      PROVE  SwitchInv'
  <2>1. PICK b : area' = [area EXCEPT ![upd] = b]
    BY <1>6 DEF FillFails
  <2> QED BY <1>2, <1>6, <2>1 DEF FillFails, Command, workerVars
<1>7. CASE Request
  <2>1. Unseen => Unseen'
    BY <1>7 DEF Request, Unseen, NoneBuffered, workerVars, pktVars
  <2> QED BY <1>7, <2>1 DEF Request, SwitchInv
<1>8. CASE Uninit
  <2>1. ref # upd /\ ref' = ref /\ upd' = upd /\ spoiled' = spoiled
    BY <1>8 DEF Uninit, Switched
  <2>2. area'[ref'] = area[ref]
    BY <1>0, <1>8, <2>1 DEF Uninit
  <2> QED BY <2>1, <2>2 DEF SwitchInv, Unseen
<1>9. CASE Stop \/ Start
  <2>1. UNCHANGED <<area, ref, upd, mpc, wpc, buf, spoiled>>
    BY <1>9 DEF Stop, Start, Command, workerVars, pktVars
  <2> QED BY <2>1 DEF SwitchInv, Unseen, NoneBuffered
<1> QED BY <1>3, <1>4, <1>5, <1>6, <1>7, <1>8, <1>9 DEF Next, Main, Worker

-----------------------------------------------------------------------------
(* The record of the packets after a step of the worker.                    *)
LEMMA BecomesIs ==
    ASSUME NEW CONSTANT s \in PacketRecord, PacketsBecome(s) PROVE Packets' = s
  BY RecordIs DEF PacketsBecome, Packets

(* The tx indices of a packet are tx indices, whatever the tables are.      *)
LEMMA TargetsType ==
    ASSUME NEW a \in AreaRecord, NEW h \in Header PROVE Targets(a, h) \in Seq(Index)
<1>1. PICK t, g : t = TableOf(a, h.vid) /\ g = TableOf(a, Untagged)
  OBVIOUS
<1>2. h.vid \in Vid /\ h.mac \in Mac
  BY DEF Header
<1>3. t \in Table /\ g \in Table
  BY <1>1, <1>2, TableOfType, VidAssumption
<1>4. /\ t.tab[h.mac] \in Index \cup {0} /\ t.active \in Seq(Index)
      /\ t.default \in Index \cup {0} /\ g.default \in Index \cup {0}
  BY <1>2, <1>3 DEF Table
<1>5. ASSUME NEW x \in Index \cup {0} PROVE OneIndex(x) \in Seq(Index)
  <2>1. x = 0 \/ x \in 1 .. MaxTx
    BY IndexFacts
  <2> QED BY <2>1, OneIndexIs, IndexFacts
<1>6. GeneralDefault(a) \in Index \cup {0}
  BY <1>1, <1>4 DEF GeneralDefault
<1>7. AlsoGeneral(a, h) \in Index \cup {0}
  BY <1>6 DEF AlsoGeneral
<1>8. DefaultIndex(a, h.vid) \in Index \cup {0}
  BY <1>1, <1>4, <1>6 DEF DefaultIndex
<1>9. OneIndex(AlsoGeneral(a, h)) \in Seq(Index) /\ OneIndex(DefaultIndex(a, h.vid)) \in Seq(Index)
  BY <1>5, <1>7, <1>8
<1>10. t.active \o OneIndex(AlsoGeneral(a, h)) \in Seq(Index)
  BY <1>4, <1>9
<1>11. t.tab[h.mac] # 0 => <<t.tab[h.mac]>> \in Seq(Index)
  BY <1>4
<1> QED BY <1>1, <1>9, <1>10, <1>11, Zenon DEF Targets

(* rte_mbuf_refcnt_update                                                   *)
WithReferences(s, p, n) == [s EXCEPT !.refcnt[p] = @ + n]
OnlyReferences(s, t, p, n) ==
    /\ t.buf = s.buf /\ t.out = s.out /\ t.refused = s.refused
    /\ t.refcnt = [s.refcnt EXCEPT ![p] = @ + n]

(* rte_mbuf_refcnt_update.                                                  *)
LEMMA ReferencesAdded ==
    ASSUME NEW s \in PacketState, NEW p \in Packet, NEW n \in Int,
           NEW t, t = WithReferences(s, p, n)
    PROVE  t \in PacketState /\ OnlyReferences(s, t, p, n)
<1>1. PICK B, F, V, O, R : /\ B = s.buf /\ F = s.refcnt /\ V = s.vid /\ O = s.out
                           /\ R = s.refused
  OBVIOUS
<1>2. /\ s = [buf |-> B, refcnt |-> F, vid |-> V, out |-> O, refused |-> R]
      /\ B \in Buffers /\ F \in [Packet -> Int] /\ V \in [Packet -> Vid]
      /\ O \in [Port -> Seq(Copy)] /\ R \in [Port -> SUBSET Packet]
  BY <1>1, StateIsRecord, RecordIs
<1>3. PICK G : G = [F EXCEPT ![p] = F[p] + n]
  OBVIOUS
<1>4. t = [s EXCEPT !.refcnt = G]
  BY <1>1, <1>3 DEF WithReferences
<1>5. t = [buf |-> B, refcnt |-> G, vid |-> V, out |-> O, refused |-> R]
  BY <1>2, <1>4
<1>6. G \in [Packet -> Int]
  BY <1>2, <1>3
<1>7. t \in PacketRecord
  <2>1. [buf |-> B, refcnt |-> G, vid |-> V, out |-> O, refused |-> R] \in PacketRecord
    BY <1>2, <1>6 DEF PacketRecord
  <2> QED BY <1>5, <2>1, Zenon
<1>8. t.buf = s.buf /\ t.out = s.out /\ t.refused = s.refused
  BY <1>1, <1>5
<1>9. t.refcnt = [s.refcnt EXCEPT ![p] = @ + n]
  BY <1>1, <1>3, <1>5
<1> QED BY <1>7, <1>8, <1>9 DEF PacketState, OnlyReferences

(* A loop of classify_packet, as main sees it: some state of the packets.   *)
LEMMA ClassifiedType ==
    ASSUME TypeInv, NEW p \in Packet, NEW room \in Room
    PROVE  Classified(Packets, ref, p, room) \in PacketState
<1>1. PICK a, h, t, s : a = area[ref] /\ h = hdr[p] /\ t = Targets(a, h) /\ s = Packets
  OBVIOUS
<1>2. a \in AreaRecord /\ h \in Header /\ ref \in Area /\ s \in PacketState
  BY <1>1 DEF TypeInv
<1>3. t \in Seq(Index)
  BY <1>1, <1>2, TargetsType
<1>4. PICK n : n = IF t = <<>> THEN -1 ELSE ExtraRefs(a, h)
  OBVIOUS
<1>5. n \in Int
  <2>1. TableOf(a, h.vid).active \in Seq(Index)
    BY <1>2, TableOfType DEF Header, Table
  <2>2. AlsoGeneral(a, h) = 0 \/ AlsoGeneral(a, h) # 0
    OBVIOUS
  <2>3. Len(OneIndex(AlsoGeneral(a, h))) \in Nat
    BY DEF OneIndex
  <2> QED BY <1>4, <2>1, <2>3 DEF ExtraRefs
<1>6. PICK u : u = WithReferences(s, p, n)
  OBVIOUS
<1>7. u \in PacketState
  BY <1>2, <1>5, <1>6, ReferencesAdded
<1>8. Classified(Packets, ref, p, room) = PushAll(u, ref, t, p, room)
  BY <1>1, <1>4, <1>6, Zenon DEF Classified, WithReferences
<1> QED BY <1>2, <1>3, <1>7, <1>8, PushAllType

(* Main clears buffers of the area it fills.                                *)
LEMMA BuffersChange ==
    ASSUME Packets \in PacketState, upd \in Area, NEW CONSTANT b \in [Index -> Seq(Packet)],
           \A i \in Index : Len(b[i]) < BurstSize,
           buf' = [buf EXCEPT ![upd] = b], UNCHANGED <<refcnt, vid, out, refused>>
    PROVE  Packets' \in PacketState
<1>1. PICK B, r : B = buf' /\ r = Packets'
  OBVIOUS
<1>2. buf \in Buffers /\ \A k \in Area, i \in Index : Len(buf[k][i]) < BurstSize
  BY DEF PacketState, PacketRecord, Packets
<1>3. B \in Buffers /\ \A k \in Area : B[k] = IF k = upd THEN b ELSE buf[k]
  BY <1>1, <1>2 DEF Buffers
<1>4. r = [buf |-> B, refcnt |-> refcnt, vid |-> vid, out |-> out, refused |-> refused]
  BY <1>1 DEF Packets
<1>5. r \in PacketRecord
  BY <1>3, <1>4 DEF PacketState, PacketRecord, Packets
<1>6. \A k \in Area, i \in Index : Len(r.buf[k][i]) < BurstSize
  BY <1>2, <1>3, <1>4
<1> QED BY <1>1, <1>5, <1>6 DEF PacketState

LEMMA ClearedType ==
    ASSUME NEW b \in [Index -> Seq(Packet)], NEW n
    PROVE  /\ Cleared(b, n) \in [Index -> Seq(Packet)]
           /\ (\A i \in Index : Len(b[i]) < BurstSize) =>
                 \A i \in Index : Len(Cleared(b, n)[i]) < BurstSize
<1>1. <<>> \in Seq(Packet) /\ Len(<<>>) = 0 /\ 0 < BurstSize
  BY IndexFacts
<1> QED BY <1>1 DEF Cleared

(* No packets.                                                              *)
LEMMA EmptyBuffersType ==
    /\ EmptyBuffers \in [Index -> Seq(Packet)]
    /\ \A i \in Index : EmptyBuffers[i] = <<>> /\ Len(EmptyBuffers[i]) < BurstSize
<1>1. <<>> \in Seq(Packet) /\ Len(<<>>) = 0 /\ 0 < BurstSize
  BY IndexFacts
<1> QED BY <1>1 DEF EmptyBuffers

(* The packets that arrive together get the next numbers.                   *)
LEMMA BurstIs ==
    ASSUME received \in 0 .. MaxPacket, NEW last \in received .. received + BurstSize,
           last <= MaxPacket, NEW b, b = [i \in 1 .. last - received |-> received + i]
    PROVE  /\ b \in Seq(Packet) /\ Len(b) = last - received
           /\ \A j \in DOMAIN b : b[j] = received + j
           /\ b = <<>> <=> last = received
<1>1. last \in Int /\ received \in Int /\ last - received \in Nat /\ last \in 0 .. MaxPacket
  BY IndexFacts, BoundAssumption
<1>2. \A i \in 1 .. last - received : received + i \in Packet
  BY <1>1, BoundAssumption DEF Packet
<1>3. b \in Seq(Packet) /\ Len(b) = last - received
  BY <1>1, <1>2
<1>4. b = <<>> => last = received
  <2>1. Len(<<>>) = 0
    OBVIOUS
  <2> QED BY <1>1, <1>3, <2>1
<1>5. last = received => b = <<>>
  <2>1. last = received => Len(b) = 0
    BY <1>1, <1>3
  <2>2. Len(b) = 0 => b = <<>>
    BY <1>3
  <2> QED BY <2>1, <2>2
<1> QED BY <1>1, <1>3, <1>4, <1>5

(* Receive keeps the packets well-typed.                                    *)
LEMMA PacketsReceived ==
    ASSUME Packets \in PacketState, NEW h, NEW D \in SUBSET Packet, h \in [D -> Header],
           vid' = [p \in Packet |-> IF p \in DOMAIN h THEN h[p].vid ELSE vid[p]],
           refcnt' = [p \in Packet |-> IF p \in DOMAIN h THEN 1 ELSE refcnt[p]],
           UNCHANGED <<buf, out, refused>>
    PROVE  Packets' \in PacketState
<1>1. PICK V, F, r : V = vid' /\ F = refcnt' /\ r = Packets'
  OBVIOUS
<1>2. /\ vid \in [Packet -> Vid] /\ refcnt \in [Packet -> Int] /\ buf \in Buffers
      /\ out \in [Port -> Seq(Copy)] /\ refused \in [Port -> SUBSET Packet]
      /\ \A k \in Area, i \in Index : Len(buf[k][i]) < BurstSize
  BY DEF PacketState, PacketRecord, Packets
<1>3. V \in [Packet -> Vid]
  <2>1. \A p \in D : h[p].vid \in Vid
    BY DEF Header
  <2> QED BY <1>1, <1>2, <2>1
<1>4. F \in [Packet -> Int]
  BY <1>1, <1>2
<1>5. r = [buf |-> buf, refcnt |-> F, vid |-> V, out |-> out, refused |-> refused]
  BY <1>1 DEF Packets
<1>6. r \in PacketRecord /\ r.buf = buf
  <2>1. [buf |-> buf, refcnt |-> F, vid |-> V, out |-> out, refused |-> refused]
           \in PacketRecord
    BY <1>2, <1>3, <1>4 DEF PacketRecord
  <2> QED BY <1>5, <2>1
<1> QED BY <1>1, <1>2, <1>6 DEF PacketState

(* The types after a step.                                                  *)
LEMMA TypeStep == ASSUME ClassifierInv, Next PROVE TypeInv'
<1>0. TypeInv /\ AreaInv
  BY DEF ClassifierInv
<1>1. /\ area \in [Area -> AreaRecord] /\ ref \in Area /\ upd \in Area
      /\ running \in BOOLEAN /\ ncmd \in Nat /\ spoiled \in BOOLEAN
      /\ mpc \in {"command", "request", "wait"}
      /\ wpc \in {"top", "drain", "receive", "classify"}
      /\ received \in 0 .. MaxPacket
      /\ burst \in Seq(Packet)
      /\ wpc = "classify" <=> burst # <<>>
      /\ hdr \in [Packet -> Header]
      /\ Packets \in PacketState
  BY <1>0 DEF TypeInv
<1>2. area' \in [Area -> AreaRecord]
  BY <1>0, AreaStep
<1>3. \A k \in Area : area[k].n \in 0 .. MaxTx
  BY <1>1 DEF AreaRecord
<1>4. \A k \in Area : area[k].remains \in BOOLEAN
  BY <1>1 DEF AreaRecord
<1>5. ASSUME UNCHANGED pktVars PROVE Packets' \in PacketState
  <2>1. Packets' = Packets
    BY <1>5 DEF Packets, pktVars
  <2> QED BY <1>1, <2>1
<1>6. CASE Enter
  <2>1. Packets' \in PacketState
    <3>1. CASE ref = upd
      <4>1. PICK room \in Room : PacketsBecome(Drained(Packets, ref, room))
        BY <1>6, <3>1 DEF Enter
      <4>2. PICK s, r : s = Packets /\ r = TransmitAll(s, ref, room)
        OBVIOUS
      <4>3. r \in PacketState
        BY <1>1, <1>3, <4>2, TransmitAllType
      <4>4. PacketsBecome(r)
        BY <4>1, <4>2 DEF Drained
      <4> QED BY <4>3, <4>4, BecomesIs, StateIsRecord
    <3>2. CASE ref # upd
      BY <1>5, <1>6, <3>2 DEF Enter
    <3> QED BY <3>1, <3>2
  <2>2. ref' \in Area
    BY <1>1, <1>6, IndexFacts DEF Enter
  <2>3. /\ UNCHANGED <<upd, running, ncmd, mpc, received, burst, hdr>>
        /\ wpc = "top" /\ wpc' \in {"top", "drain"}
        /\ spoiled' \in BOOLEAN
    BY <1>1, <1>6 DEF Enter, mainVars
  <2> QED BY <1>1, <1>2, <2>1, <2>2, <2>3 DEF TypeInv
<1>7. CASE Drain
  <2>1. Packets' \in PacketState
    <3>1. PICK room \in Room : PacketsBecome(TransmitAll(Packets, ref, room))
      BY <1>7 DEF Drain
    <3>2. PICK s, r : s = Packets /\ r = TransmitAll(s, ref, room)
      OBVIOUS
    <3>3. r \in PacketState
      BY <1>1, <1>3, <3>2, TransmitAllType
    <3>4. PacketsBecome(r)
      BY <3>1, <3>2
    <3> QED BY <3>3, <3>4, BecomesIs, StateIsRecord
  <2>2. /\ UNCHANGED <<ref, upd, running, ncmd, mpc, received, burst, hdr, spoiled>>
        /\ wpc = "drain" /\ wpc' = "receive"
    BY <1>7 DEF Drain, mainVars
  <2> QED BY <1>1, <1>2, <2>1, <2>2 DEF TypeInv
<1>8. CASE Receive
  <2>1. PICK last \in received .. received + BurstSize :
            /\ last <= MaxPacket
            /\ \E h \in [received + 1 .. last -> Header] :
                  /\ hdr' = [p \in Packet |-> IF p \in DOMAIN h THEN h[p] ELSE hdr[p]]
                  /\ vid' = [p \in Packet |-> IF p \in DOMAIN h THEN h[p].vid ELSE vid[p]]
                  /\ refcnt' = [p \in Packet |-> IF p \in DOMAIN h THEN 1 ELSE refcnt[p]]
            /\ burst' = [i \in 1 .. last - received |-> received + i]
            /\ received' = last
            /\ wpc' = IF last = received THEN "top" ELSE "classify"
    BY <1>8 DEF Receive
  <2>2. PICK h \in [received + 1 .. last -> Header] :
            /\ hdr' = [p \in Packet |-> IF p \in DOMAIN h THEN h[p] ELSE hdr[p]]
            /\ vid' = [p \in Packet |-> IF p \in DOMAIN h THEN h[p].vid ELSE vid[p]]
            /\ refcnt' = [p \in Packet |-> IF p \in DOMAIN h THEN 1 ELSE refcnt[p]]
    BY <2>1
  <2>3. received + 1 .. last \subseteq Packet /\ last \in 0 .. MaxPacket
    BY <1>1, <2>1, IndexFacts, BoundAssumption DEF Packet
  <2>4. Packets' \in PacketState
    BY <1>1, <1>8, <2>2, <2>3, PacketsReceived DEF Receive
  <2>5. hdr' \in [Packet -> Header]
    BY <1>1, <2>2
  <2>6. /\ burst' \in Seq(Packet)
        /\ burst' = <<>> <=> last = received
    <3>1. PICK b : b = [i \in 1 .. last - received |-> received + i]
      OBVIOUS
    <3>2. received \in 0 .. MaxPacket /\ last \in received .. received + BurstSize
          /\ last <= MaxPacket
      BY <1>1, <2>1
    <3>3. b \in Seq(Packet) /\ (b = <<>> <=> last = received)
      BY <3>1, <3>2, BurstIs, Zenon
    <3> QED BY <2>1, <3>1, <3>3
  <2>7. UNCHANGED <<ref, upd, running, ncmd, mpc, spoiled>>
    BY <1>8 DEF Receive, mainVars
  <2> QED BY <1>1, <1>2, <2>1, <2>3, <2>4, <2>5, <2>6, <2>7 DEF TypeInv
<1>9. CASE Classify
  <2>1. burst # <<>> /\ Head(burst) \in Packet /\ Tail(burst) \in Seq(Packet)
    BY <1>1, <1>9 DEF Classify
  <2>2. Packets' \in PacketState
    <3>1. PICK room \in Room : PacketsBecome(Classified(Packets, ref, Head(burst), room))
      BY <1>9 DEF Classify
    <3>2. PICK r : r = Classified(Packets, ref, Head(burst), room)
      OBVIOUS
    <3>3. r \in PacketState
      BY <1>0, <2>1, <3>2, ClassifiedType
    <3> QED BY <3>1, <3>2, <3>3, BecomesIs, StateIsRecord
  <2>3. Tail(burst) = <<>> <=> Len(burst) = 1
    <3>1. Len(Tail(burst)) = Len(burst) - 1 /\ Len(burst) \in Nat
      BY <1>1, <2>1
    <3>2. PICK t : t = Tail(burst)
      OBVIOUS
    <3>3. t = <<>> <=> Len(t) = 0
      BY <2>1, <3>2, EmptySeq
    <3> QED BY <3>1, <3>2, <3>3
  <2>4. /\ UNCHANGED <<ref, upd, running, ncmd, mpc, received, hdr, spoiled>>
        /\ burst' = Tail(burst)
        /\ wpc' = IF Len(burst) = 1 THEN "top" ELSE "classify"
    BY <1>9 DEF Classify, mainVars
  <2> QED BY <1>1, <1>2, <2>1, <2>2, <2>3, <2>4 DEF TypeInv
<1>10. ASSUME NEW CONSTANT b \in [Index -> Seq(Packet)], \A i \in Index : Len(b[i]) < BurstSize,
              buf' = [buf EXCEPT ![upd] = b], ncmd' \in Nat,
              UNCHANGED <<ref, upd, running, workerVars, refcnt, vid, out, refused,
                          spoiled>>, mpc' \in {"command", "request", "wait"}
       PROVE  TypeInv'
  <2>1. Packets' \in PacketState
    BY <1>1, <1>10, BuffersChange
  <2>2. UNCHANGED <<wpc, burst, received, hdr>>
    BY <1>10 DEF workerVars
  <2> QED BY <1>1, <1>2, <1>10, <2>1, <2>2 DEF TypeInv
<1>11. /\ buf[upd] \in [Index -> Seq(Packet)]
       /\ \A i \in Index : Len(buf[upd][i]) < BurstSize
  BY <1>1 DEF PacketState, PacketRecord, Packets, Buffers
<1>12. ASSUME NEW c \in Config, Fill(c) PROVE TypeInv'
  <2>1. PICK b, n : n = Len(c.tx) /\ b = Cleared(buf[upd], n)
    OBVIOUS
  <2>2. b \in [Index -> Seq(Packet)] /\ \A i \in Index : Len(b[i]) < BurstSize
    BY <1>11, <2>1, ClearedType
  <2>3. ncmd' \in Nat
    BY <1>1, <1>12 DEF Fill, Command
  <2> QED BY <1>10, <1>12, <2>1, <2>2, <2>3 DEF Fill
<1>13. ASSUME NEW c \in Config, NEW n \in DOMAIN c.tx, FillFails(c, n)
       PROVE  TypeInv'
  <2>1. PICK b : b = Cleared(buf[upd], n)
    OBVIOUS
  <2>2. b \in [Index -> Seq(Packet)] /\ \A i \in Index : Len(b[i]) < BurstSize
    BY <1>11, <2>1, ClearedType
  <2>3. ncmd' \in Nat
    BY <1>1, <1>13 DEF FillFails, Command
  <2> QED BY <1>1, <1>10, <1>13, <2>1, <2>2, <2>3 DEF FillFails
<1>14. CASE Request
  <2>1. UNCHANGED pktVars
    BY <1>14 DEF Request
  <2>2. /\ UNCHANGED <<ref, running, ncmd, wpc, received, burst, hdr, spoiled>>
        /\ upd' = ref /\ mpc' = "wait"
    BY <1>14 DEF Request, workerVars
  <2> QED BY <1>1, <1>2, <1>5, <2>1, <2>2 DEF TypeInv
<1>15. CASE Uninit
  <2>1. PICK b : b = EmptyBuffers
    OBVIOUS
  <2> QED BY <1>1, <1>10, <1>15, <2>1, EmptyBuffersType DEF Uninit
<1>16. CASE Stop \/ Start
  <2>1. UNCHANGED pktVars
    BY <1>16 DEF Stop, Start
  <2>2. UNCHANGED <<ref, upd, mpc, wpc, received, burst, hdr, spoiled>>
    BY <1>16 DEF Stop, Start, Command, workerVars
  <2>3. running' \in BOOLEAN
    BY <1>16 DEF Stop, Start
  <2>4. ncmd' \in Nat
    BY <1>1, <1>16 DEF Stop, Start, Command
  <2> QED BY <1>1, <1>2, <1>5, <2>1, <2>2, <2>3, <2>4 DEF TypeInv
<1> QED BY <1>6, <1>7, <1>8, <1>9, <1>12, <1>13, <1>14, <1>15, <1>16 DEF Next, Main, Worker

(* An area that has been looked at is whole, and its ports are known.       *)
LEMMA AreaInUse ==
    ASSUME TypeInv, AreaInv, SwitchInv, ~spoiled, ~Unseen
    PROVE  area[ref] \in AreaRecord /\ Whole(area[ref]) /\ PortsKnown(ref)
<1>1. area[ref] \in AreaRecord /\ Whole(area[ref])
  BY DEF TypeInv, AreaInv, SwitchInv
<1> QED BY <1>1, WholePorts

(* The packets of a state of the invariant.                                 *)
LEMMA PacketsAre ==
    ASSUME TypeInv, PacketInv, ~spoiled
    PROVE  /\ Packets \in PacketState /\ Packets \in PacketRecord /\ ref \in Area
           /\ Good(Packets, ref, First, Waits)
           /\ First \in Int /\ First >= 0 /\ Waits \in [Packet -> Int]
           /\ Len(burst) \in Nat /\ received \in Nat /\ DOMAIN burst = 1 .. Len(burst)
           /\ \A j \in 1 .. Len(burst) : burst[j] = First + j
<1>1. /\ Packets \in PacketState /\ ref \in Area /\ received \in 0 .. MaxPacket
      /\ burst \in Seq(Packet)
  BY DEF TypeInv
<1>2. /\ Good(Packets, ref, First, Waits) /\ Len(burst) <= received
      /\ \A j \in DOMAIN burst : burst[j] = First + j
  BY DEF PacketInv
<1>3. received \in Nat /\ Len(burst) \in Nat /\ DOMAIN burst = 1 .. Len(burst)
  BY <1>1, BoundAssumption
<1>4. First \in Int /\ First >= 0
  BY <1>2, <1>3 DEF First
<1>5. Waits \in [Packet -> Int]
  BY DEF Waits, Waiting
<1> QED BY <1>1, <1>2, <1>3, <1>4, <1>5, StateIsRecord

-----------------------------------------------------------------------------
(* All buffers are sent: Enter and Drain.                                   *)
LEMMA DrainPackets ==
    ASSUME TypeInv, AreaInv, SwitchInv, PacketInv, ~spoiled, NEW room \in Room,
           NEW r, r = TransmitAll(Packets, ref, room)
    PROVE  /\ r \in PacketState /\ Good(r, ref, First, Waits)
           /\ Grown(Packets, r) /\ SameDue(Packets, r, ref) /\ AllEmpty(r)
<1>1. PICK s, k, m, w : s = Packets /\ k = ref /\ m = First /\ w = Waits
  OBVIOUS
<1>2. /\ s \in PacketState /\ s \in PacketRecord /\ k \in Area /\ Good(s, k, m, w)
      /\ m \in Int /\ w \in [Packet -> Int]
  BY <1>1, PacketsAre
<1>3. r = TransmitAll(s, k, room)
  BY <1>1
<1>4. CASE Unseen
  <2>1. \A i \in Index : s.buf[k][i] = <<>>
    BY <1>1, <1>2, <1>4 DEF Packets, Unseen, NoneBuffered
  <2>2. AllEmpty(s)
    BY <1>1, <1>4 DEF Packets, Unseen, NoneBuffered, AllEmpty
  <2>3. area[k].n \in 0 .. MaxTx
    <3>1. area[k] \in AreaRecord
      BY <1>1 DEF TypeInv
    <3> QED BY <3>1 DEF AreaRecord
  <2>4. r = s
    BY <1>2, <1>3, <2>1, <2>3, TransmitNothing
  <2>5. Grown(s, s) /\ SameDue(s, s, k)
    BY <1>2, GrownReflexive DEF SameDue
  <2> QED BY <1>1, <1>2, <2>2, <2>4, <2>5
<1>5. CASE ~Unseen
  <2>1. PortsKnown(k)
    BY <1>1, <1>5, AreaInUse
  <2>2. /\ r \in PacketState /\ Good(r, k, m, w) /\ Grown(s, r) /\ SameDue(s, r, k)
        /\ AllEmpty(r)
    BY <1>2, <1>3, <2>1, TransmitAllSound
  <2> QED BY <1>1, <2>2
<1> QED BY <1>4, <1>5

-----------------------------------------------------------------------------
(* The first packet of rx_pkts is classified.                               *)
LEMMA HeadIs ==
    ASSUME TypeInv, PacketInv, ~spoiled, burst # <<>>
    PROVE  /\ Head(burst) \in Packet /\ Head(burst) = First + 1
           /\ Waits[Head(burst)] = 1
<1>1. Head(burst) \in Packet /\ Head(burst) = burst[1] /\ 1 \in 1 .. Len(burst)
  BY DEF TypeInv
<1>2. burst[1] = First + 1
  BY <1>1, PacketsAre
<1>3. burst[1] \in ToSet(burst)
  BY <1>1, PacketsAre DEF ToSet
<1> QED BY <1>1, <1>2, <1>3 DEF Waits, Waiting

(* The references of the copies are added.                                  *)
More(w, p, n) == [w EXCEPT ![p] = @ + n]
GoneFrom(w, p) == [w EXCEPT ![p] = 0]

LEMMA MoreAndLess ==
    ASSUME NEW w \in [Packet -> Int], NEW p \in Packet, NEW n \in Int, NEW l \in Int,
           w[p] + n = l, NEW v, v = More(w, p, n)
    PROVE  v \in [Packet -> Int] /\ Less(v, p, l) = GoneFrom(w, p)
<1>2. v \in [Packet -> Int] /\ \A x \in Packet : v[x] = IF x = p THEN w[p] + n ELSE w[x]
  BY DEF More
<1>3. Less(v, p, l) = [w EXCEPT ![p] = v[p] - l]
  BY <1>2 DEF Less
<1>4. v[p] - l = 0
  BY <1>2
<1> QED BY <1>2, <1>3, <1>4 DEF GoneFrom

(* Added references are those of the copies still to be pushed.             *)
LEMMA CopiesCounted ==
    ASSUME NEW s \in PacketState, NEW k \in Area, NEW m \in Int, NEW w \in [Packet -> Int],
           Good(s, k, m, w), NEW p \in Packet, m < p, NEW n \in Int, PortsKnown(k),
           NEW u, u = WithReferences(s, p, n), NEW t
    PROVE  /\ u \in PacketState /\ Good(u, k, p, More(w, p, n))
           /\ RestFresh(u, k, t, 0, m) /\ SameDue(s, u, k) /\ Grown(s, u)
<1>1. /\ u \in PacketState /\ u.buf = s.buf /\ u.out = s.out /\ u.refused = s.refused
      /\ u.refcnt = [s.refcnt EXCEPT ![p] = @ + n]
  <2>1. u \in PacketState /\ OnlyReferences(s, u, p, n)
    BY ReferencesAdded
  <2> QED BY <2>1, Zenon DEF OnlyReferences
<1>2. BuffersOf(s, k, m) /\ PortsOf(s, k, m) /\ Counted(s, k, w)
  BY DEF Good
<1>3. \A q : Left(u, q) = Left(s, q) /\ Gone(u, q) = Gone(s, q)
  BY <1>1 DEF Left, Gone
<1>4. /\ s.buf \in Buffers /\ s.refcnt \in [Packet -> Int]
      /\ s.refused \in [Port -> SUBSET Packet] /\ s.out \in [Port -> Seq(Copy)]
  BY StateIsRecord, RecordIs
<1>5. \A i \in Index : \A j \in DOMAIN s.buf[k][i] : s.buf[k][i][j] \in Int
  <2>1. SUFFICES ASSUME NEW i \in Index, NEW j \in DOMAIN s.buf[k][i]
        PROVE  s.buf[k][i][j] \in Int
    OBVIOUS
  <2>2. s.buf[k][i] \in Seq(Packet)
    BY <1>4 DEF Buffers
  <2> QED BY <2>2, PacketInt
<1>6. BuffersOf(u, k, p)
  <2>1. \A i \in Index : \A j \in DOMAIN s.buf[k][i] : s.buf[k][i][j] <= p
    <3>1. \A i \in Index : \A j \in DOMAIN s.buf[k][i] : s.buf[k][i][j] <= m
      BY <1>2 DEF BuffersOf
    <3>2. p \in Int
      BY PacketInt
    <3> QED BY <3>1, <3>2, <1>5
  <2> QED BY <1>1, <1>2, <2>1 DEF BuffersOf
<1>7. \A q \in Port : \A x \in Gone(s, q) : x \in Int /\ x <= m /\ x <= p
  <2>1. SUFFICES ASSUME NEW q \in Port, NEW x \in Gone(s, q)
        PROVE  x \in Int /\ x <= m /\ x <= p
    OBVIOUS
  <2>2. x <= m
    BY <1>2, <2>1 DEF PortsOf, Gone
  <2>3. x \in Packet
    <3>1. s.out[q] \in Seq(Copy) /\ s.refused[q] \subseteq Packet
      BY <1>4
    <3>2. \A j \in DOMAIN s.out[q] : s.out[q][j].pkt \in Packet
      <4>1. \A j \in DOMAIN s.out[q] : s.out[q][j] \in Copy
        BY <3>1
      <4> QED BY <4>1 DEF Copy
    <3> QED BY <3>1, <3>2 DEF Gone, Left
  <2> QED BY <2>2, <2>3, PacketInt
<1>8. PortsOf(u, k, p)
  BY <1>1, <1>2, <1>3, <1>7 DEF PortsOf, Gone
<1>9. Counted(u, k, More(w, p, n))
  <2>1. SUFFICES ASSUME NEW x \in Packet
        PROVE  u.refcnt[x] = Cardinality(Holders(u.buf[k], x)) + More(w, p, n)[x]
    BY DEF Counted
  <2>2. PICK c : c = Cardinality(Holders(s.buf[k], x))
    OBVIOUS
  <2>3. c \in Nat /\ s.refcnt[x] = c + w[x] /\ w[x] \in Int
    BY <1>2, <2>2, HoldersFinite DEF Counted
  <2>4. u.refcnt[x] = s.refcnt[x] + (IF x = p THEN n ELSE 0)
    BY <1>1, <1>4
  <2>5. More(w, p, n)[x] = w[x] + (IF x = p THEN n ELSE 0)
    BY DEF More
  <2> QED BY <1>1, <2>2, <2>3, <2>4, <2>5
<1>10. RestFresh(u, k, t, 0, m)
  <2>1. \A l \in 1 .. area[k].n : l \in Index /\ area[k].port[l] \in Port
    BY IndexOfArea
  <2>2. ASSUME NEW l \in 1 .. area[k].n PROVE Fresh(u, k, l, m)
    BY <1>1, <1>2, <1>3, <1>7, <2>1 DEF Fresh, BuffersOf
  <2> QED BY <2>2 DEF RestFresh
<1>11. SameDue(s, u, k)
  BY <1>1, <1>3 DEF Due, SameDue
<1>12. Grown(s, u)
  <2>1. Grown(s, s)
    BY StateIsRecord, GrownReflexive
  <2> QED BY <1>1, <2>1 DEF Grown
<1> QED BY <1>1, <1>6, <1>8, <1>9, <1>10, <1>11, <1>12 DEF Good

(* A packet is pushed, and its references are used up.                      *)
LEMMA PushCounted ==
    ASSUME NEW s \in PacketState, NEW k \in Area, NEW m \in Int, NEW w \in [Packet -> Int],
           Good(s, k, m, w), PortsKnown(k), NEW p \in Packet, m < p,
           NEW room \in Room, NEW t \in Seq(1 .. area[k].n), Distinct(t),
           NEW n \in Int, NEW l, l = Len(t), w[p] + n = l, NEW u, u = WithReferences(s, p, n),
           NEW r, r = PushAll(u, k, t, p, room)
    PROVE  /\ r \in PacketState /\ Good(r, k, p, GoneFrom(w, p))
           /\ Grown(s, r) /\ DueTo(s, r, k, t, l, p)
<1>1. PICK v : v = More(w, p, n)
  OBVIOUS
<1>2. l \in Int
  OBVIOUS
<1>3. v \in [Packet -> Int] /\ Less(v, p, l) = GoneFrom(w, p)
  <2>1. v = More(w, p, n) /\ w[p] + n = l /\ l \in Int
    BY <1>1, <1>2
  <2>2. v \in [Packet -> Int]
    BY <2>1, MoreAndLess
  <2>3. Less(v, p, l) = GoneFrom(w, p)
    BY <2>1, MoreAndLess
  <2> QED BY <2>2, <2>3
<1>4. /\ u \in PacketState /\ Good(u, k, p, v) /\ RestFresh(u, k, t, 0, m)
      /\ SameDue(s, u, k) /\ Grown(s, u)
  BY <1>1, CopiesCounted
<1>5. /\ r \in PacketState /\ Good(r, k, p, Less(v, p, l)) /\ Grown(u, r)
      /\ DueTo(u, r, k, t, l, p)
  <2>1. \A i, j \in 1 .. Len(t) : i # j => t[i] # t[j]
    BY DEF Distinct
  <2>2. /\ r \in PacketState /\ Good(r, k, p, Less(v, p, Len(t))) /\ Grown(u, r)
        /\ DueTo(u, r, k, t, Len(t), p)
    BY <1>3, <1>4, <2>1, PushAllSound
  <2> QED BY <2>2
<1>6. Grown(s, r)
  BY <1>4, <1>5, StateIsRecord, GrownTransitive
<1>7. DueTo(s, r, k, t, l, p)
  BY <1>4, <1>5, Zenon DEF DueTo, SameDue
<1> QED BY <1>3, <1>5, <1>6, <1>7

(* One turn of classify_packet.                                             *)
LEMMA ClassifyPackets ==
    ASSUME TypeInv, AreaInv, SwitchInv, PacketInv, ~spoiled, wpc = "classify",
           NEW room \in Room, NEW p, p = Head(burst),
           NEW t, t = Targets(area[ref], hdr[p]),
           NEW r, r = Classified(Packets, ref, p, room)
    PROVE  /\ r \in PacketState /\ Good(r, ref, First + 1, GoneFrom(Waits, p))
           /\ Grown(Packets, r) /\ DueTo(Packets, r, ref, t, Len(t), p)
           /\ TargetsRight(area[ref], hdr[p], t)
<1>1. PICK s, k, m, w, a, h : /\ s = Packets /\ k = ref /\ m = First /\ w = Waits
                              /\ a = area[k] /\ h = hdr[p]
  OBVIOUS
<1>2. /\ s \in PacketState /\ s \in PacketRecord /\ k \in Area /\ Good(s, k, m, w)
      /\ m \in Int /\ w \in [Packet -> Int]
  BY <1>1, PacketsAre
<1>3. p \in Packet /\ p = m + 1 /\ w[p] = 1
  <2>1. burst # <<>>
    BY DEF TypeInv
  <2> QED BY <1>1, <2>1, HeadIs
<1>4. a \in AreaRecord /\ Whole(a) /\ PortsKnown(k)
  <2>1. ~Unseen
    BY DEF Unseen
  <2> QED BY <1>1, <2>1, AreaInUse
<1>5. h \in Header
  BY <1>1, <1>3 DEF TypeInv
<1>6. TargetsRight(a, h, t)
  BY <1>1, <1>4, <1>5, TargetsAreRight
<1>7. PICK n, l, u : n = Len(t) - 1 /\ l = Len(t) /\ u = WithReferences(s, p, n)
  OBVIOUS
<1>8. /\ t \in Seq(1 .. a.n) /\ n \in Int /\ Distinct(t)
      /\ n = IF t = <<>> THEN -1 ELSE ExtraRefs(a, h)
  BY <1>6, <1>7 DEF TargetsRight
<1>9. r = PushAll(u, k, t, p, room)
  BY <1>1, <1>7, <1>8, Zenon DEF Classified, WithReferences
<1>10. /\ r \in PacketState /\ Good(r, k, p, GoneFrom(w, p))
       /\ Grown(s, r) /\ DueTo(s, r, k, t, l, p)
  <2>1. m < p /\ w[p] + n = l /\ t \in Seq(1 .. area[k].n)
    BY <1>1, <1>2, <1>3, <1>7, <1>8
  <2> QED BY <1>2, <1>3, <1>4, <1>7, <1>8, <1>9, <2>1, PushCounted
<1> QED BY <1>1, <1>3, <1>6, <1>7, <1>10

(* The packets are right in the next state: the area in use is the same ... *)
LEMMA GoodInSameArea ==
    ASSUME NEW CONSTANT r, NEW CONSTANT k, NEW CONSTANT m, NEW CONSTANT w,
           Good(r, k, m, w), area'[k] = area[k],
           Packets' = r, ref' = k, First' = m, Waits' = w
    PROVE  Good(Packets, ref, First, Waits)'
<1>1. BuffersOf(r, k, m) /\ PortsOf(r, k, m) /\ Counted(r, k, w)
  BY DEF Good
<1>2. BuffersOf(Packets, ref, First)'
  BY <1>1 DEF BuffersOf
<1>3. PortsOf(Packets, ref, First)'
  BY <1>1 DEF PortsOf, Left
<1>4. Counted(Packets, ref, Waits)'
  BY <1>1 DEF Counted, Holders
<1> QED BY <1>2, <1>3, <1>4 DEF Good

(* ... or every buffer is empty.                                            *)
LEMMA GoodInAnyArea ==
    ASSUME NEW CONSTANT r, NEW CONSTANT k \in Area, NEW CONSTANT m, NEW CONSTANT w,
           Good(r, k, m, w), AllEmpty(r), area' \in [Area -> AreaRecord],
           Packets' = r, ref' \in Area, First' = m, Waits' = w
    PROVE  Good(Packets, ref, First, Waits)'
<1>1. BuffersOf(r, k, m) /\ PortsOf(r, k, m) /\ Counted(r, k, w)
  BY DEF Good
<1>2. \A l \in Area, i \in Index : r.buf[l][i] = <<>>
  BY DEF AllEmpty
<1>3. 1 - ref' \in Area
  <2>1. PICK x : x = ref'
    OBVIOUS
  <2>2. x = 0 \/ x = 1
    BY <2>1, IndexFacts
  <2>3. 1 - x = 0 \/ 1 - x = 1
    BY <2>2
  <2> QED BY <2>1, <2>3, IndexFacts
<1>4. DOMAIN <<>> = {}
  OBVIOUS
<1>5. BuffersOf(Packets, ref, First)'
  BY <1>2, <1>3, <1>4 DEF BuffersOf, Ascending
<1>6. \A i \in 1 .. area'[ref'].n : i \in Index
  <2>1. area'[ref'].n \in 0 .. MaxTx
    BY DEF AreaRecord
  <2> QED BY <2>1, IndexFacts
<1>7. PortsOf(Packets, ref, First)'
  <2>1. \A i \in 1 .. area'[ref'].n : r.buf[ref'][i] = <<>>
    BY <1>2, <1>6
  <2> QED BY <1>1, <1>4, <2>1 DEF PortsOf, Left
<1>8. Counted(Packets, ref, Waits)'
  <2>1. \A p : Holders(r.buf[k], p) = {} /\ Holders(r.buf[ref'], p) = {}
    BY <1>2, <1>4 DEF Holders
  <2>2. \A p \in Packet : r.refcnt[p] = Cardinality(Holders(r.buf[ref'], p)) + w[p]
    BY <1>1, <2>1 DEF Counted
  <2> QED BY <2>2 DEF Counted, Holders
<1> QED BY <1>5, <1>7, <1>8 DEF Good

-----------------------------------------------------------------------------
(* The order of rx_pkts is what is left to be classified.                   *)
LEMMA BurstSame ==
    ASSUME TypeInv, PacketInv, ~spoiled, UNCHANGED <<burst, received>>
    PROVE  /\ First' = First /\ Waits' = Waits
           /\ Len(burst') <= received' /\ \A j \in DOMAIN burst' : burst'[j] = First' + j
<1>1. First' = First
  BY DEF First
<1>2. Waits' = Waits
  BY DEF Waits, Waiting
<1> QED BY <1>1, <1>2 DEF PacketInv

(* What a stop, a start or a command does to packets: nothing.              *)
LEMMA MainStep ==
    ASSUME TypeInv, SwitchInv, PacketInv, ~spoiled, area' \in [Area -> AreaRecord],
           UNCHANGED <<ref, burst, received, refcnt, vid, out, refused>>,
           buf' = buf, area'[ref] = area[ref] \/ Unseen
    PROVE  Good(Packets, ref, First, Waits)'
<1>1. PICK s, k, m, w : s = Packets /\ k = ref /\ m = First /\ w = Waits
  OBVIOUS
<1>2. k \in Area /\ Good(s, k, m, w)
  BY <1>1, PacketsAre
<1>3. Packets' = s /\ ref' = k /\ First' = m /\ Waits' = w
  <2>1. Packets' = Packets
    BY DEF Packets
  <2> QED BY <1>1, <2>1, BurstSame
<1>4. CASE area'[ref] = area[ref]
  <2>1. area'[k] = area[k]
    BY <1>1, <1>4
  <2> QED BY <1>2, <1>3, <2>1, GoodInSameArea
<1>5. CASE Unseen
  <2>1. AllEmpty(s)
    BY <1>1, <1>5 DEF AllEmpty, Packets, Unseen, NoneBuffered
  <2> QED BY <1>2, <1>3, <2>1, GoodInAnyArea
<1> QED BY <1>4, <1>5

(* What main clears is empty.                                               *)
LEMMA ClearsNothing ==
    ASSUME TypeInv, SwitchInv, PacketInv, ~spoiled,
           mpc = "command" \/ ref # upd
    PROVE  /\ \A n : [buf EXCEPT ![upd] = Cleared(@, n)] = buf
           /\ [buf EXCEPT ![upd] = EmptyBuffers] = buf
           /\ ref # upd \/ Unseen
<1>1. ref # upd \/ Unseen
  BY DEF SwitchInv
<1>2. buf \in Buffers /\ upd \in Area /\ ref \in Area
  BY RecordIs, StateIsRecord DEF TypeInv, Packets
<1>3. \A i \in Index : buf[upd][i] = <<>>
  <2>1. CASE ref # upd
    <3>1. upd = 1 - ref
      BY <1>2, <2>1, IndexFacts
    <3>2. BuffersOf(Packets, ref, First)
      BY PacketsAre DEF Good
    <3> QED BY <3>1, <3>2 DEF BuffersOf, Packets
  <2>2. CASE Unseen
    BY <1>2, <2>2 DEF Unseen, NoneBuffered
  <2> QED BY <1>1, <2>1, <2>2
<1>4. PICK b : b = buf[upd]
  OBVIOUS
<1>5. b \in [Index -> Seq(Packet)] /\ \A i \in Index : b[i] = <<>>
  BY <1>2, <1>3, <1>4 DEF Buffers
<1>6. \A n : Cleared(b, n) = b
  BY <1>5 DEF Cleared
<1>7. EmptyBuffers = b
  BY <1>5 DEF EmptyBuffers
<1>8. [buf EXCEPT ![upd] = b] = buf
  BY <1>2, <1>4 DEF Buffers
<1> QED BY <1>1, <1>4, <1>6, <1>7, <1>8

(* What each step of the worker does to the packets.                        *)
Drains(r) ==
    /\ r \in PacketState /\ Good(r, ref, First, Waits)
    /\ Grown(Packets, r) /\ SameDue(Packets, r, ref) /\ AllEmpty(r)

Pushes(r, p, t) ==
    /\ r \in PacketState /\ Good(r, ref, First + 1, GoneFrom(Waits, p))
    /\ Grown(Packets, r) /\ DueTo(Packets, r, ref, t, Len(t), p)
    /\ TargetsRight(area[ref], hdr[p], t)

(* The switch of the area sends all buffers.                                *)
LEMMA EnterPackets ==
    ASSUME TypeInv, AreaInv, SwitchInv, PacketInv, ~spoiled, Enter, ref = upd
    PROVE  \E r : Packets' = r /\ Drains(r)
<1>1. PICK room \in Room : PacketsBecome(Drained(Packets, ref, room))
  BY DEF Enter
<1>2. PICK r : r = TransmitAll(Packets, ref, room)
  OBVIOUS
<1>3. Drains(r)
  BY <1>2, DrainPackets DEF Drains
<1>4. Packets' = r
  BY <1>1, <1>2, <1>3, BecomesIs, StateIsRecord DEF Drains, Drained
<1> QED BY <1>3, <1>4

(* So does the start of every call.                                         *)
LEMMA DrainsPackets ==
    ASSUME TypeInv, AreaInv, SwitchInv, PacketInv, ~spoiled, Drain
    PROVE  \E r : Packets' = r /\ Drains(r)
<1>1. PICK room \in Room : PacketsBecome(TransmitAll(Packets, ref, room))
  BY DEF Drain
<1>2. PICK r : r = TransmitAll(Packets, ref, room)
  OBVIOUS
<1>3. Drains(r)
  BY <1>2, DrainPackets DEF Drains
<1>4. Packets' = r
  BY <1>1, <1>2, <1>3, BecomesIs, StateIsRecord DEF Drains
<1> QED BY <1>3, <1>4

(* One packet goes to the ports it belongs to.                              *)
LEMMA ClassifiesPackets ==
    ASSUME TypeInv, AreaInv, SwitchInv, PacketInv, ~spoiled, Classify
    PROVE  \E r, t : Packets' = r /\ Pushes(r, Head(burst), t)
<1>1. PICK room \in Room : PacketsBecome(Classified(Packets, ref, Head(burst), room))
  BY DEF Classify
<1>2. PICK p, t, r : /\ p = Head(burst) /\ t = Targets(area[ref], hdr[p])
                     /\ r = Classified(Packets, ref, p, room)
  OBVIOUS
<1>3. wpc = "classify"
  BY DEF Classify
<1>4. Pushes(r, p, t)
  BY <1>2, <1>3, ClassifyPackets DEF Pushes
<1>5. Packets' = r
  <2>1. r \in PacketState
    BY <1>4 DEF Pushes
  <2> QED BY <1>1, <1>2, <2>1, BecomesIs, StateIsRecord
<1> QED BY <1>2, <1>4, <1>5

-----------------------------------------------------------------------------
(* The rest of rx_pkts.                                                     *)
LEMMA ClassifyBurst ==
    ASSUME TypeInv, PacketInv, ~spoiled, Classify
    PROVE  /\ First' = First + 1 /\ Waits' = GoneFrom(Waits, Head(burst))
           /\ Len(burst') <= received' /\ \A j \in DOMAIN burst' : burst'[j] = First' + j
           /\ Head(burst) \in Packet /\ Head(burst) = First + 1
           /\ ToSet(burst') = ToSet(burst) \ {Head(burst)}
<1>1. burst # <<>> /\ burst' = Tail(burst) /\ received' = received /\ burst \in Seq(Packet)
  BY DEF Classify, TypeInv
<1>2. PICK b, u, f, n : b = burst /\ u = Tail(b) /\ f = First /\ n = Len(b)
  OBVIOUS
<1>3. /\ n \in Nat \ {0} /\ received \in Nat /\ DOMAIN b = 1 .. n
      /\ \A j \in 1 .. n : b[j] = f + j
      /\ n <= received /\ f \in Int /\ f = received - n
  <2>1. n # 0 /\ b \in Seq(Packet)
    BY <1>1, <1>2, EmptySeq
  <2> QED BY <1>2, <2>1, PacketsAre DEF PacketInv, First
<1>4. /\ Len(u) = n - 1 /\ DOMAIN u = 1 .. n - 1
      /\ \A j \in 1 .. n - 1 : u[j] = f + 1 + j
  <2>1. Len(u) = n - 1 /\ DOMAIN u = 1 .. n - 1 /\ \A j \in 1 .. n - 1 : u[j] = b[j + 1]
    BY <1>1, <1>2
  <2>2. \A j \in 1 .. n - 1 : j + 1 \in 1 .. n
    BY <1>3
  <2> QED BY <1>3, <2>1, <2>2
<1>5. First' = f + 1
  <2>1. First' = received - (n - 1)
    BY <1>1, <1>2, <1>4 DEF First
  <2> QED BY <1>3, <2>1
<1>6. Head(b) = f + 1 /\ Head(b) \in Packet
  BY <1>1, <1>2, HeadIs
<1>7. ToSet(u) = ToSet(b) \ {f + 1}
  <2>1. ToSet(b) = {b[j] : j \in 1 .. n} /\ ToSet(u) = {u[j] : j \in 1 .. n - 1}
    BY <1>3, <1>4 DEF ToSet
  <2>2. ASSUME NEW x \in ToSet(u) PROVE x \in ToSet(b) \ {f + 1}
    <3>1. PICK j \in 1 .. n - 1 : x = f + 1 + j
      BY <1>4, <2>1, <2>2
    <3>2. j + 1 \in 1 .. n /\ x = b[j + 1] /\ x # f + 1
      BY <1>3, <3>1
    <3> QED BY <2>1, <3>2
  <2>3. ASSUME NEW x \in ToSet(b), x # f + 1 PROVE x \in ToSet(u)
    <3>1. PICK j \in 1 .. n : x = f + j
      BY <1>3, <2>1, <2>3
    <3>2. j - 1 \in 1 .. n - 1 /\ x = u[j - 1]
      BY <1>3, <1>4, <2>3, <3>1
    <3> QED BY <2>1, <3>2
  <2> QED BY <2>2, <2>3
<1>8. Waits' = GoneFrom(Waits, Head(burst))
  <2>1. Waits = [x \in Packet |-> IF x \in ToSet(b) THEN 1 ELSE 0]
    BY <1>2 DEF Waits, Waiting
  <2>2. Waits' = [x \in Packet |-> IF x \in ToSet(u) THEN 1 ELSE 0]
    BY <1>1, <1>2 DEF Waits, Waiting
  <2>3. Waits' = [Waits EXCEPT ![f + 1] = 0]
    BY <1>7, <2>1, <2>2
  <2> QED BY <1>2, <1>6, <2>3 DEF GoneFrom
<1>9. Len(u) <= received' /\ \A j \in DOMAIN u : u[j] = First' + j
  BY <1>1, <1>3, <1>4, <1>5
<1> QED BY <1>1, <1>2, <1>5, <1>6, <1>7, <1>8, <1>9

(* New packets are in no buffer, and have one reference each.               *)
LEMMA ReceiveCounted ==
    ASSUME NEW s \in PacketRecord, NEW r, NEW k, NEW m \in Int, NEW last \in Int,
           Good(s, k, m, [p \in Packet |-> 0]),
           r.buf = s.buf, r.out = s.out, r.refused = s.refused,
           \A p \in Packet : r.refcnt[p] = IF p \in m + 1 .. last THEN 1 ELSE s.refcnt[p],
           NEW w, w = [p \in Packet |-> IF p \in m + 1 .. last THEN 1 ELSE 0]
    PROVE  Good(r, k, m, w)
<1>1. BuffersOf(s, k, m) /\ PortsOf(s, k, m) /\ Counted(s, k, [p \in Packet |-> 0])
  BY DEF Good
<1>2. BuffersOf(r, k, m)
  BY <1>1 DEF BuffersOf
<1>3. PortsOf(r, k, m)
  BY <1>1 DEF PortsOf, Left
<1>4. Counted(r, k, w)
  <2>1. SUFFICES ASSUME NEW p \in Packet
        PROVE  r.refcnt[p] = Cardinality(Holders(r.buf[k], p)) + w[p]
    BY DEF Counted
  <2>2. s.refcnt[p] = Cardinality(Holders(s.buf[k], p)) + 0
    BY <1>1 DEF Counted
  <2>3. Cardinality(Holders(s.buf[k], p)) \in Nat
    BY HoldersFinite
  <2>4. CASE p \in m + 1 .. last
    <3>1. Holders(r.buf[k], p) = {}
      <4>1. ASSUME NEW i \in Index, NEW j \in DOMAIN s.buf[k][i], s.buf[k][i][j] = p
            PROVE  FALSE
        <5>1. p <= m
          BY <1>1, <4>1 DEF BuffersOf
        <5> QED BY <2>4, <5>1, PacketInt
      <4> QED BY <4>1 DEF Holders
    <3>2. Cardinality({}) = 0
      BY FS_EmptySet
    <3> QED BY <2>4, <3>1, <3>2
  <2>5. CASE p \notin m + 1 .. last
    BY <2>2, <2>3, <2>5
  <2> QED BY <2>4, <2>5
<1> QED BY <1>2, <1>3, <1>4 DEF Good

(* A burst is received.                                                     *)
LEMMA ReceivesPackets ==
    ASSUME TypeInv, SwitchInv, PacketInv, ~spoiled, Receive
    PROVE  /\ Good(Packets, ref, First, Waits)'
           /\ Len(burst') <= received' /\ \A j \in DOMAIN burst' : burst'[j] = First' + j
           /\ burst = <<>> /\ received <= received'
           /\ ToSet(burst') = received + 1 .. received'
<1>1. PICK last \in received .. received + BurstSize :
          /\ last <= MaxPacket
          /\ \E h \in [received + 1 .. last -> Header] :
                refcnt' = [p \in Packet |-> IF p \in DOMAIN h THEN 1 ELSE refcnt[p]]
          /\ burst' = [i \in 1 .. last - received |-> received + i]
          /\ received' = last
  BY DEF Receive
<1>2. PICK b, s, r, k : /\ b = [i \in 1 .. last - received |-> received + i]
                        /\ s = Packets /\ r = Packets' /\ k = ref
  OBVIOUS
<1>3. received \in 0 .. MaxPacket /\ last <= MaxPacket
  BY <1>1 DEF TypeInv
<1>4. b \in Seq(Packet) /\ Len(b) = last - received
  BY <1>2, <1>3, BurstIs
<1>5. \A j \in DOMAIN b : b[j] = received + j
  BY <1>2
<1>6. burst = <<>> /\ Len(burst) = 0 /\ ToSet(burst) = {}
  <2>1. burst = <<>>
    BY DEF Receive, TypeInv
  <2> QED BY <2>1 DEF ToSet
<1>7. received \in Int /\ last \in Int /\ received <= last /\ received >= 0
  BY <1>3, BoundAssumption, IndexFacts
<1>8. First = received /\ First' = received
  BY <1>1, <1>2, <1>4, <1>6, <1>7 DEF First
<1>9. ToSet(b) = received + 1 .. last
  <2>1. DOMAIN b = 1 .. last - received
    BY <1>2
  <2>2. ASSUME NEW x \in received + 1 .. last PROVE x \in ToSet(b)
    <3>1. x - received \in DOMAIN b /\ b[x - received] = x
      BY <1>5, <1>7, <2>1, <2>2
    <3> QED BY <3>1 DEF ToSet
  <2>3. ASSUME NEW x \in ToSet(b) PROVE x \in received + 1 .. last
    <3>1. PICK j \in DOMAIN b : x = b[j]
      BY <2>3 DEF ToSet
    <3> QED BY <1>5, <1>7, <2>1, <3>1
  <2> QED BY <2>2, <2>3
<1>10. Waits = [p \in Packet |-> 0]
  BY <1>6 DEF Waits, Waiting
<1>11. Waits' = [p \in Packet |-> IF p \in received + 1 .. last THEN 1 ELSE 0]
  BY <1>1, <1>2, <1>9 DEF Waits, Waiting
<1>12. /\ r.buf = s.buf /\ r.out = s.out /\ r.refused = s.refused
       /\ \A p \in Packet : r.refcnt[p] = IF p \in received + 1 .. last THEN 1
                                          ELSE s.refcnt[p]
  BY <1>1, <1>2 DEF Packets, Receive
<1>13. Good(s, k, received, [p \in Packet |-> 0]) /\ s \in PacketRecord
  BY <1>2, <1>8, <1>10, PacketsAre
<1>14. PICK w : w = [p \in Packet |-> IF p \in received + 1 .. last THEN 1 ELSE 0]
  OBVIOUS
<1>15. Good(r, k, received, w)
  BY <1>7, <1>12, <1>13, <1>14, ReceiveCounted
<1>16. Good(Packets, ref, First, Waits)'
  <2>1. PICK m : m = received
    OBVIOUS
  <2>2. area'[k] = area[k] /\ ref' = k
    BY <1>2 DEF Receive
  <2>3. Packets' = r /\ First' = m /\ Waits' = w
    BY <1>2, <1>8, <1>11, <1>14, <2>1
  <2>4. Good(r, k, m, w)
    BY <1>15, <2>1
  <2> QED BY <2>2, <2>3, <2>4, GoodInSameArea
<1>17. burst' = b /\ received' = last
  BY <1>1, <1>2
<1>18. Len(burst') <= received' /\ \A j \in DOMAIN burst' : burst'[j] = First' + j
  BY <1>4, <1>5, <1>7, <1>8, <1>17
<1> QED BY <1>6, <1>7, <1>9, <1>16, <1>17, <1>18

(* Main changes no packet, and the area in use only when it was not seen.   *)
MainKeeps ==
    /\ buf' = buf /\ UNCHANGED <<ref, burst, received, hdr, refcnt, vid, out, refused>>
    /\ area'[ref] = area[ref] \/ Unseen

LEMMA MainKeepsPackets ==
    ASSUME TypeInv, SwitchInv, PacketInv, ~spoiled, Main PROVE MainKeeps
<1>1. area \in [Area -> AreaRecord] /\ ref \in Area /\ upd \in Area
  BY DEF TypeInv
<1>2. ASSUME NEW c \in Config, Fill(c) PROVE MainKeeps
  <2>1. mpc = "command"
    BY <1>2 DEF Fill, Command
  <2>2. /\ [buf EXCEPT ![upd] = Cleared(@, Len(c.tx))] = buf
        /\ ref # upd \/ Unseen
    BY <2>1, ClearsNothing
  <2>3. ref # upd => area'[ref] = area[ref]
    BY <1>1, <1>2 DEF Fill
  <2> QED BY <1>2, <2>2, <2>3 DEF Fill, workerVars, MainKeeps
<1>3. ASSUME NEW c \in Config, NEW n \in DOMAIN c.tx, FillFails(c, n) PROVE MainKeeps
  <2>1. mpc = "command"
    BY <1>3 DEF FillFails, Command
  <2>2. /\ [buf EXCEPT ![upd] = Cleared(@, n)] = buf
        /\ ref # upd \/ Unseen
    BY <2>1, ClearsNothing
  <2>3. ref # upd => area'[ref] = area[ref]
    BY <1>1, <1>3 DEF FillFails
  <2> QED BY <1>3, <2>2, <2>3 DEF FillFails, workerVars, MainKeeps
<1>4. CASE Uninit
  <2>1. ref # upd
    BY <1>4 DEF Uninit, Switched
  <2>2. [buf EXCEPT ![upd] = EmptyBuffers] = buf
    BY <2>1, ClearsNothing
  <2>3. area'[ref] = area[ref] /\ buf' = buf
    BY <1>1, <1>4, <2>1, <2>2 DEF Uninit
  <2> QED BY <1>4, <2>3 DEF Uninit, workerVars, MainKeeps
<1>5. CASE Request \/ Stop \/ Start
  BY <1>5 DEF Request, Stop, Start, workerVars, pktVars, MainKeeps
<1> QED BY <1>2, <1>3, <1>4, <1>5 DEF Main

(* A history that is spoiled stays so.                                      *)
LEMMA SpoiledStays == ASSUME Next, ~spoiled' PROVE ~spoiled
<1>1. Enter => (spoiled => spoiled')
  BY DEF Enter
<1>2. Next /\ ~Enter => spoiled' = spoiled
  BY DEF Next, Worker, Main, Drain, Receive, Classify, Fill, FillFails, Request,
         Uninit, Stop, Start
<1> QED BY <1>1, <1>2

(* The packets after a step.                                                *)
LEMMA PacketStep ==
    ASSUME ClassifierInv, Next PROVE PacketInv'
<1>0. SUFFICES ASSUME ~spoiled'
      PROVE  /\ Good(Packets, ref, First, Waits)'
             /\ Len(burst') <= received' /\ \A j \in DOMAIN burst' : burst'[j] = First' + j
  BY DEF PacketInv
<1>1. TypeInv /\ AreaInv /\ SwitchInv /\ PacketInv
  BY DEF ClassifierInv
<1>2. area' \in [Area -> AreaRecord] /\ area \in [Area -> AreaRecord]
      /\ ref \in Area /\ upd \in Area /\ buf \in Buffers
  BY <1>1, AreaStep, RecordIs, StateIsRecord DEF TypeInv, Packets
<1>3. ~spoiled
  BY <1>0, SpoiledStays
<1>4. ASSUME UNCHANGED <<ref, burst, received, refcnt, vid, out, refused>>,
             buf' = buf, area'[ref] = area[ref] \/ Unseen
      PROVE  /\ Good(Packets, ref, First, Waits)'
             /\ Len(burst') <= received' /\ \A j \in DOMAIN burst' : burst'[j] = First' + j
  <2>1. Good(Packets, ref, First, Waits)'
    BY <1>1, <1>2, <1>3, <1>4, MainStep
  <2> QED BY <1>1, <1>3, <1>4, <2>1, BurstSame
<1>5. CASE Enter
  <2>1. CASE ref # upd
    <3>1. ref' = ref /\ UNCHANGED pktVars /\ UNCHANGED <<area, burst, received>>
      BY <1>5, <2>1 DEF Enter
    <3> QED BY <1>4, <3>1 DEF pktVars
  <2>2. CASE ref = upd
    <3>1. PICK r : Packets' = r /\ Drains(r)
      BY <1>1, <1>3, <1>5, <2>2, EnterPackets
    <3>2. UNCHANGED <<burst, received>> /\ ref' \in Area
      BY <1>2, <1>5, IndexFacts DEF Enter
    <3>3. PICK k, m, w : k = ref /\ m = First /\ w = Waits
      OBVIOUS
    <3>4. First' = m /\ Waits' = w
      BY <1>1, <1>3, <3>2, <3>3, BurstSame
    <3>5. Good(r, k, m, w) /\ AllEmpty(r) /\ k \in Area
      BY <1>2, <3>1, <3>3 DEF Drains
    <3>6. Good(Packets, ref, First, Waits)'
      BY <1>2, <3>1, <3>2, <3>4, <3>5, GoodInAnyArea
    <3> QED BY <1>1, <1>3, <3>2, <3>6, BurstSame
  <2> QED BY <2>1, <2>2
<1>6. CASE Drain
  <2>1. PICK r : Packets' = r /\ Drains(r)
    BY <1>1, <1>3, <1>6, DrainsPackets
  <2>2. UNCHANGED <<burst, received, area, ref>>
    BY <1>6 DEF Drain
  <2>3. PICK k, m, w : k = ref /\ m = First /\ w = Waits
    OBVIOUS
  <2>4. First' = m /\ Waits' = w
    BY <1>1, <1>3, <2>2, <2>3, BurstSame
  <2>5. Good(r, k, m, w) /\ area'[k] = area[k] /\ ref' = k
    BY <2>1, <2>2, <2>3 DEF Drains
  <2>6. Good(Packets, ref, First, Waits)'
    BY <2>1, <2>4, <2>5, GoodInSameArea
  <2> QED BY <1>1, <1>3, <2>2, <2>6, BurstSame
<1>7. CASE Receive
  BY <1>1, <1>3, <1>7, ReceivesPackets
<1>8. CASE Classify
  <2>1. PICK r, t : Packets' = r /\ Pushes(r, Head(burst), t)
    BY <1>1, <1>3, <1>8, ClassifiesPackets
  <2>2. UNCHANGED <<area, ref>>
    BY <1>8 DEF Classify
  <2>3. PICK k, m, w : k = ref /\ m = First + 1 /\ w = GoneFrom(Waits, Head(burst))
    OBVIOUS
  <2>4. First' = m /\ Waits' = w
    BY <1>1, <1>3, <1>8, <2>3, ClassifyBurst
  <2>5. Good(r, k, m, w) /\ area'[k] = area[k] /\ ref' = k
    BY <2>1, <2>2, <2>3 DEF Pushes
  <2>6. Good(Packets, ref, First, Waits)'
    BY <2>1, <2>4, <2>5, GoodInSameArea
  <2> QED BY <1>1, <1>3, <1>8, <2>6, ClassifyBurst
<1>9. CASE Main
  BY <1>1, <1>3, <1>4, <1>9, MainKeepsPackets DEF MainKeeps
<1> QED BY <1>5, <1>6, <1>7, <1>8, <1>9 DEF Next, Worker

(* No packet at the start.                                                  *)
LEMMA InitPackets ==
    ASSUME Init
    PROVE  Packets \in PacketState /\ PacketInv /\ NoneBuffered
<1>1. PICK b, f, v, o, n : b = buf /\ f = refcnt /\ v = vid /\ o = out /\ n = refused
  OBVIOUS
<1>2. /\ b = [k \in Area |-> EmptyBuffers] /\ f = [p \in Packet |-> 0]
      /\ v = [p \in Packet |-> Untagged] /\ o = [q \in Port |-> <<>>]
      /\ n = [q \in Port |-> {}] /\ ref = 0 /\ received = 0 /\ burst = <<>>
  BY <1>1 DEF Init
<1>3. /\ b \in Buffers /\ f \in [Packet -> Int] /\ v \in [Packet -> Vid]
      /\ o \in [Port -> Seq(Copy)] /\ n \in [Port -> SUBSET Packet]
  <2>1. o \in [Port -> Seq(Copy)]
    BY <1>2
  <2>2. b \in Buffers
    BY <1>2, EmptyBuffersType DEF Buffers
  <2> QED BY <1>2, <2>1, <2>2, VidAssumption
<1>4. Packets = [buf |-> b, refcnt |-> f, vid |-> v, out |-> o, refused |-> n]
  BY <1>1 DEF Packets
<1>5. PICK s : s = Packets
  OBVIOUS
<1>6. s.buf = b /\ s.refcnt = f /\ s.out = o /\ s.refused = n
  BY <1>4, <1>5
<1>7. s \in PacketRecord
  <2>1. [buf |-> b, refcnt |-> f, vid |-> v, out |-> o, refused |-> n] \in PacketRecord
    BY <1>3 DEF PacketRecord
  <2> QED BY <1>4, <1>5, <2>1, Zenon
<1>8. \A k \in Area, i \in Index : s.buf[k][i] = <<>>
  BY <1>2, <1>6, EmptyBuffersType
<1>9. Len(<<>>) = 0 /\ 0 < BurstSize /\ DOMAIN <<>> = {} /\ 0 \in Area /\ 1 - 0 \in Area
  BY IndexFacts
<1>10. s \in PacketState
  BY <1>7, <1>8, <1>9 DEF PacketState
<1>11. First = 0
  <2>1. Len(burst) = 0 /\ received = 0
    BY <1>2
  <2> QED BY <2>1 DEF First
<1>12. Waits = [p \in Packet |-> 0]
  <2>1. ToSet(burst) = {}
    BY <1>2, <1>9 DEF ToSet
  <2> QED BY <2>1 DEF Waits, Waiting
<1>13. BuffersOf(s, 0, 0)
  BY <1>8, <1>9 DEF BuffersOf, Ascending
<1>14. PortsOf(s, 0, 0)
  <2>1. \A q \in Port : s.out[q] = <<>> /\ s.refused[q] = {}
    BY <1>2, <1>6
  <2>2. \A q \in Port : Left(s, q) = {} /\ DOMAIN s.out[q] = {}
    BY <1>9, <2>1 DEF Left
  <2>3. \A i \in 1 .. area[0].n : i \in Index
    <3>1. area[0] \in AreaRecord
      BY <1>9, EmptyAreaIs DEF Init
    <3>2. area[0].n \in 0 .. MaxTx
      BY <3>1 DEF AreaRecord
    <3> QED BY <3>2, IndexFacts
  <2>4. \A i \in 1 .. area[0].n : DOMAIN s.buf[0][i] = {}
    BY <1>8, <1>9, <2>3
  <2> QED BY <2>1, <2>2, <2>4 DEF PortsOf
<1>15. Counted(s, 0, [p \in Packet |-> 0])
  <2>1. \A p : Holders(s.buf[0], p) = {}
    BY <1>8, <1>9 DEF Holders
  <2>2. Cardinality({}) = 0
    BY FS_EmptySet
  <2>3. \A p \in Packet : s.refcnt[p] = 0
    BY <1>2, <1>6
  <2> QED BY <2>1, <2>2, <2>3 DEF Counted
<1>16. Good(Packets, ref, First, Waits)
  <2>1. Good(s, 0, 0, [p \in Packet |-> 0])
    BY <1>13, <1>14, <1>15 DEF Good
  <2> QED BY <1>2, <1>5, <1>11, <1>12, <2>1, Zenon
<1>17. PacketInv
  <2>1. Len(burst) <= received /\ \A j \in DOMAIN burst : burst[j] = First + j
    BY <1>2, <1>9
  <2> QED BY <1>16, <2>1 DEF PacketInv
<1>18. NoneBuffered
  BY <1>1, <1>6, <1>8 DEF NoneBuffered
<1> QED BY <1>5, <1>10, <1>17, <1>18

LEMMA InitInv == Init => ClassifierInv
<1> SUFFICES ASSUME Init PROVE ClassifierInv
  OBVIOUS
<1>1. Packets \in PacketState /\ PacketInv /\ NoneBuffered
  BY InitPackets
<1>2. \A k \in Area : area[k] = EmptyArea
  BY DEF Init
<1>3. 0 \in Area
  BY IndexFacts
<1>4. TypeInv
  <2>1. area \in [Area -> AreaRecord]
    BY EmptyAreaIs DEF Init
  <2>2. hdr \in [Packet -> Header]
    <3>1. (CHOOSE m \in Mac : TRUE) \in Mac
      BY MacAssumption
    <3> QED BY <3>1, VidAssumption DEF Init, Header
  <2>3. burst \in Seq(Packet) /\ received \in 0 .. MaxPacket
    BY BoundAssumption DEF Init
  <2> QED BY <1>1, <1>3, <2>1, <2>2, <2>3 DEF TypeInv, Init
<1>5. AreaInv
  BY <1>2, <1>3, EmptyAreaIs DEF AreaInv, Init
<1>6. SwitchInv
  BY <1>1 DEF SwitchInv, Unseen, Init
<1> QED BY <1>1, <1>4, <1>5, <1>6 DEF ClassifierInv

(* Nothing changes.                                                         *)
LEMMA StutterInv == ASSUME ClassifierInv, UNCHANGED vars PROVE ClassifierInv'
<1>1. /\ UNCHANGED <<area, ref, upd, mpc, ncmd, running, wpc, burst, received, hdr>>
      /\ UNCHANGED <<buf, refcnt, vid, out, refused, spoiled>>
  BY DEF vars, mainVars, workerVars, pktVars
<1>2. Packets' = Packets
  BY <1>1 DEF Packets
<1>3. TypeInv /\ AreaInv /\ SwitchInv /\ PacketInv
  BY DEF ClassifierInv
<1>4. TypeInv'
  BY <1>1, <1>2, <1>3 DEF TypeInv
<1>5. AreaInv' /\ SwitchInv'
  BY <1>1, <1>3 DEF AreaInv, SwitchInv, Unseen, NoneBuffered
<1>6. PacketInv'
  <2>1. SUFFICES ASSUME ~spoiled' PROVE PacketInv'
    BY DEF PacketInv
  <2>2. area' \in [Area -> AreaRecord]
    BY <1>4 DEF TypeInv
  <2>3. Good(Packets, ref, First, Waits)'
    BY <1>1, <1>3, <2>1, <2>2, MainStep
  <2> QED BY <1>1, <1>3, <2>1, <2>3, BurstSame DEF PacketInv
<1> QED BY <1>4, <1>5, <1>6 DEF ClassifierInv

(* The inductive invariant: areas that were not filled over the remains     *)
(* of a failed fill have the tables of their configuration, main never      *)
(* fills the area that the worker uses, and the packets of the buffers,     *)
(* of rx_pkts and of the ports are ordered and counted.                     *)
THEOREM Invariance == Spec => []ClassifierInv
<1>1. Init => ClassifierInv
  BY InitInv
<1>2. ClassifierInv /\ [Next]_vars => ClassifierInv'
  <2>1. ASSUME ClassifierInv, Next PROVE ClassifierInv'
    <3>1. TypeInv' /\ PacketInv'
      BY <2>1, TypeStep, PacketStep
    <3>2. AreaInv' /\ SwitchInv'
      BY <2>1, AreaStep, SwitchStep DEF ClassifierInv
    <3> QED BY <3>1, <3>2 DEF ClassifierInv
  <2> QED BY <2>1, StutterInv
<1> QED BY <1>1, <1>2, PTL DEF Spec
-----------------------------------------------------------------------------
(* The invariant has the types.                                             *)
LEMMA TypeImplied == TypeInv => TypeOK
<1> SUFFICES ASSUME TypeInv PROVE TypeOK
  OBVIOUS
<1>1. Packets \in PacketState
  BY DEF TypeInv
<1>2. vid \in [Packet -> Vid]
  BY <1>1 DEF PacketState, PacketRecord, Packets
<1>3. \A k \in Area, i \in Index : buf[k][i] \in Seq(Packet) /\ Len(buf[k][i]) < BurstSize
  BY <1>1 DEF PacketState, PacketRecord, Packets, Buffers
<1>4. \A k \in Area : area[k].n <= MaxTx
  <2>1. SUFFICES ASSUME NEW k \in Area PROVE area[k].n <= MaxTx
    OBVIOUS
  <2>2. area[k] \in AreaRecord
    BY DEF TypeInv
  <2>3. area[k].n \in 0 .. MaxTx
    BY <2>2 DEF AreaRecord
  <2> QED BY <2>3
<1> QED BY <1>2, <1>3, <1>4 DEF TypeInv, TypeOK

(* Every variable has the type its C declaration and use give it, and no    *)
(* buffer of push_packet is left full, in every state of every              *)
(* classifier.                                                              *)
THEOREM TypeCorrect == Spec => []TypeOK
<1>1. ClassifierInv => TypeOK
  BY TypeImplied DEF ClassifierInv
<1> QED BY <1>1, Invariance, PTL

(* The references of Conserved are the buffers of the area in use that      *)
(* hold the packet, each of which holds it once.                            *)
LEMMA HeldCounted ==
    ASSUME TypeInv, PacketInv, ~spoiled, NEW p \in Packet
    PROVE  Cardinality(Held(p)) = Cardinality(Holders(buf[ref], p))
<1>1. PICK b, k, n, S, T : /\ b = buf /\ k = ref /\ n = 1 - ref
                           /\ S = Holders(buf[ref], p) /\ T = Held(p)
  OBVIOUS
<1>2. /\ k \in Area /\ n \in Area /\ (\A l \in Area : l = k \/ l = n)
      /\ k # n
  BY <1>1, IndexFacts DEF TypeInv
<1>3. \A l \in Area, i \in Index : b[l][i] \in Seq(Packet) /\ Len(b[l][i]) < BurstSize
  BY <1>1 DEF TypeInv, PacketState, PacketRecord, Packets, Buffers
<1>4. BuffersOf(Packets, ref, First)
  BY PacketsAre DEF Good
<1>5. \A i \in Index : b[n][i] = <<>> /\ Ascending(b[k][i])
  BY <1>1, <1>4 DEF BuffersOf, Packets
<1>6. S = {i \in Index : \E j \in DOMAIN b[k][i] : b[k][i][j] = p}
  BY <1>1 DEF Holders
<1>7. \A x : x \in T <=> /\ x \in Area \X Index \X (1 .. BurstSize)
                         /\ x[3] \in DOMAIN b[x[1]][x[2]] /\ b[x[1]][x[2]][x[3]] = p
  BY <1>1 DEF Held
<1>8. ASSUME NEW i \in S
      PROVE  \E j \in 1 .. BurstSize : j \in DOMAIN b[k][i] /\ b[k][i][j] = p
  <2>1. i \in Index
    BY <1>6, <1>8
  <2>2. PICK j \in DOMAIN b[k][i] : b[k][i][j] = p
    BY <1>6, <1>8
  <2>3. b[k][i] \in Seq(Packet) /\ Len(b[k][i]) < BurstSize
    BY <1>2, <1>3, <2>1
  <2>4. j \in 1 .. BurstSize
    BY <2>2, <2>3, IndexFacts
  <2> QED BY <2>2, <2>4
<1> DEFINE at(i) == CHOOSE j \in 1 .. BurstSize : j \in DOMAIN b[k][i] /\ b[k][i][j] = p
           f == [i \in S |-> <<k, i, at(i)>>]
<1>9. \A i \in S : at(i) \in 1 .. BurstSize /\ at(i) \in DOMAIN b[k][i] /\ b[k][i][at(i)] = p
  BY <1>8
<1> HIDE DEF at
<1>10. \A i \in S : f[i] \in T
  <2>1. SUFFICES ASSUME NEW i \in S PROVE <<k, i, at(i)>> \in T
    OBVIOUS
  <2>2. i \in Index /\ k \in Area /\ at(i) \in 1 .. BurstSize
    BY <1>2, <1>6, <1>9, <2>1
  <2>3. PICK x : x = <<k, i, at(i)>>
    OBVIOUS
  <2>4. x \in Area \X Index \X (1 .. BurstSize) /\ x[1] = k /\ x[2] = i /\ x[3] = at(i)
    BY <2>2, <2>3
  <2> QED BY <1>7, <1>9, <2>3, <2>4
<1>11. \A i, j \in S : f[i] = f[j] => i = j
  OBVIOUS
<1>12. ASSUME NEW x \in T PROVE \E i \in S : f[i] = x
  <2>1. /\ x \in Area \X Index \X (1 .. BurstSize)
        /\ x[3] \in DOMAIN b[x[1]][x[2]] /\ b[x[1]][x[2]][x[3]] = p
    BY <1>7, <1>12
  <2>2. PICK l \in Area, i \in Index, j \in 1 .. BurstSize : x = <<l, i, j>>
    BY <2>1
  <2>3. j \in DOMAIN b[l][i] /\ b[l][i][j] = p
    BY <2>1, <2>2
  <2>4. l = k
    <3>1. l # n
      <4>1. DOMAIN <<>> = {}
        OBVIOUS
      <4> QED BY <1>5, <2>2, <2>3, <4>1
    <3> QED BY <1>2, <3>1
  <2>5. i \in S
    BY <1>6, <2>3, <2>4
  <2>6. at(i) = j
    <3>1. at(i) \in DOMAIN b[k][i] /\ b[k][i][at(i)] = p /\ at(i) \in Int /\ j \in Int
      BY <1>9, <2>5
    <3>2. Ascending(b[k][i]) /\ p \in Int
      BY <1>5, PacketInt
    <3>3. ~(at(i) < j) /\ ~(j < at(i))
      BY <2>3, <2>4, <3>1, <3>2 DEF Ascending
    <3> QED BY <3>1, <3>3
  <2> QED BY <2>2, <2>4, <2>5, <2>6
<1>13. f \in Bijection(S, T)
  <2>1. f \in [S -> T]
    BY <1>10
  <2> HIDE DEF f
  <2>2. f \in Injection(S, T)
    BY <1>11, <2>1, Fun_IsInj
  <2>3. f \in Surjection(S, T)
    BY <1>12, <2>1, Fun_IsSurj
  <2> QED BY <2>2, <2>3, Fun_IsBij
<1>14. ExistsBijection(S, T)
  BY <1>13 DEF ExistsBijection
<1> QED BY <1>1, <1>14, HoldersFinite, FS_Bijection

(* No mbuf is lost and none freed too early: through floods to several      *)
(* ports, full buffers, bursts that drivers refuse in part, switches of     *)
(* the area and restarts, the reference count that rte_mbuf_refcnt_update   *)
(* and rte_pktmbuf_free leave is the number of places that hold the         *)
(* packet.                                                                  *)
THEOREM RefcountsCorrect == Spec => []Conserved
<1>1. ClassifierInv => Conserved
  <2>1. SUFFICES ASSUME ClassifierInv, ~spoiled, NEW p \in Packet
        PROVE  refcnt[p] = Cardinality(Held(p)) + Waiting(p)
    BY DEF Conserved
  <2>2. TypeInv /\ PacketInv
    BY <2>1 DEF ClassifierInv
  <2>3. Counted(Packets, ref, Waits)
    BY <2>1, <2>2, PacketsAre DEF Good
  <2>4. refcnt[p] = Cardinality(Holders(buf[ref], p)) + Waiting(p)
    BY <2>3 DEF Counted, Packets, Waits
  <2> QED BY <2>1, <2>2, <2>4, HeldCounted
<1> QED BY <1>1, Invariance, PTL

(* Each port sends packets in the order in which the worker received        *)
(* them, and none twice, also when the area is switched while packets are   *)
(* in the buffers.                                                          *)
THEOREM OrderKept == Spec => []InOrder
<1>1. ClassifierInv => InOrder
  <2>1. SUFFICES ASSUME ClassifierInv, ~spoiled PROVE InOrder
    BY DEF InOrder
  <2>2. PortsOf(Packets, ref, First)
    BY <2>1, PacketsAre DEF ClassifierInv, Good
  <2> QED BY <2>2 DEF PortsOf, Packets, InOrder
<1> QED BY <1>1, Invariance, PTL

(* What a port has sent since.                                              *)
PktSeq(o) == [i \in DOMAIN o |-> o[i].pkt]
SentSince(l, l2) == SubSeq(l2, Len(l) + 1, Len(l2))

LeavesOnce(l, l2, R, R2, D) ==
    /\ IsPrefix(l, l2)
    /\ IsInjective(SentSince(l, l2))
    /\ ToSet(SentSince(l, l2)) \cap R2 = {}
    /\ ToSet(SentSince(l, l2)) \cup (R2 \ R) = D

(* What a port sends in a step goes out once, was not sent before, and is   *)
(* not refused too.                                                         *)
LEMMA SentOnce ==
    ASSUME NEW O \in Seq(Copy), NEW O2 \in Seq(Copy), NEW R \in SUBSET Packet,
           NEW R2 \in SUBSET Packet, R \subseteq R2,
           Len(O) <= Len(O2), \A j \in 1 .. Len(O) : O2[j].pkt = O[j].pkt,
           \A i, j \in DOMAIN O2 : i < j => O2[i].pkt < O2[j].pkt,
           NEW P, P = {O[j].pkt : j \in DOMAIN O},
           NEW P2, P2 = {O2[j].pkt : j \in DOMAIN O2}, P2 \cap R2 = {},
           NEW l, l = PktSeq(O), NEW l2, l2 = PktSeq(O2)
    PROVE  LeavesOnce(l, l2, R, R2, (P2 \cup R2) \ (P \cup R))
<1>1. PICK n, m : n = Len(O) /\ m = Len(O2)
  OBVIOUS
<1>2. /\ n \in Nat /\ m \in Nat /\ n <= m
      /\ DOMAIN O = 1 .. n /\ DOMAIN O2 = 1 .. m
  BY <1>1
<1>3. /\ \A j \in 1 .. n : O[j].pkt \in Packet
      /\ \A j \in 1 .. m : O2[j].pkt \in Packet
  <2>1. (\A j \in 1 .. n : O[j] \in Copy) /\ \A j \in 1 .. m : O2[j] \in Copy
    BY <1>1
  <2> QED BY <2>1 DEF Copy
<1>4. /\ l \in Seq(Packet) /\ Len(l) = n /\ \A j \in 1 .. n : l[j] = O[j].pkt
  BY <1>2, <1>3 DEF PktSeq
<1>5. /\ l2 \in Seq(Packet) /\ Len(l2) = m /\ \A j \in 1 .. m : l2[j] = O2[j].pkt
  BY <1>2, <1>3 DEF PktSeq
<1>6. \A j \in 1 .. n : l[j] = l2[j]
  BY <1>1, <1>2, <1>4, <1>5
<1>7. \A i, j \in 1 .. m : i < j => l2[i] < l2[j]
  BY <1>2, <1>5
<1>8. /\ \A p : p \in P <=> \E j \in 1 .. n : p = l2[j]
      /\ \A p : p \in P2 <=> \E j \in 1 .. m : p = l2[j]
  <2>1. P = {O[j].pkt : j \in 1 .. n} /\ P2 = {O2[j].pkt : j \in 1 .. m}
    BY <1>2
  <2>2. \A j \in 1 .. n : O[j].pkt = l2[j]
    BY <1>4, <1>6
  <2>3. \A p : p \in P <=> \E j \in 1 .. n : p = l2[j]
    BY <2>1, <2>2
  <2>4. \A p : p \in P2 <=> \E j \in 1 .. m : p = l2[j]
    <3>1. \A j \in 1 .. m : O2[j].pkt = l2[j]
      BY <1>5
    <3>2. P2 = {O2[j].pkt : j \in 1 .. m}
      BY <2>1
    <3> QED BY <3>1, <3>2
  <2> QED BY <2>3, <2>4
<1>9. \A j \in 1 .. m : l2[j] \in Int
  BY <1>5, PacketInt
<1>10. PICK N : N = SentSince(l, l2)
  OBVIOUS
<1>11. /\ N \in Seq(Packet) /\ Len(N) = m - n /\ DOMAIN N = 1 .. m - n
       /\ \A j \in 1 .. m - n : N[j] = l2[n + j]
  BY <1>2, <1>4, <1>5, <1>10 DEF SentSince
<1>12. \A p : p \in ToSet(N) <=> \E j \in n + 1 .. m : p = l2[j]
  <2>1. ASSUME NEW p, NEW j \in n + 1 .. m, p = l2[j] PROVE p \in ToSet(N)
    <3>1. j - n \in 1 .. m - n /\ N[j - n] = p
      BY <1>2, <1>11, <2>1
    <3> QED BY <1>11, <3>1 DEF ToSet
  <2>2. ASSUME NEW p \in ToSet(N) PROVE \E j \in n + 1 .. m : p = l2[j]
    <3>1. PICK j \in 1 .. m - n : p = N[j]
      BY <1>11, <2>2 DEF ToSet
    <3>2. n + j \in n + 1 .. m /\ p = l2[n + j]
      BY <1>2, <1>11, <3>1
    <3> QED BY <3>2
  <2> QED BY <2>1, <2>2
<1>13. IsPrefix(l, l2)
  <2>1. SubSeq(l, 1, n) = l
    BY <1>4
  <2>2. SubSeq(l2, 1, n) \in Seq(Packet) /\ Len(SubSeq(l2, 1, n)) = n
        /\ \A j \in 1 .. n : SubSeq(l2, 1, n)[j] = l2[j]
    BY <1>2, <1>5
  <2>3. SubSeq(l2, 1, n) = l
    BY <1>4, <1>6, <2>2, SeqEqual
  <2> QED BY <1>2, <1>4, <1>5, <2>1, <2>3 DEF IsPrefix
<1>14. IsInjective(N)
  <2>1. SUFFICES ASSUME NEW i \in 1 .. m - n, NEW j \in 1 .. m - n, N[i] = N[j]
        PROVE  i = j
    BY <1>11 DEF IsInjective
  <2>2. n + i \in 1 .. m /\ n + j \in 1 .. m /\ l2[n + i] = l2[n + j]
    BY <1>2, <1>11, <2>1
  <2>3. ~(n + i < n + j) /\ ~(n + j < n + i)
    BY <1>7, <1>9, <2>2
  <2> QED BY <1>2, <2>3
<1>15. ToSet(N) \subseteq P2 /\ ToSet(N) \cap P = {} /\ P2 = P \cup ToSet(N)
  <2>1. ASSUME NEW i \in 1 .. n, NEW j \in n + 1 .. m, l2[i] = l2[j] PROVE FALSE
    <3>1. i \in 1 .. m /\ j \in 1 .. m /\ i < j
      BY <1>2
    <3> QED BY <1>7, <1>9, <2>1, <3>1
  <2>2. ToSet(N) \cap P = {}
    BY <1>8, <1>12, <2>1
  <2>3. \A j \in 1 .. m : j \in 1 .. n \/ j \in n + 1 .. m
    BY <1>2
  <2>4. \A j \in 1 .. n : j \in 1 .. m
    BY <1>2
  <2>5. \A j \in n + 1 .. m : j \in 1 .. m
    BY <1>2
  <2>6. P2 \subseteq P \cup ToSet(N)
    BY <1>8, <1>12, <2>3
  <2>7. P \subseteq P2 /\ ToSet(N) \subseteq P2
    BY <1>8, <1>12, <2>4, <2>5
  <2> QED BY <2>2, <2>6, <2>7
<1>16. ToSet(N) \cap R2 = {} /\ ToSet(N) \cup (R2 \ R) = (P2 \cup R2) \ (P \cup R)
  <2>1. P2 \cap R2 = {} /\ R \subseteq R2
    OBVIOUS
  <2>2. PICK T : T = ToSet(N)
    OBVIOUS
  <2>3. T \subseteq P2 /\ T \cap P = {} /\ P2 = P \cup T
    BY <1>15, <2>2
  <2>4. T \cap R2 = {}
    BY <2>1, <2>3
  <2>5. T \cup (R2 \ R) = (P2 \cup R2) \ (P \cup R)
    BY <2>1, <2>3
  <2> QED BY <2>2, <2>4, <2>5
<1> QED BY <1>10, <1>13, <1>14, <1>16 DEF LeavesOnce

(* The ports whose buffers hold a packet are those it is due to and has not *)
(* reached.                                                                 *)
Holding(s, p) ==
    {area[x[1]].port[x[2]] :
        x \in {y \in Area \X Index : p \in ToSet(s.buf[y[1]][y[2]])}}

LEMMA PortsHoldingIs == \A p : PortsHolding(p) = Holding(Packets, p)
  BY DEF PortsHolding, Holding, Packets

(* With known ports the buffers for a port hold what is due to it.          *)
LEMMA HoldingIs ==
    ASSUME NEW s, NEW k \in Area, NEW m \in Int, BuffersOf(s, k, m), PortsOf(s, k, m),
           s \in PacketRecord, PortsKnown(k) \/ AllEmpty(s),
           area[k].n \in 0 .. MaxTx, NEW p \in Packet, NEW q \in Port
    PROVE  q \in Holding(s, p) <=> p \in Due(s, k, q) /\ p \notin Gone(s, q)
<1>1. /\ \A i \in Index : s.buf[1 - k][i] = <<>>
      /\ \A i \in Index : s.buf[k][i] # <<>> => i <= area[k].n
      /\ \A i \in Index : s.buf[k][i] \in Seq(Packet)
      /\ \A l \in Area : l = k \/ l = 1 - k
  BY RecordIs, IndexFacts DEF BuffersOf, Buffers
<1>2. DOMAIN <<>> = {} /\ ToSet(<<>>) = {}
  BY DEF ToSet
<1>3. ASSUME q \in Holding(s, p) PROVE p \in Due(s, k, q) /\ p \notin Gone(s, q)
  <2>1. PICK x \in Area \X Index : p \in ToSet(s.buf[x[1]][x[2]]) /\ q = area[x[1]].port[x[2]]
    BY <1>3 DEF Holding
  <2>2. PICK l \in Area, i \in Index : x = <<l, i>>
    BY <2>1
  <2>3. p \in ToSet(s.buf[l][i]) /\ q = area[l].port[i]
    BY <2>1, <2>2
  <2>4. l = k
    BY <1>1, <1>2, <2>3
  <2>7. i \in 1 .. area[k].n
    <3>1. i <= area[k].n
      BY <1>1, <1>2, <2>3, <2>4
    <3> QED BY <3>1, IndexFacts
  <2>8. PICK j \in DOMAIN s.buf[k][i] : s.buf[k][i][j] = p
    BY <2>3, <2>4 DEF ToSet
  <2>9. p \in Due(s, k, q)
    BY <2>3, <2>4, <2>7, <2>8 DEF Due
  <2>10. p \notin Gone(s, q)
    <3>1. \A x1 \in Gone(s, area[k].port[i]) : x1 < s.buf[k][i][j]
      BY <2>7, <2>8 DEF PortsOf, Gone
    <3> QED BY <2>3, <2>4, <2>8, <3>1, PacketInt
  <2> QED BY <2>9, <2>10
<1>4. ASSUME p \in Due(s, k, q), p \notin Gone(s, q) PROVE q \in Holding(s, p)
  <2>1. PICK i \in 1 .. area[k].n :
            /\ area[k].port[i] = q
            /\ \E j \in DOMAIN s.buf[k][i] : s.buf[k][i][j] = p
    BY <1>4 DEF Due
  <2>2. i \in Index
    BY IndexFacts
  <2>3. p \in ToSet(s.buf[k][i])
    BY <2>1 DEF ToSet
  <2>4. <<k, i>> \in Area \X Index
    BY <2>2
  <2>5. PICK x : x = <<k, i>>
    OBVIOUS
  <2>6. x[1] = k /\ x[2] = i
    BY <2>5
  <2> QED BY <2>1, <2>3, <2>4, <2>5, <2>6 DEF Holding
<1> QED BY <1>3, <1>4

(* Only tx ports of the area in use hold packets.                           *)
LEMMA HoldingPorts ==
    ASSUME NEW s, NEW k \in Area, NEW m, BuffersOf(s, k, m),
           PortsKnown(k) \/ AllEmpty(s), NEW p
    PROVE  Holding(s, p) \subseteq Port
<1>1. SUFFICES ASSUME NEW x \in Area \X Index, p \in ToSet(s.buf[x[1]][x[2]])
      PROVE  area[x[1]].port[x[2]] \in Port
  BY DEF Holding
<1>2. PICK l \in Area, i \in Index : x = <<l, i>>
  OBVIOUS
<1>3. p \in ToSet(s.buf[l][i])
  BY <1>1, <1>2
<1>4. s.buf[l][i] # <<>>
  <2>1. ToSet(<<>>) = {}
    BY DEF ToSet
  <2> QED BY <1>3, <2>1
<1>5. ~AllEmpty(s)
  BY <1>4 DEF AllEmpty
<1>6. l = k
  <2>1. l = k \/ l = 1 - k
    BY IndexFacts
  <2> QED BY <1>4, <2>1 DEF BuffersOf
<1>7. i \in 1 .. area[k].n
  <2>1. i <= area[k].n /\ area[k].n \in 0 .. MaxTx
    BY <1>4, <1>5, <1>6 DEF BuffersOf, PortsKnown
  <2> QED BY <2>1, IndexFacts
<1> QED BY <1>2, <1>5, <1>6, <1>7, IndexOfArea

(* A packet is pushed to the ports it belongs to.                           *)
Toward(a, t, q) == \E j \in 1 .. Len(t) : q = a.port[t[j]]

LEMMA BelongsTo ==
    ASSUME NEW a \in AreaRecord, Whole(a), NEW h \in Header, NEW t, TargetsRight(a, h, t),
           NEW q
    PROVE  q \in Belongs(a.config, h) <=> Toward(a, t, q)
<1>1. PICK c, I : c = a.config /\ I = IndicesFor(c, h)
  OBVIOUS
<1>2. /\ t \in Seq(1 .. a.n) /\ ToSet(t) = I
  BY <1>1 DEF TargetsRight
<1>3. \A i \in 1 .. a.n : a.port[i] = c.tx[i].port
  BY <1>1 DEF Whole
<1>4. Belongs(c, h) = {c.tx[i].port : i \in I}
  BY <1>1, BelongsIs
<1>5. \A i : i \in I <=> \E j \in 1 .. Len(t) : i = t[j]
  BY <1>2, ToSetIs
<1>6. \A j \in 1 .. Len(t) : t[j] \in 1 .. a.n
  BY <1>2, ElementsOf
<1>7. q \in Belongs(c, h) <=> \E j \in 1 .. Len(t) : q = a.port[t[j]]
  <2>1. ASSUME q \in Belongs(c, h) PROVE \E j \in 1 .. Len(t) : q = a.port[t[j]]
    <3>1. PICK i \in I : q = c.tx[i].port
      BY <1>4, <2>1
    <3>2. PICK j \in 1 .. Len(t) : i = t[j]
      BY <1>5, <3>1
    <3> QED BY <1>3, <1>6, <3>1, <3>2
  <2>2. ASSUME NEW j \in 1 .. Len(t), q = a.port[t[j]] PROVE q \in Belongs(c, h)
    <3>1. t[j] \in I /\ q = c.tx[t[j]].port
      BY <1>3, <1>5, <1>6, <2>2
    <3> QED BY <1>4, <3>1
  <2> QED BY <2>1, <2>2
<1> QED BY <1>1, <1>7 DEF Toward

(* A packet belongs to tx ports of the configuration.                       *)
LEMMA BelongsPorts ==
    ASSUME NEW a \in AreaRecord, Whole(a), NEW h \in Header,
           \A i \in 1 .. a.n : a.port[i] \in Port
    PROVE  Belongs(a.config, h) \subseteq Port
<1>1. PICK t : t = Targets(a, h)
  OBVIOUS
<1>2. TargetsRight(a, h, t)
  BY <1>1, TargetsAreRight
<1>3. ASSUME NEW q \in Belongs(a.config, h) PROVE \E j \in 1 .. Len(t) : q = a.port[t[j]]
  BY <1>2, <1>3, BelongsTo DEF Toward
<1>4. \A j \in 1 .. Len(t) : t[j] \in 1 .. a.n
  BY <1>2, ElementsOf DEF TargetsRight
<1> QED BY <1>3, <1>4

(* All that a port has taken is numbered.                                   *)
LEMMA GoneType ==
    ASSUME NEW s \in PacketRecord, NEW q \in Port PROVE Gone(s, q) \subseteq Packet
<1>1. s.out[q] \in Seq(Copy) /\ s.refused[q] \subseteq Packet
  BY RecordIs
<1>2. \A j \in DOMAIN s.out[q] : s.out[q][j].pkt \in Packet
  <2>1. \A j \in DOMAIN s.out[q] : s.out[q][j] \in Copy
    BY <1>1
  <2> QED BY <2>1 DEF Copy
<1> QED BY <1>1, <1>2 DEF Gone, Left

(* The variables of Delivery.                                               *)
TodoOf == [p \in Packet |-> IF spoiled THEN {} ELSE ToDo(p)]
LeftOf == [q \in Port |-> [i \in DOMAIN out[q] |-> out[q][i].pkt]]

(* Copies leave: what is due to a port before and after.                    *)
DoneFor(s, r, q, p) == p \in Gone(r, q) /\ p \notin Gone(s, q)

OnceSent(s, r) ==
    \A q \in Port : LeavesOnce(PktSeq(s.out[q]), PktSeq(r.out[q]), s.refused[q], r.refused[q],
                               Gone(r, q) \ Gone(s, q))

(* That holds for each port.                                                *)
LEMMA AllSentOnce ==
    ASSUME NEW s \in PacketRecord, NEW r \in PacketRecord, Grown(s, r),
           NEW k, NEW m, PortsOf(r, k, m)
    PROVE  OnceSent(s, r)
<1>1. SUFFICES ASSUME NEW q \in Port
      PROVE  LeavesOnce(PktSeq(s.out[q]), PktSeq(r.out[q]), s.refused[q], r.refused[q],
                        Gone(r, q) \ Gone(s, q))
  BY DEF OnceSent
<1>2. PICK O, O2, R, R2, P, P2, l, l2 :
          /\ O = s.out[q] /\ O2 = r.out[q] /\ R = s.refused[q] /\ R2 = r.refused[q]
          /\ P = Left(s, q) /\ P2 = Left(r, q) /\ l = PktSeq(O) /\ l2 = PktSeq(O2)
  OBVIOUS
<1>3. /\ O \in Seq(Copy) /\ O2 \in Seq(Copy)
      /\ R \in SUBSET Packet /\ R2 \in SUBSET Packet
  BY <1>2, RecordIs
<1>4. R \subseteq R2 /\ Len(O) <= Len(O2) /\ \A j \in 1 .. Len(O) : O2[j].pkt = O[j].pkt
  BY <1>2 DEF Grown
<1>5. (\A i, j \in DOMAIN O2 : i < j => O2[i].pkt < O2[j].pkt) /\ P2 \cap R2 = {}
  BY <1>2 DEF PortsOf
<1>6. P = {O[j].pkt : j \in DOMAIN O} /\ P2 = {O2[j].pkt : j \in DOMAIN O2}
  BY <1>2 DEF Left
<1>7. LeavesOnce(l, l2, R, R2, (P2 \cup R2) \ (P \cup R))
  BY <1>2, <1>3, <1>4, <1>5, <1>6, SentOnce
<1> QED BY <1>2, <1>7, Zenon DEF Gone

Settled(s, r, p, q, before, after) ==
    IF DoneFor(s, r, q, p) THEN before /\ ~after ELSE before <=> after

(* The operators of the library, as Delivery knows them.                    *)
LEMMA SameLibrary ==
    /\ \A x : Delivered!ToSet(x) = ToSet(x)
    /\ \A x : Delivered!IsInjective(x) <=> IsInjective(x)
    /\ \A x, y : Delivered!IsPrefix(x, y) <=> IsPrefix(x, y)
<1>1. \A x : Delivered!ToSet(x) = ToSet(x)
  BY DEF Delivered!ToSet, ToSet
<1>2. \A x : Delivered!IsInjective(x) <=> IsInjective(x)
  BY DEF Delivered!IsInjective, IsInjective
<1>3. \A x, y : Delivered!IsPrefix(x, y) <=> IsPrefix(x, y)
  BY DEF Delivered!IsPrefix, IsPrefix
<1> QED BY <1>1, <1>2, <1>3

(* A step that sends or refuses what was due, and leaves the rest due, is   *)
(* a step Leave of Delivery.                                                *)
LEMMA LeaveStep ==
    ASSUME NEW CONSTANT s \in PacketRecord, NEW CONSTANT r \in PacketRecord,
           Packets = s, Packets' = r, ~spoiled, ~spoiled', received' = received,
           Grown(s, r), OnceSent(s, r),
           \A q \in Port, p \in Packet :
              Settled(s, r, p, q, q \in ToDo(p), q \in ToDo(p)')
    PROVE  Delivered!Leave
<1>1. PICK T, T2, L, L2, R, R2 : /\ T = TodoOf /\ T2 = TodoOf' /\ L = LeftOf /\ L2 = LeftOf'
                                 /\ R = refused /\ R2 = refused'
  OBVIOUS
<1>2. /\ \A p \in Packet : T[p] = ToDo(p)
      /\ \A p \in Packet : T2[p] = ToDo(p)'
  BY <1>1 DEF TodoOf
<1>3. /\ \A q \in Port : L[q] = PktSeq(s.out[q]) /\ R[q] = s.refused[q]
      /\ \A q \in Port : L2[q] = PktSeq(r.out[q]) /\ R2[q] = r.refused[q]
  BY <1>1 DEF LeftOf, PktSeq, Packets
<1>4. \A q \in Port :
        LET done == ToSet(SentSince(L[q], L2[q])) \cup (R2[q] \ R[q]) IN
        /\ IsPrefix(L[q], L2[q])
        /\ IsInjective(SentSince(L[q], L2[q]))
        /\ R[q] \subseteq R2[q]
        /\ ToSet(SentSince(L[q], L2[q])) \cap R2[q] = {}
        /\ \A p \in Packet :
              IF p \in done THEN q \in T[p] /\ q \notin T2[p]
                            ELSE q \in T[p] <=> q \in T2[p]
  <2>1. SUFFICES ASSUME NEW q \in Port
        PROVE  LET done == ToSet(SentSince(L[q], L2[q])) \cup (R2[q] \ R[q]) IN
               /\ IsPrefix(L[q], L2[q])
               /\ IsInjective(SentSince(L[q], L2[q]))
               /\ R[q] \subseteq R2[q]
               /\ ToSet(SentSince(L[q], L2[q])) \cap R2[q] = {}
               /\ \A p \in Packet :
                     IF p \in done THEN q \in T[p] /\ q \notin T2[p]
                                   ELSE q \in T[p] <=> q \in T2[p]
    OBVIOUS
  <2>2. PICK D : D = Gone(r, q) \ Gone(s, q)
    OBVIOUS
  <2>3. LeavesOnce(L[q], L2[q], R[q], R2[q], D)
    BY <1>3, <2>2, Zenon DEF OnceSent
  <2>4. R[q] \subseteq R2[q]
    BY <1>3 DEF Grown
  <2>5. \A p \in Packet : IF p \in D THEN q \in T[p] /\ q \notin T2[p]
                                     ELSE q \in T[p] <=> q \in T2[p]
    BY <1>2, <2>2 DEF Settled, DoneFor
  <2> QED BY <2>3, <2>4, <2>5, Zenon DEF LeavesOnce
<1>5. UNCHANGED (1 .. received)
  OBVIOUS
<1>6. \A q \in Port :
        LET done == Delivered!ToSet(SentSince(LeftOf[q], LeftOf'[q])) \cup (refused'[q] \ refused[q]) IN
        /\ Delivered!IsPrefix(LeftOf[q], LeftOf'[q])
        /\ Delivered!IsInjective(SentSince(LeftOf[q], LeftOf'[q]))
        /\ refused[q] \subseteq refused'[q]
        /\ Delivered!ToSet(SentSince(LeftOf[q], LeftOf'[q])) \cap refused'[q] = {}
        /\ \A p \in Packet :
              IF p \in done THEN q \in TodoOf[p] /\ q \notin TodoOf'[p]
                            ELSE q \in TodoOf[p] <=> q \in TodoOf'[p]
  BY <1>1, <1>4, SameLibrary
<1> QED BY <1>5, <1>6 DEF Delivered!Leave, Delivered!Sent, TodoOf, LeftOf, SentSince

(* What has gone stays gone.                                                *)
LEMMA GoneGrows ==
    ASSUME NEW s \in PacketRecord, NEW r \in PacketRecord, Grown(s, r), NEW q \in Port
    PROVE  Gone(s, q) \subseteq Gone(r, q)
<1>1. PICK O, O2 : O = s.out[q] /\ O2 = r.out[q]
  OBVIOUS
<1>2. O \in Seq(Copy) /\ O2 \in Seq(Copy)
  BY <1>1, RecordIs
<1>3. /\ Len(O) <= Len(O2) /\ \A j \in 1 .. Len(O) : O2[j].pkt = O[j].pkt
      /\ s.refused[q] \subseteq r.refused[q]
  BY <1>1 DEF Grown
<1>4. DOMAIN O = 1 .. Len(O) /\ DOMAIN O2 = 1 .. Len(O2) /\ Len(O) \in Nat /\ Len(O2) \in Nat
  BY <1>2
<1>5. \A j \in DOMAIN O : j \in DOMAIN O2 /\ O2[j].pkt = O[j].pkt
  BY <1>3, <1>4
<1>6. Left(s, q) \subseteq Left(r, q)
  BY <1>1, <1>5 DEF Left
<1> QED BY <1>3, <1>6 DEF Gone

(* All buffers are sent.                                                    *)
LEMMA EmptiedSettles ==
    ASSUME NEW s \in PacketRecord, NEW r \in PacketRecord, NEW k \in Area, NEW m \in Int,
           BuffersOf(s, k, m), PortsOf(s, k, m), PortsKnown(k) \/ AllEmpty(s),
           area[k].n \in 0 .. MaxTx, SameDue(s, r, k), AllEmpty(r),
           NEW p \in Packet, NEW q \in Port
    PROVE  Settled(s, r, p, q, q \in Holding(s, p), FALSE)
<1>1. q \in Holding(s, p) <=> p \in Due(s, k, q) /\ p \notin Gone(s, q)
  BY HoldingIs
<1>2. p \in Due(r, k, q) <=> p \in Gone(r, q)
  <2>1. \A i \in 1 .. area[k].n : i \in Index
    BY IndexFacts
  <2>2. \A i \in 1 .. area[k].n : r.buf[k][i] = <<>>
    BY <2>1 DEF AllEmpty
  <2>3. DOMAIN <<>> = {}
    OBVIOUS
  <2> QED BY <2>2, <2>3 DEF Due
<1>3. Due(r, k, q) = Due(s, k, q)
  BY DEF SameDue
<1> QED BY <1>1, <1>2, <1>3 DEF Settled, DoneFor

(* One packet is pushed: that one, those that wait behind it, and the rest. *)
LEMMA PushedSettles ==
    ASSUME NEW s \in PacketRecord, NEW r \in PacketRecord, NEW k \in Area,
           NEW m \in Int, NEW n \in Int, BuffersOf(s, k, m), PortsOf(s, k, m),
           BuffersOf(r, k, n), PortsOf(r, k, n), PortsKnown(k),
           NEW x \in Packet, m < x, NEW t, NEW l, DueTo(s, r, k, t, l, x),
           NEW q \in Port, NEW P,
           P <=> \E j \in 1 .. l : q = area[k].port[t[j]]
    PROVE  Settled(s, r, x, q, P, q \in Holding(r, x))
<1>1. q \in Holding(r, x) <=> x \in Due(r, k, q) /\ x \notin Gone(r, q)
  BY HoldingIs DEF PortsKnown
<1>2. x \notin Gone(s, q)
  <2>1. x \in Gone(s, q) => x <= m
    BY DEF PortsOf, Gone
  <2> QED BY <2>1, PacketInt
<1>3. x \notin Due(s, k, q)
  <2>1. \A i \in 1 .. area[k].n : i \in Index
    BY IndexFacts DEF PortsKnown
  <2>2. ASSUME NEW i \in 1 .. area[k].n, NEW j \in DOMAIN s.buf[k][i], s.buf[k][i][j] = x
        PROVE  FALSE
    <3>1. x <= m
      BY <2>1, <2>2 DEF BuffersOf
    <3> QED BY <3>1, PacketInt
  <2> QED BY <1>2, <2>2 DEF Due
<1>4. Due(r, k, q) = Due(s, k, q) \cup {y \in {x} : \E h \in 1 .. l : q = area[k].port[t[h]]}
  BY DEF DueTo
<1>5. x \in Due(r, k, q) <=> P
  BY <1>3, <1>4
<1>6. x \in Gone(r, q) => x \in Due(r, k, q)
  BY DEF Due
<1> QED BY <1>1, <1>2, <1>5, <1>6 DEF Settled, DoneFor

(* A packet that waits behind has reached no port.                          *)
LEMMA BehindNotDone ==
    ASSUME NEW s \in PacketRecord, NEW r \in PacketRecord, NEW k, NEW n \in Int,
           PortsOf(r, k, n), NEW p \in Packet, n < p, NEW q \in Port
    PROVE  ~DoneFor(s, r, q, p)
<1>1. p \notin Gone(r, q)
  <2>1. p \in Gone(r, q) => p <= n
    BY DEF PortsOf, Gone
  <2> QED BY <2>1, PacketInt
<1> QED BY <1>1 DEF DoneFor

(* The packets that were pushed before stay due or go out.                  *)
LEMMA OthersSettle ==
    ASSUME NEW s \in PacketRecord, NEW r \in PacketRecord, NEW k \in Area,
           NEW m \in Int, NEW n \in Int, BuffersOf(s, k, m), PortsOf(s, k, m),
           BuffersOf(r, k, n), PortsOf(r, k, n), PortsKnown(k), Grown(s, r),
           NEW x, NEW t, NEW l, DueTo(s, r, k, t, l, x),
           NEW p \in Packet, p # x, NEW q \in Port
    PROVE  Settled(s, r, p, q, q \in Holding(s, p), q \in Holding(r, p))
<1>1. /\ area[k].n \in 0 .. MaxTx
      /\ q \in Holding(s, p) <=> p \in Due(s, k, q) /\ p \notin Gone(s, q)
  BY HoldingIs DEF PortsKnown
<1>2. q \in Holding(r, p) <=> p \in Due(r, k, q) /\ p \notin Gone(r, q)
  BY <1>1, HoldingIs
<1>3. Due(r, k, q) = Due(s, k, q) \cup {y \in {x} : \E h \in 1 .. l : q = area[k].port[t[h]]}
  BY DEF DueTo
<1>4. p \in Due(r, k, q) <=> p \in Due(s, k, q)
  BY <1>3
<1>5. p \in Gone(s, q) => p \in Gone(r, q)
  BY GoneGrows
<1>6. p \in Gone(r, q) => p \in Due(r, k, q)
  BY DEF Due
<1> QED BY <1>1, <1>2, <1>4, <1>5, <1>6 DEF Settled, DoneFor

(* The number of tx ports.                                                  *)
LEMMA AreaSmall ==
    ASSUME TypeInv, NEW k \in Area PROVE area[k].n \in 0 .. MaxTx
<1>1. area[k] \in AreaRecord
  BY DEF TypeInv
<1> QED BY <1>1 DEF AreaRecord

(* The ports of the area in use are known where they matter.                *)
LEMMA KnownOrEmpty ==
    ASSUME TypeInv, AreaInv, SwitchInv, ~spoiled
    PROVE  PortsKnown(ref) \/ AllEmpty(Packets)
<1>1. CASE Unseen
  BY <1>1 DEF Unseen, NoneBuffered, AllEmpty, Packets
<1>2. CASE ~Unseen
  BY <1>2, AreaInUse
<1> QED BY <1>1, <1>2

(* Enter with a switch, and Drain.                                          *)
LEMMA EmptiedLeave ==
    ASSUME TypeInv, AreaInv, SwitchInv, PacketInv, ~spoiled, ~spoiled', burst = <<>>,
           burst' = burst, received' = received,
           NEW CONSTANT r, Packets' = r, Drains(r)
    PROVE  Delivered!Leave
<1>1. PICK s, k, m : s = Packets /\ k = ref /\ m = First
  OBVIOUS
<1>2. /\ s \in PacketRecord /\ k \in Area /\ m \in Int
      /\ BuffersOf(s, k, m) /\ PortsOf(s, k, m)
  BY <1>1, PacketsAre DEF Good
<1>3. /\ r \in PacketState /\ Grown(s, r) /\ SameDue(s, r, k) /\ AllEmpty(r)
      /\ PortsOf(r, k, m)
  BY <1>1 DEF Drains, Good
<1>4. r \in PacketRecord
  BY <1>3, StateIsRecord
<1>5. PortsKnown(k) \/ AllEmpty(s)
  BY <1>1, KnownOrEmpty
<1>6. area[k].n \in 0 .. MaxTx
  BY <1>2, AreaSmall
<1>7. OnceSent(s, r)
  BY <1>2, <1>3, <1>4, AllSentOnce
<1>8. ToSet(burst) = {} /\ ToSet(burst') = {}
  BY DEF ToSet
<1>9. ASSUME NEW p \in Packet PROVE ToDo(p) = Holding(s, p) /\ ToDo(p)' = {}
  <2>1. ToDo(p) = Holding(s, p)
    BY <1>1, <1>8, PortsHoldingIs DEF ToDo
  <2>2. r.buf = buf'
    BY DEF Packets
  <2>3. \A y \in Area \X Index : buf'[y[1]][y[2]] = <<>>
    BY <1>3, <2>2 DEF AllEmpty
  <2>4. \A y \in Area \X Index : p \notin ToSet(buf'[y[1]][y[2]])
    BY <2>3 DEF ToSet
  <2>5. PortsHolding(p)' = {}
    BY <2>4 DEF PortsHolding
  <2>6. ToDo(p)' = {}
    BY <1>8, <2>5 DEF ToDo
  <2> QED BY <2>1, <2>6
<1>10. ASSUME NEW q \in Port, NEW p \in Packet
       PROVE  Settled(s, r, p, q, q \in ToDo(p), q \in ToDo(p)')
  <2>1. Settled(s, r, p, q, q \in Holding(s, p), FALSE)
    BY <1>2, <1>3, <1>4, <1>5, <1>6, EmptiedSettles
  <2> QED BY <1>9, <2>1 DEF Settled
<1> QED BY <1>1, <1>2, <1>3, <1>4, <1>7, <1>10, LeaveStep

(* Classify.                                                                *)
LEMMA ClassifyLeaves ==
    ASSUME TypeInv, AreaInv, SwitchInv, PacketInv, ~spoiled, ~spoiled', Classify
    PROVE  Delivered!Leave
<1>1. PICK r, t : Packets' = r /\ Pushes(r, Head(burst), t)
  BY ClassifiesPackets
<1>2. PICK s, k, m, x, a, h, n, l : /\ s = Packets /\ k = ref /\ m = First /\ x = Head(burst)
                                    /\ a = area[k] /\ h = hdr[x] /\ n = First + 1
                                    /\ l = Len(t)
  OBVIOUS
<1>3. /\ s \in PacketRecord /\ k \in Area /\ m \in Int
      /\ BuffersOf(s, k, m) /\ PortsOf(s, k, m)
  BY <1>2, PacketsAre DEF Good
<1>4. /\ r \in PacketState /\ Grown(s, r) /\ DueTo(s, r, k, t, l, x)
      /\ BuffersOf(r, k, n) /\ PortsOf(r, k, n) /\ TargetsRight(a, h, t)
  BY <1>1, <1>2 DEF Pushes, Good
<1>5. r \in PacketRecord
  BY <1>4, StateIsRecord
<1>6. /\ x \in Packet /\ x = n /\ n = m + 1
      /\ ToSet(burst') = ToSet(burst) \ {x}
  BY <1>2, ClassifyBurst
<1>7. a \in AreaRecord /\ Whole(a) /\ PortsKnown(k)
  <2>1. ~Unseen
    BY DEF Unseen, Classify
  <2> QED BY <1>2, <2>1, AreaInUse
<1>8. h \in Header
  BY <1>2, <1>6 DEF TypeInv
<1>9. UNCHANGED <<area, ref, hdr, received>>
  BY DEF Classify
<1>10. /\ \A p \in ToSet(burst) \ {x} : p > n
       /\ x \in ToSet(burst)
  <2>1. DOMAIN burst = 1 .. Len(burst) /\ \A j \in 1 .. Len(burst) : burst[j] = m + j
    BY <1>2, PacketsAre
  <2>2. ASSUME NEW p \in ToSet(burst), p # x PROVE p > n
    <3>1. PICK j \in 1 .. Len(burst) : p = m + j
      BY <2>1, <2>2 DEF ToSet
    <3> QED BY <1>3, <1>6, <2>2, <3>1
  <2>3. burst # <<>> /\ burst \in Seq(Packet)
    BY DEF TypeInv, Classify
  <2>4. x = burst[1] /\ 1 \in DOMAIN burst
    BY <1>2, <2>3
  <2>5. x \in ToSet(burst)
    BY <2>4 DEF ToSet
  <2> QED BY <2>2, <2>5
<1>11. OnceSent(s, r)
  BY <1>3, <1>4, <1>5, AllSentOnce
<1>12. \A p \in Packet : PortsHolding(p) = Holding(s, p) /\ PortsHolding(p)' = Holding(r, p)
  <2>1. \A p : PortsHolding(p) = Holding(s, p)
    BY <1>2, PortsHoldingIs
  <2>2. buf' = r.buf
    BY <1>1 DEF Packets
  <2>3. \A p : PortsHolding(p)' = Holding(r, p)
    BY <1>9, <2>2 DEF PortsHolding, Holding
  <2> QED BY <2>1, <2>3
<1>13. \A p \in Packet : Belongs(area[ref].config, hdr[p])' = Belongs(area[ref].config, hdr[p])
  BY <1>9
<1>14. /\ \A p \in Packet : ToDo(p) = IF p \in ToSet(burst)
                                      THEN Belongs(area[ref].config, hdr[p])
                                      ELSE Holding(s, p)
       /\ \A p \in Packet : ToDo(p)' = IF p \in ToSet(burst) \ {x}
                                       THEN Belongs(area[ref].config, hdr[p])
                                       ELSE Holding(r, p)
  BY <1>6, <1>12, <1>13, Zenon DEF ToDo
<1>15. m < x /\ n \in Int
  BY <1>3, <1>6
<1>16. ASSUME NEW q \in Port, NEW p \in Packet
       PROVE  Settled(s, r, p, q, q \in ToDo(p), q \in ToDo(p)')
  <2>1. CASE p = x
    <3>1. PICK P : P <=> \E j \in 1 .. l : q = area[k].port[t[j]]
      OBVIOUS
    <3>2. Settled(s, r, x, q, P, q \in Holding(r, x))
      BY <1>3, <1>4, <1>5, <1>6, <1>7, <1>15, <3>1, PushedSettles
    <3>3. q \in Belongs(a.config, h) <=> P
      <4>1. q \in Belongs(a.config, h) <=> Toward(a, t, q)
        BY <1>4, <1>7, <1>8, BelongsTo
      <4> QED BY <1>2, <3>1, <4>1 DEF Toward
    <3>4. q \in ToDo(p) <=> P
      BY <1>2, <1>10, <1>14, <2>1, <3>3
    <3>5. q \in ToDo(p)' <=> q \in Holding(r, x)
      BY <1>14, <2>1
    <3> QED BY <2>1, <3>2, <3>4, <3>5 DEF Settled
  <2>2. CASE p \in ToSet(burst) \ {x}
    <3>1. n < p
      BY <1>10, <2>2
    <3>2. ~DoneFor(s, r, q, p)
      BY <1>3, <1>4, <1>5, <1>15, <3>1, BehindNotDone
    <3>3. ToDo(p)' = ToDo(p)
      BY <1>14, <2>2
    <3> QED BY <3>2, <3>3 DEF Settled
  <2>3. CASE p \notin ToSet(burst) /\ p # x
    <3>1. Settled(s, r, p, q, q \in Holding(s, p), q \in Holding(r, p))
      BY <1>3, <1>4, <1>5, <1>7, <1>15, <2>3, OthersSettle
    <3> QED BY <1>14, <2>3, <3>1
  <2> QED BY <2>1, <2>2, <2>3
<1> QED BY <1>1, <1>2, <1>3, <1>4, <1>5, <1>9, <1>11, <1>16, LeaveStep

(* New packets have to go where they belong, and others where they did.     *)
LEMMA ReceiveDelivers ==
    ASSUME TypeInv, TypeInv', AreaInv, SwitchInv, PacketInv, ~spoiled, ~spoiled', Receive
    PROVE  Delivered!Receive
<1>1. /\ burst = <<>> /\ received <= received'
      /\ ToSet(burst') = received + 1 .. received'
  BY ReceivesPackets
<1>2. UNCHANGED <<area, ref, buf, out, refused>>
  BY DEF Receive
<1>3. received \in Int /\ received' \in Int /\ received >= 0
  BY BoundAssumption DEF TypeInv
<1>4. PICK s, k, a, m : s = Packets /\ k = ref /\ a = area[k] /\ m = First
  OBVIOUS
<1>5. a \in AreaRecord /\ Whole(a) /\ PortsKnown(k)
  <2>1. ~Unseen
    BY DEF Unseen, Receive
  <2> QED BY <1>4, <2>1, AreaInUse
<1>6. BuffersOf(s, k, m) /\ k \in Area
  BY <1>4, PacketsAre DEF Good
<1>7. ASSUME NEW p \in Packet PROVE PortsHolding(p) \subseteq Port /\ PortsHolding(p)' = PortsHolding(p)
  <2>1. Holding(s, p) \subseteq Port
    BY <1>5, <1>6, HoldingPorts
  <2>2. PortsHolding(p)' = PortsHolding(p)
    BY <1>2 DEF PortsHolding
  <2> QED BY <1>4, <2>1, <2>2, PortsHoldingIs
<1>8. ASSUME NEW p \in Packet PROVE Belongs(area[ref].config, hdr[p])' \subseteq Port
  <2>1. PICK h : h = hdr'[p]
    OBVIOUS
  <2>2. h \in Header
    BY <2>1 DEF TypeInv
  <2>3. \A i \in 1 .. a.n : a.port[i] \in Port
    BY <1>4, <1>5 DEF PortsKnown
  <2>4. Belongs(a.config, h) \subseteq Port
    BY <1>5, <2>2, <2>3, BelongsPorts
  <2> QED BY <1>2, <1>4, <2>1, <2>4
<1>9. ASSUME NEW p \in Packet PROVE ToDo(p)' \subseteq Port
  BY <1>7, <1>8 DEF ToDo
<1>10. ASSUME NEW p \in Packet, p \notin received + 1 .. received' PROVE ToDo(p)' = ToDo(p)
  <2>1. p \notin ToSet(burst) /\ p \notin ToSet(burst')
    BY <1>1, <1>10 DEF ToSet
  <2> QED BY <1>7, <2>1 DEF ToDo
<1>11. TodoOf' \in [Packet -> SUBSET Port]
  BY <1>9 DEF TodoOf
<1>12. \A p \in Packet \ ((1 .. received') \ (1 .. received)) : TodoOf'[p] = TodoOf[p]
  <2>1. SUFFICES ASSUME NEW p \in Packet \ ((1 .. received') \ (1 .. received))
        PROVE  TodoOf'[p] = TodoOf[p]
    OBVIOUS
  <2>2. p \notin received + 1 .. received'
    BY <1>3, <2>1, PacketInt
  <2> QED BY <1>10, <2>2 DEF TodoOf
<1>13. 1 .. received \subseteq 1 .. received'
  BY <1>1, <1>3
<1>14. UNCHANGED <<LeftOf, refused>>
  BY <1>2 DEF LeftOf
<1> QED BY <1>11, <1>12, <1>13, <1>14 DEF Delivered!Receive, TodoOf, LeftOf

(* What does nothing to packets.                                            *)
LEMMA NothingDelivered ==
    ASSUME TypeInv, SwitchInv, PacketInv, ~spoiled, ~spoiled',
           UNCHANGED <<ref, burst, received, hdr, buf, out, refused>>,
           area'[ref] = area[ref] \/ Unseen
    PROVE  UNCHANGED (Delivered!vars)
<1>1. ASSUME NEW p \in Packet PROVE ToDo(p)' = ToDo(p)
  <2>1. CASE Unseen
    <3>1. \A y \in Area \X Index : p \notin ToSet(buf[y[1]][y[2]])
      BY <2>1 DEF Unseen, NoneBuffered, ToSet
    <3>2. PortsHolding(p) = {} /\ PortsHolding(p)' = {}
      BY <3>1 DEF PortsHolding
    <3>3. ToSet(burst) = {}
      BY <2>1 DEF Unseen, TypeInv, ToSet
    <3> QED BY <3>2, <3>3 DEF ToDo
  <2>2. CASE area'[ref] = area[ref]
    <3>1. \A l \in Area : l = ref \/ l = 1 - ref
      BY IndexFacts DEF TypeInv
    <3>2. \A i \in Index : buf[1 - ref][i] = <<>>
      <4>1. BuffersOf(Packets, ref, First)
        BY PacketsAre DEF Good
      <4> QED BY <4>1 DEF BuffersOf, Packets
    <3>3. \A i \in Index : p \notin ToSet(buf[1 - ref][i])
      BY <3>2 DEF ToSet
    <3>4. \A y \in Area \X Index : p \in ToSet(buf[y[1]][y[2]]) => y[1] = ref
      BY <3>1, <3>3
    <3>5. PortsHolding(p)' = PortsHolding(p)
      BY <2>2, <3>4 DEF PortsHolding
    <3> QED BY <2>2, <3>5 DEF ToDo
  <2> QED BY <2>1, <2>2
<1>2. TodoOf' = TodoOf
  BY <1>1 DEF TodoOf
<1>3. UNCHANGED <<LeftOf, refused, 1 .. received>>
  BY DEF LeftOf
<1> QED BY <1>2, <1>3 DEF Delivered!vars, TodoOf, LeftOf

(* At the start nothing is due.                                             *)
LEMMA DeliveredInit == Init => Delivered!Init
<1> SUFFICES ASSUME Init PROVE Delivered!Init
  OBVIOUS
<1>1. NoneBuffered /\ ~spoiled /\ burst = <<>> /\ received = 0
  BY InitPackets DEF Init
<1>2. ToSet(burst) = {}
  BY <1>1 DEF ToSet
<1>3. ASSUME NEW p \in Packet PROVE ToDo(p) = {}
  <2>1. \A y \in Area \X Index : p \notin ToSet(buf[y[1]][y[2]])
    BY <1>1 DEF NoneBuffered, ToSet
  <2>2. PortsHolding(p) = {}
    BY <2>1 DEF PortsHolding
  <2> QED BY <1>2, <2>2 DEF ToDo
<1>4. TodoOf = [p \in Packet |-> {}]
  BY <1>1, <1>3 DEF TodoOf
<1>5. LeftOf = [q \in Port |-> <<>>]
  <2>1. \A q \in Port : out[q] = <<>>
    BY DEF Init
  <2>2. \A q \in Port : [i \in DOMAIN out[q] |-> out[q][i].pkt] = <<>>
    BY <2>1
  <2> QED BY <2>2 DEF LeftOf
<1>6. 1 .. received = {}
  BY <1>1
<1>7. refused = [q \in Port |-> {}]
  BY DEF Init
<1> QED BY <1>4, <1>5, <1>6, <1>7 DEF Delivered!Init, TodoOf, LeftOf

(* Each step delivers packets as Delivery has it, or does nothing to them.  *)
LEMMA DeliveredStep ==
    ASSUME ClassifierInv, ClassifierInv', Next, ~spoiled'
    PROVE  Delivered!Next \/ UNCHANGED (Delivered!vars)
<1>1. TypeInv /\ AreaInv /\ SwitchInv /\ PacketInv /\ TypeInv'
  BY DEF ClassifierInv
<1>2. ~spoiled
  BY SpoiledStays
<1>3. CASE Enter
  <2>1. CASE ref # upd
    <3>1. UNCHANGED <<ref, burst, received, hdr, buf, out, refused, area>>
      BY <1>3, <2>1 DEF Enter, pktVars
    <3> QED BY <1>1, <1>2, <3>1, NothingDelivered
  <2>2. CASE ref = upd
    <3>1. PICK r : Packets' = r /\ Drains(r)
      BY <1>1, <1>2, <1>3, <2>2, EnterPackets
    <3>2. burst = <<>> /\ burst' = burst /\ received' = received
      BY <1>1, <1>3 DEF Enter, TypeInv
    <3>3. Delivered!Leave
      BY <1>1, <1>2, <3>1, <3>2, EmptiedLeave
    <3> QED BY <3>3 DEF Delivered!Next
  <2> QED BY <2>1, <2>2
<1>4. CASE Drain
  <2>1. PICK r : Packets' = r /\ Drains(r)
    BY <1>1, <1>2, <1>4, DrainsPackets
  <2>2. burst = <<>> /\ burst' = burst /\ received' = received
    BY <1>1, <1>4 DEF Drain, TypeInv
  <2>3. Delivered!Leave
    BY <1>1, <1>2, <2>1, <2>2, EmptiedLeave
  <2> QED BY <2>3 DEF Delivered!Next
<1>5. CASE Receive
  BY <1>1, <1>2, <1>5, ReceiveDelivers DEF Delivered!Next
<1>6. CASE Classify
  BY <1>1, <1>2, <1>6, ClassifyLeaves DEF Delivered!Next
<1>7. CASE Main
  BY <1>1, <1>2, <1>7, MainKeepsPackets, NothingDelivered DEF MainKeeps
<1> QED BY <1>3, <1>4, <1>5, <1>6, <1>7 DEF Next, Worker

(* Stutters map to stutters.                                                *)
LEMMA DeliveredStutter ==
    ASSUME UNCHANGED vars PROVE UNCHANGED (Delivered!vars)
<1>1. /\ UNCHANGED <<area, ref, burst, received, hdr, buf, out, refused, spoiled>>
  BY DEF vars, workerVars, pktVars
<1>2. ASSUME NEW p \in Packet PROVE ToDo(p)' = ToDo(p)
  BY <1>1 DEF ToDo, PortsHolding
<1>3. TodoOf' = TodoOf
  BY <1>1, <1>2 DEF TodoOf
<1>4. UNCHANGED <<LeftOf, refused, 1 .. received>>
  BY <1>1 DEF LeftOf
<1> QED BY <1>3, <1>4 DEF Delivered!vars, TodoOf, LeftOf

(* The classifier implements Delivery: a received packet is due to the      *)
(* ports that its address and VLAN belong to in the configuration in        *)
(* force, the ports of select_classified_index and                          *)
(* handle_l2multicast_packet; each copy leaves through its port once or     *)
(* is refused by its driver; and a switch of the area, a full buffer or a   *)
(* command makes no copy disappear.                                         *)
THEOREM DeliveryCorrect == Spec => DeliverySpec
<1>1. Init => Delivered!Init
  BY DeliveredInit
<1>2. ClassifierInv /\ ClassifierInv' /\ [Next]_vars
        => [Delivered!Next \/ spoiled']_(Delivered!vars)
  BY DeliveredStep, DeliveredStutter
<1> QED BY <1>1, <1>2, Invariance, PTL DEF Spec, DeliverySpec
=============================================================================
