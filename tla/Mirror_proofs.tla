---------------------------- MODULE Mirror_proofs ----------------------------
(***************************************************************************)
(* Proofs about spp_mirror, for any pool, burst, packets, ports, commands  *)
(* and launches.  Each theorem is an invariant or action property of       *)
(* Mirror that TLC checks on small instances; MirrorInv is the inductive   *)
(* invariant they follow from.                                             *)
(***************************************************************************)
EXTENDS Mirror, TLAPS

Bursting == wpc \in {"copy", "mirror", "orig", "discard"}
Working  == wpc \in {"enter", "copy", "mirror", "orig", "discard"}

-----------------------------------------------------------------------------
(* The stages of the process: which states of main, of the worker and of    *)
(* core.status go together.                                                 *)
LifeInv ==
    /\ mpc \in {"init", "exited"} => wpc = "none"
    /\ mpc = "init" => core = "stop"
    /\ mpc = "wait_idle" => \/ wpc = "launched" /\ core = "stop"
                            \/ wpc = "top" /\ core = "idle"
    /\ mpc \in {"command", "core_request", "core_wait", "write", "wait"}
         => wpc \notin {"none", "launched"} /\ core = "forward"
    /\ mpc = "wait_stop" => \/ wpc \notin {"none", "launched"}
                               /\ core = "stop_request"
                            \/ wpc = "none" /\ core = "stop"

(* The core lists: the one that is or will be in use names the component    *)
(* if and only if it is registered.                                         *)
NewList == IF mpc = "core_wait" /\ chgCore THEN 1 - coreUpd ELSE coreUpd

ListInv ==
    /\ mpc # "exited" =>
         /\ mpc # "core_wait" => coreRef # coreUpd
         /\ ~chgCore => coreRef # coreUpd
         /\ listed[NewList] = comp.used
         /\ ~chgCore \/ mpc \in {"write", "wait"}
              => \A k \in Area : listed[k] = comp.used
         /\ mpc \in {"init", "wait_idle", "command"} => ~chgCore /\ ~chgComp
    /\ Working => listed[coreRef]

(* The double buffer of the component's ports.                              *)
PathInv ==
    mpc # "exited" =>
         /\ chgComp => comp.used
         /\ mpc \in {"write", "wait"} => chgComp
         /\ mpc # "wait" => ref # upd
         /\ mpc = "wait" => path[1 - upd] = comp
         /\ ~chgComp /\ comp.used => path[ref] = comp

(* The ports to transmit to differ. *)
Distinct(q) == \A j, k \in 1 .. Len(q.tx) : q.tx[j] = q.tx[k] => j = k

(* The locals of mirror_proc: a burst is the packets received last, a copy  *)
(* is counted on top of the ones before it, and nothing is left of a burst  *)
(* when it is over.                                                         *)
BatchInv ==
    /\ Len(bufs) <= Burst /\ Len(bufs) <= rx /\ rx <= MaxPacket
    /\ \A k \in 1 .. Len(bufs) : bufs[k] = rx - Len(bufs) + k
    /\ Len(copies) <= Len(bufs) /\ nb1 <= Len(bufs) /\ nb2 <= Len(copies)
    /\ Bursting <=> bufs # << >>
    /\ wpc = "copy" => Len(copies) < Len(bufs)
    /\ wpc \in {"mirror", "orig", "discard"} => Len(copies) = Len(bufs)
    /\ wpc \notin {"orig", "discard"} => nb2 = 0
    /\ wpc # "discard" => nb1 = 0
    /\ \A j, k \in 0 .. Len(copies) : j <= k => Upto(j) <= Upto(k)

(* What the ports have of the packets: those of the burst exactly as far as *)
(* it has come, and none that was not received.                             *)
Kind == {"orig", "copy"}
Has(q, p, kind) == \E k \in 1 .. Len(out[q]) :
                      out[q][k] = [pkt |-> p, kind |-> kind]
First == rx - Len(bufs)

SentInv ==
    /\ \A q \in TxPort : \A k \in 1 .. Len(out[q]) : out[q][k].pkt <= rx
    /\ \A q \in TxPort : \A k \in 1 .. Len(bufs) :
         /\ Has(q, bufs[k], "copy") <=>
               /\ wpc \in {"orig", "discard"}
               /\ q = MirrorPort /\ k <= nb2
         /\ Has(q, bufs[k], "orig") <=>
               /\ wpc = "discard"
               /\ q = OriginalPort /\ k <= nb1
    /\ \A p \in freed : p <= First

(* The data of the burst is marked by the ports it has gone through.        *)
MarkInv ==
    /\ \A t \in marked : t[1] <= rx
    /\ deep \/ Tagged = {} =>
         \A k \in 1 .. Len(bufs) :
           /\ <<bufs[k], "copy">> \in marked <=>
                 wpc \in {"orig", "discard"} /\ MirrorPort \in Tagged
           /\ <<bufs[k], "orig">> \in marked <=>
                 wpc = "discard" /\ OriginalPort \in Tagged

Frame == [pkt : Packet, kind : Kind]
OutType == out \in [TxPort -> Seq(Frame)]
RxType == rx \in 0 .. MaxPacket

-----------------------------------------------------------------------------
(* The actions by what they touch: Main is the main thread, Commands what   *)
(* it is asked for, Batch all that handles packets.                         *)
LEMMA NextCases ==
    ASSUME Next
    PROVE  \/ StartUp \/ StartForwarding \/ Exit \/ WaitStop \/ Killed
           \/ Relaunch \/ Exited \/ Start \/ Stop
           \/ \E d \in Dir : \E p \in PortOf(d) : PortAdd(d, p)
           \/ \E d \in Dir : \E p \in PortOf(d) : PortDel(d, p)
           \/ CoreRequest \/ CoreCopy \/ Write \/ WaitSwitch
           \/ WorkerStart \/ WorkerStop \/ WorkerTop
           \/ Enter \/ Copy \/ SendCopies \/ SendOriginals \/ Discard
           \/ Consume
  BY Zenon DEF Next, MainStep, Command, Flush, Worker, MirrorProc

(* The life cycle. *)
LEMMA LifeStep ==
    ASSUME LifeInv, [Next]_vars
    PROVE  LifeInv'
<1>1. CASE Next
  <2> USE DEF LifeInv, coreVars, regVars, pathVars, batchVars, mbufVars, countVars
  <2>1. CASE StartUp BY <2>1 DEF StartUp
  <2>2. CASE StartForwarding BY <2>2 DEF StartForwarding
  <2>3. CASE Exit BY <2>3 DEF Exit
  <2>4. CASE WaitStop BY <2>4 DEF WaitStop
  <2>5. CASE Killed BY <2>5 DEF Killed, Kill
  <2>6. CASE Relaunch BY <2>6 DEF Relaunch
  <2>7. CASE Exited BY <2>7 DEF Exited, vars
  <2>8. CASE Start BY <2>8 DEF Start, Accepted
  <2>9. CASE Stop BY <2>9 DEF Stop, Accepted
  <2>10. CASE \E d \in Dir : \E p \in PortOf(d) : PortAdd(d, p)
    BY <2>10 DEF PortAdd, Accepted
  <2>11. CASE \E d \in Dir : \E p \in PortOf(d) : PortDel(d, p)
    BY <2>11 DEF PortDel, Accepted
  <2>12. CASE CoreRequest BY <2>12 DEF CoreRequest
  <2>13. CASE CoreCopy BY <2>13 DEF CoreCopy
  <2>14. CASE Write BY <2>14 DEF Write
  <2>15. CASE WaitSwitch BY <2>15 DEF WaitSwitch
  <2>16. CASE WorkerStart BY <2>16 DEF WorkerStart
  <2>17. CASE WorkerStop BY <2>17 DEF WorkerStop
  <2>18. CASE WorkerTop BY <2>18 DEF WorkerTop
  <2>19. CASE Enter BY <2>19 DEF Enter
  <2>20. CASE Copy BY <2>20 DEF Copy
  <2>21. CASE SendCopies BY <2>21 DEF SendCopies, Sent, Kill
  <2>22. CASE SendOriginals BY <2>22 DEF SendOriginals
  <2>23. CASE Discard BY <2>23 DEF Discard
  <2>24. CASE Consume BY <2>24 DEF Consume
  <2> HIDE DEF LifeInv
  <2> QED
    BY <1>1, <2>1, <2>2, <2>3, <2>4, <2>5, <2>6, <2>7, <2>8, <2>9, <2>10,
       <2>11, <2>12, <2>13, <2>14, <2>15, <2>16, <2>17, <2>18, <2>19, <2>20,
       <2>21, <2>22, <2>23, <2>24, NextCases
<1>2. CASE UNCHANGED vars
  BY <1>2 DEF vars, LifeInv, coreVars
<1> QED BY <1>1, <1>2

(* The core lists.  Only commands, the copy of flush_core, the worker's     *)
(* look at them and a new start touch what it relates.                      *)
LEMMA ListStep ==
    ASSUME TypeOK, LifeInv, ListInv, [Next]_vars
    PROVE  ListInv'
<1> USE DEF ListInv, NewList, Working
<1>t. /\ coreRef \in {0, 1} /\ coreUpd \in {0, 1}
      /\ Area = {0, 1} /\ listed \in [Area -> BOOLEAN]
      /\ chgCore \in BOOLEAN /\ chgComp \in BOOLEAN /\ comp.used \in BOOLEAN
  BY DEF TypeOK, Area, Path
<1>1. CASE Next
  <2> USE DEF coreVars, regVars, pathVars, batchVars, mbufVars, countVars
  <2>1. CASE StartUp BY <2>1 DEF StartUp
  <2>2. CASE StartForwarding BY <2>2 DEF StartForwarding
  <2>3. CASE Exit BY <2>3 DEF Exit
  <2>4. CASE WaitStop BY <2>4 DEF WaitStop
  <2>5. CASE Killed BY <2>5 DEF Killed, Kill
  <2>6. CASE Relaunch BY <2>6 DEF Relaunch, NoPath, Area
  <2>7. CASE Exited BY <2>7 DEF Exited, vars
  <2>8. CASE Start BY <1>t, <2>8 DEF Start, Accepted, NoPath
  <2>9. CASE Stop BY <1>t, <2>9 DEF Stop, Accepted, NoPath
  <2>10. ASSUME NEW d \in Dir, NEW p \in PortOf(d), PortAdd(d, p)
         PROVE  ListInv'
    <3>1. comp'.used = comp.used
      BY <2>10 DEF PortAdd, Dir, TypeOK, Path
    <3> QED BY <1>t, <2>10, <3>1 DEF PortAdd, Accepted
  <2>11. ASSUME NEW d \in Dir, NEW p \in PortOf(d), PortDel(d, p)
         PROVE  ListInv'
    <3>1. comp'.used = comp.used
      BY <2>11 DEF PortDel, Dir, TypeOK, Path
    <3> QED BY <1>t, <2>11, <3>1 DEF PortDel, Accepted
  <2>12. CASE CoreRequest BY <1>t, <2>12 DEF CoreRequest
  <2>13. CASE CoreCopy BY <1>t, <2>13 DEF CoreCopy
  <2>14. CASE Write BY <2>14 DEF Write
  <2>15. CASE WaitSwitch BY <1>t, <2>15 DEF WaitSwitch
  <2>16. CASE WorkerStart BY <2>16 DEF WorkerStart
  <2>17. CASE WorkerStop BY <2>17 DEF WorkerStop
  <2>18. CASE WorkerTop
    BY <1>t, <2>18 DEF WorkerTop, Flipped, LifeInv
  <2>19. CASE Enter BY <2>19 DEF Enter
  <2>20. CASE Copy BY <2>20 DEF Copy
  <2>21. CASE SendCopies BY <2>21 DEF SendCopies, Sent, Kill
  <2>22. CASE SendOriginals BY <2>22 DEF SendOriginals
  <2>23. CASE Discard BY <2>23 DEF Discard
  <2>24. CASE Consume BY <2>24 DEF Consume
  <2> HIDE DEF ListInv
  <2> QED
    BY <1>1, <2>1, <2>2, <2>3, <2>4, <2>5, <2>6, <2>7, <2>8, <2>9, <2>10,
       <2>11, <2>12, <2>13, <2>14, <2>15, <2>16, <2>17, <2>18, <2>19, <2>20,
       <2>21, <2>22, <2>23, <2>24, NextCases
<1>2. CASE UNCHANGED vars
  BY <1>2 DEF vars, coreVars, regVars
<1> QED BY <1>1, <1>2

(* The double buffer of the ports. *)
LEMMA PathStep ==
    ASSUME TypeOK, LifeInv, ListInv, PathInv, [Next]_vars
    PROVE  PathInv'
<1> USE DEF PathInv
<1>t. /\ ref \in {0, 1} /\ upd \in {0, 1} /\ Area = {0, 1}
      /\ DOMAIN path = Area
      /\ chgCore \in BOOLEAN /\ chgComp \in BOOLEAN /\ comp.used \in BOOLEAN
  BY DEF TypeOK, Area, Path
<1>1. CASE Next
  <2> USE DEF coreVars, regVars, pathVars, batchVars, mbufVars, countVars
  <2>1. CASE StartUp BY <2>1 DEF StartUp
  <2>2. CASE StartForwarding BY <2>2 DEF StartForwarding, ListInv
  <2>3. CASE Exit BY <2>3 DEF Exit
  <2>4. CASE WaitStop BY <2>4 DEF WaitStop
  <2>5. CASE Killed BY <2>5 DEF Killed, Kill
  <2>6. CASE Relaunch BY <2>6 DEF Relaunch, NoPath, Area
  <2>7. CASE Exited BY <2>7 DEF Exited, vars
  <2>8. CASE Start BY <1>t, <2>8 DEF Start, Accepted, NoPath
  <2>9. CASE Stop BY <1>t, <2>9 DEF Stop, Accepted, NoPath
  <2>10. ASSUME NEW d \in Dir, NEW p \in PortOf(d), PortAdd(d, p)
         PROVE  PathInv'
    <3>1. comp'.used = comp.used /\ comp.used
      BY <2>10 DEF PortAdd, RoomFor, Dir, TypeOK, Path
    <3> QED BY <1>t, <2>10, <3>1 DEF PortAdd, Accepted
  <2>11. ASSUME NEW d \in Dir, NEW p \in PortOf(d), PortDel(d, p)
         PROVE  PathInv'
    <3>1. comp'.used = comp.used /\ comp.used
      BY <2>11 DEF PortDel, Dir, TypeOK, Path
    <3> QED BY <1>t, <2>11, <3>1 DEF PortDel, Accepted
  <2>12. CASE CoreRequest BY <1>t, <2>12 DEF CoreRequest
  <2>13. CASE CoreCopy BY <1>t, <2>13 DEF CoreCopy
  <2>14. CASE Write BY <1>t, <2>14 DEF Write
  <2>15. CASE WaitSwitch BY <1>t, <2>15 DEF WaitSwitch, Switched
  <2>16. CASE WorkerStart BY <2>16 DEF WorkerStart
  <2>17. CASE WorkerStop BY <2>17 DEF WorkerStop
  <2>18. CASE WorkerTop BY <2>18 DEF WorkerTop
  <2>19. CASE Enter
    <3>1. /\ ref' = Flipped(ref, upd)
          /\ UNCHANGED <<mpc, upd, path, comp, chgComp>>
      BY <2>19 DEF Enter
    <3> QED BY <1>t, <3>1 DEF Flipped
  <2>20. CASE Copy BY <2>20 DEF Copy
  <2>21. CASE SendCopies BY <2>21 DEF SendCopies, Sent, Kill
  <2>22. CASE SendOriginals BY <2>22 DEF SendOriginals
  <2>23. CASE Discard BY <2>23 DEF Discard
  <2>24. CASE Consume BY <2>24 DEF Consume
  <2> HIDE DEF PathInv
  <2> QED
    BY <1>1, <2>1, <2>2, <2>3, <2>4, <2>5, <2>6, <2>7, <2>8, <2>9, <2>10,
       <2>11, <2>12, <2>13, <2>14, <2>15, <2>16, <2>17, <2>18, <2>19, <2>20,
       <2>21, <2>22, <2>23, <2>24, NextCases
<1>2. CASE UNCHANGED vars
  BY <1>2 DEF vars, pathVars, regVars
<1> QED BY <1>1, <1>2

-----------------------------------------------------------------------------
(* Sequences. *)
LEMMA ClosedIs ==
    ASSUME NEW S, NEW s \in Seq(S), NEW k \in 1 .. Len(s)
    PROVE  /\ Closed(s, k) \in Seq(S)
           /\ Len(Closed(s, k)) = Len(s) - 1
           /\ \A j \in 1 .. Len(s) - 1 :
                Closed(s, k)[j] = s[IF j < k THEN j ELSE j + 1]
<1>1. PICK n \in Nat : n = Len(s) /\ n >= 1 /\ k \in 1 .. n
  OBVIOUS
<1>2. Closed(s, k) \in [1 .. n - 1 -> S]
  BY <1>1 DEF Closed
<1>3. Closed(s, k) \in Seq(S) /\ Len(Closed(s, k)) = n - 1
  BY <1>1, <1>2
<1> QED BY <1>1, <1>3 DEF Closed

LEMMA BurstIs ==
    ASSUME NEW r \in Nat, NEW n \in Nat, NEW m \in Nat, r + n <= m
    PROVE  LET b == [k \in 1 .. n |-> r + k] IN
           b \in Seq(1 .. m) /\ Len(b) = n /\ \A k \in 1 .. n : b[k] = r + k
<1> DEFINE b == [k \in 1 .. n |-> r + k]
<1>1. b \in [1 .. n -> 1 .. m]
  OBVIOUS
<1>2. b \in Seq(1 .. m) /\ Len(b) = n
  BY <1>1
<1> QED BY <1>2

LEMMA JoinedIs ==
    ASSUME NEW S, NEW s \in Seq(S), NEW n \in Nat, NEW f \in [1 .. n -> S]
    PROVE  /\ s \o f \in Seq(S)
           /\ Len(s \o f) = Len(s) + n
           /\ \A k \in 1 .. Len(s) : (s \o f)[k] = s[k]
           /\ \A k \in 1 .. n : (s \o f)[Len(s) + k] = f[k]
           /\ \A k \in Len(s) + 1 .. Len(s) + n : (s \o f)[k] = f[k - Len(s)]
<1>1. f \in Seq(S) /\ Len(f) = n
  OBVIOUS
<1> QED BY <1>1

-----------------------------------------------------------------------------
(* The ports. *)
PortsType == /\ comp \in Path /\ Len(comp.rx) <= 1 /\ Len(comp.tx) <= 2
             /\ path \in [Area -> Path]
             /\ ref \in Area /\ upd \in Area
             /\ Distinct(comp)
             /\ \A k \in Area : Distinct(path[k])

LEMMA NoPathIs == NoPath \in Path /\ Distinct(NoPath)
                  /\ Len(NoPath.rx) = 0 /\ Len(NoPath.tx) = 0
  BY DEF NoPath, Path, Distinct

LEMMA AddedPorts ==
    ASSUME PortsType, NEW d \in Dir, NEW p \in PortOf(d), PortAdd(d, p)
    PROVE  comp' \in Path /\ Len(comp'.rx) <= 1 /\ Len(comp'.tx) <= 2
           /\ Distinct(comp')
<1>1. /\ comp' = [comp EXCEPT ![d] = Append(@, p)]
      /\ Len(comp[d]) < (IF d = "rx" THEN 1 ELSE 2)
      /\ ~ \E k \in 1 .. Len(comp[d]) : comp[d][k] = p
  BY DEF PortAdd, RoomFor, Holds
<1>2. /\ comp \in [used : BOOLEAN, rx : Seq(RxPort), tx : Seq(TxPort)]
      /\ Len(comp.rx) <= 1 /\ Len(comp.tx) <= 2
  BY DEF PortsType, Path
<1>3. CASE d = "rx"
  <2>1. /\ comp'.rx = Append(comp.rx, p) /\ comp'.tx = comp.tx
        /\ comp'.used = comp.used /\ p \in RxPort
        /\ comp' = [used |-> comp'.used, rx |-> comp'.rx, tx |-> comp'.tx]
    BY <1>1, <1>2, <1>3 DEF PortOf
  <2>2. Distinct(comp')
    BY <2>1 DEF Distinct, PortsType
  <2>3. comp'.rx \in Seq(RxPort) /\ Len(comp'.rx) = Len(comp.rx) + 1
    BY <2>1, <1>2
  <2>4. comp' \in Path
    BY <1>2, <2>1, <2>3 DEF Path
  <2> QED BY <1>1, <1>2, <1>3, <2>1, <2>2, <2>3, <2>4
<1>4. CASE d = "tx"
  <2>1. /\ comp'.tx = Append(comp.tx, p) /\ comp'.rx = comp.rx
        /\ comp'.used = comp.used /\ p \in TxPort
        /\ comp' = [used |-> comp'.used, rx |-> comp'.rx, tx |-> comp'.tx]
    BY <1>1, <1>2, <1>4 DEF PortOf
  <2>2. PICK t \in Seq(TxPort) : t = comp.tx
    BY <1>2
  <2>3. /\ Append(t, p) \in Seq(TxPort) /\ Len(Append(t, p)) = Len(t) + 1
        /\ \A k \in 1 .. Len(t) : Append(t, p)[k] = t[k]
        /\ Append(t, p)[Len(t) + 1] = p
    BY <2>1, <2>2
  <2>4. /\ \A k \in 1 .. Len(t) : t[k] # p
        /\ \A j, k \in 1 .. Len(t) : t[j] = t[k] => j = k
    BY <1>1, <1>4, <2>2 DEF PortsType, Distinct
  <2>5. \A j, k \in 1 .. Len(Append(t, p)) :
           Append(t, p)[j] = Append(t, p)[k] => j = k
    BY <2>2, <2>3, <2>4
  <2>6. Distinct(comp')
    BY <2>1, <2>2, <2>5 DEF Distinct
  <2>7. comp' \in Path
    BY <1>2, <2>1, <2>2, <2>3 DEF Path
  <2> QED BY <1>1, <1>2, <1>4, <2>1, <2>2, <2>3, <2>6, <2>7
<1> QED BY <1>3, <1>4 DEF Dir

LEMMA DeletedPorts ==
    ASSUME PortsType, NEW d \in Dir, NEW p \in PortOf(d), PortDel(d, p)
    PROVE  comp' \in Path /\ Len(comp'.rx) <= 1 /\ Len(comp'.tx) <= 2
           /\ Distinct(comp')
<1>1. CASE UNCHANGED comp
  BY <1>1 DEF PortsType
<1>2. ASSUME NEW k \in 1 .. Len(comp[d]),
             comp' = [comp EXCEPT ![d] = Closed(@, k)]
      PROVE  comp' \in Path /\ Len(comp'.rx) <= 1 /\ Len(comp'.tx) <= 2
             /\ Distinct(comp')
  <2>1. /\ comp \in [used : BOOLEAN, rx : Seq(RxPort), tx : Seq(TxPort)]
        /\ Len(comp.rx) <= 1 /\ Len(comp.tx) <= 2
    BY DEF PortsType, Path
  <2>2. CASE d = "rx"
    <3>1. /\ comp'.rx = Closed(comp.rx, k) /\ comp'.tx = comp.tx
          /\ comp'.used = comp.used
          /\ comp' = [used |-> comp'.used, rx |-> comp'.rx, tx |-> comp'.tx]
          /\ k \in 1 .. Len(comp.rx)
      BY <1>2, <2>1, <2>2
    <3>2. Distinct(comp')
      BY <3>1 DEF Distinct, PortsType
    <3>3. comp'.rx \in Seq(RxPort) /\ Len(comp'.rx) = Len(comp.rx) - 1
      BY <3>1, <2>1, ClosedIs
    <3>4. comp' \in Path
      BY <2>1, <3>1, <3>3 DEF Path
    <3> QED BY <2>1, <3>1, <3>2, <3>3, <3>4
  <2>3. CASE d = "tx"
    <3>1. /\ comp'.tx = Closed(comp.tx, k) /\ comp'.rx = comp.rx
          /\ comp'.used = comp.used
          /\ comp' = [used |-> comp'.used, rx |-> comp'.rx, tx |-> comp'.tx]
          /\ k \in 1 .. Len(comp.tx)
      BY <1>2, <2>1, <2>3
    <3>2. PICK t \in Seq(TxPort) : t = comp.tx
      BY <2>1
    <3>3. PICK c \in Seq(TxPort) : c = comp'.tx
      BY <3>1, <3>2, ClosedIs
    <3>4. /\ Len(c) = Len(t) - 1
          /\ \A j \in 1 .. Len(t) - 1 : c[j] = t[IF j < k THEN j ELSE j + 1]
      BY <3>1, <3>2, <3>3, ClosedIs
    <3>5. \A i, j \in 1 .. Len(t) : t[i] = t[j] => i = j
      BY <3>2 DEF PortsType, Distinct
    <3>6. \A i, j \in 1 .. Len(c) : c[i] = c[j] => i = j
      <4> SUFFICES ASSUME NEW i \in 1 .. Len(c), NEW j \in 1 .. Len(c),
                          c[i] = c[j]
                   PROVE  i = j
        OBVIOUS
      <4>1. Len(t) \in Nat /\ k \in Nat /\ i \in Nat /\ j \in Nat
        BY <3>1, <3>2, <3>3
      <4>2. /\ (IF i < k THEN i ELSE i + 1) \in 1 .. Len(t)
            /\ (IF j < k THEN j ELSE j + 1) \in 1 .. Len(t)
        BY <4>1, <3>4
      <4>3. (IF i < k THEN i ELSE i + 1) = (IF j < k THEN j ELSE j + 1)
        BY <4>2, <3>4, <3>5
      <4> QED BY <4>1, <4>3
    <3>7. Distinct(comp')
      BY <3>3, <3>6 DEF Distinct
    <3>8. comp' \in Path
      BY <2>1, <3>1, <3>3 DEF Path
    <3> QED BY <2>1, <3>1, <3>2, <3>3, <3>4, <3>7, <3>8
  <2> QED BY <2>2, <2>3 DEF Dir
<1> QED BY <1>1, <1>2 DEF PortDel

LEMMA PortsStep ==
    ASSUME PortsType, [Next]_vars
    PROVE  PortsType'
<1> DEFINE Same == UNCHANGED <<comp, path, ref, upd>>
<1>s. Same => PortsType'
  BY DEF PortsType, Distinct
<1> HIDE DEF Same
<1>1. CASE Next
  <2> USE DEF Same, coreVars, regVars, pathVars, batchVars, mbufVars, countVars
  <2>1. CASE StartUp BY <1>s, <2>1 DEF StartUp
  <2>2. CASE StartForwarding BY <1>s, <2>2 DEF StartForwarding
  <2>3. CASE Exit BY <1>s, <2>3 DEF Exit
  <2>4. CASE WaitStop BY <1>s, <2>4 DEF WaitStop
  <2>5. CASE Killed BY <1>s, <2>5 DEF Killed, Kill
  <2>6. CASE Relaunch
    <3>1. /\ comp' = NoPath /\ path' = [k \in Area |-> NoPath]
          /\ ref' = 0 /\ upd' = 1
      BY <2>6 DEF Relaunch
    <3>2. Distinct(comp') /\ \A k \in Area : Distinct(path'[k])
      BY <3>1, NoPathIs
    <3> QED BY <3>1, <3>2, NoPathIs DEF PortsType, Area, Distinct
  <2>7. CASE Exited BY <1>s, <2>7 DEF Exited, vars
  <2>8. CASE Start
    <3>1. /\ comp' = [NoPath EXCEPT !.used = TRUE]
          /\ UNCHANGED <<path, ref, upd>>
      BY <2>8 DEF Start, Accepted
    <3>2. comp' = [used |-> TRUE, rx |-> << >>, tx |-> << >>]
      BY <3>1 DEF NoPath
    <3>3. Len(comp'.rx) = 0 /\ Len(comp'.tx) = 0 /\ comp' \in Path
      BY <3>2 DEF Path
    <3>4. Distinct(comp')
      BY <3>3 DEF Distinct
    <3> QED BY <3>1, <3>3, <3>4 DEF PortsType, Distinct
  <2>9. CASE Stop
    <3>1. comp' = NoPath /\ UNCHANGED <<path, ref, upd>>
      BY <2>9 DEF Stop, Accepted
    <3> QED BY <3>1, NoPathIs DEF PortsType, Distinct
  <2>10. ASSUME NEW d \in Dir, NEW p \in PortOf(d), PortAdd(d, p)
         PROVE  PortsType'
    <3>1. UNCHANGED <<path, ref, upd>>
      BY <2>10 DEF PortAdd, Accepted
    <3> QED BY <2>10, <3>1, AddedPorts DEF PortsType, Distinct
  <2>11. ASSUME NEW d \in Dir, NEW p \in PortOf(d), PortDel(d, p)
         PROVE  PortsType'
    <3>1. UNCHANGED <<path, ref, upd>>
      BY <2>11 DEF PortDel, Accepted
    <3> QED BY <2>11, <3>1, DeletedPorts DEF PortsType, Distinct
  <2>12. CASE CoreRequest BY <1>s, <2>12 DEF CoreRequest
  <2>13. CASE CoreCopy BY <1>s, <2>13 DEF CoreCopy
  <2>14. CASE Write
    <3>1. /\ path' = [path EXCEPT ![upd] = comp] /\ upd' = ref
          /\ UNCHANGED <<comp, ref>>
      BY <2>14 DEF Write
    <3>2. path' \in [Area -> Path] /\ \A k \in Area : path'[k] \in {comp, path[k]}
      BY <3>1 DEF PortsType
    <3> QED BY <3>1, <3>2 DEF PortsType, Distinct
  <2>15. CASE WaitSwitch BY <1>s, <2>15 DEF WaitSwitch
  <2>16. CASE WorkerStart BY <1>s, <2>16 DEF WorkerStart
  <2>17. CASE WorkerStop BY <1>s, <2>17 DEF WorkerStop
  <2>18. CASE WorkerTop BY <1>s, <2>18 DEF WorkerTop
  <2>19. CASE Enter
    <3>1. ref' = Flipped(ref, upd) /\ UNCHANGED <<comp, path, upd>>
      BY <2>19 DEF Enter
    <3>2. ref' \in Area
      BY <3>1 DEF Flipped, Area, PortsType
    <3> QED BY <3>1, <3>2 DEF PortsType, Distinct
  <2>20. CASE Copy BY <1>s, <2>20 DEF Copy
  <2>21. CASE SendCopies BY <1>s, <2>21 DEF SendCopies, Sent, Kill
  <2>22. CASE SendOriginals BY <1>s, <2>22 DEF SendOriginals
  <2>23. CASE Discard BY <1>s, <2>23 DEF Discard
  <2>24. CASE Consume BY <1>s, <2>24 DEF Consume
  <2> QED
    BY <1>1, <2>1, <2>2, <2>3, <2>4, <2>5, <2>6, <2>7, <2>8, <2>9, <2>10,
       <2>11, <2>12, <2>13, <2>14, <2>15, <2>16, <2>17, <2>18, <2>19, <2>20,
       <2>21, <2>22, <2>23, <2>24, NextCases
<1>2. CASE UNCHANGED vars
  BY <1>s, <1>2 DEF vars, pathVars, regVars, Same
<1> QED BY <1>1, <1>2

-----------------------------------------------------------------------------
(* Steps in which no packet and no mbuf moves: the ports of a burst stay    *)
(* what they are, whatever main does meanwhile.                             *)
Apart ==
    /\ UNCHANGED <<deep, batchVars, mbufVars>>
    /\ wpc' = wpc \/ (~Bursting /\ ~Bursting')
    /\ Bursting => Used' = Used

Received(n) ==
    /\ wpc = "enter" /\ n \in 1 .. Burst /\ rx + n <= MaxPacket
    /\ wpc' = "copy"
    /\ bufs' = [k \in 1 .. n |-> rx + k]
    /\ rx' = rx + n
    /\ Runnable(Used')
    /\ UNCHANGED <<deep, copies, nb1, nb2, pool, abroad, stranded, out, marked,
                   freed, killed>>

LEMMA ApartOrNot ==
    ASSUME TypeOK, RxType, LifeInv, PathInv, [Next]_vars
    PROVE  \/ Apart
           \/ \E n \in Nat : Received(n)
           \/ Copy \/ SendCopies \/ SendOriginals \/ Discard \/ Consume \/ Kill
<1> USE DEF Apart, Bursting
<1>1. CASE Next
  <2> USE DEF coreVars, regVars, pathVars, Used
  <2>1. CASE StartUp BY <2>1 DEF StartUp, LifeInv
  <2>2. CASE StartForwarding BY <2>2 DEF StartForwarding
  <2>3. CASE Exit BY <2>3 DEF Exit
  <2>4. CASE WaitStop BY <2>4 DEF WaitStop
  <2>5. CASE Killed BY <2>5 DEF Killed
  <2>6. CASE Relaunch
    <3>1. wpc = "none"
      BY <2>6 DEF Relaunch, LifeInv
    <3> QED BY <2>6, <3>1 DEF Relaunch
  <2>7. CASE Exited BY <2>7 DEF Exited, vars
  <2>8. CASE Start BY <2>8 DEF Start, Accepted
  <2>9. CASE Stop BY <2>9 DEF Stop, Accepted
  <2>10. CASE \E d \in Dir : \E p \in PortOf(d) : PortAdd(d, p)
    BY <2>10 DEF PortAdd, Accepted
  <2>11. CASE \E d \in Dir : \E p \in PortOf(d) : PortDel(d, p)
    BY <2>11 DEF PortDel, Accepted
  <2>12. CASE CoreRequest BY <2>12 DEF CoreRequest
  <2>13. CASE CoreCopy BY <2>13 DEF CoreCopy
  <2>14. CASE Write
    <3>1. /\ ref \in Area /\ upd \in Area /\ ref # upd
          /\ path' = [path EXCEPT ![upd] = comp] /\ ref' = ref
          /\ UNCHANGED <<deep, batchVars, mbufVars, wpc>>
          /\ DOMAIN path = Area
      BY <2>14 DEF Write, TypeOK, PathInv
    <3>2. Used' = Used
      BY <3>1
    <3> QED BY <3>1, <3>2
  <2>15. CASE WaitSwitch BY <2>15 DEF WaitSwitch
  <2>16. CASE WorkerStart BY <2>16 DEF WorkerStart
  <2>17. CASE WorkerStop BY <2>17 DEF WorkerStop
  <2>18. CASE WorkerTop BY <2>18 DEF WorkerTop
  <2>19. CASE Enter
    <3>1. PICK n \in 0 .. Lesser(Burst, MaxPacket - rx) :
            IF Runnable(path[Flipped(ref, upd)]) /\ n > 0
            THEN /\ bufs' = [k \in 1 .. n |-> rx + k]
                 /\ rx' = rx + n
                 /\ wpc' = "copy"
            ELSE wpc' = "top" /\ UNCHANGED <<bufs, rx>>
      BY <2>19 DEF Enter
    <3>2. /\ wpc = "enter" /\ ref' = Flipped(ref, upd) /\ path' = path
          /\ UNCHANGED <<deep, copies, nb1, nb2, pool, abroad, stranded, out,
                         marked, freed, killed>>
      BY <2>19 DEF Enter
    <3>3. CASE Runnable(path[Flipped(ref, upd)]) /\ n > 0
      <4>1. n \in Nat /\ n \in 1 .. Burst /\ rx + n <= MaxPacket
        BY <3>1, <3>3, SizeAssumption, BoundAssumption DEF Lesser, RxType
      <4> QED BY <3>1, <3>2, <3>3, <4>1 DEF Received
    <3>4. CASE ~(Runnable(path[Flipped(ref, upd)]) /\ n > 0)
      BY <3>1, <3>2, <3>4 DEF batchVars, mbufVars
    <3> QED BY <3>3, <3>4
  <2> QED
    BY <1>1, <2>1, <2>2, <2>3, <2>4, <2>5, <2>6, <2>7, <2>8, <2>9, <2>10,
       <2>11, <2>12, <2>13, <2>14, <2>15, <2>16, <2>17, <2>18, <2>19, NextCases
<1>2. CASE UNCHANGED vars
  BY <1>2 DEF vars, pathVars, Used
<1> QED BY <1>1, <1>2

-----------------------------------------------------------------------------
(* A burst and its mbufs. *)
BatchType ==
    /\ RxType
    /\ bufs \in Seq(Packet) /\ copies \in Seq(0 .. PoolSize)
    /\ nb1 \in 0 .. Burst /\ nb2 \in 0 .. Burst
    /\ pool \in 0 .. PoolSize /\ abroad \in 0 .. PoolSize
    /\ stranded \in 0 .. PoolSize

LEMMA UptoType ==
    ASSUME BatchType, NEW k \in 0 .. Len(copies)
    PROVE  Upto(k) \in 0 .. PoolSize
  BY SizeAssumption DEF BatchType, Upto

LEMMA HeldBounds ==
    ASSUME BatchType, BatchInv, PoolWhole
    PROVE  /\ Held \in 0 .. PoolSize
           /\ pool + Held \in 0 .. PoolSize
           /\ stranded + Held \in 0 .. PoolSize
<1>1. /\ Len(copies) \in 0 .. Len(copies) /\ nb2 \in 0 .. Len(copies)
  BY DEF BatchType, BatchInv
<1>2. /\ Upto(Len(copies)) \in 0 .. PoolSize /\ Upto(nb2) \in 0 .. PoolSize
      /\ Upto(nb2) <= Upto(Len(copies))
  BY <1>1, UptoType DEF BatchInv
<1>3. PICK h \in Nat : h = Held /\ h <= PoolSize
  BY <1>2, SizeAssumption DEF Held
<1>4. pool + h + abroad + stranded = PoolSize
  BY <1>3 DEF PoolWhole
<1>5. /\ pool \in Nat /\ abroad \in Nat /\ stranded \in Nat
      /\ PoolSize \in Nat
  BY SizeAssumption DEF BatchType
<1> QED BY <1>3, <1>4, <1>5

(* After a burst, and in a process that was killed. *)
LEMMA Over ==
    ASSUME BatchType, BatchInv, ~Bursting',
           bufs' = << >>, copies' = << >>, nb1' = 0, nb2' = 0, rx' = rx
    PROVE  BatchInv' /\ Held' = 0
<1>1. /\ Len(bufs') = 0 /\ Len(copies') = 0
      /\ rx \in Nat /\ rx <= MaxPacket
  BY SMT DEF BatchType, RxType, BatchInv
<1>2. \A j, k \in 0 .. Len(copies') : Upto(j)' <= Upto(k)'
  <2> SUFFICES ASSUME NEW j \in 0 .. Len(copies'), NEW k \in 0 .. Len(copies')
               PROVE  Upto(j)' <= Upto(k)'
    OBVIOUS
  <2>1. j = 0 /\ k = 0
    BY <1>1
  <2> QED BY <2>1 DEF Upto
<1>3. Held' = 0
  BY <1>1 DEF Held, Upto
<1> QED
  BY <1>1, <1>2, <1>3, SizeAssumption DEF BatchInv, Bursting

LEMMA ReceivedBatch ==
    ASSUME BatchType, BatchInv, PoolWhole, NEW n \in Nat, Received(n)
    PROVE  BatchType' /\ BatchInv' /\ PoolWhole'
<1>1. /\ bufs = << >> /\ Len(bufs) = 0 /\ Len(copies) = 0
      /\ nb1 = 0 /\ nb2 = 0 /\ rx \in Nat
  BY DEF Received, BatchInv, Bursting, BatchType, RxType
<1>2. /\ bufs' \in Seq(Packet) /\ Len(bufs') = n /\ n >= 1
      /\ \A k \in 1 .. n : bufs'[k] = rx + k
  BY <1>1, BurstIs, BoundAssumption DEF Received, Packet
<1>3. bufs' # << >> /\ Bursting'
  BY <1>2 DEF Received, Bursting
<1>4. Held' = Held /\ \A k \in Nat : Upto(k)' = Upto(k)
  BY DEF Received, Held, Upto
<1>5. BatchType'
  BY <1>1, <1>2 DEF Received, BatchType, RxType
<1>6. PoolWhole'
  BY <1>4 DEF Received, PoolWhole
<1>7. /\ rx' = rx + n /\ n <= Burst /\ rx + n <= MaxPacket /\ wpc' = "copy"
      /\ copies' = copies /\ nb1' = nb1 /\ nb2' = nb2
  BY DEF Received
<1>8. \A j, k \in 0 .. Len(copies') : j <= k => Upto(j)' <= Upto(k)'
  BY <1>4, <1>7 DEF BatchInv, BatchType
<1>9. \A k \in 1 .. Len(bufs') : bufs'[k] = rx' - Len(bufs') + k
  BY <1>1, <1>2, <1>7
<1> QED
  BY <1>1, <1>2, <1>3, <1>5, <1>6, <1>7, <1>8, <1>9 DEF BatchInv

LEMMA CopyBatch ==
    ASSUME BatchType, BatchInv, PoolWhole, Copy
    PROVE  BatchType' /\ BatchInv' /\ PoolWhole'
<1>1. PICK n \in 1 .. MaxSeg :
         /\ pool' = pool - Allocated(n)
         /\ copies' = Append(copies, Upto(Len(copies))
                                       + (IF n <= pool THEN n ELSE 0))
  BY DEF Copy
<1>2. PICK a \in Nat : a = Allocated(n) /\ a <= pool
  BY SizeAssumption DEF Allocated, BatchType
<1>3. PICK L \in Nat : L = Len(copies) /\ L < Len(bufs)
  BY DEF BatchType, Copy
<1>4. /\ pool' = pool - a /\ copies' = Append(copies, Upto(L) + a)
      /\ wpc = "copy" /\ nb2 = 0 /\ nb1 = 0
      /\ wpc' = IF Len(copies') = Len(bufs) THEN "mirror" ELSE "copy"
      /\ UNCHANGED <<bufs, nb1, nb2, abroad, stranded, rx>>
  BY <1>1, <1>2, <1>3 DEF Copy, Allocated, BatchInv
<1>5. /\ Upto(L) \in 0 .. PoolSize /\ Upto(0) = 0
      /\ pool + Upto(L) + abroad + stranded = PoolSize
  BY <1>3, <1>4, UptoType DEF PoolWhole, Held, Upto, BatchType
<1>6. Upto(L) + a \in 0 .. PoolSize
  BY <1>2, <1>5, SizeAssumption DEF BatchType
<1>7. /\ copies' \in Seq(0 .. PoolSize) /\ Len(copies') = L + 1
      /\ \A k \in 1 .. L : copies'[k] = copies[k]
      /\ copies'[L + 1] = Upto(L) + a
  BY <1>3, <1>4, <1>6 DEF BatchType
<1>8. /\ \A k \in 0 .. L : Upto(k)' = Upto(k)
      /\ Upto(L + 1)' = Upto(L) + a
  BY <1>3, <1>7 DEF Upto
<1>9. \A j, k \in 0 .. Len(copies') : j <= k => Upto(j)' <= Upto(k)'
  <2> SUFFICES ASSUME NEW j \in 0 .. L + 1, NEW k \in 0 .. L + 1, j <= k
               PROVE  Upto(j)' <= Upto(k)'
    BY <1>7
  <2>1. \A i \in 0 .. L : Upto(i) \in 0 .. PoolSize /\ Upto(i) <= Upto(L)
    BY <1>3, UptoType DEF BatchInv
  <2>2. CASE k \in 0 .. L
    BY <1>3, <1>8, <2>2 DEF BatchInv
  <2>3. CASE j \in 0 .. L /\ k = L + 1
    BY <1>2, <1>5, <1>8, <2>1, <2>3
  <2>4. CASE j = L + 1 /\ k = L + 1
    BY <1>2, <1>5, <1>8, <2>4
  <2> QED BY <1>3, <2>2, <2>3, <2>4
<1>10. BatchType'
  <2>1. pool' \in 0 .. PoolSize
    BY <1>2, <1>4, SizeAssumption DEF BatchType
  <2> QED BY <1>4, <1>7, <2>1 DEF BatchType, RxType
<1>11. PoolWhole'
  <2>1. Held' = Upto(L) + a
    <3>1. Held' = Upto(L + 1)' - Upto(0)'
      BY <1>4, <1>7 DEF Held, Upto
    <3> QED BY <1>2, <1>5, <1>8, <3>1
  <2> QED BY <1>2, <1>4, <1>5, <2>1 DEF PoolWhole, BatchType
<1>12. /\ bufs # << >> /\ Bursting'
       /\ Len(bufs) \in Nat
  BY <1>4, <1>7 DEF BatchInv, Bursting, BatchType
<1>13. Len(copies') <= Len(bufs') /\ nb1' <= Len(bufs') /\ nb2' <= Len(copies')
  BY <1>3, <1>4, <1>7, <1>12
<1>14. /\ wpc' \in {"copy", "mirror"}
       /\ wpc' = "copy" => Len(copies') < Len(bufs')
       /\ wpc' = "mirror" => Len(copies') = Len(bufs')
  BY <1>4, <1>12, <1>13, <1>7
<1>15. /\ Len(bufs') <= Burst /\ Len(bufs') <= rx' /\ rx' <= MaxPacket
       /\ \A k \in 1 .. Len(bufs') : bufs'[k] = rx' - Len(bufs') + k
       /\ nb1' = 0 /\ nb2' = 0
  BY <1>4 DEF BatchInv
<1> QED
  BY <1>4, <1>9, <1>10, <1>11, <1>12, <1>13, <1>14, <1>15 DEF BatchInv

LEMMA SendCopiesBatch ==
    ASSUME BatchType, BatchInv, PoolWhole, SendCopies, ~Kill
    PROVE  BatchType' /\ BatchInv' /\ PoolWhole'
<1>1. PICK n \in 0 .. Len(copies) : nb2' = n /\ abroad' = abroad + Upto(n)
  BY DEF SendCopies
<1>2. /\ wpc = "mirror" /\ wpc' = "orig"
      /\ UNCHANGED <<bufs, copies, nb1, pool, stranded, rx>>
  BY DEF SendCopies, pathVars
<1>3. nb2 = 0 /\ nb1 = 0 /\ Len(copies) = Len(bufs) /\ Len(bufs) <= Burst
      /\ Len(copies) \in Nat
  BY <1>2 DEF BatchInv, BatchType
<1>4. \A k \in Nat : Upto(k)' = Upto(k)
  BY <1>2 DEF Upto
<1>5. PICK u \in Nat : u = Upto(n)
  BY <1>1, UptoType
<1>6. PICK L \in Nat : L = Upto(Len(copies)) /\ u <= L
  BY <1>1, <1>3, <1>5, UptoType DEF BatchInv
<1>7. Held = L /\ Held' = L - u
  <2>1. Upto(0) = 0 /\ n \in Nat
    BY <1>1 DEF Upto
  <2> QED BY <1>1, <1>2, <1>3, <1>4, <1>5, <1>6, <2>1 DEF Held
<1>8. pool + L + abroad + stranded = PoolSize
  BY <1>7 DEF PoolWhole
<1>9. /\ pool \in Nat /\ abroad \in Nat /\ stranded \in Nat /\ PoolSize \in Nat
  BY SizeAssumption DEF BatchType
<1>10. abroad' \in 0 .. PoolSize
  BY <1>1, <1>5, <1>6, <1>8, <1>9
<1>11. PoolWhole'
  BY <1>1, <1>2, <1>5, <1>6, <1>7, <1>8, <1>9 DEF PoolWhole
<1>12. nb2' \in 0 .. Burst
  BY <1>1, <1>3, SizeAssumption
<1>13. BatchType'
  BY <1>2, <1>10, <1>12 DEF BatchType, RxType
<1>14. \A j, k \in 0 .. Len(copies') : j <= k => Upto(j)' <= Upto(k)'
  BY <1>2, <1>3, <1>4 DEF BatchInv
<1>15. Bursting' /\ bufs # << >>
  BY <1>2 DEF BatchInv, Bursting
<1> QED
  BY <1>1, <1>2, <1>3, <1>11, <1>13, <1>14, <1>15 DEF BatchInv

LEMMA SendOriginalsBatch ==
    ASSUME BatchType, BatchInv, PoolWhole, SendOriginals
    PROVE  BatchType' /\ BatchInv' /\ PoolWhole'
<1>1. PICK n \in 0 .. Len(bufs) : nb1' = n
  BY DEF SendOriginals
<1>2. /\ wpc = "orig" /\ wpc' = "discard"
      /\ UNCHANGED <<bufs, copies, nb2, pool, abroad, stranded, rx>>
  BY DEF SendOriginals
<1>3. Len(bufs) \in Nat /\ Len(bufs) <= Burst
  BY DEF BatchInv, BatchType
<1>4. nb1' \in 0 .. Burst /\ nb1' <= Len(bufs)
  BY <1>1, <1>3, SizeAssumption
<1>5. /\ BatchType' /\ PoolWhole'
  BY <1>2, <1>4 DEF BatchType, RxType, PoolWhole, Held, Upto
<1>6. \A j, k \in 0 .. Len(copies') : j <= k => Upto(j)' <= Upto(k)'
  BY <1>2 DEF BatchInv, Upto
<1> QED BY <1>2, <1>4, <1>5, <1>6 DEF BatchInv, Bursting

LEMMA DiscardBatch ==
    ASSUME BatchType, BatchInv, PoolWhole, Discard
    PROVE  BatchType' /\ BatchInv' /\ PoolWhole'
<1>1. /\ bufs' = << >> /\ copies' = << >> /\ nb1' = 0 /\ nb2' = 0 /\ rx' = rx
      /\ wpc' = "top" /\ pool' = pool + Held
      /\ UNCHANGED <<abroad, stranded>>
  BY DEF Discard
<1>2. BatchInv' /\ Held' = 0
  BY <1>1, Over DEF Bursting
<1>3. /\ pool' \in 0 .. PoolSize
      /\ nb1' \in 0 .. Burst /\ nb2' \in 0 .. Burst
  BY <1>1, HeldBounds, SizeAssumption
<1>4. BatchType'
  BY <1>1, <1>3 DEF BatchType, RxType
<1>5. PoolWhole'
  <2>1. Held \in Nat /\ pool \in Nat /\ abroad \in Nat /\ stranded \in Nat
    BY HeldBounds, SizeAssumption DEF BatchType
  <2> QED BY <1>1, <1>2, <2>1 DEF PoolWhole
<1> QED BY <1>2, <1>4, <1>5

LEMMA KillBatch ==
    ASSUME BatchType, BatchInv, PoolWhole, Kill,
           UNCHANGED <<pool, abroad, rx>>
    PROVE  BatchType' /\ BatchInv' /\ PoolWhole'
<1>1. /\ bufs' = << >> /\ copies' = << >> /\ nb1' = 0 /\ nb2' = 0 /\ rx' = rx
      /\ wpc' = "none" /\ stranded' = stranded + Held
      /\ UNCHANGED <<abroad, pool>>
  BY DEF Kill
<1>2. BatchInv' /\ Held' = 0
  BY <1>1, Over DEF Bursting
<1>3. /\ stranded' \in 0 .. PoolSize
      /\ nb1' \in 0 .. Burst /\ nb2' \in 0 .. Burst
  BY <1>1, HeldBounds, SizeAssumption
<1>4. BatchType'
  BY <1>1, <1>3 DEF BatchType, RxType
<1>5. PoolWhole'
  <2>1. Held \in Nat /\ pool \in Nat /\ abroad \in Nat /\ stranded \in Nat
    BY HeldBounds, SizeAssumption DEF BatchType
  <2> QED BY <1>1, <1>2, <2>1 DEF PoolWhole
<1> QED BY <1>2, <1>4, <1>5

LEMMA ConsumeBatch ==
    ASSUME BatchType, BatchInv, PoolWhole, Consume
    PROVE  BatchType' /\ BatchInv' /\ PoolWhole'
<1>1. /\ abroad > 0 /\ abroad' = abroad - 1 /\ pool' = pool + 1
      /\ UNCHANGED <<wpc, bufs, copies, nb1, nb2, stranded, rx>>
  BY DEF Consume, batchVars
<1>2. Held' = Held /\ BatchInv'
  BY <1>1 DEF Held, Upto, BatchInv, Bursting
<1>3. PICK h \in Nat : h = Held
  BY HeldBounds, SizeAssumption
<1>4. pool + h + abroad + stranded = PoolSize
  BY <1>3 DEF PoolWhole
<1>5. /\ pool \in Nat /\ abroad \in Nat /\ stranded \in Nat /\ PoolSize \in Nat
  BY SizeAssumption DEF BatchType
<1>6. pool' \in 0 .. PoolSize /\ abroad' \in 0 .. PoolSize
  BY <1>1, <1>3, <1>4, <1>5
<1>7. BatchType'
  BY <1>1, <1>6 DEF BatchType, RxType
<1>8. PoolWhole'
  BY <1>1, <1>2, <1>3, <1>4, <1>5 DEF PoolWhole
<1> QED BY <1>2, <1>7, <1>8

LEMMA ApartBatch ==
    ASSUME BatchType, BatchInv, PoolWhole, Apart
    PROVE  BatchType' /\ BatchInv' /\ PoolWhole'
<1>1. /\ UNCHANGED <<bufs, copies, nb1, nb2, pool, abroad, stranded, rx>>
      /\ wpc' = wpc \/ (~Bursting /\ ~Bursting')
  BY DEF Apart, batchVars, mbufVars
<1>2. BatchType' /\ PoolWhole'
  BY <1>1 DEF BatchType, RxType, PoolWhole, Held, Upto
<1>3. \A j, k \in 0 .. Len(copies') : j <= k => Upto(j)' <= Upto(k)'
  BY <1>1 DEF BatchInv, Upto
<1>4. CASE wpc' = wpc
  BY <1>1, <1>2, <1>3, <1>4 DEF BatchInv, Bursting
<1>5. CASE ~Bursting /\ ~Bursting'
  <2>1. nb1 = 0 /\ nb2 = 0
    BY <1>5 DEF BatchInv, Bursting
  <2> QED BY <1>1, <1>2, <1>3, <1>5, <2>1 DEF BatchInv, Bursting
<1> QED BY <1>1, <1>4, <1>5

LEMMA BatchStep ==
    ASSUME TypeOK, LifeInv, PathInv, BatchType, BatchInv, PoolWhole, [Next]_vars
    PROVE  BatchType' /\ BatchInv' /\ PoolWhole'
<1>1. RxType
  BY DEF BatchType
<1>2. CASE Kill /\ UNCHANGED <<pool, abroad, rx>>
  BY <1>2, KillBatch
<1>3. CASE SendCopies
  <2>1. CASE Kill
    BY <1>3, <2>1, <1>2 DEF SendCopies, Kill
  <2> QED BY <1>3, <2>1, SendCopiesBatch
<1>4. Kill => UNCHANGED <<pool, abroad, rx>>
  BY DEF Kill
<1> QED
  BY <1>1, <1>2, <1>3, <1>4, ApartOrNot, ApartBatch, ReceivedBatch, CopyBatch,
     SendOriginalsBatch, DiscardBatch, ConsumeBatch

-----------------------------------------------------------------------------
(* The variables that hold no packets. *)
ControlType ==
    /\ mpc \in {"init", "wait_idle", "command", "core_request", "core_wait",
                "write", "wait", "wait_stop", "exited"}
    /\ core \in {"stop", "idle", "forward", "stop_request"}
    /\ coreRef \in Area /\ coreUpd \in Area
    /\ listed \in [Area -> BOOLEAN]
    /\ chgCore \in BOOLEAN /\ chgComp \in BOOLEAN /\ deep \in BOOLEAN
    /\ wpc \in {"none", "launched", "top", "enter", "copy", "mirror", "orig",
                "discard"}
    /\ ncmd \in 0 .. MaxCommand /\ nlaunch \in 1 .. MaxLaunch

LEMMA ControlStep ==
    ASSUME ControlType, [Next]_vars
    PROVE  ControlType'
<1> USE DEF ControlType
<1>1. CASE Next
  <2> USE BoundAssumption
      DEF coreVars, regVars, pathVars, batchVars, mbufVars, countVars
  <2>1. CASE StartUp BY <2>1 DEF StartUp
  <2>2. CASE StartForwarding BY <2>2 DEF StartForwarding
  <2>3. CASE Exit BY <2>3 DEF Exit
  <2>4. CASE WaitStop BY <2>4 DEF WaitStop
  <2>5. CASE Killed BY <2>5 DEF Killed, Kill
  <2>6. CASE Relaunch
    <3>1. nlaunch' \in 1 .. MaxLaunch
      BY <2>6 DEF Relaunch
    <3>2. coreRef' \in Area /\ coreUpd' \in Area /\ listed' \in [Area -> BOOLEAN]
      BY <2>6 DEF Relaunch, Area
    <3> QED BY <2>6, <3>1, <3>2 DEF Relaunch
  <2>7. CASE Exited BY <2>7 DEF Exited, vars
  <2>a. Accepted => ncmd' \in 0 .. MaxCommand
    BY DEF Accepted
  <2>8. CASE Start BY <2>8, <2>a DEF Start, Accepted
  <2>9. CASE Stop BY <2>9, <2>a DEF Stop, Accepted
  <2>10. CASE \E d \in Dir : \E p \in PortOf(d) : PortAdd(d, p)
    BY <2>10, <2>a DEF PortAdd, Accepted
  <2>11. CASE \E d \in Dir : \E p \in PortOf(d) : PortDel(d, p)
    BY <2>11, <2>a DEF PortDel, Accepted
  <2>12. CASE CoreRequest BY <2>12 DEF CoreRequest
  <2>13. CASE CoreCopy BY <2>13 DEF CoreCopy
  <2>14. CASE Write BY <2>14 DEF Write
  <2>15. CASE WaitSwitch BY <2>15 DEF WaitSwitch
  <2>16. CASE WorkerStart BY <2>16 DEF WorkerStart
  <2>17. CASE WorkerStop BY <2>17 DEF WorkerStop
  <2>18. CASE WorkerTop
    <3>1. coreRef' \in Area
      BY <2>18 DEF WorkerTop, Flipped, Area
    <3> QED BY <2>18, <3>1 DEF WorkerTop
  <2>19. CASE Enter BY <2>19 DEF Enter
  <2>20. CASE Copy BY <2>20 DEF Copy
  <2>21. CASE SendCopies BY <2>21 DEF SendCopies, Sent, Kill
  <2>22. CASE SendOriginals BY <2>22 DEF SendOriginals
  <2>23. CASE Discard BY <2>23 DEF Discard
  <2>24. CASE Consume BY <2>24 DEF Consume
  <2> HIDE DEF ControlType
  <2> QED
    BY <1>1, <2>1, <2>2, <2>3, <2>4, <2>5, <2>6, <2>7, <2>8, <2>9, <2>10,
       <2>11, <2>12, <2>13, <2>14, <2>15, <2>16, <2>17, <2>18, <2>19, <2>20,
       <2>21, <2>22, <2>23, <2>24, NextCases
<1>2. CASE UNCHANGED vars
  BY <1>2 DEF vars, coreVars, regVars, countVars
<1> QED BY <1>1, <1>2

-----------------------------------------------------------------------------
(* The packets: types of what the ports have and of the sets of packets. *)
MarkType == marked \subseteq Packet \X Kind
SetsType == /\ MarkType
            /\ freed \subseteq 1 .. rx /\ killed \subseteq 1 .. rx

LEMMA PacketNat == \A x \in Packet : x \in Nat /\ x >= 1
  BY BoundAssumption DEF Packet

LEMMA FrameAt ==
    ASSUME OutType
    PROVE  \A q \in TxPort : \A k \in 1 .. Len(out[q]) :
             /\ out[q][k].pkt \in Packet /\ out[q][k].kind \in Kind
             /\ out[q][k] = [pkt |-> out[q][k].pkt, kind |-> out[q][k].kind]
<1> SUFFICES ASSUME NEW q \in TxPort, NEW k \in 1 .. Len(out[q])
             PROVE  /\ out[q][k].pkt \in Packet /\ out[q][k].kind \in Kind
                    /\ out[q][k] = [pkt |-> out[q][k].pkt,
                                    kind |-> out[q][k].kind]
  OBVIOUS
<1>1. PICK s \in Seq(Frame) : s = out[q]
  BY DEF OutType
<1>2. s[k] \in Frame
  BY <1>1
<1> QED BY <1>1, <1>2 DEF Frame

(* What sending does to the port and to the others. *)
LEMMA SentOut ==
    ASSUME OutType, NEW b \in Seq(Packet), b = bufs,
           NEW p \in TxPort, NEW kind \in Kind, NEW n \in 0 .. Len(b),
           Sent(p, kind, n)
    PROVE  /\ OutType'
           /\ \A q \in TxPort : q # p => out'[q] = out[q]
           /\ Len(out'[p]) = Len(out[p]) + n
           /\ \A k \in 1 .. Len(out[p]) : out'[p][k] = out[p][k]
           /\ \A k \in 1 .. n :
                out'[p][Len(out[p]) + k] = [pkt |-> b[k], kind |-> kind]
           /\ Len(out[p]) \in Nat
<1> DEFINE f == [k \in 1 .. n |-> [pkt |-> b[k], kind |-> kind]]
<1>1. f \in [1 .. n -> Frame] /\ n \in Nat
  BY DEF Frame
<1>2. PICK s \in Seq(Frame) : s = out[p]
  BY DEF OutType
<1>3. out' = [out EXCEPT ![p] = s \o f]
  BY <1>2 DEF Sent
<1>4. \A k \in 1 .. n : f[k] = [pkt |-> b[k], kind |-> kind]
  OBVIOUS
<1> HIDE DEF f
<1>5. /\ s \o f \in Seq(Frame)
      /\ Len(s \o f) = Len(s) + n
      /\ \A k \in 1 .. Len(s) : (s \o f)[k] = s[k]
      /\ \A k \in 1 .. n : (s \o f)[Len(s) + k] = f[k]
  BY <1>1, JoinedIs
<1>6. out'[p] = s \o f /\ \A q \in TxPort : q # p => out'[q] = out[q]
  BY <1>3 DEF OutType
<1>7. OutType'
  BY <1>3, <1>5 DEF OutType
<1> QED BY <1>2, <1>4, <1>5, <1>6, <1>7

(* A port has what it had and the first n packets of the burst. *)
LEMMA SentHas ==
    ASSUME OutType, NEW b \in Seq(Packet), b = bufs,
           NEW p \in TxPort, NEW kind \in Kind, NEW n \in 0 .. Len(b),
           Sent(p, kind, n),
           NEW q \in TxPort, NEW x \in Packet, NEW c \in Kind
    PROVE  Has(q, x, c)' <=> \/ Has(q, x, c)
                             \/ q = p /\ c = kind /\ \E k \in 1 .. n : b[k] = x
<1>1. CASE q # p
  BY <1>1, SentOut DEF Has
<1>2. CASE q = p
  <2>1. PICK l \in Nat : l = Len(out[p])
    BY SentOut
  <2>2. /\ Len(out'[p]) = l + n
        /\ \A k \in 1 .. l : out'[p][k] = out[p][k]
        /\ \A k \in 1 .. n : out'[p][l + k] = [pkt |-> b[k], kind |-> kind]
        /\ n \in Nat
    BY <2>1, SentOut
  <2>3. ASSUME Has(q, x, c)'
        PROVE  Has(q, x, c) \/ (c = kind /\ \E k \in 1 .. n : b[k] = x)
    <3>1. PICK k \in 1 .. l + n : out'[p][k] = [pkt |-> x, kind |-> c]
      BY <1>2, <2>2, <2>3 DEF Has
    <3>2. CASE k \in 1 .. l
      BY <1>2, <2>1, <2>2, <3>1, <3>2 DEF Has
    <3>3. CASE k \notin 1 .. l
      <4>1. k - l \in 1 .. n /\ k = l + (k - l)
        BY <2>2, <3>3
      <4>2. out'[p][k] = [pkt |-> b[k - l], kind |-> kind]
        BY <2>2, <4>1
      <4> QED BY <3>1, <4>1, <4>2
    <3> QED BY <3>2, <3>3
  <2>4. ASSUME Has(q, x, c)
        PROVE  Has(q, x, c)'
    <3>1. PICK k \in 1 .. l : out[p][k] = [pkt |-> x, kind |-> c]
      BY <1>2, <2>1, <2>4 DEF Has
    <3>2. k \in 1 .. l + n /\ out'[p][k] = [pkt |-> x, kind |-> c]
      BY <2>2, <3>1
    <3> QED BY <1>2, <2>2, <3>2 DEF Has
  <2>5. ASSUME c = kind, NEW k \in 1 .. n, b[k] = x
        PROVE  Has(q, x, c)'
    <3>1. l + k \in 1 .. l + n
      BY <2>2
    <3> QED BY <1>2, <2>2, <2>5, <3>1 DEF Has
  <2> QED BY <1>2, <2>3, <2>4, <2>5
<1> QED BY <1>1, <1>2

-----------------------------------------------------------------------------
(* The frames.  FramesInv is what the ports have, in relation to the burst, *)
(* with the promises about it.                                              *)
FramesInv == /\ OutType /\ SetsType
             /\ SentInv /\ Released /\ NoTwin /\ MarkInv /\ OwnTag

(* Steps that leave frames, packets and the progress of the burst alone. *)
Quiet ==
    /\ UNCHANGED <<deep, bufs, nb1, nb2, out, marked, freed, killed, rx>>
    /\ bufs # << >> =>
         /\ wpc' \in {"orig", "discard"} <=> wpc \in {"orig", "discard"}
         /\ wpc' = "discard" <=> wpc = "discard"
         /\ Used' = Used

LEMMA QuietFrames ==
    ASSUME BatchType, FramesInv, Quiet
    PROVE  FramesInv'
<1>1. UNCHANGED <<deep, bufs, nb1, nb2, out, marked, freed, killed, rx>>
  BY DEF Quiet
<1>2. /\ OutType' /\ SetsType' /\ Released' /\ NoTwin' /\ OwnTag'
  BY <1>1 DEF FramesInv, OutType, SetsType, MarkType, Released, IsSent, InBurst,
     NoTwin, OwnTag
<1>3. \A k \in 1 .. Len(bufs) :
        /\ wpc' \in {"orig", "discard"} <=> wpc \in {"orig", "discard"}
        /\ wpc' = "discard" <=> wpc = "discard"
        /\ MirrorPort' = MirrorPort /\ OriginalPort' = OriginalPort
  <2>1. ASSUME NEW k \in 1 .. Len(bufs)
        PROVE  bufs # << >>
    OBVIOUS
  <2> QED BY <2>1 DEF Quiet, MirrorPort, OriginalPort
<1>4. SentInv'
  BY <1>1, <1>3 DEF FramesInv, SentInv, Has, First
<1>5. MarkInv'
  BY <1>1, <1>3 DEF FramesInv, MarkInv
<1> QED BY <1>2, <1>4, <1>5 DEF FramesInv

(* A packet that is new is nowhere yet. *)
LEMMA ReceivedFrames ==
    ASSUME BatchType, BatchInv, FramesInv, NEW n \in Nat, Received(n)
    PROVE  FramesInv'
<1>1. /\ Len(bufs) = 0 /\ rx \in Nat /\ First = rx
  BY DEF Received, BatchInv, Bursting, BatchType, RxType, First
<1>2. /\ Len(bufs') = n /\ rx' = rx + n /\ rx' <= MaxPacket
      /\ \A k \in 1 .. n : bufs'[k] = rx + k
  BY <1>1, BurstIs, BoundAssumption DEF Received, Packet
<1>3. /\ wpc' = "copy"
      /\ UNCHANGED <<deep, nb1, nb2, out, marked, freed, killed>>
  BY DEF Received
<1>4. OutType' /\ NoTwin' /\ OwnTag'
  BY <1>3 DEF FramesInv, OutType, NoTwin, OwnTag
<1>5. SetsType'
  <2>1. 1 .. rx \subseteq 1 .. rx'
    BY <1>1, <1>2
  <2> QED BY <1>3, <2>1 DEF FramesInv, SetsType, MarkType
<1>6. Released'
  <2> SUFFICES ASSUME NEW p \in 1 .. rx' \ killed', ~InBurst(p)'
               PROVE  /\ ~(IsSent(p, "orig")' /\ p \in freed')
                      /\ IsSent(p, "orig")' \/ p \in freed' \/ IsSent(p, "copy")'
    BY DEF Released
  <2>1. p \in 1 .. rx
    <3>1. CASE p > rx
      <4>1. p - rx \in 1 .. n /\ bufs'[p - rx] = p
        BY <1>1, <1>2, <3>1
      <4> QED BY <1>2, <4>1 DEF InBurst
    <3> QED BY <1>1, <1>2, <3>1
  <2>2. ~InBurst(p)
    BY <1>1 DEF InBurst
  <2> QED BY <1>3, <2>1, <2>2 DEF FramesInv, Released, IsSent
<1>7. SentInv'
  <2>1. \A q \in TxPort : \A k \in 1 .. Len(out[q]) :
           out[q][k].pkt <= rx /\ out[q][k].pkt \in Nat
    BY FrameAt, PacketNat DEF FramesInv, SentInv
  <2>2. \A q \in TxPort : \A k \in 1 .. Len(out'[q]) : out'[q][k].pkt <= rx'
    BY <1>1, <1>2, <1>3, <2>1
  <2>3. ASSUME NEW q \in TxPort, NEW k \in 1 .. Len(bufs'), NEW c \in Kind,
               Has(q, bufs[k], c)'
        PROVE  FALSE
    <3>1. PICK j \in 1 .. Len(out[q]) : out[q][j] = [pkt |-> rx + k, kind |-> c]
      BY <1>2, <1>3, <2>3 DEF Has
    <3>2. out[q][j].pkt = rx + k
      BY <3>1
    <3> QED BY <1>1, <1>2, <2>1, <3>2
  <2>4. \A p \in freed' : p <= First'
    BY <1>1, <1>2, <1>3 DEF FramesInv, SentInv, First
  <2> QED BY <1>3, <2>2, <2>3, <2>4 DEF SentInv, Kind
<1>8. MarkInv'
  <2>1. \A t \in marked : t[1] \in Nat /\ t[1] <= rx
    BY DEF FramesInv, MarkInv, SetsType, MarkType, Packet
  <2>2. \A t \in marked' : t[1] <= rx'
    BY <1>1, <1>2, <1>3, <2>1
  <2>3. ASSUME NEW k \in 1 .. Len(bufs'), NEW c \in Kind,
               <<bufs'[k], c>> \in marked'
        PROVE  FALSE
    BY <1>1, <1>2, <1>3, <2>1, <2>3
  <2> QED BY <1>3, <2>2, <2>3 DEF MarkInv, Kind
<1> QED BY <1>4, <1>5, <1>6, <1>7, <1>8 DEF FramesInv

(* The end of a burst, by the process's death or by mirror_proc: if each    *)
(* packet of it has a fate, every packet has.                               *)
LEMMA OverFrames ==
    ASSUME BatchType, BatchInv, FramesInv,
           bufs' = << >>, UNCHANGED <<deep, out, marked, rx>>,
           freed \subseteq freed', killed \subseteq killed',
           \A p \in freed' \ freed : InBurst(p),
           \A p \in killed' \ killed : InBurst(p),
           \A k \in 1 .. Len(bufs) : bufs[k] \notin killed' =>
              /\ ~(IsSent(bufs[k], "orig") /\ bufs[k] \in freed')
              /\ \/ IsSent(bufs[k], "orig") \/ bufs[k] \in freed'
                 \/ IsSent(bufs[k], "copy")
    PROVE  FramesInv'
<1>1. OutType' /\ NoTwin' /\ OwnTag'
  BY DEF FramesInv, OutType, NoTwin, OwnTag
<1>2. /\ Len(bufs') = 0 /\ rx \in Nat /\ Len(bufs) \in Nat /\ Len(bufs) <= rx
      /\ First <= rx /\ First' = rx
  BY DEF BatchType, RxType, BatchInv, First
<1>3. \A p : InBurst(p) => p \in 1 .. rx
  BY <1>2 DEF InBurst, BatchInv
<1>4. SetsType'
  BY <1>3 DEF FramesInv, SetsType, MarkType
<1>5. \A p \in freed' : p <= First'
  BY <1>2, <1>4 DEF SetsType
<1>6. SentInv'
  BY <1>2, <1>5 DEF FramesInv, SentInv
<1>7. MarkInv'
  BY <1>2 DEF FramesInv, MarkInv
<1>8. Released'
  <2> SUFFICES ASSUME NEW p \in 1 .. rx, p \notin killed'
               PROVE  /\ ~(IsSent(p, "orig") /\ p \in freed')
                      /\ IsSent(p, "orig") \/ p \in freed' \/ IsSent(p, "copy")
    BY DEF Released, IsSent
  <2>1. CASE InBurst(p)
    BY <2>1 DEF InBurst
  <2>2. CASE ~InBurst(p)
    BY <2>2 DEF FramesInv, Released
  <2> QED BY <2>1, <2>2
<1> QED BY <1>1, <1>4, <1>6, <1>7, <1>8 DEF FramesInv

-----------------------------------------------------------------------------
(* One burst sent to port p as frames of one kind, of which no port had any *)
(* and whose data no port has marked.                                       *)
LEMMA SendStep ==
    ASSUME BatchType, BatchInv, FramesInv,
           UNCHANGED <<deep, bufs, freed, killed, rx>>,
           NEW p \in TxPort, NEW kind \in Kind, NEW n \in 0 .. Len(bufs),
           Sent(p, kind, n),
           \A k \in 1 .. Len(bufs), c \in Kind : ~Has(p, bufs[k], c),
           \A k \in 1 .. Len(bufs), q \in TxPort : ~Has(q, bufs[k], kind),
           deep \/ Tagged = {} =>
               \A k \in 1 .. Len(bufs) : <<bufs[k], kind>> \notin marked
    PROVE  /\ OutType' /\ SetsType' /\ Released' /\ NoTwin' /\ OwnTag'
           /\ \A q \in TxPort : \A k \in 1 .. Len(out'[q]) : out'[q][k].pkt <= rx
           /\ \A t \in marked' : t[1] <= rx
<1>1. PICK b \in Seq(Packet) : b = bufs
  BY DEF BatchType
<1>2. PICK m \in Nat : m = rx - Len(b) /\ m + Len(b) = rx
  <2>1. rx \in Nat /\ Len(b) \in Nat /\ Len(b) <= rx
    BY <1>1 DEF BatchType, RxType, BatchInv
  <2> QED BY <2>1
<1>t. /\ Len(b) \in Nat /\ rx \in Nat /\ Len(b) <= rx /\ n \in 0 .. Len(b)
      /\ \A k \in 1 .. Len(b) : b[k] = m + k
  BY <1>1, <1>2 DEF BatchType, RxType, BatchInv
<1>u. \A k \in 1 .. Len(b) : b[k] \in 1 .. rx /\ b[k] \in Packet
  BY <1>2, <1>t
<1>3. OutType
  BY DEF FramesInv
<1>4. OutType'
  BY <1>1, <1>t, <1>u, <1>3, SentOut
<1>s. /\ \A q \in TxPort : q # p => out'[q] = out[q]
      /\ Len(out'[p]) = Len(out[p]) + n
      /\ \A k \in 1 .. Len(out[p]) : out'[p][k] = out[p][k]
      /\ \A k \in 1 .. n :
           out'[p][Len(out[p]) + k] = [pkt |-> b[k], kind |-> kind]
      /\ Len(out[p]) \in Nat
  BY <1>1, <1>t, <1>u, <1>3, SentOut
<1>5. \A q \in TxPort, x \in Packet, c \in Kind :
         Has(q, x, c)' <=> \/ Has(q, x, c)
                           \/ q = p /\ c = kind /\ \E k \in 1 .. n : b[k] = x
  BY <1>1, <1>t, <1>u, <1>3, SentHas
<1>6. \A q \in TxPort : \A k \in 1 .. Len(out'[q]) :
         \E x \in Packet, c \in Kind :
            out'[q][k].pkt = x /\ out'[q][k].kind = c /\ Has(q, x, c)'
  <2> SUFFICES ASSUME NEW q \in TxPort, NEW k \in 1 .. Len(out'[q])
               PROVE  \E x \in Packet, c \in Kind :
                        /\ out'[q][k].pkt = x /\ out'[q][k].kind = c
                        /\ Has(q, x, c)'
    OBVIOUS
  <2>1. PICK s \in Seq(Frame) : s = out'[q]
    BY <1>4 DEF OutType
  <2>2. s[k] \in Frame
    BY <2>1
  <2>3. PICK x \in Packet, c \in Kind : s[k] = [pkt |-> x, kind |-> c]
    BY <2>2 DEF Frame
  <2>4. Has(q, x, c)'
    BY <2>1, <2>3 DEF Has
  <2> QED BY <2>1, <2>3, <2>4
<1>7. \A q \in TxPort, x \in Packet, c \in Kind : Has(q, x, c) =>
         \E k \in 1 .. Len(out[q]) : /\ out[q][k].pkt = x /\ out[q][k].kind = c
                                     /\ x <= rx
  <2> SUFFICES ASSUME NEW q \in TxPort, NEW x \in Packet, NEW c \in Kind,
                      Has(q, x, c)
               PROVE  \E k \in 1 .. Len(out[q]) :
                        out[q][k].pkt = x /\ out[q][k].kind = c /\ x <= rx
    OBVIOUS
  <2>1. PICK k \in 1 .. Len(out[q]) : out[q][k] = [pkt |-> x, kind |-> c]
    BY DEF Has
  <2>2. out[q][k].pkt = x /\ out[q][k].kind = c
    BY <2>1
  <2>3. out[q][k].pkt <= rx
    BY <2>1 DEF FramesInv, SentInv
  <2> QED BY <2>1, <2>2, <2>3
<1>8. \A q \in TxPort : \A k \in 1 .. Len(out'[q]) : out'[q][k].pkt <= rx
  <2> SUFFICES ASSUME NEW q \in TxPort, NEW k \in 1 .. Len(out'[q])
               PROVE  out'[q][k].pkt <= rx
    OBVIOUS
  <2>1. PICK x \in Packet, c \in Kind : out'[q][k].pkt = x /\ Has(q, x, c)'
    BY <1>6
  <2>2. x <= rx
    <3>1. CASE Has(q, x, c)
      BY <1>7, <3>1
    <3>2. CASE \E i \in 1 .. n : b[i] = x
      BY <1>t, <1>u, <3>2
    <3> QED BY <1>5, <2>1, <3>1, <3>2
  <2> QED BY <2>1, <2>2
<1>9. /\ marked' \subseteq Packet \X Kind
      /\ \A t \in marked' : t \in marked \/ \E k \in 1 .. Len(b) : t[1] = b[k]
  <2>1. Shares(kind) \subseteq Kind
    BY DEF Shares, Kind
  <2>2. marked \subseteq Packet \X Kind
    BY DEF FramesInv, SetsType, MarkType
  <2>3. \A t \in {bufs[k] : k \in 1 .. Len(bufs)} \X Shares(kind) :
           t \in Packet \X Kind /\ \E k \in 1 .. Len(b) : t[1] = b[k]
    BY <1>1, <1>t, <1>u, <2>1
  <2>4. \A t \in marked' : \/ t \in marked
                           \/ t \in {bufs[k] : k \in 1 .. Len(bufs)} \X Shares(kind)
    BY DEF Sent
  <2> QED BY <2>2, <2>3, <2>4
<1>10. SetsType'
  BY <1>9 DEF FramesInv, SetsType, MarkType
<1>11. \A t \in marked' : t[1] <= rx
  BY <1>2, <1>t, <1>u, <1>9 DEF FramesInv, MarkInv
<1>12. Released'
  <2> SUFFICES ASSUME NEW x \in 1 .. rx, x \notin killed, ~InBurst(x)'
               PROVE  /\ ~(IsSent(x, "orig")' /\ x \in freed)
                      /\ IsSent(x, "orig")' \/ x \in freed \/ IsSent(x, "copy")'
    BY DEF Released
  <2>1. ~InBurst(x) /\ x \in Packet
    <3>1. rx <= MaxPacket
      BY DEF BatchInv
    <3>2. x \in Packet
      BY <1>2, <1>t, <1>u, <3>1, BoundAssumption DEF Packet
    <3>3. ~InBurst(x)
      BY DEF InBurst
    <3> QED BY <3>2, <3>3
  <2>2. \A q \in TxPort, c \in Kind : Has(q, x, c)' <=> Has(q, x, c)
    BY <1>1, <1>t, <1>u, <1>5, <2>1 DEF InBurst
  <2>3. \A c \in Kind : /\ IsSent(x, c)' <=> \E q \in TxPort : Has(q, x, c)'
                        /\ IsSent(x, c) <=> \E q \in TxPort : Has(q, x, c)
    BY DEF IsSent, Has
  <2>4. \A c \in Kind : IsSent(x, c)' <=> IsSent(x, c)
    BY <2>2, <2>3
  <2> QED BY <2>1, <2>4 DEF FramesInv, Released, Kind
<1>13. NoTwin'
  <2> SUFFICES ASSUME NEW q \in TxPort, NEW k \in 1 .. Len(out'[q]) - 1
               PROVE  out'[q][k].pkt < out'[q][k + 1].pkt
    BY DEF NoTwin
  <2>1. CASE q # p
    <3>1. out'[q] = out[q]
      BY <1>s, <2>1
    <3> QED BY <3>1 DEF FramesInv, NoTwin
  <2>2. CASE q = p
    <3>1. PICK l \in Nat : l = Len(out[p])
      BY <1>s
    <3>2. /\ Len(out'[p]) = l + n
          /\ \A j \in 1 .. l : out'[p][j] = out[p][j]
          /\ \A j \in 1 .. n : out'[p][l + j].pkt = m + j
      <4>1. /\ Len(out'[p]) = l + n
            /\ \A j \in 1 .. l : out'[p][j] = out[p][j]
            /\ \A j \in 1 .. n : out'[p][l + j] = [pkt |-> b[j], kind |-> kind]
        BY <1>s, <3>1
      <4>2. ASSUME NEW j \in 1 .. n
            PROVE  out'[p][l + j].pkt = m + j
        <5>1. j \in 1 .. Len(b)
          BY <1>t
        <5>2. out'[p][l + j] = [pkt |-> b[j], kind |-> kind]
          BY <4>1
        <5>3. out'[p][l + j].pkt = b[j]
          BY <5>2
        <5> QED BY <1>t, <5>1, <5>3
      <4> QED BY <4>1, <4>2
    <3>3. CASE k < l
      <4>1. k \in 1 .. l - 1 /\ k \in 1 .. l /\ k + 1 \in 1 .. l
        BY <3>1, <3>3
      <4> QED BY <2>2, <3>1, <3>2, <4>1 DEF FramesInv, NoTwin
    <3>4. CASE k = l
      <4>1. k \in 1 .. l /\ 1 \in 1 .. n
        BY <1>2, <1>t, <1>u, <2>2, <3>2, <3>4
      <4>2. /\ out[p][k].pkt \in Packet /\ out[p][k].kind \in Kind
            /\ out[p][k].pkt <= rx
            /\ Has(p, out[p][k].pkt, out[p][k].kind)
        BY <1>3, <3>1, <4>1, FrameAt DEF FramesInv, SentInv, Has
      <4>3. out[p][k].pkt <= m
        <5> SUFFICES ASSUME out[p][k].pkt > m
                     PROVE  FALSE
          BY <1>2, <1>t, <1>u, <4>2 DEF Packet
        <5>1. PICK x \in Nat : x = out[p][k].pkt /\ x <= rx /\ x > m
          BY <4>2, PacketNat
        <5>2. x - m \in 1 .. Len(b) /\ m + (x - m) = x
          BY <1>2, <1>t, <5>1
        <5>3. b[x - m] = out[p][k].pkt
          BY <1>t, <5>1, <5>2
        <5> QED BY <1>1, <4>2, <5>2, <5>3
      <4>4. out'[p][k + 1].pkt = m + 1
        BY <3>2, <3>4, <4>1
      <4>5. out'[p][k].pkt = out[p][k].pkt /\ out[p][k].pkt \in Nat
        BY <3>2, <4>1, <4>2, PacketNat
      <4> QED BY <1>2, <2>2, <4>3, <4>4, <4>5
    <3>5. CASE k > l
      <4>1. k - l \in 1 .. n /\ k + 1 - l \in 1 .. n
        BY <1>2, <1>t, <1>u, <2>2, <3>2, <3>5
      <4>2. /\ out'[p][l + (k - l)].pkt = m + (k - l)
            /\ out'[p][l + (k + 1 - l)].pkt = m + (k + 1 - l)
        BY <3>2, <4>1
      <4>3. l + (k - l) = k /\ l + (k + 1 - l) = k + 1
        BY <3>1
      <4>4. /\ out'[p][k].pkt = m + (k - l)
            /\ out'[p][k + 1].pkt = m + (k + 1 - l)
        BY <4>2, <4>3
      <4>5. m \in Nat /\ l \in Nat /\ k \in Nat
        BY <1>2, <3>1
      <4>6. m + (k - l) < m + (k + 1 - l)
        BY <4>5
      <4> QED BY <2>2, <4>4, <4>6
    <3> QED BY <1>2, <1>t, <1>u, <2>2, <3>2, <3>3, <3>4, <3>5
  <2> QED BY <2>1, <2>2
<1>14. OwnTag'
  <2> SUFFICES ASSUME deep \/ Tagged = {},
                      NEW q \in TxPort, NEW k \in 1 .. Len(out'[q])
               PROVE  q \in Tagged <=>
                        <<out'[q][k].pkt, out'[q][k].kind>> \in marked'
    BY DEF OwnTag
  <2>1. PICK x \in Packet, c \in Kind :
           x = out'[q][k].pkt /\ c = out'[q][k].kind /\ Has(q, x, c)'
    BY <1>6
  <2>2. marked' = IF p \in Tagged
                  THEN marked \cup ({b[j] : j \in 1 .. Len(b)} \X Shares(kind))
                  ELSE marked
    BY <1>1 DEF Sent
  <2>3. CASE Has(q, x, c)
    <3>1. q \in Tagged <=> <<x, c>> \in marked
      BY <1>7, <2>3 DEF FramesInv, OwnTag
    <3>2. p \in Tagged => <<x, c>> \notin {b[j] : j \in 1 .. Len(b)} \X Shares(kind)
      BY <1>1, <2>3 DEF Shares
    <3> QED BY <2>1, <2>2, <3>1, <3>2
  <2>4. CASE q = p /\ c = kind /\ \E j \in 1 .. n : b[j] = x
    <3>1. PICK j \in 1 .. Len(b) : b[j] = x
      BY <1>2, <1>t, <1>u, <2>4
    <3>2. <<x, c>> \notin marked
      BY <1>1, <2>4, <3>1
    <3>3. <<x, c>> \in {b[i] : i \in 1 .. Len(b)} \X Shares(kind)
      BY <2>4, <3>1 DEF Shares, Kind
    <3> QED BY <2>1, <2>2, <2>4, <3>2, <3>3
  <2> QED BY <1>5, <2>1, <2>3, <2>4
<1> QED BY <1>4, <1>8, <1>10, <1>11, <1>12, <1>13, <1>14

(* The two ports of a burst are two. *)
TwoPorts == Bursting => Runnable(Used)

LEMMA PortsOfBurst ==
    ASSUME PortsType, TwoPorts, Bursting
    PROVE  /\ MirrorPort \in TxPort /\ OriginalPort \in TxPort
           /\ MirrorPort # OriginalPort
<1>1. Len(Used.tx) = 2 /\ Used \in Path /\ Distinct(Used)
  BY DEF TwoPorts, Runnable, PortsType, Used
<1>2. PICK t \in Seq(TxPort) : t = Used.tx
  BY <1>1 DEF Path
<1>3. t[1] \in TxPort /\ t[2] \in TxPort /\ t[1] # t[2]
  BY <1>1, <1>2 DEF Distinct
<1> QED BY <1>2, <1>3 DEF MirrorPort, OriginalPort

LEMMA SendCopiesFrames ==
    ASSUME PortsType, TwoPorts, BatchType, BatchInv, FramesInv,
           SendCopies, ~Kill
    PROVE  FramesInv'
<1>1. PICK n \in 0 .. Len(copies) : Sent(MirrorPort, "copy", n) /\ nb2' = n
  BY DEF SendCopies
<1>2. /\ wpc = "mirror" /\ wpc' = "orig"
      /\ UNCHANGED <<deep, bufs, freed, killed, rx, path, ref>>
  BY DEF SendCopies, pathVars
<1>3. Len(copies) = Len(bufs) /\ Bursting /\ Len(bufs) \in Nat
  BY <1>2 DEF BatchInv, Bursting, BatchType
<1>4. /\ MirrorPort \in TxPort /\ OriginalPort \in TxPort
      /\ MirrorPort # OriginalPort
      /\ MirrorPort' = MirrorPort /\ OriginalPort' = OriginalPort
  BY <1>2, <1>3, PortsOfBurst DEF MirrorPort, OriginalPort, Used
<1>5. \A q \in TxPort, k \in 1 .. Len(bufs), c \in Kind : ~Has(q, bufs[k], c)
  BY <1>2 DEF FramesInv, SentInv, Kind
<1>6. deep \/ Tagged = {} =>
         \A k \in 1 .. Len(bufs), c \in Kind : <<bufs[k], c>> \notin marked
  BY <1>2 DEF FramesInv, MarkInv, Kind
<1>7. /\ OutType' /\ SetsType' /\ Released' /\ NoTwin' /\ OwnTag'
      /\ \A q \in TxPort : \A k \in 1 .. Len(out'[q]) : out'[q][k].pkt <= rx
      /\ \A t \in marked' : t[1] <= rx
  <2>1. n \in 0 .. Len(bufs) /\ "copy" \in Kind
    BY <1>1, <1>3 DEF Kind
  <2> QED BY <1>1, <1>2, <1>4, <1>5, <1>6, <2>1, SendStep
<1>8. PICK b \in Seq(Packet) : b = bufs
  BY DEF BatchType
<1>9. \A j, k \in 1 .. Len(b) : b[j] = b[k] => j = k
  BY <1>8 DEF BatchInv, BatchType, RxType
<1>10. SentInv'
  <2>1. ASSUME NEW q \in TxPort, NEW k \in 1 .. Len(bufs), NEW c \in Kind
        PROVE  Has(q, b[k], c)' <=> q = MirrorPort /\ c = "copy" /\ k <= n
    <3>1. b[k] \in Packet /\ "copy" \in Kind /\ n \in 0 .. Len(b) /\ OutType
      BY <1>1, <1>3, <1>8 DEF Kind, FramesInv
    <3>2. Has(q, b[k], c)' <=> \/ Has(q, b[k], c)
                               \/ q = MirrorPort /\ c = "copy"
                                  /\ \E j \in 1 .. n : b[j] = b[k]
      BY <1>1, <1>4, <1>8, <3>1, SentHas
    <3>3. (\E j \in 1 .. n : b[j] = b[k]) <=> k <= n
      BY <1>8, <1>9, <3>1
    <3> QED BY <1>5, <1>8, <3>2, <3>3
  <2>2. \A q \in TxPort : \A k \in 1 .. Len(bufs') :
          /\ Has(q, bufs[k], "copy")' <=> q = MirrorPort /\ k <= n
          /\ ~ Has(q, bufs[k], "orig")'
    BY <1>2, <1>8, <2>1 DEF Kind
  <2>3. \A p \in freed' : p <= First'
    BY <1>2 DEF FramesInv, SentInv, First
  <2> QED BY <1>1, <1>2, <1>4, <1>7, <2>2, <2>3 DEF SentInv
<1>11. MarkInv'
  <2> SUFFICES ASSUME deep \/ Tagged = {}, NEW k \in 1 .. Len(bufs)
               PROVE  /\ <<bufs[k], "copy">> \in marked' <=> MirrorPort \in Tagged
                      /\ <<bufs[k], "orig">> \notin marked'
    BY <1>2, <1>4, <1>7 DEF MarkInv
  <2>1. marked' = IF MirrorPort \in Tagged
                  THEN marked \cup ({bufs[j] : j \in 1 .. Len(bufs)}
                                       \X Shares("copy"))
                  ELSE marked
    BY <1>1 DEF Sent
  <2>2. <<bufs[k], "copy">> \notin marked /\ <<bufs[k], "orig">> \notin marked
    BY <1>6 DEF Kind
  <2>3. MirrorPort \in Tagged => Shares("copy") = {"copy"}
    BY DEF Shares
  <2>4. MirrorPort \in Tagged =>
          /\ <<bufs[k], "copy">> \in {bufs[j] : j \in 1 .. Len(bufs)} \X {"copy"}
          /\ <<bufs[k], "orig">> \notin {bufs[j] : j \in 1 .. Len(bufs)} \X {"copy"}
    OBVIOUS
  <2> QED BY <2>1, <2>2, <2>3, <2>4
<1> QED BY <1>7, <1>10, <1>11 DEF FramesInv

LEMMA SendOriginalsFrames ==
    ASSUME PortsType, TwoPorts, BatchType, BatchInv, FramesInv, SendOriginals
    PROVE  FramesInv'
<1>1. PICK n \in 0 .. Len(bufs) : Sent(OriginalPort, "orig", n) /\ nb1' = n
  BY DEF SendOriginals
<1>2. /\ wpc = "orig" /\ wpc' = "discard"
      /\ UNCHANGED <<deep, bufs, nb2, freed, killed, rx, path, ref>>
  BY DEF SendOriginals, pathVars
<1>3. Bursting /\ Len(bufs) \in Nat
  BY <1>2 DEF Bursting, BatchType
<1>4. /\ MirrorPort \in TxPort /\ OriginalPort \in TxPort
      /\ MirrorPort # OriginalPort
      /\ MirrorPort' = MirrorPort /\ OriginalPort' = OriginalPort
  BY <1>2, <1>3, PortsOfBurst DEF MirrorPort, OriginalPort, Used
<1>5. \A q \in TxPort, k \in 1 .. Len(bufs) :
        /\ Has(q, bufs[k], "copy") <=> q = MirrorPort /\ k <= nb2
        /\ ~Has(q, bufs[k], "orig")
  BY <1>2 DEF FramesInv, SentInv
<1>6. deep \/ Tagged = {} =>
         \A k \in 1 .. Len(bufs) :
            /\ <<bufs[k], "copy">> \in marked <=> MirrorPort \in Tagged
            /\ <<bufs[k], "orig">> \notin marked
  BY <1>2 DEF FramesInv, MarkInv
<1>7. /\ OutType' /\ SetsType' /\ Released' /\ NoTwin' /\ OwnTag'
      /\ \A q \in TxPort : \A k \in 1 .. Len(out'[q]) : out'[q][k].pkt <= rx
      /\ \A t \in marked' : t[1] <= rx
  <2>1. "orig" \in Kind
    BY DEF Kind
  <2>2. \A k \in 1 .. Len(bufs), c \in Kind : ~Has(OriginalPort, bufs[k], c)
    BY <1>4, <1>5 DEF Kind
  <2> QED BY <1>1, <1>2, <1>4, <1>5, <1>6, <2>1, <2>2, SendStep
<1>8. PICK b \in Seq(Packet) : b = bufs
  BY DEF BatchType
<1>9. \A j, k \in 1 .. Len(b) : b[j] = b[k] => j = k
  BY <1>8 DEF BatchInv, BatchType, RxType
<1>10. SentInv'
  <2>1. ASSUME NEW q \in TxPort, NEW k \in 1 .. Len(bufs), NEW c \in Kind
        PROVE  Has(q, b[k], c)' <=> \/ q = MirrorPort /\ c = "copy" /\ k <= nb2
                                    \/ q = OriginalPort /\ c = "orig" /\ k <= n
    <3>1. b[k] \in Packet /\ "orig" \in Kind /\ n \in 0 .. Len(b) /\ OutType
      BY <1>1, <1>8 DEF Kind, FramesInv
    <3>2. Has(q, b[k], c)' <=> \/ Has(q, b[k], c)
                               \/ q = OriginalPort /\ c = "orig"
                                  /\ \E j \in 1 .. n : b[j] = b[k]
      BY <1>1, <1>4, <1>8, <3>1, SentHas
    <3>3. (\E j \in 1 .. n : b[j] = b[k]) <=> k <= n
      BY <1>8, <1>9, <3>1
    <3> QED BY <1>5, <1>8, <3>2, <3>3 DEF Kind
  <2>2. \A q \in TxPort : \A k \in 1 .. Len(bufs') :
          /\ Has(q, bufs[k], "copy")' <=> q = MirrorPort /\ k <= nb2
          /\ Has(q, bufs[k], "orig")' <=> q = OriginalPort /\ k <= n
    BY <1>2, <1>8, <2>1 DEF Kind
  <2>3. \A p \in freed' : p <= First'
    BY <1>2 DEF FramesInv, SentInv, First
  <2> QED BY <1>1, <1>2, <1>4, <1>7, <2>2, <2>3 DEF SentInv
<1>11. MarkInv'
  <2> SUFFICES ASSUME deep \/ Tagged = {}, NEW k \in 1 .. Len(bufs)
               PROVE  /\ <<bufs[k], "copy">> \in marked' <=> MirrorPort \in Tagged
                      /\ <<bufs[k], "orig">> \in marked' <=> OriginalPort \in Tagged
    BY <1>2, <1>4, <1>7 DEF MarkInv
  <2>1. marked' = IF OriginalPort \in Tagged
                  THEN marked \cup ({bufs[j] : j \in 1 .. Len(bufs)}
                                       \X Shares("orig"))
                  ELSE marked
    BY <1>1 DEF Sent
  <2>2. OriginalPort \in Tagged => Shares("orig") = {"orig"}
    BY DEF Shares
  <2>3. OriginalPort \in Tagged =>
          /\ <<bufs[k], "orig">> \in {bufs[j] : j \in 1 .. Len(bufs)} \X {"orig"}
          /\ <<bufs[k], "copy">> \notin {bufs[j] : j \in 1 .. Len(bufs)} \X {"orig"}
    OBVIOUS
  <2> QED BY <1>6, <2>1, <2>2, <2>3
<1> QED BY <1>7, <1>10, <1>11 DEF FramesInv

(* What neither port took is freed, from the end of the longer burst on.    *)
LEMMA DiscardFrames ==
    ASSUME PortsType, TwoPorts, BatchType, BatchInv, FramesInv, Discard
    PROVE  FramesInv'
<1>1. /\ wpc = "discard" /\ bufs' = << >> /\ UNCHANGED <<deep, out, marked, rx>>
      /\ freed' = freed \cup {bufs[k] : k \in FirstDiscarded .. Len(bufs)}
      /\ killed' = killed
  BY DEF Discard
<1>2. /\ MirrorPort \in TxPort /\ OriginalPort \in TxPort
  BY <1>1, PortsOfBurst DEF Bursting
<1>3. PICK l \in Nat : l = Len(bufs)
  BY DEF BatchType
<1>4. /\ \A k \in 1 .. l : bufs[k] = rx - l + k
      /\ rx \in Nat /\ nb1 \in Nat /\ nb2 \in Nat /\ l <= rx
      /\ \A p \in freed : p <= rx - l
      /\ freed \subseteq 1 .. rx
  BY <1>3 DEF BatchInv, BatchType, RxType, FramesInv, SentInv, First, SetsType
<1>5. PICK m \in Nat : m = FirstDiscarded /\ m >= 1
                       /\ \A k \in Nat : k >= m <=> k > nb1 /\ k > nb2
  BY <1>4 DEF FirstDiscarded, Greater
<1>6. freed' = freed \cup {bufs[k] : k \in m .. l}
  BY <1>1, <1>3, <1>5
<1>7. \A p \in freed' \ freed : InBurst(p)
  BY <1>3, <1>5, <1>6 DEF InBurst
<1>8. ASSUME NEW k \in 1 .. l
      PROVE  /\ bufs[k] \in freed' <=> k > nb1 /\ k > nb2
             /\ IsSent(bufs[k], "orig") => k <= nb1
             /\ k <= nb1 => IsSent(bufs[k], "orig")
             /\ k <= nb2 => IsSent(bufs[k], "copy")
  <2>1. bufs[k] \notin freed
    BY <1>4
  <2>2. \A j \in m .. l : bufs[j] = bufs[k] => j = k
    <3> SUFFICES ASSUME NEW j \in m .. l, bufs[j] = bufs[k]
                 PROVE  j = k
      OBVIOUS
    <3>1. j \in 1 .. l
      BY <1>5
    <3>2. bufs[j] = rx - l + j /\ bufs[k] = rx - l + k
      BY <1>4, <3>1
    <3>3. PICK d \in Nat : d = rx - l
      BY <1>3, <1>4
    <3>4. d + j = d + k
      BY <3>2, <3>3
    <3> QED BY <3>1, <3>3, <3>4
  <2>3. bufs[k] \in freed' <=> k >= m
    BY <1>3, <1>5, <1>6, <2>1, <2>2
  <2>4. \A q \in TxPort :
          /\ Has(q, bufs[k], "copy") <=> q = MirrorPort /\ k <= nb2
          /\ Has(q, bufs[k], "orig") <=> q = OriginalPort /\ k <= nb1
    BY <1>1, <1>3 DEF FramesInv, SentInv
  <2>5. \A c : IsSent(bufs[k], c) <=> \E q \in TxPort : Has(q, bufs[k], c)
    BY DEF IsSent, Has
  <2> QED BY <1>2, <1>5, <2>3, <2>4, <2>5
<1>9. \A k \in 1 .. Len(bufs) : bufs[k] \notin killed' =>
        /\ ~(IsSent(bufs[k], "orig") /\ bufs[k] \in freed')
        /\ \/ IsSent(bufs[k], "orig") \/ bufs[k] \in freed'
           \/ IsSent(bufs[k], "copy")
  <2> SUFFICES ASSUME NEW k \in 1 .. l
               PROVE  /\ ~(IsSent(bufs[k], "orig") /\ bufs[k] \in freed')
                      /\ \/ IsSent(bufs[k], "orig") \/ bufs[k] \in freed'
                         \/ IsSent(bufs[k], "copy")
    BY <1>3
  <2>1. (k > nb1 /\ k > nb2) \/ k <= nb1 \/ k <= nb2
    BY <1>4
  <2>2. ~(k <= nb1 /\ k > nb1)
    BY <1>4
  <2> QED BY <1>8, <2>1, <2>2
<1> QED BY <1>1, <1>6, <1>7, <1>9, OverFrames

LEMMA KillFrames ==
    ASSUME BatchType, BatchInv, FramesInv, Kill,
           UNCHANGED <<deep, out, marked, freed, rx>>
    PROVE  FramesInv'
<1>1. /\ bufs' = << >>
      /\ killed' = killed \cup {bufs[k] : k \in 1 .. Len(bufs)}
  BY DEF Kill
<1>2. \A p \in killed' \ killed : InBurst(p)
  BY <1>1 DEF InBurst
<1>3. \A k \in 1 .. Len(bufs) : bufs[k] \in killed'
  BY <1>1
<1> QED BY <1>1, <1>2, <1>3, OverFrames

LEMMA FramesStep ==
    ASSUME TypeOK, LifeInv, PathInv, PortsType, TwoPorts, BatchType, BatchInv,
           FramesInv, [Next]_vars
    PROVE  FramesInv'
<1>1. RxType
  BY DEF BatchType
<1>2. CASE Apart
  <2>1. ~Bursting => bufs = << >>
    BY DEF BatchInv
  <2>2. Quiet
    BY <1>2, <2>1 DEF Apart, Quiet, batchVars, mbufVars, Bursting
  <2> QED BY <2>2, QuietFrames
<1>3. CASE Copy
  <2>1. Quiet
    BY <1>3 DEF Copy, Quiet, pathVars, Used
  <2> QED BY <2>1, QuietFrames
<1>4. CASE Consume
  <2>1. Quiet
    BY <1>4 DEF Consume, Quiet, pathVars, batchVars, Used
  <2> QED BY <2>1, QuietFrames
<1>5. CASE SendCopies
  <2>1. CASE Kill
    <3>1. UNCHANGED <<deep, out, marked, freed, rx>>
      BY <1>5, <2>1 DEF SendCopies, Kill
    <3> QED BY <2>1, <3>1, KillFrames
  <2> QED BY <1>5, <2>1, SendCopiesFrames
<1>6. CASE Kill
  <2>1. UNCHANGED <<deep, out, marked, freed, rx>>
    BY <1>6 DEF Kill
  <2> QED BY <1>6, <2>1, KillFrames
<1> QED
  BY <1>1, <1>2, <1>3, <1>4, <1>5, <1>6, ApartOrNot, ReceivedFrames,
     SendOriginalsFrames, DiscardFrames

(* A burst has begun with its ports and keeps them. *)
LEMMA TwoPortsStep ==
    ASSUME TypeOK, RxType, LifeInv, PathInv, TwoPorts, [Next]_vars
    PROVE  TwoPorts'
<1>1. CASE Apart
  BY <1>1 DEF Apart, TwoPorts, Bursting, Runnable
<1>2. ASSUME NEW n \in Nat, Received(n)
      PROVE  TwoPorts'
  BY <1>2 DEF Received, TwoPorts, Runnable
<1>3. CASE Copy
  BY <1>3 DEF Copy, pathVars, TwoPorts, Bursting, Runnable, Used
<1>4. CASE SendCopies
  BY <1>4 DEF SendCopies, Kill, pathVars, TwoPorts, Bursting, Runnable, Used
<1>5. CASE SendOriginals
  BY <1>5 DEF SendOriginals, pathVars, TwoPorts, Bursting, Runnable, Used
<1>6. CASE Discard
  BY <1>6 DEF Discard, TwoPorts, Bursting
<1>7. CASE Consume
  BY <1>7 DEF Consume, pathVars, TwoPorts, Bursting, Runnable, Used
<1>8. CASE Kill
  BY <1>8 DEF Kill, TwoPorts, Bursting
<1> QED
  BY <1>1, <1>2, <1>3, <1>4, <1>5, <1>6, <1>7, <1>8, ApartOrNot

-----------------------------------------------------------------------------
(* The inductive invariant. *)
MirrorInv == /\ ControlType /\ PortsType /\ BatchType
             /\ LifeInv /\ ListInv /\ PathInv /\ TwoPorts
             /\ BatchInv /\ PoolWhole /\ FramesInv

LEMMA TypesAre == MirrorInv => TypeOK
<1> SUFFICES ASSUME MirrorInv
             PROVE  TypeOK
  OBVIOUS
<1>1. marked \subseteq Packet \X {"orig", "copy"}
  BY DEF MirrorInv, FramesInv, SetsType, MarkType, Kind
<1>2. /\ freed \subseteq 1 .. rx /\ killed \subseteq 1 .. rx
  BY DEF MirrorInv, FramesInv, SetsType
<1> QED
  BY <1>1, <1>2
     DEF MirrorInv, TypeOK, ControlType, PortsType, BatchType

LEMMA MirrorInit == Init => MirrorInv
<1> SUFFICES ASSUME Init
             PROVE  MirrorInv
  OBVIOUS
<1> USE DEF Init
<1>1. ControlType
  <2>1. nlaunch \in 1 .. MaxLaunch /\ ncmd \in 0 .. MaxCommand
    BY BoundAssumption
  <2>2. /\ coreRef \in Area /\ coreUpd \in Area
        /\ listed \in [Area -> BOOLEAN]
    BY DEF Area
  <2>3. /\ mpc = "init" /\ core = "stop" /\ wpc = "none" /\ deep \in BOOLEAN
        /\ chgCore \in BOOLEAN /\ chgComp \in BOOLEAN
    OBVIOUS
  <2> HIDE DEF Init
  <2> QED BY <2>1, <2>2, <2>3 DEF ControlType
<1>2. PortsType
  BY NoPathIs DEF PortsType, Area, Distinct
<1>3. BatchType
  BY SizeAssumption, BoundAssumption DEF BatchType, RxType
<1>4. LifeInv /\ TwoPorts
  BY DEF LifeInv, TwoPorts, Bursting
<1>5. ListInv /\ PathInv
  BY NoPathIs DEF ListInv, NewList, Working, PathInv, NoPath, Area
<1>6. BatchInv
  BY SizeAssumption, BoundAssumption DEF BatchInv, Bursting, Upto
<1>7. PoolWhole
  BY SizeAssumption DEF PoolWhole, Held, Upto
<1>8. FramesInv
  <2>1. out \in [TxPort -> Seq(Frame)] /\ \A q \in TxPort : Len(out[q]) = 0
    OBVIOUS
  <2>2. SetsType /\ Released /\ MarkInv
    BY DEF SetsType, MarkType, Released, MarkInv
  <2>3. NoTwin /\ OwnTag /\ SentInv
    BY <2>1 DEF NoTwin, OwnTag, SentInv
  <2> QED BY <2>1, <2>2, <2>3 DEF FramesInv, OutType
<1> QED
  BY <1>1, <1>2, <1>3, <1>4, <1>5, <1>6, <1>7, <1>8 DEF MirrorInv

LEMMA MirrorNext == MirrorInv /\ [Next]_vars => MirrorInv'
<1> SUFFICES ASSUME MirrorInv, [Next]_vars
             PROVE  MirrorInv'
  OBVIOUS
<1>1. TypeOK
  BY TypesAre
<1>2. /\ ControlType /\ PortsType /\ BatchType /\ RxType
      /\ LifeInv /\ ListInv /\ PathInv /\ TwoPorts
      /\ BatchInv /\ PoolWhole /\ FramesInv
  BY DEF MirrorInv, BatchType
<1>3. /\ ControlType' /\ PortsType' /\ LifeInv' /\ ListInv' /\ PathInv'
  BY <1>1, <1>2, ControlStep, PortsStep, LifeStep, ListStep, PathStep
<1>4. TwoPorts' /\ BatchType' /\ BatchInv' /\ PoolWhole' /\ FramesInv'
  BY <1>1, <1>2, TwoPortsStep, BatchStep, FramesStep
<1> QED BY <1>3, <1>4 DEF MirrorInv

LEMMA MirrorAlways == Spec => []MirrorInv
  BY MirrorInit, MirrorNext, PTL DEF Spec

-----------------------------------------------------------------------------
(* The theorems. *)

(* Every variable keeps its type for any pool and burst: in particular the  *)
(* pool never gives more mbufs than it has and never gets one back twice    *)
(* (mirror_proc), and a batch is never longer than MAX_PKT_BURST.              *)
THEOREM TypeCorrect == Spec => []TypeOK
  BY MirrorAlways, TypesAre, PTL

(* mirror_proc loses no mbuf: each one of the pool is free, held, sent or   *)
(* lost with a process that was killed, and each received packet is sent or *)
(* freed, never both, however full the pool and the ports are.              *)
THEOREM MbufsCorrect == Spec => []MbufsKept
<1>1. MirrorInv => MbufsKept
  BY DEF MirrorInv, MbufsKept, FramesInv
<1> QED BY <1>1, MirrorAlways, PTL

(* Each port sends in the order of reception and never a packet with its    *)
(* copy, and with deep copies (or without VLAN operations) each frame has   *)
(* the tag of the port it leaves by, whatever commands do to the ports.     *)
THEOREM FramesCorrect == Spec => []FramesRight
<1>1. MirrorInv => FramesRight
  BY DEF MirrorInv, FramesRight, FramesInv
<1> QED BY <1>1, MirrorAlways, PTL

(* When a command has been answered, spp_flush has put it in force: both    *)
(* core lists and the path the worker uses are the registered ones, and no  *)
(* burst of a stopped component goes on.                                    *)
THEOREM AllInForce == Spec => []InForce
<1>1. MirrorInv => InForce
  <2> SUFFICES ASSUME MirrorInv, Settled
               PROVE  /\ listed[coreRef] = comp.used
                      /\ listed[coreUpd] = comp.used
                      /\ comp.used => Used = comp
                      /\ wpc \in {"enter", "copy", "mirror", "orig", "discard"}
                           => comp.used
    BY DEF InForce
  <2>1. /\ mpc = "command" /\ ~chgCore /\ ~chgComp
        /\ coreRef \in Area /\ coreUpd \in Area
    BY DEF Settled, MirrorInv, ControlType
  <2>2. \A k \in Area : listed[k] = comp.used
    BY <2>1 DEF MirrorInv, ListInv
  <2>3. comp.used => Used = comp
    BY <2>1 DEF MirrorInv, PathInv, Used
  <2>4. Working => listed[coreRef]
    BY DEF MirrorInv, ListInv
  <2> QED BY <2>1, <2>2, <2>3, <2>4 DEF Working
<1> QED BY <1>1, MirrorAlways, PTL

(* Neither spp_mirror_update nor change_mirror_index changes the ports of a *)
(* burst that mirror_proc has begun.                                        *)
THEOREM BurstsStable == Spec => BurstStable
<1> DEFINE Kept == bufs # << >> /\ bufs' # << >> => Used' = Used
<1>1. MirrorInv /\ [Next]_vars => [Kept]_vars
  <2> SUFFICES ASSUME MirrorInv, [Next]_vars
               PROVE  Kept
    OBVIOUS
  <2>1. TypeOK /\ RxType /\ LifeInv /\ PathInv /\ BatchInv
    BY TypesAre DEF MirrorInv, BatchType
  <2>2. bufs # << >> => Bursting
    BY <2>1 DEF BatchInv
  <2>3. CASE Apart
    BY <2>2, <2>3 DEF Apart
  <2>4. ASSUME NEW n \in Nat, Received(n)
        PROVE  Kept
    BY <2>2, <2>4 DEF Received, Bursting
  <2>5. CASE Copy \/ SendCopies \/ SendOriginals \/ Discard \/ Consume
    BY <2>5 DEF Copy, SendCopies, SendOriginals, Discard, Consume, Kill,
       pathVars, Used
  <2>6. CASE Kill
    BY <2>6 DEF Kill
  <2> QED BY <2>1, <2>3, <2>4, <2>5, <2>6, ApartOrNot
<1> QED BY <1>1, MirrorAlways, PTL DEF Spec, BurstStable
=============================================================================
