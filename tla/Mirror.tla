------------------------------- MODULE Mirror -------------------------------
(***************************************************************************)
(* The spp_mirror process: a worker lcore receives packets from one port,  *)
(* sends the originals to the first transmit port of the component and     *)
(* copies, made of mbufs of a pool of its own, to the second, while the    *)
(* main thread updates the component's ports with the double buffer that   *)
(* spp_vf uses too.  The pool lives in the memory of spp_primary: it       *)
(* outlasts the process, and a later process finds it by name.             *)
(*                                                                         *)
(* Abstractions: one component and one worker lcore; a packet is a number  *)
(* in the order of reception; an mbuf is counted, not named; a port accepts *)
(* any part of a burst; whoever takes copies from the second port frees    *)
(* them at any time.  Failing devices and signals are those of SppVf.      *)
(***************************************************************************)
EXTENDS Naturals, Sequences

CONSTANTS
    RxPort, TxPort,  \* the ports that commands name, by direction
    PoolSize,        \* nb_mbufs of the pool
    Burst,           \* MAX_PKT_BURST
    MaxSeg,          \* the longest mbuf chain of a packet
    Tagged,          \* the transmit ports with an add_vlantag operation
    Faults,          \* {"kill"} if the process may be killed
    MaxPacket,       \* bound: packets that arrive
    MaxCommand,      \* bound: accepted commands
    MaxLaunch        \* bound: how often the process is started

ASSUME SizeAssumption == /\ PoolSize \in Nat
                         /\ Burst \in Nat \ {0}
                         /\ MaxSeg \in Nat \ {0}
ASSUME BoundAssumption == /\ MaxPacket \in Nat
                          /\ MaxCommand \in Nat
                          /\ MaxLaunch \in Nat \ {0}
ASSUME TagAssumption == Tagged \subseteq TxPort
ASSUME FaultAssumption == Faults \subseteq {"kill"}

Packet == 1 .. MaxPacket
Area   == 0 .. 1
Dir    == {"rx", "tx"}
PortOf(d) == IF d = "rx" THEN RxPort ELSE TxPort

VARIABLES
    deep,       \* was the program built without SPP_MIRROR_SHALLOWCOPY
    mpc,        \* where main() is
    core,       \* g_core_info[].status of the worker
    coreRef, coreUpd, listed,  \* ref_index, upd_index and the two core lists:
                               \* is the component in them
    comp,       \* g_component_info of the component
    chgCore, chgComp,          \* g_change_core, g_change_component
    ref, upd, path,            \* g_mirror_info of the component
    wpc,        \* where the worker is in slave_main and mirror_proc
    bufs, copies, nb1, nb2,    \* locals of mirror_proc; copies[k] is the number
                               \* of mbufs in the first k copies
    pool,       \* free mbufs of g_mirror_pool
    abroad,     \* mbufs of the pool that were sent and not yet freed
    stranded,   \* mbufs of the pool that a killed process held
    out,        \* what each port has accepted
    marked,     \* the packets and copies whose data has a tag written to it
    freed,      \* received packets whose mbuf was freed
    killed,     \* received packets that a killed process held
    rx, ncmd, nlaunch          \* packets, commands, launches so far

coreVars == <<core, coreRef, coreUpd, listed>>
regVars  == <<comp, chgCore, chgComp>>
pathVars == <<ref, upd, path>>
batchVars == <<bufs, copies, nb1, nb2>>
mbufVars == <<pool, abroad, stranded, out, marked, freed, killed, rx>>
countVars == <<ncmd, nlaunch>>
vars == <<deep, mpc, coreVars, regVars, pathVars, wpc, batchVars, mbufVars,
          countVars>>

NoPath == [used |-> FALSE, rx |-> << >>, tx |-> << >>]
Path   == [used : BOOLEAN, rx : Seq(RxPort), tx : Seq(TxPort)]
Lesser(m, n)  == IF m <= n THEN m ELSE n
Greater(m, n) == IF m >= n THEN m ELSE n

-----------------------------------------------------------------------------
(* Start of the process: init_mng_data, mirror_proc_init and the globals.   *)

Init ==
    /\ deep \in BOOLEAN
    /\ core = "stop"
    /\ coreRef = 0 /\ coreUpd = 1
    /\ listed = [k \in Area |-> FALSE]
    /\ comp = NoPath
    /\ chgCore = FALSE /\ chgComp = FALSE
    /\ ref = 0 /\ upd = 1
    /\ path = [k \in Area |-> NoPath]
    /\ wpc = "none"
    /\ bufs = << >> /\ copies = << >>
    /\ nb1 = 0 /\ nb2 = 0
    /\ mpc = "init"
    /\ pool = PoolSize /\ abroad = 0 /\ stranded = 0
    /\ out = [p \in TxPort |-> << >>]
    /\ marked = {} /\ freed = {} /\ killed = {}
    /\ rx = 0 /\ ncmd = 0 /\ nlaunch = 1

(* parse_app_args: the mandatory options are there, all options convert.    *)
Option    == {"client-id", "server", "vhost-client"}
Mandatory == {"client-id", "server"}
ParseAppArgs(args) == /\ \A o \in Option : args[o] # "bad"
                      /\ \A o \in Mandatory : args[o] = "good"

(* mirror_pool_create takes a pool that is there as it is.                  *)
StartUp ==
    /\ mpc = "init"
    /\ \E args \in [Option -> {"absent", "good", "bad"}],
          resources \in BOOLEAN :
         IF ParseAppArgs(args) /\ resources
         THEN mpc' = "wait_idle" /\ wpc' = "launched"
         ELSE mpc' = "exited" /\ UNCHANGED wpc
    /\ UNCHANGED <<deep, coreVars, regVars, pathVars, batchVars, mbufVars,
                   countVars>>

StartForwarding ==
    /\ mpc = "wait_idle"
    /\ core = "idle"
    /\ core' = "forward"
    /\ chgCore' = FALSE /\ chgComp' = FALSE
    /\ mpc' = "command"
    /\ UNCHANGED <<deep, coreRef, coreUpd, listed, comp, pathVars, wpc,
                   batchVars, mbufVars, countVars>>

(* The exit command: a worker in a burst finishes it first.                 *)
Exit ==
    /\ mpc = "command"
    /\ core' = "stop_request"
    /\ mpc' = "wait_stop"
    /\ UNCHANGED <<deep, coreRef, coreUpd, listed, regVars, pathVars, wpc,
                   batchVars, mbufVars, countVars>>

WaitStop ==
    /\ mpc = "wait_stop"
    /\ core = "stop"
    /\ mpc' = "exited"
    /\ UNCHANGED <<deep, coreVars, regVars, pathVars, wpc, batchVars,
                   mbufVars, countVars>>

(* The mbufs of the first k copies, and of those that were not sent.        *)
Upto(k) == IF k = 0 THEN 0 ELSE copies[k]
Held == Upto(Len(copies)) - Upto(nb2)

(* What a process that dies holds never comes back.                         *)
Kill ==
    /\ mpc \notin {"init", "exited"}
    /\ mpc' = "exited"
    /\ stranded' = stranded + Held
    /\ killed' = killed \cup {bufs[k] : k \in 1 .. Len(bufs)}
    /\ bufs' = << >> /\ copies' = << >> /\ nb1' = 0 /\ nb2' = 0
    /\ wpc' = "none"
    /\ UNCHANGED <<deep, coreVars, regVars, pathVars, pool, abroad, out,
                   marked, freed, rx, countVars>>

Killed == "kill" \in Faults /\ Kill

Relaunch ==
    /\ mpc = "exited"
    /\ nlaunch < MaxLaunch
    /\ nlaunch' = nlaunch + 1
    /\ mpc' = "init"
    /\ core' = "stop"
    /\ coreRef' = 0 /\ coreUpd' = 1
    /\ listed' = [k \in Area |-> FALSE]
    /\ comp' = NoPath
    /\ chgCore' = FALSE /\ chgComp' = FALSE
    /\ ref' = 0 /\ upd' = 1
    /\ path' = [k \in Area |-> NoPath]
    /\ wpc' = "none"
    /\ UNCHANGED batchVars
    /\ UNCHANGED <<deep, mbufVars, ncmd>>

Exited ==
    /\ mpc = "exited"
    /\ UNCHANGED vars

-----------------------------------------------------------------------------
(* Commands, as in spp_vf: each changes the registered configuration and    *)
(* the core list that is not in use, and goes on to spp_flush.              *)

Accepted ==
    /\ mpc = "command"
    /\ ncmd < MaxCommand
    /\ ncmd' = ncmd + 1
    /\ mpc' = "core_request"
    /\ UNCHANGED <<deep, core, coreRef, coreUpd, pathVars, wpc, batchVars,
                   mbufVars, nlaunch>>

Start ==
    /\ ~comp.used
    /\ comp' = [NoPath EXCEPT !.used = TRUE]
    /\ listed' = [listed EXCEPT ![coreUpd] = TRUE]
    /\ chgCore' = TRUE /\ chgComp' = TRUE
    /\ Accepted

Stop ==
    /\ comp.used
    /\ comp' = NoPath
    /\ listed' = [listed EXCEPT ![coreUpd] = FALSE]
    /\ chgCore' = TRUE /\ chgComp' = FALSE
    /\ Accepted

(* check_port_count: one port to receive from and two to transmit to.       *)
RoomFor(d) == comp.used /\ Len(comp[d]) < (IF d = "rx" THEN 1 ELSE 2)

Holds(d, p) == \E k \in 1 .. Len(comp[d]) : comp[d][k] = p

PortAdd(d, p) ==
    /\ RoomFor(d)
    /\ ~Holds(d, p)
    /\ comp' = [comp EXCEPT ![d] = Append(@, p)]
    /\ chgComp' = TRUE
    /\ UNCHANGED <<listed, chgCore>>
    /\ Accepted

(* The ports behind it move up: the mirror port may become the first.       *)
Closed(s, k) == [j \in 1 .. Len(s) - 1 |-> IF j < k THEN s[j] ELSE s[j + 1]]

PortDel(d, p) ==
    /\ comp.used
    /\ \/ \E k \in 1 .. Len(comp[d]) :
             /\ comp[d][k] = p
             /\ comp' = [comp EXCEPT ![d] = Closed(@, k)]
       \/ ~Holds(d, p) /\ UNCHANGED comp
    /\ chgComp' = TRUE
    /\ UNCHANGED <<listed, chgCore>>
    /\ Accepted

Command == \/ Start \/ Stop
           \/ \E d \in Dir : \E p \in PortOf(d) : PortAdd(d, p) \/ PortDel(d, p)

-----------------------------------------------------------------------------
(* spp_flush: flush_core and, if the component is flagged, spp_mirror_update. *)
(* The port counts that spp_mirror_update refuses are those RoomFor does.   *)

CoreRequest ==
    /\ mpc = "core_request"
    /\ coreUpd' = IF chgCore THEN coreRef ELSE coreUpd
    /\ mpc' = "core_wait"
    /\ UNCHANGED <<deep, core, coreRef, listed, regVars, pathVars, wpc,
                   batchVars, mbufVars, countVars>>

CoreCopy ==
    /\ mpc = "core_wait"
    /\ coreRef # coreUpd
    /\ listed' = IF chgCore THEN [listed EXCEPT ![coreUpd] = listed[coreRef]]
                 ELSE listed
    /\ IF chgComp
       THEN mpc' = "write" /\ UNCHANGED <<chgCore, chgComp>>
       ELSE mpc' = "command" /\ chgCore' = FALSE /\ chgComp' = FALSE
    /\ UNCHANGED <<deep, core, coreRef, coreUpd, comp, pathVars, wpc,
                   batchVars, mbufVars, countVars>>

(* Mutant: main writes the area the worker looks at.                        *)
WriteInPlace ==
    /\ mpc = "write"
    /\ path' = [path EXCEPT ![ref] = comp]
    /\ upd' = ref
    /\ mpc' = "wait"
    /\ UNCHANGED <<deep, coreVars, regVars, ref, wpc, batchVars, mbufVars,
                   countVars>>

(* The area is main's until the next step: both are one.                    *)
Write ==
    /\ mpc = "write"
    /\ path' = [path EXCEPT ![upd] = comp]
    /\ upd' = ref
    /\ mpc' = "wait"
    /\ UNCHANGED <<deep, coreVars, regVars, ref, wpc, batchVars, mbufVars,
                   countVars>>

(* Mutant: main does not wait.                                              *)
NotAwaited == TRUE

Switched == ref # upd

WaitSwitch ==
    /\ mpc = "wait"
    /\ Switched
    /\ mpc' = "command"
    /\ chgCore' = FALSE /\ chgComp' = FALSE
    /\ UNCHANGED <<deep, coreVars, comp, pathVars, wpc, batchVars, mbufVars,
                   countVars>>

Flush == CoreRequest \/ CoreCopy \/ Write \/ WaitSwitch

-----------------------------------------------------------------------------
(* slave_main.                                                              *)

WorkerStart ==
    /\ wpc = "launched"
    /\ core' = "idle"
    /\ wpc' = "top"
    /\ UNCHANGED <<deep, mpc, coreRef, coreUpd, listed, regVars, pathVars,
                   batchVars, mbufVars, countVars>>

WorkerStop ==
    /\ wpc = "top"
    /\ core = "stop_request"
    /\ core' = "stop"
    /\ wpc' = "none"
    /\ UNCHANGED <<deep, mpc, coreRef, coreUpd, listed, regVars, pathVars,
                   batchVars, mbufVars, countVars>>

(* ref_index after spp_check_core_update or change_mirror_index.            *)
Flipped(r, u) == IF r = u THEN 1 - u ELSE r

WorkerTop ==
    LET r == Flipped(coreRef, coreUpd) IN
    /\ wpc = "top"
    /\ core = "forward"
    /\ coreRef' = r
    /\ wpc' = IF listed[r] THEN "enter" ELSE "top"
    /\ UNCHANGED <<deep, mpc, core, coreUpd, listed, regVars, pathVars,
                   batchVars, mbufVars, countVars>>

(* mirror_proc.  The ports it uses are those of this area to its end.       *)
Runnable(q) == Len(q.tx) = 2 /\ Len(q.rx) = 1
Used == path[ref]

(* Mutant: the copies go where the packets go.                              *)
MirrorPortFirst == Used.tx[1]

MirrorPort == Used.tx[2]
OriginalPort == Used.tx[1]

Enter ==
    LET r == Flipped(ref, upd) IN
    /\ wpc = "enter"
    /\ ref' = r
    /\ \E n \in 0 .. Lesser(Burst, MaxPacket - rx) :
         IF Runnable(path[r]) /\ n > 0
         THEN /\ bufs' = [k \in 1 .. n |-> rx + k]
              /\ rx' = rx + n
              /\ wpc' = "copy"
         ELSE wpc' = "top" /\ UNCHANGED <<bufs, rx>>
    /\ UNCHANGED <<deep, mpc, coreVars, regVars, upd, path, copies, nb1, nb2,
                   pool, abroad, stranded, out, marked, freed, killed,
                   countVars>>

(* Mutant: the mbufs of a copy that cannot be completed are lost.           *)
AllocatedLost(n) == Lesser(n, pool)

(* Mutant: the failed allocation goes unnoticed.                            *)
AllocatedUnchecked(n) == n

(* What a copy of n mbufs takes from the pool: all of them, or none.        *)
Allocated(n) == IF n <= pool THEN n ELSE 0

Copy ==
    /\ wpc = "copy"
    /\ Len(copies) < Len(bufs)
    /\ \E n \in 1 .. MaxSeg :
         /\ pool' = pool - Allocated(n)
         /\ copies' = Append(copies, Upto(Len(copies))
                                       + (IF n <= pool THEN n ELSE 0))
    /\ wpc' = IF Len(copies') = Len(bufs) THEN "mirror" ELSE "copy"
    /\ UNCHANGED <<deep, mpc, coreVars, regVars, pathVars, bufs, nb1, nb2,
                   abroad, stranded, out, marked, freed, killed, rx,
                   countVars>>

(* Whose data an operation on an mbuf of this kind rewrites: a clone has    *)
(* the data of the packet.                                                  *)
Shares(kind) == IF deep THEN {kind} ELSE {"orig", "copy"}

(* spp_eth_tx_burst: the operation of the port is applied to the whole      *)
(* burst, then the port accepts the first n.                                *)
Sent(p, kind, n) ==
    /\ out' = [out EXCEPT ![p] = @ \o [k \in 1 .. n |->
                                         [pkt |-> bufs[k], kind |-> kind]]]
    /\ marked' = IF p \in Tagged
                 THEN marked \cup ({bufs[k] : k \in 1 .. Len(bufs)}
                                     \X Shares(kind))
                 ELSE marked

(* A NULL among the accepted ones: here the ports that drop it without harm *)
(* are modelled; drivers that follow the pointer crash, which is Kill.      *)
Null(n) == \E k \in 1 .. n : Upto(k) = Upto(k - 1)

SendCopies ==
    /\ wpc = "mirror"
    /\ \E n \in 0 .. Len(copies) :
         \/ /\ Sent(MirrorPort, "copy", n)
            /\ nb2' = n
            /\ abroad' = abroad + Upto(n)
            /\ wpc' = "orig"
            /\ UNCHANGED <<mpc, bufs, copies, nb1, stranded, killed>>
         \/ Null(n) /\ Kill /\ UNCHANGED <<out, marked>>
    /\ UNCHANGED <<deep, coreVars, regVars, pathVars, pool, freed, rx,
                   countVars>>

SendOriginals ==
    /\ wpc = "orig"
    /\ \E n \in 0 .. Len(bufs) :
         /\ Sent(OriginalPort, "orig", n)
         /\ nb1' = n
    /\ wpc' = "discard"
    /\ UNCHANGED <<deep, mpc, coreVars, regVars, pathVars, bufs, copies, nb2,
                   pool, abroad, stranded, freed, killed, rx, countVars>>

(* Where the packets to free begin: behind the longer of both bursts.       *)
FirstDiscarded == Greater(nb1, nb2) + 1

Discard ==
    /\ wpc = "discard"
    /\ freed' = freed \cup {bufs[k] : k \in FirstDiscarded .. Len(bufs)}
    /\ pool' = pool + Held
    /\ bufs' = << >> /\ copies' = << >> /\ nb1' = 0 /\ nb2' = 0
    /\ wpc' = "top"
    /\ UNCHANGED <<deep, mpc, coreVars, regVars, pathVars, abroad, stranded,
                   out, marked, killed, rx, countVars>>

(* Who received copies frees an mbuf.                                       *)
Consume ==
    /\ abroad > 0
    /\ abroad' = abroad - 1
    /\ pool' = pool + 1
    /\ UNCHANGED <<deep, mpc, coreVars, regVars, pathVars, wpc, batchVars,
                   stranded, out, marked, freed, killed, rx, countVars>>

MirrorProc == Enter \/ Copy \/ SendCopies \/ SendOriginals \/ Discard
Worker == WorkerStart \/ WorkerStop \/ WorkerTop \/ MirrorProc

MainStep == StartUp \/ StartForwarding \/ WaitStop \/ Flush

Next == \/ MainStep \/ Exit \/ Command \/ Worker
        \/ Consume \/ Killed \/ Relaunch \/ Exited

Spec == Init /\ [][Next]_vars

-----------------------------------------------------------------------------
TypeOK ==
    /\ mpc \in {"init", "wait_idle", "command", "core_request", "core_wait",
                "write", "wait", "wait_stop", "exited"}
    /\ core \in {"stop", "idle", "forward", "stop_request"}
    /\ {coreRef, coreUpd, ref, upd} \subseteq Area
    /\ listed \in [Area -> BOOLEAN]
    /\ comp \in Path /\ Len(comp.rx) <= 1 /\ Len(comp.tx) <= 2
    /\ path \in [Area -> Path]
    /\ {chgCore, chgComp, deep} \subseteq BOOLEAN
    /\ wpc \in {"none", "launched", "top", "enter", "copy", "mirror", "orig",
                "discard"}
    /\ bufs \in Seq(Packet) /\ copies \in Seq(0 .. PoolSize)
    /\ nb1 \in 0 .. Burst /\ nb2 \in 0 .. Burst
    /\ {pool, abroad, stranded} \subseteq 0 .. PoolSize
    /\ marked \subseteq Packet \X {"orig", "copy"}
    /\ freed \subseteq 1 .. rx /\ killed \subseteq 1 .. rx
    /\ ncmd \in 0 .. MaxCommand /\ nlaunch \in 1 .. MaxLaunch

(* Every mbuf of the pool is free, held by the burst, or sent, except those *)
(* a killed process held: neither failed allocations nor bursts of unequal  *)
(* length lose one, so that a pool that is found again is whole.            *)
PoolWhole == pool + Held + abroad + stranded = PoolSize

(* mirror_proc frees what neither port has taken.  A packet that the mirror *)
(* port has taken and the other has not is the one case that it forgets     *)
(* (the two results are compared, and the greater is where it begins), and  *)
(* no packet is both sent and freed.                                        *)
IsSent(p, kind) == \E q \in TxPort : \E k \in 1 .. Len(out[q]) :
                      out[q][k] = [pkt |-> p, kind |-> kind]
InBurst(p) == \E k \in 1 .. Len(bufs) : bufs[k] = p

Released ==
    \A p \in 1 .. rx \ killed : ~InBurst(p) =>
        /\ ~(IsSent(p, "orig") /\ p \in freed)
        /\ IsSent(p, "orig") \/ p \in freed \/ IsSent(p, "copy")

(* A port gets what it gets in the order of reception and never both a      *)
(* packet and its copy, although commands can make the mirror port the      *)
(* first one between two bursts.                                            *)
NoTwin == \A q \in TxPort : \A k \in 1 .. Len(out[q]) - 1 :
              out[q][k].pkt < out[q][k + 1].pkt

(* "Choose deepcopy if you use VLAN feature": with deep copies, or without  *)
(* VLAN operations, each frame has the tag of the port it was sent to.      *)
OwnTag ==
    deep \/ Tagged = {} =>
        \A q \in TxPort : \A k \in 1 .. Len(out[q]) :
            (q \in Tagged) <=> <<out[q][k].pkt, out[q][k].kind>> \in marked

(* The mbufs: each is in one place, and each packet gets a fate.            *)
MbufsKept == PoolWhole /\ Released

(* The frames: what leaves a port is in order and is its own.               *)
FramesRight == NoTwin /\ OwnTag

(* The answer to a command comes when the worker uses the registered ports: *)
(* also its current burst goes to them, and "status" shows them.            *)
Settled == mpc = "command" /\ ~chgCore /\ ~chgComp

InForce ==
    Settled => /\ listed[coreRef] = comp.used
               /\ listed[coreUpd] = comp.used
               /\ comp.used => Used = comp
               /\ wpc \in {"enter", "copy", "mirror", "orig", "discard"}
                    => comp.used

(* Neither a command nor the switch changes the ports of a burst.           *)
BurstStable == [][bufs # << >> /\ bufs' # << >> => Used' = Used]_vars
=============================================================================
