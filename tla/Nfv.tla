-------------------------------- MODULE Nfv --------------------------------
(***************************************************************************)
(* The spp_nfv process: the main thread takes commands that add, delete    *)
(* and patch ports, and one or more worker lcores walk ports_fwd_array and *)
(* move packets along the patches.  They share cmd, ports_fwd_array and    *)
(* port_map without locks or copies.                                       *)
(*                                                                         *)
(* Abstractions: packets are left out, a worker that receives or sends on  *)
(* a port is at "rx" or "tx"; what the drivers refuse is one failure per   *)
(* device.  The connection to the controller is in the module Ctl.         *)
(***************************************************************************)
EXTENDS Naturals, FiniteSets

CONSTANTS
    Worker,       \* the slave lcores, each runs nfv_loop
    MaxPort,      \* RTE_MAX_ETHPORTS, of ports_fwd_array and of the devices
    PhyCnt,       \* devices that are there at start-up
    Resource,     \* the resources that add, del and patch commands name
    ClientId,     \* the ids that _set_client_id commands carry
    Faults,       \* {"device"} if a device may fail when it is configured
    MaxCommand    \* bound: commands that change something

PortType == {"phy", "ring", "vhost", "pcap", "nullpmd"}
Uid == [type : PortType \cup {"undef"}, no : Nat]

ASSUME PortAssumption == /\ MaxPort \in Nat \ {0}
                         /\ PhyCnt \in 0 .. MaxPort
ASSUME ResourceAssumption == Resource \subseteq Uid
ASSUME WorkerAssumption == IsFiniteSet(Worker)
ASSUME FaultAssumption == Faults \subseteq {"device"}
ASSUME BoundAssumption == MaxCommand \in Nat /\ ClientId \subseteq Nat

Port   == 0 .. MaxPort - 1
NoPort == MaxPort                                 \* PORT_RESET
NoUid  == [type |-> "undef", no |-> MaxPort]      \* ... as an id
Phy(i) == [type |-> "phy", no |-> i]

VARIABLES
    mpc,      \* where main() is
    deleted,  \* the port that do_del is about to take out of the tables
    cmd,      \* the word the workers look at
    dev,      \* rte_eth_devices: what is attached at each id, and its state
    fwd,      \* ports_fwd_array: is in_port_id set, and out_port_id
    map,      \* port_map[].id and port_type
    client,   \* client_id
    wpc, wi, wout,  \* each worker's place in forward(), i and out_port
    ncmd,     \* commands so far
    stale,    \* workers whose pass over the array began before a deletion
    patched,  \* the device each port was last patched to
    fanin     \* a port was deleted that two ports were patched to

tableVars  == <<fwd, map>>
workerVars == <<wpc, wi, wout>>
histVars   == <<stale, patched, fanin>>
vars == <<mpc, deleted, cmd, dev, tableVars, client, workerVars, ncmd,
          histVars>>

NoDevice == [uid |-> NoUid, state |-> "absent"]
Device   == [uid : Resource \cup {NoUid} \cup {Phy(i) : i \in Port},
             state : {"absent", "idle", "started", "closed"}]

Lowest(S)   == CHOOSE i \in S : \A j \in S : i <= j
Attached(u) == {i \in Port : dev[i].uid = u}
FreeIds     == {i \in Port : dev[i].state = "absent"}

(* find_port_id.                                                            *)
PortIds(u)  == {i \in Port : map[i] = u}
PortId(u)   == IF PortIds(u) = {} THEN NoPort ELSE Lowest(PortIds(u))

(* is_valid_port: no command passes an id between RTE_MAX_ETHPORTS and      *)
(* PORT_RESET, for which its test would be off by one.                      *)
ValidPort(i) == i # NoPort /\ map[i].no # NoUid.no

Unpatched == [in |-> FALSE, out |-> NoPort]

Init ==
    /\ mpc = "init"
    /\ deleted = NoPort
    /\ cmd = "stop"
    /\ dev = [i \in Port |-> IF i < PhyCnt
                             THEN [uid |-> Phy(i), state |-> "started"]
                             ELSE NoDevice]
    /\ fwd = [i \in Port |-> Unpatched]
    /\ map = [i \in Port |-> NoUid]
    /\ client = 0
    /\ wpc = [w \in Worker |-> "none"]
    /\ wi = [w \in Worker |-> 0]
    /\ wout = [w \in Worker |-> NoPort]
    /\ ncmd = 0
    /\ stale = {}
    /\ patched = [i \in Port |-> NoUid]
    /\ fanin = FALSE

(* main(): parse_app_args succeeds and the memzone of the primary is there. *)
StartUp ==
    /\ mpc = "init"
    /\ \/ /\ mpc' = "loop"
          /\ fwd' = [i \in Port |-> [Unpatched EXCEPT !.in = (i < PhyCnt)]]
          /\ map' = [i \in Port |-> IF i < PhyCnt THEN Phy(i) ELSE NoUid]
          /\ wpc' = [w \in Worker |-> "top"]
       \/ mpc' = "exited" /\ UNCHANGED <<tableVars, wpc>>
    /\ UNCHANGED <<deleted, cmd, dev, client, wi, wout, ncmd, histVars>>

-----------------------------------------------------------------------------
(* Commands.  The controller gets the same kind of answer whether they fail *)
(* or not, so that a failure only shows in "status".                        *)

TakeCommand ==
    /\ mpc = "loop"
    /\ ncmd < MaxCommand
    /\ ncmd' = ncmd + 1

StopOrForward ==
    /\ TakeCommand
    /\ cmd' \in {"stop", "forward"} \ {cmd}
    /\ UNCHANGED <<mpc, deleted, dev, tableVars, client, workerVars, histVars>>

SetClientId ==
    /\ mpc = "loop"
    /\ client' \in ClientId
    /\ UNCHANGED <<mpc, deleted, cmd, dev, tableVars, workerVars, ncmd,
                   histVars>>

(* The workers end with the process.                                        *)
Exit ==
    /\ mpc = "loop"
    /\ cmd' = "stop"
    /\ mpc' = "exited"
    /\ UNCHANGED <<deleted, dev, tableVars, client, workerVars, ncmd, histVars>>

(* do_add, when the device has id i.  An entry that was there keeps its     *)
(* patch.                                                                   *)
Registered(i, u) ==
    /\ map' = [map EXCEPT ![i] = u]
    /\ fwd' = [fwd EXCEPT ![i].in = TRUE]

(* add_ring_pmd: a ring that was closed is started again.                   *)
RingIds(u) == IF Attached(u) # {} THEN Attached(u)
              ELSE IF FreeIds = {} THEN {} ELSE {Lowest(FreeIds)}

AddRing(u) ==
    /\ u.type = "ring"
    /\ TakeCommand
    /\ \E i \in RingIds(u) :
          /\ dev' = [dev EXCEPT ![i] = [uid |-> u, state |-> "started"]]
          /\ Registered(i, u)
    /\ UNCHANGED <<mpc, deleted, cmd, client, workerVars, histVars>>

(* add_vhost_pmd, add_pcap_pmd and add_null_pmd.  The bus refuses a name    *)
(* that is attached.                                                        *)
Plugged == {"vhost", "pcap", "nullpmd"}
CanPlug(u) == u.type \in Plugged /\ Attached(u) = {} /\ FreeIds # {}

AddPlugged(u) ==
    /\ CanPlug(u)
    /\ TakeCommand
    /\ LET i == Lowest(FreeIds) IN
          /\ dev' = [dev EXCEPT ![i] = [uid |-> u, state |-> "started"]]
          /\ Registered(i, u)
    /\ UNCHANGED <<mpc, deleted, cmd, client, workerVars, histVars>>

(* Attached, but it cannot be configured or started: the device stays.      *)
AddHalfway(u) ==
    /\ "device" \in Faults
    /\ CanPlug(u)
    /\ TakeCommand
    /\ dev' = [dev EXCEPT ![Lowest(FreeIds)] = [uid |-> u, state |-> "idle"]]
    /\ UNCHANGED <<mpc, deleted, cmd, tableVars, client, workerVars, histVars>>

AddRefused(u) ==
    /\ IF u.type = "ring" THEN RingIds(u) = {}
       ELSE u.type \in Plugged /\ ~CanPlug(u)
    /\ TakeCommand
    /\ UNCHANGED <<mpc, deleted, cmd, dev, tableVars, client, workerVars,
                   histVars>>

(* Any other type: the result of the parser, 0, is taken for the port id.   *)
AddOther(u) ==
    /\ u.type = "phy"
    /\ TakeCommand
    /\ Registered(0, [type |-> "undef", no |-> u.no])
    /\ UNCHANGED <<mpc, deleted, cmd, dev, client, workerVars, histVars>>

(* do_del.  The workers are told to stop, and not waited for: the device is *)
(* closed or detached at once, a vhost stays as it is.                      *)
DeviceAfterDel(i) ==
    CASE map[i].type = "vhost" -> dev[i]
      [] map[i].type = "ring"  -> [dev[i] EXCEPT !.state = "closed"]
      [] OTHER                 -> NoDevice

Del(u) ==
    /\ u.type # "phy"
    /\ TakeCommand
    /\ cmd' = "stop"
    /\ LET i == PortId(u) IN
       IF i = NoPort THEN UNCHANGED <<mpc, deleted, dev>>
       ELSE /\ dev' = [dev EXCEPT ![i] = DeviceAfterDel(i)]
            /\ mpc' = "unpatch"
            /\ deleted' = i
    /\ UNCHANGED <<tableVars, client, workerVars, histVars>>

(* "del phy:0" writes to the tables at index PORT_RESET: the process dies   *)
(* of it, or some other memory has changed.                                 *)
DelOther(u) ==
    /\ u.type = "phy"
    /\ TakeCommand
    /\ cmd' = "stop"
    /\ mpc' \in {"loop", "exited"}
    /\ UNCHANGED <<deleted, dev, tableVars, client, workerVars, histVars>>

PatchedTo(i) == {j \in Port \ {i} : fwd[j].in /\ fwd[j].out = i}

(* Mutant: patches to the deleted port are left alone.                      *)
FirstPatchedNone(i) == {}

(* forward_array_remove stops at the first port patched to the deleted one. *)
FirstPatched(i) == IF PatchedTo(i) = {} THEN {} ELSE {Lowest(PatchedTo(i))}

(* Mutant: the entry of the deleted port is kept.                           *)
EntryAfterDelKept(i) == fwd[i]

EntryAfterDel(i) == Unpatched

(* port_map_init_one.                                                       *)
NameAfterDel(i) == NoUid

(* forward_array_remove and port_map_init_one.                              *)
DelUnpatch ==
    /\ mpc = "unpatch"
    /\ fwd' = [j \in Port |->
                 IF j = deleted THEN EntryAfterDel(j)
                 ELSE IF j \in FirstPatched(deleted)
                      THEN [fwd[j] EXCEPT !.out = NoPort] ELSE fwd[j]]
    /\ map' = [map EXCEPT ![deleted] = NameAfterDel(deleted)]
    /\ fanin' = (fanin \/ Cardinality(PatchedTo(deleted)) > 1)
    /\ stale' = stale \cup {w \in Worker : wpc[w] # "top"}
    /\ mpc' = "loop"
    /\ deleted' = NoPort
    /\ UNCHANGED <<cmd, dev, client, workerVars, ncmd, patched>>

(* "patch": add_patch writes to both entries.                               *)
Patch(u, v) ==
    LET i == PortId(u)
        o == PortId(v)
    IN  /\ TakeCommand
        /\ ValidPort(i) /\ ValidPort(o)
        /\ fwd' = [fwd EXCEPT ![o].in = TRUE,
                               ![i] = [in |-> TRUE, out |-> o]]
        /\ patched' = [patched EXCEPT ![i] = dev[o].uid]
        /\ UNCHANGED <<mpc, deleted, cmd, dev, map, client, workerVars, stale,
                       fanin>>

PatchRefused(u, v) ==
    /\ TakeCommand
    /\ ~(ValidPort(PortId(u)) /\ ValidPort(PortId(v)))
    /\ UNCHANGED <<mpc, deleted, cmd, dev, tableVars, client, workerVars,
                   histVars>>

PatchReset ==
    /\ TakeCommand
    /\ fwd' = [i \in Port |-> IF fwd[i].in THEN [fwd[i] EXCEPT !.out = NoPort]
                              ELSE fwd[i]]
    /\ UNCHANGED <<mpc, deleted, cmd, dev, map, client, workerVars, histVars>>

(* The answer to "status".                                                  *)
PortNames  == {map[i] : i \in {j \in Port : fwd[j].in}}
PatchNames == {[src |-> map[i], dst |-> map[fwd[i].out]] :
                 i \in {j \in Port : fwd[j].in /\ fwd[j].out # NoPort}}
StatusReply ==
    [client  |-> client,
     status  |-> IF cmd = "forward" THEN "running" ELSE "idling",
     ports   |-> PortNames,
     patches |-> PatchNames]

Command ==
    \/ StopOrForward \/ SetClientId \/ Exit \/ PatchReset
    \/ \E u \in Resource :
          \/ AddRing(u) \/ AddPlugged(u) \/ AddHalfway(u) \/ AddRefused(u)
          \/ AddOther(u) \/ Del(u) \/ DelOther(u)
          \/ \E v \in Resource : Patch(u, v) \/ PatchRefused(u, v)

-----------------------------------------------------------------------------
(* nfv_loop and forward.                                                    *)

Alive == mpc \notin {"init", "exited"}

Place(w, place, i, o) ==
    /\ wpc' = [wpc EXCEPT ![w] = place]
    /\ wi' = [wi EXCEPT ![w] = i]
    /\ wout' = [wout EXCEPT ![w] = o]
    /\ UNCHANGED <<mpc, deleted, cmd, dev, tableVars, client, ncmd, patched,
                   fanin>>

(* Mutant: a pass ends at the first port that has no packets.               *)
NextPortEnds(w) ==
    Place(w, "top", 0, NoPort) /\ stale' = stale \ {w}

(* Mutant: the walk goes one entry too far.                                 *)
NextPortOver(w) ==
    IF wi[w] \in Port
    THEN Place(w, "scan", wi[w] + 1, NoPort) /\ UNCHANGED stale
    ELSE Place(w, "top", 0, NoPort) /\ stale' = stale \ {w}

NextPort(w) ==
    IF wi[w] + 1 \in Port
    THEN Place(w, "scan", wi[w] + 1, NoPort) /\ UNCHANGED stale
    ELSE Place(w, "top", 0, NoPort) /\ stale' = stale \ {w}

(* A worker that is to stop sleeps and looks again.                         *)
BeginPass(w) ==
    /\ wpc[w] = "top"
    /\ cmd = "forward"
    /\ Place(w, "scan", 0, NoPort)
    /\ UNCHANGED stale

SkipPort(w) ==
    /\ wpc[w] = "scan"
    /\ ~fwd[wi[w]].in \/ fwd[wi[w]].out = NoPort
    /\ NextPort(w)

TakePort(w) ==
    /\ wpc[w] = "scan"
    /\ fwd[wi[w]].in /\ fwd[wi[w]].out # NoPort
    /\ Place(w, "rx", wi[w], fwd[wi[w]].out)
    /\ UNCHANGED stale

Receive(w) ==
    /\ wpc[w] = "rx"
    /\ \/ Place(w, "tx", wi[w], wout[w]) /\ UNCHANGED stale
       \/ NextPort(w)

Send(w) ==
    /\ wpc[w] = "tx"
    /\ NextPort(w)

WorkerStep(w) ==
    /\ Alive
    /\ BeginPass(w) \/ SkipPort(w) \/ TakePort(w) \/ Receive(w) \/ Send(w)

Exited == mpc = "exited" /\ UNCHANGED vars

Next == \/ StartUp \/ Command \/ DelUnpatch \/ Exited
        \/ \E w \in Worker : WorkerStep(w)

Spec == Init /\ [][Next]_vars

(* Each thread has an lcore of its own; commands may never come.            *)
FairSpec == /\ Spec
            /\ WF_vars(DelUnpatch)
            /\ \A w \in Worker : WF_vars(WorkerStep(w))

-----------------------------------------------------------------------------
TypeOK ==
    /\ mpc \in {"init", "loop", "unpatch", "exited"}
    /\ deleted \in Port \cup {NoPort}
    /\ cmd \in {"stop", "forward"}
    /\ dev \in [Port -> Device]
    /\ fwd \in [Port -> [in : BOOLEAN, out : Port \cup {NoPort}]]
    /\ map \in [Port -> Uid]
    /\ client \in ClientId \cup {0}
    /\ wpc \in [Worker -> {"none", "top", "scan", "rx", "tx"}]
    /\ wi \in [Worker -> Port]
    /\ wout \in [Worker -> Port \cup {NoPort}]
    /\ ncmd \in 0 .. MaxCommand
    /\ stale \subseteq Worker /\ fanin \in BOOLEAN
    /\ patched \in [Port -> Uid]

(* Between commands the two tables agree: "status" lists exactly the ports  *)
(* that can be patched and deleted, under their names, and no two devices   *)
(* under one ...                                                            *)
TablesAgree ==
    mpc = "loop" =>
        /\ \A i \in Port : fwd[i].in <=> map[i].no # NoUid.no
        /\ Cardinality(StatusReply.ports) = Cardinality({i \in Port : fwd[i].in})

(* ... and each patch leads to the device it was made for, although port    *)
(* ids are used again.  The patches to a port that is deleted are removed,  *)
(* but for the second and later ones.                                       *)
PatchesLead ==
    mpc = "loop" /\ ~fanin =>
        \A i \in Port : fwd[i].out # NoPort =>
            /\ fwd[i].in
            /\ dev[fwd[i].out] = [uid |-> patched[i], state |-> "started"]

PortsRight == TablesAgree /\ PatchesLead

(* A worker receives and sends only on started devices, and sends to the    *)
(* device of the patch, except in the pass that a deletion came into.       *)
DeadOnlyInPass ==
    \A w \in Worker :
        Alive /\ wpc[w] \in {"rx", "tx"}
              /\ w \notin stale /\ mpc # "unpatch" /\ ~fanin
            => /\ dev[wi[w]].state = "started"
               /\ dev[wout[w]].state = "started"

(* A patch that stays is served for ever by every worker, whatever happens  *)
(* to the patches before it.                                                *)
Served ==
    \A w \in Worker, i \in Port :
        <>[](Alive /\ cmd = "forward" /\ fwd[i].in /\ fwd[i].out # NoPort)
            => []<>(wpc[w] = "rx" /\ wi[w] = i)
=============================================================================
