------------------------------- MODULE SppVf -------------------------------
(***************************************************************************)
(* The spp_vf process: one main thread that decodes commands and updates   *)
(* the registered configuration, and one worker thread per slave lcore     *)
(* that forwards packets with lock-free double-buffered copies of it.      *)
(*                                                                         *)
(* The main thread owns every upd_index, the workers own every ref_index.  *)
(* The main thread fills the area that no ref_index selects, asks for the  *)
(* switch by making upd_index equal to ref_index and spins until the       *)
(* worker has moved ref_index to the other area.                           *)
(*                                                                         *)
(* Abstractions: ports, component names and (vlan, MAC) classes are        *)
(* opaque values; port lists and the list of components of an lcore are    *)
(* sets (their order only orders polling); packets are left out, a worker  *)
(* that polls is in its "burst" step.                                      *)
(***************************************************************************)
EXTENDS Integers, FiniteSets

CONSTANTS
    Worker,        \* the slave lcores, each runs slave_main
    Main,          \* the lcore of the main thread
    SpareLcore,    \* lcore ids that EAL did not start (SPP_CORE_UNUSE)
    StartLcore,    \* the lcores that "component start" commands name
    StartType,     \* ... and the types
    Name, NoName,  \* component names, and the empty one
    Port, PhyPort, \* all ports, and those present at start-up (NICs)
    Class, NoClass,\* (vlan, MAC) pairs of classifier_table, and "not set"
    Tags,          \* the vlan forms of "port add" that commands use
    MaxComponent,  \* RTE_MAX_LCORE as the size of g_component_info
    MaxPort,       \* RTE_MAX_ETHPORTS as the size of a port list
    Faults,        \* which of "pmd", "table", "slow", "signal" may happen
    Verbs,         \* the kinds of command the controller sends
    MaxCommand     \* bound: how many commands it sends

ASSUME LcoreAssumption ==
    /\ IsFiniteSet(Worker)
    /\ Main \notin Worker
    /\ SpareLcore \cap (Worker \cup {Main}) = {}
    /\ StartLcore \subseteq Worker \cup {Main} \cup SpareLcore
ASSUME TypeAssumption ==
    StartType \subseteq {"classifier_mac", "merge", "forward"}
ASSUME NameAssumption == NoName \notin Name
ASSUME PortAssumption == PhyPort \subseteq Port
ASSUME ClassAssumption == NoClass \notin Class
ASSUME TagAssumption == Tags \subseteq {"none", "add_vlantag", "del_vlantag"}
ASSUME BoundAssumption ==
    /\ MaxComponent \in Nat \ {0}
    /\ MaxPort \in Nat \ {0}
    /\ MaxCommand \in Nat
ASSUME VerbAssumption ==
    Verbs \subseteq {"exit", "refuse", "start", "stop", "add", "del", "table"}
ASSUME FaultAssumption == Faults \subseteq {"pmd", "table", "slow", "signal"}

Lcore  == Worker \cup {Main} \cup SpareLcore
Id     == 0 .. MaxComponent - 1
Area   == 0 .. 1                      \* SPP_INFO_AREA_MAX areas
Family == {"fwd", "cls"}              \* g_forward_info and g_mng_infos
Dir    == {"rx", "tx"}
CoreStatus    == {"unuse", "stop", "idle", "forward", "stop_request"}
ComponentType == {"unuse", "classifier_mac", "merge", "forward"}

VARIABLES
    status,     \* g_core_info[l].status
    coreRef,    \* g_core_info[l].ref_index
    coreUpd,    \* g_core_info[l].upd_index
    coreIds,    \* g_core_info[l].core[k].id[], as a set
    chgCore,    \* g_change_core, as the set of flagged lcores
    comp,       \* g_component_info
    chgComp,    \* g_change_component, as the set of flagged ids
    added,      \* the ports whose iface_type is not UNDEF
    opened,     \* the ports whose dpdk_port is set
    classId,    \* spp_port_info.class_id
    ref, upd,   \* ref_index and upd_index of every component's double buffer
    area,       \* path[] of forward_info, cmp_infos[] of management_info
    used,       \* management_info.is_used, as a set of ids
    wpc, wdone, wjob,       \* where each worker is in slave_main
    mpc, mcores, mtodo,     \* where the main thread is
    ncmd, signalled         \* commands taken, and whether SIGTERM came

statusVars == <<status>>
coreVars   == <<coreRef, coreUpd, coreIds>>
regVars    == <<comp, added, opened, classId>>
flagVars   == <<chgCore, chgComp>>
pathVars   == <<ref, upd, area, used>>
workerVars == <<wpc, wdone, wjob>>
mainVars   == <<mpc, mcores, mtodo, ncmd>>
vars == <<statusVars, coreVars, regVars, flagVars, pathVars, workerVars,
          mainVars, signalled>>

-----------------------------------------------------------------------------
(* The registered configuration (spp_component_info) and the forwarding     *)
(* copy of it (forward_path, component_info of the classifier).             *)

Component == [name : Name \cup {NoName}, type : ComponentType,
              lcore : Lcore, rx : SUBSET Port, tx : SUBSET Port]

Unused == [name |-> NoName, type |-> "unuse", lcore |-> Main,
           rx |-> {}, tx |-> {}]

Path == [name : Name \cup {NoName}, type : ComponentType,
         rx : SUBSET Port, tx : SUBSET Port,
         table : SUBSET Class, entry : BOOLEAN]

NoPath == [name |-> NoName, type |-> "unuse", rx |-> {}, tx |-> {},
           table |-> {}, entry |-> FALSE]

Job   == [fam : Family, id : Id, area : Area]
NoJob == [fam |-> "fwd", id |-> 0, area |-> 0]

InUse(i)   == comp[i].type # "unuse"
IdOf(n)    == {i \in Id : comp[i].name = n}
FreeIds    == {i \in Id : ~InUse(i)}
Lowest(S)  == CHOOSE i \in S : \A j \in S : i <= j
UserOf(p, d) == {i \in Id : InUse(i) /\ p \in comp[i][d]}
FamilyOf(t) == IF t = "classifier_mac" THEN "cls" ELSE "fwd"
Classes(i)  == {classId[p] : p \in comp[i].tx} \ {NoClass}

(* What a worker finds through ref_index.                                   *)
IdsOf(l)      == coreIds[l][coreRef[l]]
PathInUse(f, i) == area[f][i][ref[f][i]]

Polling(w) == wpc[w] = "burst"
PolledPath(w) == area[wjob[w].fam][wjob[w].id][wjob[w].area]

-----------------------------------------------------------------------------
(* init_mng_data, spp_classifier_mac_init and spp_forward_init.  The        *)
(* classifier's management_info is zeroed, so its two indices start equal.  *)

Init ==
    /\ status = [l \in Lcore |-> IF l \in Worker THEN "stop" ELSE "unuse"]
    /\ coreRef = [l \in Lcore |-> 0]
    /\ coreUpd = [l \in Lcore |-> 1]
    /\ coreIds = [l \in Lcore |-> [k \in Area |-> {}]]
    /\ chgCore = {}
    /\ comp = [i \in Id |-> Unused]
    /\ chgComp = {}
    /\ added = PhyPort
    /\ opened = PhyPort
    /\ classId = [p \in Port |-> NoClass]
    /\ ref = [f \in Family |-> [i \in Id |-> 0]]
    /\ upd = [f \in Family |-> [i \in Id |-> IF f = "fwd" THEN 1 ELSE 0]]
    /\ area = [f \in Family |-> [i \in Id |-> [k \in Area |-> NoPath]]]
    /\ used = {}
    /\ wpc = [w \in Worker |-> "launch"]
    /\ wdone = [w \in Worker |-> {}]
    /\ wjob = [w \in Worker |-> NoJob]
    /\ mpc = "launch"
    /\ mcores = {}
    /\ mtodo = {}
    /\ ncmd = 0
    /\ signalled = FALSE

-----------------------------------------------------------------------------
(* The worker thread: slave_main.                                           *)

Alive == mpc # "exited"

WorkerStart(w) ==
    /\ Alive
    /\ wpc[w] = "launch"
    /\ status' = [status EXCEPT ![w] = "idle"]
    /\ wpc' = [wpc EXCEPT ![w] = "top"]
    /\ UNCHANGED <<coreVars, regVars, flagVars, pathVars, wdone, wjob,
                   mainVars, signalled>>

WorkerStop(w) ==
    /\ Alive
    /\ wpc[w] = "top"
    /\ status[w] = "stop_request"
    /\ status' = [status EXCEPT ![w] = "stop"]
    /\ wpc' = [wpc EXCEPT ![w] = "stopped"]
    /\ UNCHANGED <<coreVars, regVars, flagVars, pathVars, wdone, wjob,
                   mainVars, signalled>>

FlippedAlways(r, u) == 1 - r
FlippedNever(r, u) == r

(* ref_index after spp_check_core_update, change_forward_index or           *)
(* change_classifier_index.                                                 *)
Flipped(r, u) == IF r = u THEN 1 - u ELSE r

OnwardAfterOne(w, ids, D) ==
    /\ wpc' = [wpc EXCEPT ![w] = IF ids = {} \/ D # {} THEN "top" ELSE "scan"]
    /\ wdone' = [wdone EXCEPT ![w] = {}]
    /\ wjob' = [wjob EXCEPT ![w] = NoJob]

(* The worker's place once the components in D are processed.               *)
Onward(w, ids, D) ==
    /\ wpc' = [wpc EXCEPT ![w] = IF ids \subseteq D THEN "top" ELSE "scan"]
    /\ wdone' = [wdone EXCEPT ![w] = IF ids \subseteq D THEN {} ELSE D]
    /\ wjob' = [wjob EXCEPT ![w] = NoJob]

WorkerTop(w) ==
    LET r == Flipped(coreRef[w], coreUpd[w]) IN
    /\ Alive
    /\ wpc[w] = "top"
    /\ status[w] = "forward"
    /\ coreRef' = [coreRef EXCEPT ![w] = r]
    /\ Onward(w, coreIds[w][r], {})
    /\ UNCHANGED <<statusVars, coreUpd, coreIds, regVars, flagVars, pathVars,
                   mainVars, signalled>>

(* spp_get_component_type reads the registered configuration, not the copy. *)
WorkerPick(w, i) ==
    /\ Alive
    /\ wpc[w] = "scan"
    /\ i \in IdsOf(w) \ wdone[w]
    /\ wpc' = [wpc EXCEPT ![w] = "enter"]
    /\ wjob' = [wjob EXCEPT ![w] =
                  [fam |-> FamilyOf(comp[i].type), id |-> i, area |-> 0]]
    /\ UNCHANGED <<statusVars, coreVars, regVars, flagVars, pathVars, wdone,
                   mainVars, signalled>>

(* The conditions under which spp_forward and spp_classifier_mac_do poll.   *)
OneOf(S) == \E x \in S : S = {x}
Runnable(f, p) ==
    IF f = "cls" THEN p.rx # {} /\ p.tx # {} /\ p.entry
    ELSE /\ OneOf(p.tx)
         /\ IF p.type = "merge" THEN p.rx # {} ELSE OneOf(p.rx)

WorkerEnter(w) ==
    LET f == wjob[w].fam
        i == wjob[w].id
        r == Flipped(ref[f][i], upd[f][i])
    IN  /\ Alive
        /\ wpc[w] = "enter"
        /\ ref' = [ref EXCEPT ![f][i] = r]
        /\ IF Runnable(f, area[f][i][r])
           THEN /\ wpc' = [wpc EXCEPT ![w] = "burst"]
                /\ wjob' = [wjob EXCEPT ![w].area = r]
                /\ UNCHANGED wdone
           ELSE Onward(w, IdsOf(w), wdone[w] \cup {i})
        /\ UNCHANGED <<statusVars, coreVars, regVars, flagVars, upd, area,
                       used, mainVars, signalled>>

WorkerFinish(w) ==
    /\ Alive
    /\ wpc[w] = "burst"
    /\ Onward(w, IdsOf(w), wdone[w] \cup {wjob[w].id})
    /\ UNCHANGED <<statusVars, coreVars, regVars, flagVars, pathVars,
                   mainVars, signalled>>

WorkerStep(w) ==
    \/ WorkerStart(w)
    \/ WorkerStop(w)
    \/ WorkerTop(w)
    \/ \E i \in Id : WorkerPick(w, i)
    \/ WorkerEnter(w)
    \/ WorkerFinish(w)

-----------------------------------------------------------------------------
(* Life cycle of the main thread: main() of spp_vf.c.                       *)

MainIdle ==
    /\ mpc = "launch"
    /\ status' = [status EXCEPT ![Main] = "idle"]
    /\ mpc' = "wait_idle"
    /\ UNCHANGED <<coreVars, regVars, flagVars, pathVars, workerVars, mcores,
                   mtodo, ncmd, signalled>>

(* check_core_status: only the slave lcores are looked at.                  *)
AllWorkers(s) == \A w \in Worker : status[w] = s

(* A worker that will take on status s if it is given the time.             *)
Reaching(w, s) ==
    IF s = "idle" THEN wpc[w] = "launch" ELSE status[w] = "stop_request"

(* Five looks, a second apart, found some worker in another state.  Workers *)
(* are slower than that only with the "slow" fault.                         *)
TimedOut(s) ==
    /\ ~AllWorkers(s)
    /\ \/ "slow" \in Faults
       \/ \E w \in Worker : status[w] # s /\ ~Reaching(w, s)

WaitIdle ==
    /\ mpc = "wait_idle"
    /\ \/ AllWorkers("idle") /\ mpc' = "go"
       \/ TimedOut("idle") /\ mpc' = "finalize"
    /\ UNCHANGED <<statusVars, coreVars, regVars, flagVars, pathVars,
                   workerVars, mcores, mtodo, ncmd, signalled>>

IdleSetTo(s) == [l \in Lcore |-> IF l \in Worker /\ status[l] = "idle"
                                THEN s ELSE status[l]]

(* set_all_core_status writes every slave, whatever its status is.          *)
AllSetTo(s) == [l \in Lcore |-> IF l \in Worker THEN s ELSE status[l]]

(* ... and backup_mng_info clears the change flags.                         *)
StartForwarding ==
    /\ mpc = "go"
    /\ status' = AllSetTo("forward")
    /\ mpc' = "command"
    /\ chgCore' = {}
    /\ chgComp' = {}
    /\ UNCHANGED <<coreVars, regVars, pathVars, workerVars, mcores, mtodo,
                   ncmd, signalled>>

LeaveLoop ==
    /\ mpc = "command"
    /\ status[Main] = "stop_request"
    /\ mpc' = "finalize"
    /\ UNCHANGED <<statusVars, coreVars, regVars, flagVars, pathVars,
                   workerVars, mcores, mtodo, ncmd, signalled>>

Finalize ==
    /\ mpc = "finalize"
    /\ status' = [status EXCEPT ![Main] = "stop"]
    /\ mpc' = "wait_stop"
    /\ UNCHANGED <<coreVars, regVars, flagVars, pathVars, workerVars, mcores,
                   mtodo, ncmd, signalled>>

WaitStop ==
    /\ mpc = "wait_stop"
    /\ AllWorkers("stop") \/ TimedOut("stop")
    /\ mpc' = "exited"
    /\ UNCHANGED <<statusVars, coreVars, regVars, flagVars, pathVars,
                   workerVars, mcores, mtodo, ncmd, signalled>>

(* stop_process, the handler of SIGTERM and SIGINT.                         *)
Signal ==
    /\ Alive
    /\ "signal" \in Faults
    /\ ~signalled
    /\ signalled' = TRUE
    /\ status' = [l \in Lcore |-> IF l \in Worker \cup {Main}
                                  THEN "stop_request" ELSE status[l]]
    /\ UNCHANGED <<coreVars, regVars, flagVars, pathVars, workerVars,
                   mainVars>>

-----------------------------------------------------------------------------
(* Commands.  An accepted one changes the registered configuration and      *)
(* goes on to spp_flush; a refused one changes nothing.                     *)

TakeCommand(verb) ==
    /\ verb \in Verbs
    /\ mpc = "command"
    /\ ncmd < MaxCommand
    /\ ncmd' = ncmd + 1

Accepted ==
    /\ mpc' = "flush_port"
    /\ UNCHANGED <<statusVars, coreRef, coreUpd, opened, pathVars, workerVars,
                   mcores, mtodo, signalled>>

(* The exit command, or a fatal error of the connection.                    *)
Exit ==
    /\ TakeCommand("exit")
    /\ status' = AllSetTo("stop_request")
    /\ mpc' = "finalize"
    /\ UNCHANGED <<coreVars, regVars, flagVars, pathVars, workerVars, mcores,
                   mtodo, signalled>>

Refuse ==
    /\ TakeCommand("refuse")
    /\ UNCHANGED <<statusVars, coreVars, regVars, flagVars, pathVars,
                   workerVars, mpc, mcores, mtodo, signalled>>

EditedListInUse(l) == coreRef[l]

(* The list of an lcore that commands edit is the one nobody walks.         *)
EditedList(l) == coreUpd[l]

(* Both the edited list and the change flags belong to the next flush; the  *)
(* flag of the component makes it write the first path.                     *)
StartComponent(n, t, l) ==
    LET i == Lowest(FreeIds) IN
    /\ TakeCommand("start")
    /\ status[l] # "unuse"
    /\ IdOf(n) = {}
    /\ FreeIds # {}
    /\ comp' = [comp EXCEPT ![i] =
                  [name |-> n, type |-> t, lcore |-> l, rx |-> {}, tx |-> {}]]
    /\ coreIds' = [coreIds EXCEPT ![l][EditedList(l)] = @ \cup {i}]
    /\ chgComp' = chgComp \cup {i}
    /\ chgCore' = chgCore \cup {l}
    /\ UNCHANGED <<added, classId>>
    /\ Accepted

FlagsKeptAtStop(i) == chgComp

FlagsAfterStop(i) == chgComp \ {i}

(* The component is cleared before its type is tested, so the call of       *)
(* init_classifier_info that follows in the code is never made.             *)
StopComponent(n) ==
    \E i \in IdOf(n) :
        LET l == comp[i].lcore IN
        /\ TakeCommand("stop")
        /\ comp' = [comp EXCEPT ![i] = Unused]
        /\ coreIds' = [coreIds EXCEPT ![l][EditedList(l)] = @ \ {i}]
        /\ chgComp' = FlagsAfterStop(i)
        /\ chgCore' = chgCore \cup {l}
        /\ UNCHANGED <<added, classId>>
        /\ Accepted

StopUnknown(n) ==
    /\ TakeCommand("stop")
    /\ IdOf(n) = {}
    /\ UNCHANGED <<coreIds, comp, added, classId, flagVars>>
    /\ Accepted

(* check_port_count: how many ports of a direction a type may hold.         *)
RoomFor(i, d) ==
    LET n == Cardinality(comp[i][d]) IN
    CASE comp[i].type = "forward"        -> n < 1
      [] comp[i].type = "merge"          -> d = "rx" \/ n < 1
      [] comp[i].type = "classifier_mac" -> d = "tx" \/ n < 1
      [] OTHER                           -> FALSE

PortFreeInOneDirection(p, d, tag) ==
    tag = "add_vlantag" \/ UserOf(p, "rx") = {} \/ UserOf(p, "tx") = {}

(* decode_port_port_value and decode_port_rxtx_value: the form with         *)
(* add_vlantag skips the test that the port is free.                        *)
PortFree(p, d, tag) ==
    tag = "add_vlantag" \/ UserOf(p, d) = {}

PortAdd(n, p, d, tag) ==
    \E i \in IdOf(n) :
        /\ TakeCommand("add")
        /\ PortFree(p, d, tag)
        /\ RoomFor(i, d)
        /\ p \notin comp[i][d]
        /\ Cardinality(comp[i][d]) < MaxPort
        /\ comp' = [comp EXCEPT ![i][d] = @ \cup {p}]
        /\ added' = added \cup {p}
        /\ chgComp' = chgComp \cup {i}
        /\ UNCHANGED <<coreIds, classId, chgCore>>
        /\ Accepted

(* A registered port takes a new vlan tag.  The tags are not in the state:  *)
(* the handler refuses when the port has no tag to replace.                 *)
PortRetag(n, p, d) ==
    \E i \in IdOf(n) :
        /\ TakeCommand("add")
        /\ "add_vlantag" \in Tags
        /\ RoomFor(i, d)
        /\ p \in comp[i][d]
        /\ chgComp' = chgComp \cup {i}
        /\ UNCHANGED <<coreIds, comp, added, classId, chgCore>>
        /\ Accepted

PortDel(n, p, d) ==
    \E i \in IdOf(n) :
        /\ TakeCommand("del")
        /\ comp' = [comp EXCEPT ![i][d] = @ \ {p}]
        /\ chgComp' = chgComp \cup {i}
        /\ UNCHANGED <<coreIds, added, classId, chgCore>>
        /\ Accepted

FirstSenderUnchecked(p) ==
    IF UserOf(p, "tx") = {} THEN {-1} ELSE {Lowest(UserOf(p, "tx"))}

FirstReceiver(p) ==
    IF UserOf(p, "rx") = {} THEN {} ELSE {Lowest(UserOf(p, "rx"))}

(* set_component_change_port(port, SPP_PORT_RXTX_TX): only the lowest id    *)
(* that sends to the port is flagged.                                       *)
FirstSender(p) ==
    IF UserOf(p, "tx") = {} THEN {} ELSE {Lowest(UserOf(p, "tx"))}

ClassifierAdd(p, c) ==
    /\ TakeCommand("table")
    /\ p \in added
    /\ classId[p] = NoClass
    /\ classId' = [classId EXCEPT ![p] = c]
    /\ chgComp' = chgComp \cup FirstSender(p)
    /\ UNCHANGED <<coreIds, comp, added, chgCore>>
    /\ Accepted

ClassifierDel(p, c) ==
    /\ TakeCommand("table")
    /\ p \in added
    /\ classId[p] = c
    /\ classId' = [classId EXCEPT ![p] = NoClass]
    /\ chgComp' = chgComp \cup FirstSender(p)
    /\ UNCHANGED <<coreIds, comp, added, chgCore>>
    /\ Accepted

Command ==
    \/ Exit
    \/ Refuse
    \/ \E n \in Name : StopComponent(n) \/ StopUnknown(n)
    \/ \E n \in Name, l \in StartLcore, t \in StartType :
          StartComponent(n, t, l)
    \/ \E n \in Name, p \in Port, d \in Dir :
          \/ \E tag \in Tags : PortAdd(n, p, d, tag)
          \/ PortRetag(n, p, d)
          \/ PortDel(n, p, d)
    \/ \E p \in Port, c \in Class : ClassifierAdd(p, c) \/ ClassifierDel(p, c)

-----------------------------------------------------------------------------
(* spp_flush.                                                               *)

BackToLoop ==
    /\ mpc' = "command"
    /\ mcores' = {}
    /\ mtodo' = {}

(* The components to update: those flagged, lowest id first.                *)
ToComponents ==
    IF chgComp = {}
    THEN BackToLoop /\ chgCore' = {} /\ chgComp' = {}
    ELSE mpc' = "write" /\ mcores' = {} /\ mtodo' = chgComp
         /\ UNCHANGED flagVars

(* flush_port opens every added vhost and ring.                             *)
Unopened == added \ opened

FlushPort ==
    /\ mpc = "flush_port"
    /\ opened' = opened \cup Unopened
    /\ mpc' = "core_request"
    /\ UNCHANGED <<statusVars, coreVars, comp, added, classId, flagVars,
                   pathVars, workerVars, mcores, mtodo, ncmd, signalled>>

ClearFlags == chgCore' = {} /\ chgComp' = {}
KeepCoreFlags == chgComp' = {} /\ UNCHANGED chgCore

(* The early return of spp_flush skips backup_mng_info.                     *)
KeepFlags == UNCHANGED flagVars

(* One device cannot be made: the command fails, the flags stay set.        *)
FlushPortFail ==
    /\ mpc = "flush_port"
    /\ "pmd" \in Faults
    /\ \E bad \in Unopened : \E good \in SUBSET (Unopened \ {bad}) :
          opened' = opened \cup good
    /\ BackToLoop
    /\ KeepFlags
    /\ UNCHANGED <<statusVars, coreVars, comp, added, classId, pathVars,
                   workerVars, ncmd, signalled>>

(* flush_core, first loop.                                                  *)
CoreRequest ==
    /\ mpc = "core_request"
    /\ coreUpd' = [l \in Lcore |->
                      IF l \in chgCore THEN coreRef[l] ELSE coreUpd[l]]
    /\ IF chgCore = {} THEN ToComponents
       ELSE mpc' = "core_wait" /\ mcores' = chgCore
            /\ UNCHANGED <<mtodo, flagVars>>
    /\ UNCHANGED <<statusVars, coreRef, coreIds, regVars, pathVars,
                   workerVars, ncmd, signalled>>

(* flush_core, second loop: once the worker has switched, the list it uses  *)
(* is copied to the other area.                                             *)
CoreNotAwaited(l) == TRUE
CoreSwitched(l) == coreRef[l] # coreUpd[l]

CoreCopy(l) ==
    /\ mpc = "core_wait"
    /\ l \in mcores
    /\ CoreSwitched(l)
    /\ coreIds' = [coreIds EXCEPT ![l][coreUpd[l]] = IdsOf(l)]
    /\ IF mcores = {l} THEN ToComponents
       ELSE /\ mcores' = mcores \ {l}
            /\ UNCHANGED <<mpc, mtodo, flagVars>>
    /\ UNCHANGED <<statusVars, coreRef, coreUpd, regVars, pathVars,
                   workerVars, ncmd, signalled>>

(* flush_component.  mid is the component whose turn it is.                 *)
mid  == Lowest(mtodo)
mfam == FamilyOf(comp[mid].type)

(* What spp_forward_update and init_component_info fill in.  The latter     *)
(* adds to the tables it finds in the area.                                 *)
Filled(i, old) ==
    IF comp[i].type = "classifier_mac"
    THEN [name |-> comp[i].name, type |-> "classifier_mac",
          rx |-> comp[i].rx, tx |-> comp[i].tx,
          table |-> old.table \cup Classes(i), entry |-> Classes(i) # {}]
    ELSE [name |-> comp[i].name, type |-> comp[i].type,
          rx |-> comp[i].rx, tx |-> comp[i].tx,
          table |-> {}, entry |-> FALSE]

UpdArea == area[mfam][mid][upd[mfam][mid]]

(* Mutant: both areas are filled.                                           *)
ComponentWriteBoth ==
    /\ mpc = "write"
    /\ area' = [area EXCEPT ![mfam][mid] = [k \in Area |-> Filled(mid, @[k])]]
    /\ mpc' = "request"
    /\ UNCHANGED <<statusVars, coreVars, regVars, flagVars, ref, upd, used,
                   workerVars, mcores, mtodo, ncmd, signalled>>

ComponentWrite ==
    /\ mpc = "write"
    /\ area' = [area EXCEPT ![mfam][mid][upd[mfam][mid]] =
                  Filled(mid, UpdArea)]
    /\ mpc' = "request"
    /\ UNCHANGED <<statusVars, coreVars, regVars, flagVars, ref, upd, used,
                   workerVars, mcores, mtodo, ncmd, signalled>>

(* A MAC table cannot be made: the area stays half filled, the command      *)
(* fails, and backup_mng_info clears every flag.                            *)
ComponentFail ==
    /\ mpc = "write"
    /\ "table" \in Faults
    /\ mfam = "cls"
    /\ \E S \in SUBSET Classes(mid) \ {Classes(mid)} :
          area' = [area EXCEPT ![mfam][mid][upd[mfam][mid]] =
                     [UpdArea EXCEPT !.rx = comp[mid].rx, !.tx = comp[mid].tx,
                                     !.table = @ \cup S, !.entry = (S # {})]]
    /\ BackToLoop
    /\ chgCore' = {}
    /\ chgComp' = {}
    /\ UNCHANGED <<statusVars, coreVars, regVars, ref, upd, used, workerVars,
                   ncmd, signalled>>

ComponentRequest ==
    /\ mpc = "request"
    /\ upd' = [upd EXCEPT ![mfam][mid] = ref[mfam][mid]]
    /\ used' = IF mfam = "cls" THEN used \cup {mid} ELSE used
    /\ mpc' = "wait"
    /\ UNCHANGED <<statusVars, coreVars, regVars, flagVars, ref, area,
                   workerVars, mcores, mtodo, ncmd, signalled>>

(* The spin ends when a worker has switched; the classifier's old area is   *)
(* uninitialized, then the next flagged component follows.                  *)
NotAwaited(f, i) == TRUE
Switched(f, i) == ref[f][i] # upd[f][i]

ComponentSwitched ==
    /\ mpc = "wait"
    /\ Switched(mfam, mid)
    /\ area' = IF mfam = "cls"
               THEN [area EXCEPT ![mfam][mid][upd[mfam][mid]] = NoPath]
               ELSE area
    /\ IF mtodo = {mid}
       THEN BackToLoop /\ chgCore' = {} /\ chgComp' = {}
       ELSE mpc' = "write" /\ mtodo' = mtodo \ {mid}
            /\ UNCHANGED <<mcores, flagVars>>
    /\ UNCHANGED <<statusVars, coreVars, regVars, ref, upd, used, workerVars,
                   ncmd, signalled>>

Flush ==
    \/ FlushPort
    \/ FlushPortFail
    \/ CoreRequest
    \/ \E l \in Lcore : CoreCopy(l)
    \/ ComponentWrite
    \/ ComponentFail
    \/ ComponentRequest
    \/ ComponentSwitched

-----------------------------------------------------------------------------
LifeCycle ==
    \/ MainIdle
    \/ WaitIdle
    \/ StartForwarding
    \/ LeaveLoop
    \/ Finalize
    \/ WaitStop

(* The process is gone: nothing more happens.                               *)
Exited == ~Alive /\ UNCHANGED vars

Next ==
    \/ LifeCycle
    \/ Command
    \/ Flush
    \/ \E w \in Worker : WorkerStep(w)
    \/ Signal
    \/ Exited

Spec == Init /\ [][Next]_vars

(* Every thread has an lcore of its own, so each keeps taking its steps;    *)
(* commands and signals may never come.                                     *)
FairSpec ==
    /\ Spec
    /\ WF_vars(LifeCycle)
    /\ WF_vars(Flush)
    /\ \A w \in Worker : WF_vars(WorkerStep(w))

-----------------------------------------------------------------------------
(* Properties.                                                              *)

(* Every variable has the type its C declaration and use give it.           *)
TypeOK ==
    /\ status \in [Lcore -> CoreStatus]
    /\ coreRef \in [Lcore -> Area]
    /\ coreUpd \in [Lcore -> Area]
    /\ coreIds \in [Lcore -> [Area -> SUBSET Id]]
    /\ chgCore \in SUBSET Lcore
    /\ comp \in [Id -> Component]
    /\ chgComp \in SUBSET Id
    /\ added \in SUBSET Port
    /\ opened \in SUBSET Port
    /\ classId \in [Port -> Class \cup {NoClass}]
    /\ ref \in [Family -> [Id -> Area]]
    /\ upd \in [Family -> [Id -> Area]]
    /\ area \in [Family -> [Id -> [Area -> Path]]]
    /\ used \in SUBSET Id
    /\ wpc \in [Worker -> {"launch", "top", "scan", "enter", "burst",
                           "stopped"}]
    /\ wdone \in [Worker -> SUBSET Id]
    /\ wjob \in [Worker -> Job]
    /\ mpc \in {"launch", "wait_idle", "go", "command", "flush_port",
                "core_request", "core_wait", "write", "request", "wait",
                "finalize", "wait_stop", "exited"}
    /\ mcores \in SUBSET Lcore
    /\ mtodo \in SUBSET Id
    /\ ncmd \in 0 .. MaxCommand
    /\ signalled \in BOOLEAN

(* No flag is left: what the last flush was given is in force.              *)
Settled == mpc = "command" /\ chgCore = {} /\ chgComp = {}

(* While spp_forward_update or spp_classifier_mac_update spins for a        *)
(* switch, the component is registered on a slave lcore whose worker has    *)
(* it in the list it walks: somebody will do the switch.                    *)
SpinHasPartner ==
    mpc \in {"write", "request", "wait"} =>
        \A i \in mtodo :
            /\ InUse(i)
            /\ comp[i].lcore \in Worker
            /\ i \in IdsOf(comp[i].lcore)

(* Once a flush is complete, every worker walks exactly the components      *)
(* registered on its lcore ...                                              *)
WorkersAgree ==
    Settled => \A w \in Worker :
        IdsOf(w) = {i \in Id : InUse(i) /\ comp[i].lcore = w}

PathAgrees(f, i) ==
    /\ Switched(f, i)
    /\ PathInUse(f, i).rx = comp[i].rx
    /\ PathInUse(f, i).tx = comp[i].tx
    /\ f = "cls" => PathInUse(f, i).table = Classes(i)

(* ... and the area each forwarder and merger uses holds its registered     *)
(* ports, also when earlier flushes failed to open a device.                *)
ForwardersAgree ==
    Settled => \A i \in Id :
        comp[i].type \in {"forward", "merge"} => PathAgrees("fwd", i)

(* Without failures the same is true of classifiers and their tables.       *)
InForce ==
    Settled => \A i \in Id :
        InUse(i) => PathAgrees(FamilyOf(comp[i].type), i)

(* A command is answered only when no packet is moved any more for what it  *)
(* replaced: a worker that polls after that works for a component of its    *)
(* own lcore and between its registered ports.                              *)
TrafficFollows ==
    Settled =>
        \A w \in Worker : Polling(w) =>
            /\ comp[wjob[w].id].lcore = w
            /\ PolledPath(w).rx = comp[wjob[w].id].rx
            /\ PolledPath(w).tx = comp[wjob[w].id].tx

(* Two lcores never receive from the same port at once: DPDK's rx_burst is  *)
(* not safe for two callers on the one queue spp_eth_rx_burst uses.  Only a *)
(* flush that comes after a failed one may give a port to its new component *)
(* before it takes it from the old one: both are flagged then.              *)
RxExclusive ==
    \A v, w \in Worker :
        /\ v # w /\ Polling(v) /\ Polling(w)
        /\ PolledPath(v).rx \cap PolledPath(w).rx # {}
        => {wjob[v].id, wjob[w].id} \subseteq chgComp

(* The area a worker polls with does not change under it: main writes only  *)
(* the area that was left, and uninitializes the classifier's old one only  *)
(* after the switch.                                                        *)
PathStable ==
    [][\A w \in Worker :
          Polling(w) /\ Polling(w)' => PolledPath(w)' = PolledPath(w)]_vars

(* The list of components a worker walks changes only by its own switch of  *)
(* ref_index: neither the commands nor the copy in flush_core touch it.     *)
ListStable ==
    [][\A w \in Worker :
          IdsOf(w)' # IdsOf(w) => coreRef'[w] # coreRef[w]]_vars

(* Every command that reaches spp_flush returns to the command loop, unless *)
(* a signal stops the workers it waits for.                                 *)
FlushEnds == mpc = "flush_port" ~> mpc = "command" \/ signalled

(* A component that stays registered with enough ports is polled for ever,  *)
(* however many components share its lcore.                                 *)
Served ==
    \A i \in Id :
        <>[](/\ mpc = "command" /\ ~signalled
             /\ InUse(i)
             /\ Runnable(FamilyOf(comp[i].type),
                         PathInUse(FamilyOf(comp[i].type), i)))
        => []<>(\E w \in Worker : Polling(w) /\ wjob[w].id = i)

(* main() removes the vhost sockets and returns only when every worker has  *)
(* left its loop, unless a worker is slow or a signal interferes.           *)
CleanExit == mpc = "exited" => \A w \in Worker : wpc[w] = "stopped"

-----------------------------------------------------------------------------
(* The double buffers of forwarders and mergers implement the hand-over of  *)
(* PathSwitch.  (Those of classifiers do not: their indices start equal, as *)
(* if a switch had been asked for.)                                         *)
Handover == INSTANCE PathSwitch WITH
    Slot    <- Id,
    Content <- Path,
    Reader  <- Worker,
    cur     <- [i \in Id |-> PathInUse("fwd", i)],
    next    <- [i \in Id |-> IF Switched("fwd", i) THEN PathInUse("fwd", i)
                             ELSE area["fwd"][i][1 - ref["fwd"][i]]],
    asked   <- {i \in Id : ~Switched("fwd", i)},
    reading <- {<<w, wjob[w].id, PolledPath(w)>> :
                  w \in {v \in Worker : Polling(v) /\ wjob[v].fam = "fwd"}}

HandoverSpec == Handover!Spec
=============================================================================
