---------------------------- MODULE PortAbility ----------------------------
(***************************************************************************)
(* The VLAN operations of ports: what "port add" and "port del" register,  *)
(* and how spp_port.c brings it into force.  Each port has one double      *)
(* buffer for each direction.  Main fills the area at upd_index, makes     *)
(* upd_index equal to ref_index and appends the port to rx_list or         *)
(* tx_list, static variables that all lcores share without a lock; the     *)
(* worker that switches a component's path next walks both lists, switches *)
(* the ports in them, and empties them.                                    *)
(*                                                                         *)
(* Each component is on a worker of its own.  Its path and the flush are   *)
(* as in SppVf, with the steps of that module that do not touch abilities  *)
(* taken together.  Packets are left out: a burst only reads abilities.    *)
(***************************************************************************)
EXTENDS Integers, FiniteSets, SequencesExt

CONSTANTS
    Comp,           \* component ids, a set of integers
    Classifier,     \* those of type classifier_mac ...
    Merger,         \* ... and merge; the others are forwarders
    Fresh,          \* classifiers in slots that had none before
    Port, PortZero, \* dpdk ports, and the one with number 0
    PhyPort,        \* ports whose device is open from the start
    Vid, NoVid,
    Forms,          \* the forms of "port add" that are used: OPE's
    Foreign,        \* commands may touch what another component uses
    Faults,         \* {"device"}: opening a device may fail
    MaxAbility,     \* SPP_PORT_ABILITY_MAX
    MaxList,        \* RTE_MAX_ETHPORTS
    MaxPort,        \* bound: ports of a component in one direction
    MaxCommand      \* bound: commands

Dir  == {"rx", "tx"}
Area == 0 .. 1
Ope  == {"none", "add_vlantag", "del_vlantag"}

Ability == [ope : Ope, rxtx : Dir \cup {"none"}, vid : Vid \cup {NoVid}]
NoAbility == [ope |-> "none", rxtx |-> "none", vid |-> NoVid]

ASSUME CompAssumption == Comp \subseteq Nat /\ IsFiniteSet(Comp)
                         /\ Classifier \subseteq Comp /\ Merger \subseteq Comp
                         /\ Classifier \cap Merger = {}
                         /\ Fresh \subseteq Classifier
ASSUME NameAssumption == PortZero \in Port /\ PhyPort \subseteq Port
                         /\ NoVid \notin Vid
ASSUME PortAssumption == IsFiniteSet(Port) /\ Cardinality(Port) <= MaxList
ASSUME FormsAssumption == Forms \subseteq Ope /\ Foreign \in BOOLEAN
ASSUME AbilityBoundAssumption ==
    /\ Faults \subseteq {"device"}
    /\ MaxAbility \in Nat \ {0} /\ MaxList \in Nat \ {0}
    /\ MaxPort \in Nat \ {0} /\ MaxCommand \in Nat

VARIABLES
    ports,       \* rx_ports and tx_ports of each registered component
    ability,     \* spp_port_info.ability, registered for each port
    started,     \* registered components
    flagged,     \* g_change_component
    toOpen,      \* ports that were named by a command, without a device yet
    opened,      \* ports with a dpdk_port
    aref, aupd,  \* g_port_mng_info[].rx and .tx: ref_index, upd_index ...
    area,        \* ... and ability[], as far as the first "none"
    list, num,   \* rx_list and tx_list, num_rx and num_tx
    cref, cupd,  \* g_forward_info[] and management_info: the two indices ...
    path,        \* ... and the ports in the two areas
    running,     \* components in the lists of the workers
    mpc, ncmd,   \* main: where it is, and how many commands it took
    mcomp,       \* the components it has still to update
    mports,      \* the ports of the first of them still to be handled
    mnum,        \* num_rx or num_tx as main has read it
    wpc,         \* where each worker is
    wleft,       \* rx ports still to be polled in this call
    wuse,        \* <<port, direction, area>> whose abilities it goes through
    wcnt         \* cnt of its loop over a list

regVars  == <<ports, ability, started, flagged, toOpen, opened>>
ablVars  == <<aref, aupd, area, list, num>>
cmpVars  == <<cref, cupd, path, running>>
mainVars == <<mpc, ncmd, mcomp, mports, mnum>>
wrkVars  == <<wpc, wleft, wuse, wcnt>>
vars == <<regVars, ablVars, cmpVars, mainVars, wrkVars>>

-----------------------------------------------------------------------------
(* Commands: spp_update_port and spp_update_component.                      *)

Slots == 1 .. MaxAbility

(* The first slot that satisfies P, as a set that may be empty.             *)
FirstSlot(p, P(_)) ==
    {s \in Slots : P(ability[p][s]) /\ \A r \in 1 .. s - 1 : ~P(ability[p][r])}

FreeSlot(p) == FirstSlot(p, LAMBDA a : a.ope = "none")
TagSlot(p)  == FirstSlot(p, LAMBDA a : a.ope = "add_vlantag")

Used(p, d) == \E c \in started : p \in ports[c][d]

(* What the code accepts beyond what an orderly client asks for.            *)
ForeignPort(c, p, d) == Used(p, d) /\ p \notin ports[c][d]

(* check_port_count, which comes before the test whether the component has  *)
(* the port already.                                                        *)
RoomFor(c, d) ==
    \/ c \in Merger /\ d = "rx"
    \/ c \in Classifier /\ d = "tx"
    \/ ports[c][d] = {}

TakeCommand ==
    /\ mpc = "command"
    /\ ncmd < MaxCommand
    /\ ncmd' = ncmd + 1

(* The command has changed something and is flushed.                        *)
Accepted ==
    /\ mpc' = "flush"
    /\ UNCHANGED <<ablVars, cmpVars, mcomp, mports, mnum, wrkVars>>

Operation(o, d, v) == [ope |-> o, rxtx |-> d,
                       vid |-> IF o = "add_vlantag" THEN v ELSE NoVid]

PortAdd(c, p, d, o, v) ==
    /\ TakeCommand
    /\ c \in started
    /\ p \notin ports[c][d]
    /\ ForeignPort(c, p, d) => Foreign /\ o = "add_vlantag"
    /\ RoomFor(c, d)
    /\ Cardinality(ports[c][d]) < MaxPort
    /\ IF o = "none" THEN UNCHANGED ability
       ELSE \E s \in FreeSlot(p) :
               ability' = [ability EXCEPT ![p][s] = Operation(o, d, v)]
    /\ ports' = [ports EXCEPT ![c][d] = @ \cup {p}]
    /\ toOpen' = toOpen \cup ({p} \ opened)
    /\ flagged' = flagged \cup {c}
    /\ UNCHANGED <<started, opened>>
    /\ Accepted

(* The port is registered already: the first tag it has is replaced,        *)
(* whatever its direction.                                                  *)
PortRetag(c, p, d, v) ==
    /\ TakeCommand
    /\ c \in started
    /\ RoomFor(c, d)
    /\ p \in ports[c][d]
    /\ \E s \in TagSlot(p) :
          /\ ability[p][s].rxtx # d => Foreign
          /\ ability' = [ability EXCEPT ![p][s] = Operation("add_vlantag", d, v)]
    /\ flagged' = flagged \cup {c}
    /\ UNCHANGED <<ports, started, toOpen, opened>>
    /\ Accepted

(* All operations of the port in this direction.                            *)
WithoutDir(p, d) ==
    [s \in Slots |-> IF ability[p][s].ope # "none" /\ ability[p][s].rxtx = d
                     THEN NoAbility ELSE ability[p][s]]

(* The component need not have the port.                                    *)
PortDel(c, p, d) ==
    /\ TakeCommand
    /\ c \in started
    /\ ForeignPort(c, p, d) => Foreign
    /\ ability' = [ability EXCEPT ![p] = WithoutDir(p, d)]
    /\ ports' = [ports EXCEPT ![c][d] = @ \ {p}]
    /\ flagged' = flagged \cup {c}
    /\ UNCHANGED <<started, toOpen, opened>>
    /\ Accepted

NoPorts == [d \in Dir |-> {}]

Start(c) ==
    /\ TakeCommand
    /\ c \notin started
    /\ started' = started \cup {c}
    /\ flagged' = flagged \cup {c}
    /\ UNCHANGED <<ports, ability, toOpen, opened>>
    /\ Accepted

(* The component is cleared; its ports keep their abilities.                *)
Stop(c) ==
    /\ TakeCommand
    /\ c \in started
    /\ started' = started \ {c}
    /\ flagged' = flagged \ {c}
    /\ ports' = [ports EXCEPT ![c] = NoPorts]
    /\ UNCHANGED <<ability, toOpen, opened>>
    /\ Accepted

Command ==
    \E c \in Comp :
        \/ Start(c)
        \/ Stop(c)
        \/ \E p \in Port, d \in Dir :
              \/ \E o \in Forms, v \in Vid : PortAdd(c, p, d, o, v)
              \/ \E v \in Vid : PortRetag(c, p, d, v)
              \/ PortDel(c, p, d)

-----------------------------------------------------------------------------
(* The flush.                                                               *)

Lowest(S) == CHOOSE i \in S : \A j \in S : i <= j

(* flush_port: the devices of added ports are opened one after the other.   *)
FlushPort ==
    /\ mpc = "flush"
    /\ opened' = opened \cup toOpen
    /\ toOpen' = {}
    /\ mpc' = "core"
    /\ UNCHANGED <<ports, ability, started, flagged, ablVars, cmpVars, ncmd,
                   mcomp, mports, mnum, wrkVars>>

(* One cannot be opened: the command is answered with an error, flags are   *)
(* kept, and so is the port.                                                *)
FlushPortFail ==
    /\ "device" \in Faults
    /\ mpc = "flush"
    /\ \E S \in SUBSET toOpen :
          /\ S # toOpen
          /\ opened' = opened \cup S
          /\ toOpen' = toOpen \ S
    /\ mpc' = "command"
    /\ UNCHANGED <<ports, ability, started, flagged, ablVars, cmpVars, ncmd,
                   mcomp, mports, mnum, wrkVars>>

(* flush_core: a stopped component leaves its worker's list between two     *)
(* calls, a started one joins it.                                           *)
FlushCore ==
    /\ mpc = "core"
    /\ \A c \in running \ started : wpc[c] = "look"
    /\ running' = started
    /\ mcomp' = flagged
    /\ mpc' = "component"
    /\ UNCHANGED <<regVars, ablVars, cref, cupd, path, ncmd, mports, mnum,
                   wrkVars>>

(* The ports of a component as spp_port_ability_update goes through them.   *)
Sides(c) == SetToSeq({<<"rx", p>> : p \in ports[c]["rx"]})
            \o SetToSeq({<<"tx", p>> : p \in ports[c]["tx"]})

(* flush_component: the next component, or backup_mng_info.                 *)
NextComponent ==
    /\ mpc = "component"
    /\ IF mcomp = {}
       THEN /\ mpc' = "command"
            /\ flagged' = {}
            /\ UNCHANGED mports
       ELSE /\ mpc' = "ability"
            /\ mports' = Sides(Lowest(mcomp))
            /\ UNCHANGED flagged
    /\ UNCHANGED <<ports, ability, started, toOpen, opened, ablVars, cmpVars,
                   ncmd, mcomp, mnum, wrkVars>>

SelectedBoth(p, d) ==
    SelectSeq(ability[p], LAMBDA a : a.ope # "none")

(* The slots of one direction, the n-th of them, and what is registered in  *)
(* them in the order of the slots.                                          *)
SlotsOf(a, d) == {s \in Slots : a[s].rxtx = d}
NthSlot(S, n) == CHOOSE s \in S : Cardinality({r \in S : r <= s}) = n
Operations(a, d) ==
    [n \in 1 .. Cardinality(SlotsOf(a, d)) |-> a[NthSlot(SlotsOf(a, d), n)]]

Selected(p, d) == Operations(ability[p], d)

AreaInUse(p, d) == aref[p][d]
AreaToFill(p, d) == aupd[p][d]

AbilityWrite ==
    /\ mpc = "ability"
    /\ mports # <<>>
    /\ LET d == Head(mports)[1]
           p == Head(mports)[2]
       IN  area' = [area EXCEPT ![p][d][AreaToFill(p, d)] = Selected(p, d)]
    /\ mpc' = "mark"
    /\ UNCHANGED <<regVars, aref, aupd, list, num, cmpVars, ncmd, mcomp,
                   mports, mnum, wrkVars>>

(* PORT_ABILITY_CHG_INDEX_UPD: the indices, and the length of the list.     *)
AbilityMark ==
    /\ mpc = "mark"
    /\ LET d == Head(mports)[1]
           p == Head(mports)[2]
       IN  /\ aupd' = [aupd EXCEPT ![p][d] = aref[p][d]]
           /\ mnum' = num[d]
    /\ mpc' = "append"
    /\ UNCHANGED <<regVars, aref, area, list, num, cmpVars, ncmd, mcomp,
                   mports, wrkVars>>

(* list[num++] = port_id with the length read before.                       *)
AbilityAppend ==
    /\ mpc = "append"
    /\ LET d == Head(mports)[1]
           p == Head(mports)[2]
       IN  /\ list' = [list EXCEPT ![d][mnum] = p]
           /\ num' = [num EXCEPT ![d] = mnum + 1]
    /\ mports' = Tail(mports)
    /\ mpc' = "ability"
    /\ UNCHANGED <<regVars, aref, aupd, area, cmpVars, ncmd, mcomp, mnum,
                   wrkVars>>

(* spp_forward_update or spp_classifier_mac_update: the path is filled and  *)
(* its switch requested.                                                    *)
PathRequest ==
    /\ mpc = "ability"
    /\ mports = <<>>
    /\ LET c == Lowest(mcomp) IN
           /\ path' = [path EXCEPT ![c][cupd[c]] = ports[c]]
           /\ cupd' = [cupd EXCEPT ![c] = cref[c]]
    /\ mpc' = "wait"
    /\ UNCHANGED <<regVars, ablVars, cref, running, ncmd, mcomp, mports, mnum,
                   wrkVars>>

PathSwitched ==
    /\ mpc = "wait"
    /\ cref[Lowest(mcomp)] # cupd[Lowest(mcomp)]
    /\ mcomp' = mcomp \ {Lowest(mcomp)}
    /\ mpc' = "component"
    /\ UNCHANGED <<regVars, ablVars, cmpVars, ncmd, mports, mnum, wrkVars>>

Flush ==
    \/ FlushPort \/ FlushPortFail \/ FlushCore \/ NextComponent
    \/ AbilityWrite \/ AbilityMark \/ AbilityAppend
    \/ PathRequest \/ PathSwitched

-----------------------------------------------------------------------------
(* A worker: one call of its component after the other.                     *)

Pollable(c, k) ==
    /\ path[c][k]["rx"] # {}
    /\ path[c][k]["tx"] # {}

(* change_forward_index or change_classifier_index looks at the indices.    *)
Look(c) ==
    /\ c \in running
    /\ wpc[c] = "look"
    /\ IF cref[c] = cupd[c]
       THEN /\ wpc' = [wpc EXCEPT ![c] = "rx"]
            /\ wcnt' = [wcnt EXCEPT ![c] = 0]
            /\ UNCHANGED wleft
       ELSE /\ Pollable(c, cref[c])
            /\ wpc' = [wpc EXCEPT ![c] = "burst"]
            /\ wleft' = [wleft EXCEPT ![c] = path[c][cref[c]]["rx"]]
            /\ UNCHANGED wcnt
    /\ UNCHANGED <<regVars, ablVars, cmpVars, mainVars, wuse>>

(* PORT_ABILITY_CHG_INDEX_REF: one turn of a loop, or its end.              *)
SwitchPort(c) ==
    /\ wpc[c] \in Dir
    /\ wcnt[c] < num[wpc[c]]
    /\ LET d == wpc[c]
           p == list[d][wcnt[c]]
       IN  /\ aref' = [aref EXCEPT ![p][d] = 1 - aupd[p][d]]
           /\ list' = [list EXCEPT ![d][wcnt[c]] = PortZero]
    /\ wcnt' = [wcnt EXCEPT ![c] = @ + 1]
    /\ UNCHANGED <<regVars, aupd, area, num, cmpVars, mainVars, wpc, wleft,
                   wuse>>

EndOfList(c) ==
    /\ wpc[c] \in Dir
    /\ wcnt[c] >= num[wpc[c]]
    /\ wcnt' = [wcnt EXCEPT ![c] = 0]
    /\ wpc' = [wpc EXCEPT ![c] = IF wpc[c] = "rx" THEN "tx" ELSE "empty"]
    /\ UNCHANGED <<regVars, ablVars, cmpVars, mainVars, wleft, wuse>>

EmptiedRx(n) == [n EXCEPT !["rx"] = 0]
Emptied(n) == [d \in Dir |-> 0]

EmptyLists(c) ==
    /\ wpc[c] = "empty"
    /\ num' = Emptied(num)
    /\ wpc' = [wpc EXCEPT ![c] = "flip"]
    /\ UNCHANGED <<regVars, aref, aupd, area, list, cmpVars, mainVars, wleft,
                   wuse, wcnt>>

Flip(c) ==
    /\ wpc[c] = "flip"
    /\ wuse' = [wuse EXCEPT ![c] = {}]
    /\ cref' = [cref EXCEPT ![c] = 1 - cupd[c]]
    /\ IF Pollable(c, 1 - cupd[c])
       THEN /\ wpc' = [wpc EXCEPT ![c] = "burst"]
            /\ wleft' = [wleft EXCEPT ![c] = path[c][1 - cupd[c]]["rx"]]
       ELSE /\ wpc' = [wpc EXCEPT ![c] = "look"]
            /\ UNCHANGED wleft
    /\ UNCHANGED <<regVars, ablVars, cupd, path, running, mainVars, wcnt>>

GoesThrough(c, p, d) ==
    wuse' = [wuse EXCEPT ![c] = {<<p, d, aref[p][d]>>}]

(* A classifier sends what is in its buffers before it leaves an area, and  *)
(* before it receives.                                                      *)
Drain(c) ==
    /\ c \in Classifier
    /\ wpc[c] \in {"flip", "burst"}
    /\ wuse[c] = {}
    /\ \E p \in path[c][cref[c]]["tx"] : GoesThrough(c, p, "tx")
    /\ UNCHANGED <<regVars, ablVars, cmpVars, mainVars, wpc, wleft, wcnt>>

(* spp_eth_rx_burst finds the abilities of the rx port, goes through them   *)
(* and comes back with packets or without.                                  *)
ReceiveBurst(c) ==
    /\ wpc[c] = "burst"
    /\ \E p \in wleft[c] :
          /\ GoesThrough(c, p, "rx")
          /\ wleft' = [wleft EXCEPT ![c] = @ \ {p}]
    /\ wpc' = [wpc EXCEPT ![c] = "received"]
    /\ UNCHANGED <<regVars, ablVars, cmpVars, mainVars, wcnt>>

Received(c) ==
    /\ wpc[c] = "received"
    /\ wuse' = [wuse EXCEPT ![c] = {}]
    /\ \E next \in {"send", IF wleft[c] = {} THEN "look" ELSE "burst"} :
          wpc' = [wpc EXCEPT ![c] = next]
    /\ UNCHANGED <<regVars, ablVars, cmpVars, mainVars, wleft, wcnt>>

(* spp_eth_tx_burst does so for a tx port; a classifier may send to several.*)
SendBurst(c) ==
    /\ wpc[c] = "send"
    /\ \E p \in path[c][cref[c]]["tx"] : GoesThrough(c, p, "tx")
    /\ wpc' = [wpc EXCEPT ![c] = "sent"]
    /\ UNCHANGED <<regVars, ablVars, cmpVars, mainVars, wleft, wcnt>>

Sent(c) ==
    /\ wpc[c] = "sent"
    /\ wuse' = [wuse EXCEPT ![c] = {}]
    /\ \/ wpc' = [wpc EXCEPT ![c] = IF wleft[c] = {} THEN "look" ELSE "burst"]
       \/ c \in Classifier /\ wpc' = [wpc EXCEPT ![c] = "send"]
    /\ UNCHANGED <<regVars, ablVars, cmpVars, mainVars, wleft, wcnt>>

Worker(c) ==
    \/ Look(c) \/ SwitchPort(c) \/ EndOfList(c) \/ EmptyLists(c) \/ Flip(c)
    \/ Drain(c) \/ ReceiveBurst(c) \/ Received(c) \/ SendBurst(c) \/ Sent(c)

-----------------------------------------------------------------------------
(* spp_port_ability_init, and the initial indices of paths: 0 and 1 for     *)
(* forwarders, both 0 for classifiers until a worker has looked at them.    *)
Init ==
    /\ ports = [c \in Comp |-> NoPorts]
    /\ ability = [p \in Port |-> [s \in Slots |-> NoAbility]]
    /\ started = {}
    /\ flagged = {}
    /\ toOpen = {}
    /\ opened = PhyPort
    /\ aref = [p \in Port |-> [d \in Dir |-> 0]]
    /\ aupd = [p \in Port |-> [d \in Dir |-> 1]]
    /\ area = [p \in Port |-> [d \in Dir |-> [k \in Area |-> <<>>]]]
    /\ list = [d \in Dir |-> [n \in 0 .. MaxList - 1 |-> PortZero]]
    /\ num = [d \in Dir |-> 0]
    /\ cref = [c \in Comp |-> 0]
    /\ cupd = [c \in Comp |-> IF c \in Fresh THEN 0 ELSE 1]
    /\ path = [c \in Comp |-> [k \in Area |-> NoPorts]]
    /\ running = {}
    /\ mpc = "command"
    /\ ncmd = 0
    /\ mcomp = {}
    /\ mports = <<>>
    /\ mnum = 0
    /\ wpc = [c \in Comp |-> "look"]
    /\ wleft = [c \in Comp |-> {}]
    /\ wuse = [c \in Comp |-> {}]
    /\ wcnt = [c \in Comp |-> 0]

(* Main finds no command to take.                                           *)
Idle == mpc = "command" /\ UNCHANGED vars

Next == Idle \/ Command \/ Flush \/ \E c \in Comp : Worker(c)

Spec == Init /\ [][Next]_vars

-----------------------------------------------------------------------------
(* Properties.                                                              *)

(* Every variable has its type; in particular the shared lists never hold   *)
(* more ports than they have room for.                                      *)
TypeOK ==
    /\ ports \in [Comp -> [Dir -> SUBSET Port]]
    /\ ability \in [Port -> [Slots -> Ability]]
    /\ started \subseteq Comp /\ flagged \subseteq Comp
    /\ running \subseteq Comp /\ mcomp \subseteq Comp
    /\ toOpen \subseteq Port /\ opened \subseteq Port
    /\ aref \in [Port -> [Dir -> Area]]
    /\ aupd \in [Port -> [Dir -> Area]]
    /\ \A p \in Port, d \in Dir, k \in Area :
          area[p][d][k] \in Seq(Ability) /\ Len(area[p][d][k]) <= MaxAbility
    /\ num \in [Dir -> 0 .. MaxList]
    /\ list \in [Dir -> [0 .. MaxList - 1 -> Port]]
    /\ cref \in [Comp -> Area] /\ cupd \in [Comp -> Area]
    /\ mpc \in {"command", "flush", "core", "component", "ability", "mark",
                "append", "wait"}
    /\ wpc \in [Comp -> Dir \cup {"look", "empty", "flip", "burst",
                                 "received", "send", "sent"}]

Settled == mpc = "command" /\ flagged = {}

(* A command that was answered with success is in force: what the bursts    *)
(* find for a port of a component is what is registered for it.             *)
InForce ==
    Settled => \A c \in started, d \in Dir : \A p \in ports[c][d] :
                  LET a == area[p][d][aref[p][d]] IN
                  /\ ToSet(a) = {x \in ToSet(ability[p]) : x.rxtx = d}
                  /\ Len(a) = Cardinality({s \in Slots : ability[p][s].rxtx = d})

(* What a worker goes through does not change meanwhile, though it shares   *)
(* no lock with main or with the worker that switches; and it stays in      *)
(* force as long as the port is registered with the worker's component.     *)
AbilityStable ==
    [][\A c \in Comp : \A u \in wuse[c] :
          /\ area'[u[1]][u[2]][u[3]] = area[u[1]][u[2]][u[3]]
          /\ u \in wuse'[c] /\ u[1] \in ports[c][u[2]]
                => aref'[u[1]][u[2]] = u[3]]_vars

=============================================================================
