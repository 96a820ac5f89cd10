# Soft Patch Panel: TLA+ models, checks and proofs

Soft Patch Panel (SPP) connects the ports of a host (NICs, vhost-user
sockets, DPDK rings) by software. A *primary* process owns the DPDK memory,
*secondary* processes forward packets between ports, `spp-ctl` is the
server all of them connect to, and a controller CLI or any REST client tells
`spp-ctl` what to configure. All paths below are relative to the repository;
its sources are under `src/src/`.

This directory holds the verification project: modules that model the code,
TLC configurations that check them on small instances, and proofs checked by
TLAPS. `PROJECT.json` maps each definition to the lines it models.

## 1. Inventory

### 1.1 Components

| component | state | operations | talks to |
|---|---|---|---|
| `spp_vf` main thread (`vf/spp_vf.c`, `vf/common/spp_proc.c`, `command_proc.c`, `command_dec.c`) | `g_component_info` (registered configuration), `g_change_core`, `g_change_component`, `g_core_info[].upd_index`, port table (`g_iface_info`) | life cycle of `main`; commands component start/stop, port add/del, classifier_table add/del, status, exit; `spp_flush` | commands arrive from spp-ctl; shared memory with its workers |
| `spp_vf` worker threads (`vf/spp_vf.c: slave_main`) | `g_core_info[].ref_index`, position in the list of components | status test, switch of the component list, one call per component | shared memory with main |
| forwarder and merger (`vf/spp_forward.c`) | two `forward_path` areas per component, `ref_index`, `upd_index` | init, update (main), switch and forward (worker) | ports |
| classifier_mac (`vf/classifier_mac.c`) | two `component_info` areas, `is_used`, MAC tables, transmit buffers | init, update and uninit (main), switch, classify, flush of buffers (worker) | ports, port table |
| port ability (`vf/common/spp_port.c`) | two ability lists per port and direction, static lists of ports to switch | change of abilities (main), switch, rx and tx burst (worker) | called by all components |
| `spp_mirror` (`mirror/spp_mirror.c`) | its own double buffer, mbuf pool | as forwarder, with one copy or clone per packet | as `spp_vf` |
| `spp_nfv` (`nfv/main.c`, `nfv_status.c`) | `ports_fwd_array`, `cmd` | commands add, del, patch, forward, stop; forwarding loop | spp-ctl |
| `spp_pcap` (`pcap/*.c`) | capture status, one receive lcore, writer lcores, the ring between them | start, stop, status, exit; write and roll capture files | spp-ctl, file system |
| `spp_primary` (`primary/*.c`) | port table, statistics | add, del, status, clear, exit | spp-ctl |
| connection (`vf/common/command_conn.c`, `string_buffer.c`) | one socket, one receive buffer | connect, receive, send, reconnect | spp-ctl |
| shared library (`shared/`) | `port_map`, `ports_fwd_array` helpers | open and close vhost, ring, pcap and null devices | DPDK |
| `spp-ctl` (`spp-ctl/*.py`) | table of connected processes, ports of each | accept loops, request and response with each process, REST handlers | sockets, REST |
| controller CLI (`controller/`) | none that the data plane depends on | parse commands, send REST requests | spp-ctl |
| launch and helper tools (`tools/`) | none | build container command lines | - |

### 1.2 Interactions that are hard to get right

* Main and workers share memory without locks. Everything a worker reads is
  double buffered: main fills the area the worker does not use, makes
  `upd_index` equal to `ref_index`, and spins until the worker has set
  `ref_index` to the other area. Three levels do this: the list of components
  of an lcore, the path of a component, the abilities of a port.
* A flush goes through three stages (devices, lists, paths). It can fail in the
  first or in the last one, with the registered configuration already changed.
* Change flags connect a command to its flush; what a failed flush leaves in
  them decides what the next one does.
* SIGTERM writes the status of all lcores from a handler while main is
  launching, waiting or spinning.
* The type of a component is read by workers from the registered
  configuration, not from the copy.

### 1.3 What makes each component correct

* `spp_vf`: an answered command is in force (lists, paths, tables); nothing a
  worker uses changes under it; no port is received from by two lcores;
  flushes end; every component is served; exit leaves no worker running.
* forwarder, merger, classifier: every received packet is sent or freed once,
  to the port the table names; polling starts when the documents say so.
* port ability: tags are applied as configured, on every lcore, without a
  packet freed twice.
* `spp_mirror`: each packet leaves twice, and no mbuf is lost.
* `spp_nfv`: the loop never uses a port that was deleted.
* `spp_pcap`: start and stop see all lcores; files are closed once.
* `spp-ctl`: an answer is matched with its request; a process that went away
  leaves the table; identifiers are not shared.

`PROJECT.json` lists the hazards at their lines with the properties that watch
over them.

## 2. The modules

| module | content |
|---|---|
| `SppVf` | `spp_vf`: main thread, worker threads, commands, flush, double buffers of lists, forwarders, mergers and classifiers |
| `PathSwitch` | the abstract hand-over that a double buffer promises |
| `MCSppVf` | the symmetry used when TLC checks `SppVf` |
| `SppVf_proofs` | TLAPS proofs about `SppVf`: types, lists of components, the end of the process |
| `SppVfPath_proofs` | and about its double buffers: nothing changes under a reader, the refinement to `PathSwitch`, what they hold, who receives from a port |
| `Classifier` | the packets of one classifier: tables, choice of destinations, transmit buffers, reference counts, its double buffer |
| `Delivery` | the abstract promise for packets: a set of ports settled at reception, each left once unless its driver refuses the packet |
| `MCClassifier` | the configurations `Classifier` is checked with |
| `Classifier_proofs` | TLAPS proofs about `Classifier`, with the refinement to `Delivery` |
| `PortAbility` | the VLAN operations of ports: registration, double buffers, the lists of ports to switch that all lcores share |
| `MCPortAbility` | the ports `PortAbility` is checked with |
| `PortAbility_proofs` | TLAPS proofs about `PortAbility` |
| `Pcap` | `spp_pcap`: main thread, receiver, writers, shared counter, ring, files |
| `MCPcap` | the symmetry used when TLC checks `Pcap` |
| `Pcap_proofs` | TLAPS proofs about `Pcap` |
| `Nfv` | `spp_nfv`: commands, port map, patch table, forwarding loops, devices of the shared library |
| `MCNfv` | the resources `Nfv` is checked with |
| `Nfv_proofs` | TLAPS proofs about `Nfv` |
| `Mirror` | `spp_mirror`: life cycle, commands and flush, double buffer, copies, the mbuf pool |
| `Mirror_proofs` | TLAPS proofs about `Mirror` |
| `Ctl` | `spp-ctl` with the processes it controls: connections, accepting threads, table, semaphores, requests |
| `MCCtl` | the client ids `Ctl` is checked with |
| `Ctl_proofs` | TLAPS proofs about `Ctl` |

The modules are independent but for the refinements (`SppVf` to `PathSwitch`,
`Classifier` to `Delivery`): `spp_vf`, `spp_mirror`, `spp_nfv` and `spp_pcap` are
separate programs that share packets with each other and nothing else, and `Ctl`
is where they meet, each reduced to a client that takes commands.

### 2.1 `SppVf` and the code

State. `status`, `coreRef`, `coreUpd`, `coreIds` are the fields of
`g_core_info`; `comp` is `g_component_info`; `chgCore` and `chgComp` are the
change flags as sets; `added` and `opened` say which ports have an `iface_type`
and an open device; `classId` is the `class_id` of each port; `ref`, `upd`,
`area`, `used` are the double buffers of forwarders and mergers (`"fwd"`) and of
classifiers (`"cls"`). `wpc`, `wdone`, `wjob` are the place of a worker in
`slave_main`; `mpc`, `mcores`, `mtodo` that of the main thread.

Worker. One pass of the `while` of `slave_main` is `WorkerTop` (status test and
`spp_check_core_update`), then for each id of the list `WorkerPick` (the type is
read), `WorkerEnter` (the look at the two indices, and the test whether there
is something to poll) and `WorkerFinish` (the burst is over). A worker in
`"burst"` is using the area it picked: this is the interval in which nothing
may change under it. `WorkerStop` leaves the loop.

Main. `MainIdle` to `StartForwarding` are the launch; `Command` is one
disjunct per kind of command and takes the whole handler up to `spp_flush`; the
flush is split where a worker can observe a difference: after the devices
(`FlushPort`), after the indices of all flagged lcores were set
(`CoreRequest`), at each lcore's copy (`CoreCopy`), and for each component at
the filling of the area, the request and the end of the spin
(`ComponentWrite`, `ComponentRequest`, `ComponentSwitched`). `FlushPortFail` and
`ComponentFail` are the two error paths; the first keeps the flags and the
second clears them, as in the code. `Exit`, `LeaveLoop`, `Finalize`, `WaitStop`
are the end, `Signal` is the handler of SIGTERM and SIGINT.

Indices. The forwarder's indices start at 0 and 1, the classifier's both at 0,
since `spp_classifier_mac_init` zeroes the whole structure. The model keeps this
difference and a finding comes from it.

Abstractions. Ports, names and (vlan, MAC) pairs are opaque. Port lists and
lists of components are sets, their order only orders polling. VLAN tags are
only modelled as the forms of "port add" that differ in control (`Tags`). A
flagged set of lcores is waited for in any order, the code goes by lcore id:
this is more behaviour, not less. Packets are left out. The memory accesses of
one action are atomic and sequentially consistent; the code has no barriers and
relies on x86 ordering and on `volatile` for the indices.

### 2.2 `PathSwitch`

Each slot has a path in force, perhaps a published one waiting to be taken, and
readers that poll. `Publish` requires that nothing waits, `Take` that nobody
polls the slot. `SppVf` defines `Handover` as its instance under the refinement
mapping: the path in force is the area at `ref_index`, the waiting one is the
other area when the indices are equal. Writing the other area while nothing
waits is a stutter. That `PathSwitch` never lets a path change while it is
polled is visible in its actions.

### 2.3 `Classifier`, `Delivery` and the code

`SppVf` says when a classifier is updated, started and stopped; `Classifier`
says what becomes of its packets. It is one component: its worker and the main
thread that updates it.

State. `area`, `buf`, `ref`, `upd` are `management_info`: an area has the rx
side (`rx`), the tx ports, `mac_addr_entry` and one table for each VLAN
(`cls`), and `buf` holds `classified_data_tx[].pkts` beside it, since the worker
writes the buffers and main the rest. Tx indices count from 1 and 0 stands for
the code's -1. `refcnt` is the reference count of each mbuf, `vid` its VLAN
id as it is now, `hdr` its header as received, `out` and `refused` what each
port has sent and has not taken.

Worker. A call of `spp_classifier_mac_do` is `Enter` (the look at the indices,
the flush of the buffers of the area that is left, the test whether to go on),
`Drain`, `Receive` and one `Classify` for each packet. `Targets` translates
`select_classified_index` and `handle_l2multicast_packet`; `ExtraRefs` is what
the latter adds to the reference count, kept apart from the pushes as in the
code. The loops are recursive functions: `WithEntries` over the configuration,
`TransmitAll` over the buffers, `PushAll` over the tx indices of a packet. A driver
takes any number of packets of a burst and the others are freed.

Main. `Fill`, `Request`, `Uninit` are `spp_classifier_mac_update`; `FillFails` is
its error path, which leaves what was filled. `Stop` and `Start` stand for
`flush_core`, which takes the component from its worker between two calls and
leaves areas and buffers alone.

Left out: VLAN operations of rx ports (a packet has the header it has after
them), packets that a tx port's VLAN operation drops, the hash table's
capacity, and interleaving within a burst. `spoiled` says that an area that was
filled over the remains of a failed fill came into force. From there on the
active list of a VLAN can name a port twice or a tx index that is gone. It
takes exhausted memory, and the properties make no claim after it.

`Delivery` knows packets, ports and the copies still to leave. Under the
refinement mapping a packet in `rx_pkts` still has to go where it `Belongs`, a
definition made from the registered configuration alone, without tables, active
lists or the order of tests; afterwards, to the ports whose buffers hold it.
So `DeliverySpec` says that the lookup agrees with `Belongs`, that a flood puts
one copy in the buffer of each port, that nothing is sent twice or dropped but
by a driver that refuses it, and that neither an update nor a restart turns a packet to another port.

### 2.4 `PortAbility` and the code

State. `ability` is `spp_port_info.ability`, what commands have registered for a
port. `area`, `aref`, `aupd` are `g_port_mng_info[].rx` and `.tx`, one double
buffer for each port and direction; an area is cut at its first `NONE`. `list`
and `num` are the static variables of `spp_port_ability_change_index`. `toOpen`
and `opened` decide whether `flush_port` may fail, as in `SppVf`. `wuse` is the
area a worker goes through in a burst.

Main. `PortAdd`, `PortRetag` (add_vlantag for a port the component has already)
and `PortDel` are the three paths of `spp_update_port`; `PortDel` clears the
operations whether or not the component has the port, `Stop` clears none.
`AbilityWrite`, `AbilityMark` and `AbilityAppend` are one call of
`port_ability_set_ability`: filling, setting the index with reading the length,
and storing the port with the new length. They are three steps because a worker
can be in the loops of the same function at the time. `Selected` is the
sequence of the slots registered for a direction, given by their positions
(`SlotsOf`, `NthSlot`).

Worker. `Look` finds the two indices of the component equal or not; `SwitchPort`,
`EndOfList` and `EmptyLists` are the two loops and the reset of the lengths, one
turn at a time; `Flip` sets the component's index. `ReceiveBurst` and
`SendBurst` choose the area, `Received` and `Sent` leave it.

Restrictions. The set of classifiers in slots that had none before is `Fresh`:
their indices start equal. The passing run has none, and the run `lost_switch`
shows why. `Foreign` allows commands that touch what another component uses: a
second add_vlantag in the other direction of a port, which overwrites the tag of
the first, an add_vlantag of a port in use, and a port del of a port the
component does not have. The code accepts them and no document defines their
result; both runs set it to FALSE. Priorities (PCP) follow the VLAN id and are
left out, and so are packets, with the failures of an operation on one.

### 2.5 `Pcap` and the code

State. `request` is `g_capture_request` (main to receiver), `capture` is
`g_capture_status` (receiver to writers), `status` is `g_pcap_info[].status`,
`core` is `g_core_info[].status`; `cnt` is `start_up_cnt` and `reg` the value a
thread has loaded of it. `ring` and `hand` are `cap_ring` and a writer's burst,
`file` the open stream, `saved` and `left` the files on disk after and before
their rename.

Threads. `pc` is the place in `slave_main`. `ReceiverTop` to `Receive` is
`pcap_proc_receive`: the look at the request, the wait for the count
(`ReceiverGate`), a burst into the ring whose rest is dropped. `WriterStarts` to
`RollFails` is `pcap_proc_write` with `file_compression_operation`: opening,
taking a burst, writing packet by packet, rolling to the next file, and what
each does when it fails. The increment and decrement of the count are a load
(`CountLoad`) and a store (`CountUp`, `CountDown`), since it is a plain `int`.

Main. `StartUp` with the check of the arguments, `WaitIdle`, `Command` (start,
stop, exit and those that only answer; `StatusReply` is the content of the
answer), `Signal`, `LoopEnds`, `Resume`, `WaitStop`.

Left out: how a packet looks in a file, compression, JSON text. `raced`, `clash`
and `late` are history variables: an update of the count was overwritten, two
captures began within one second, a packet came while a writer was leaving. The
properties name them as the exact conditions under which the code goes wrong:

* after `raced` the receiver waits for ever, or lets packets in too early;
* after `clash` a file of the first capture can be overwritten by the second;
* after `late` packets stay in the ring until the next capture, or for good;
* a writer whose file cannot be opened ends for good and stays counted, so that no
  later capture runs, and its status is set to "stop requested" by an exit that then
  waits until its limit.

### 2.6 `Nfv` and the code

State. `fwd` is `ports_fwd_array`, `map` is `port_map`, `cmd` the word all lcores
read, `dev` what DPDK has attached at each id. `wpc`, `wi`, `wout` are the place
of a lcore in `forward()`: the index, and the outgoing port it has read.

Commands. One action per outcome of a command: `AddRing`, `AddPlugged`,
`AddHalfway` (a device that is attached and fails later stays), `AddRefused`,
`AddOther`, `Del` with `DelUnpatch` (between them workers see a port whose device
is gone), `DelOther`, `Patch`, `PatchRefused`, `PatchReset`, `StopOrForward`,
`SetClientId`, `Exit`. Failures are answered like successes, so nothing but the
tables tells them apart. Workers write none of the tables.

What the code does and no property forbids: `del` stops the workers' command word
without waiting for the pass in progress (`stale` marks the passes a deletion came
into); `forward_array_remove` removes the first patch to a deleted port only
(`fanin`); a vhost port is not detached and cannot be added again; `add phy`
registers port 0 with no type; several lcores all poll the same ports. The text
of `status` and the packet counters are left out.

### 2.7 `Mirror` and the code

The commands, the flush and the double buffer are those of `spp_vf` for one
component on one lcore, in the form `mirror_proc` uses them. What is new is
the worker: `Enter` (look at the indices, receive a burst), `Copy` (deep copy or
clone of every packet), `SendCopies`, `SendOriginals`, `Discard`. Mbufs of the pool
are counted: free in `pool`, held by the worker (`Held`), sent and not yet freed
by their receiver (`abroad`), lost with a killed process (`stranded`). `copies`
holds, for each copy of the burst, the mbufs taken for it and the copies before
it, so that what the first k hold is one look (`Upto`). `Kill`
and `Relaunch` end and start the process; the pool is in the memory of the
primary and is found again by name. `deep` is the choice made when the program
is built.

`Shares` says whose data an operation on an mbuf rewrites. `Released` excludes
exactly one case: when the mirror port takes more packets than the original
port, the originals between the two counts are neither sent nor freed
(`spp_mirror.c:457`). The NULL that a failed copy leaves in the burst is dropped
by the driver or ends the process, both of which are modelled. A VLAN operation
that fails, after which mbufs are freed twice, is left out.

### 2.8 `Ctl` and the code

State. `conns` are the TCP connections with what is on the way in both
directions; `procs` is the table of `Controller`, `connOf` and `sem` the
connection and the semaphore of each process object; `apc` and `rpc` are the
places of the two accepting threads and of each request; `pst`, `psock` the
processes. Green threads switch only where they wait, and an action goes from
one wait to the next.

spp-ctl. `AcceptPrimary`, `AcceptSecondary`, `Identify`, `IdentifyFails`,
`InstallLater` are the accepting threads; `Lookup`, `SendLater`, `Receive`,
`ReceiveNothing` one request; `Restart` the end and start of spp-ctl.
Processes. `Connect`, `Serve`, `ServeClosed`, `SeeClose`; those in `Blocking` have
the client of `spp_nfv` and `spp_primary`, whose failed send ends them
or leaves them unconnected (`AfterFailedSend`). Faults: `Crash`, `FallSilent`,
`Launch`, `Restart`, and a reply that arrives in two parts.

What the code does: one process that does not answer blocks the thread that
accepts secondaries, since `recv` has no time limit; a reset while a secondary is
identified ends that thread (`IdentifyFails`); the rest of a reply that came in
two parts becomes the start of the next reply (`torn`); a second process with
the same id takes the place of the first; an exit request takes the object out
of the table before it is sent; a process that died stays in the table until a
request finds out.

## 3. What TLC checks

`<Module>_<run>.cfg` belongs to run `<run>`. `MaxCommand` bounds the length of a
history.

| run | question | properties |
|---|---|---|
| `commands` | every sequence of 5 configuration commands on two workers and two slots | `TypeOK`, `InForce`, `TrafficFollows`, `CleanExit`, `ListStable`, `PathStable` |
| `ports` | 7 commands that move ports between forwarders on two lcores, no stop, devices that fail to open | `RxExclusive`, `WorkersAgree`, `ForwardersAgree`, `HandoverSpec` |
| `faults` | one worker; devices, MAC tables, late workers, signals; fairness | `SpinHasPartner`, `FlushEnds`, `Served` |
| `packets` | two packets, two tx ports, five configurations, 3 updates or stops, updates that fail; fairness | `TypeOK`, `Conserved`, `InOrder`, `DeliverySpec`, `Leaves` |
| `abilities` | 4 commands on a merger and a classifier, two ports, two VLAN ids, all forms of port add, devices that fail to open | `TypeOK`, `InForce`, `AbilityStable` |
| `pcap` | two writers, three packets, 3 commands, every file operation may fail | `TypeOK`, `CountRight`, `PacketsKept` |
| `pcap_live` | one writer, two packets, 4 commands or signals; fairness | `CaptureCompletes`, `ExitCompletes` |
| `nfv` | three port ids, four resources, 7 commands, one worker; fairness | `TypeOK`, `PortsRight`, `DeadOnlyInPass`, `Served` |
| `mirror` | a pool of three mbufs, chains of up to two, two packets, 6 commands, one kill and relaunch | `TypeOK`, `MbufsKept`, `FramesRight`, `InForce`, `BurstStable` |
| `ctl` | a primary and two secondaries with one id, two requests, one fault, three connections; fairness | `TypeOK`, `Matched`, `Reachable`, `Answered`, `Connects` |

`spp_vf`:

* `InForce`: when no flag is left, the area every component uses holds its
  registered ports, and a classifier's its table entries.
* `TrafficFollows`: at that moment no worker is still in a burst for what was
  replaced. Together with `InForce` this is what makes it safe for a client to
  give a port away after the answer. `RxExclusive` says the same of all states,
  but only for histories without a component stop, and except while both components
  are flagged: a flush after a failed one may update the component that gains
  the port before the one that loses it.
* `WorkersAgree` and `ForwardersAgree` are the parts of it that survive failed
  device openings, because `spp_flush` returns before the flags are cleared.
* `SpinHasPartner`: main only waits for a component that a worker has in its
  list. It needs that no component is started on the main lcore. `FlushEnds`:
  each flush ends unless a signal came.
* `ListStable`, `PathStable`, `HandoverSpec`: nothing changes under a reader.
* `Served` states that a component that stays registered and runnable is polled
  again and again, whatever shares its lcore.
* `CleanExit`: `main` returns when each worker has left its loop.

Classifier and port ability:

* `Conserved`: the reference count of an mbuf is the number of places that hold
  it. A leak and an early free are both violations.
* `InOrder`: a port sends packets in the order of reception, through full
  buffers, drains, updates and restarts.
* `Leaves`: no packet stays in a buffer for ever unless the component is stopped;
  then it waits for whatever classifier is started in the slot.
* `InForce` of `PortAbility`: once a command is answered, the area each burst
  chooses holds the operations registered for that port and direction, no more
  and no less. `AbilityStable`: what a burst goes through is not written
  meanwhile, and stays in force as long as the burst's component has the port.
  `TypeOK` bounds the shared lists.

  The condition at the end of `AbilityStable` is there because the code needs
  it. Component 1 has a port and is in a burst with it; a `port del` takes it
  away, but the flush fails at another device, before component 1 is updated; a
  `port add` gives the port to component 0, and its flush updates component 0
  first: the worker of component 0 walks the list (`spp_port.c:232`) and switches
  the port while the worker of component 1 still goes through the area that was
  in force. That area is not written, and the next update of component 1 ends
  its use. It takes 7 commands, more than `abilities` has, and came up as the
  one step at which the proof of the unconditional property could not go on.

`spp_pcap`:

* `CountRight`: the count that opens the receiver's gate is the number of
  threads that take part (and of writers that died), unless updates raced.
* `PacketsKept`: every packet that was received is in exactly one place (ring,
  a writer's hands, one file) or its loss was reported, and no capture finds
  packets of the one before in the ring.
* `CaptureCompletes`: a start opens the gate, and a stop empties the file names
  that status shows, as `docs/guides/commands/secondary/spp_pcap.rst` says.
  `ExitCompletes`: threads that are all asked to stop end, whatever the capture
  is doing. Their premises exclude the count's race and threads that died.

`spp_nfv`:

* `PortsRight`: between commands, what status lists is what can be patched and
  deleted, each under a name of its own, and a patch leads to the device it was
  made for, although ids are used again.
* `DeadOnlyInPass`: a worker touches a stopped or closed device only in the
  pass that the deletion came into.
* `Served`: a patch that stays is polled by every worker again and again,
  wherever it is in the array.

`spp_mirror`:

* `MbufsKept`: the pool's mbufs are free, held, on their way or lost in a kill,
  and a received packet is sent, freed or still in the burst, with the one
  exception named above.
* `FramesRight`: a port sends nothing twice and in order, and a packet leaves
  with the tag of the port it leaves by if copies are deep.
* `InForce`, `BurstStable`: as in `spp_vf`, and which of two ports is the mirror
  port does not change in a burst.

`spp-ctl`:

* `Matched`: a request gets its own reply, complete, whatever else is sent on
  the connection, replaced or cut, unless a reply was torn before.
* `Reachable`: spp-ctl keeps no connection open that no request can reach.
* `Answered` and `Connects`: every request ends and every process gets into the
  table (again), unless a process is silent or the accepting thread has ended.

### 3.1 Bounds

* `SppVf`: two of workers and slots are needed for a component to move between
  lcores, for two components to share one, and for one slot to be free while the
  other is flushed. Five commands are two starts, two port commands and a
  stop. `faults` has one worker, for its two components to share.
* `PortAbility`. Two components on two lcores: one flushed and one that
  may walk the lists meanwhile. Two ports fill the lists (`MaxList` is 2); one of
  them has to be opened first, so a flush can fail and the next one has two
  components to update. Four commands are two starts and two port commands, or one
  start, two adds and a retag or delete.
* `Classifier`. Two packets make a burst that fills a buffer
  (`BurstSize` is 2), one that does not, and two bursts with an update between
  them. Two tx ports make a flood and let one index mean two ports before and
  after an update. Three commands make two updates and a stop, in any order, so
  that both areas come into force with packets of another time in the buffers.
  The five configurations cover an address, a default, a VLAN without a default,
  a class given twice, a group address in a table and a port without an entry.
* `Pcap`. Two writers race for the count and share the ring; three packets
  exceed the ring of two, so that one is dropped; a file of one packet rolls with
  every packet. Three commands are a capture and the start of the next one, four with one
  writer two captures or a capture and an exit with a second signal.
* `Nfv`. Three ids for four resources: ids run out and are used again. Seven
  commands are three adds, a patch, a delete, an add at the old id and a patch.
  One worker is enough for what is checked of workers, since they write nothing shared.
* `Mirror`. Three mbufs are one chain of two and one of one: the second burst
  finds the pool short. Six commands are a start, three adds, a delete and an
  add.
* `Ctl`. Two secondaries with one id take each other's place; two requests meet
  at a semaphore; one fault meets each step of them. Three connections are one
  for each process or one process connecting again.

### 3.2 Fairness and deadlock

Each thread of a secondary is pinned to an lcore of its own, so each takes steps
for ever: `FairSpec` has weak fairness of each worker, of the flush and of the
life cycle. In `Classifier`, the worker calls the component for ever and main's
wait ends; in `Pcap` each thread and the main thread have it; in `Nfv` each
worker and the second half of a delete. In `Ctl` all behaviours are finite, since requests,
faults and connections are bounded, so weak fairness of any step by spp-ctl or
a process is fairness of every one of them. Nothing is assumed of
commands, signals, requests or faults, which come from outside.

Deadlock is checked except in `faults`, where SIGTERM can leave main spinning
while no other thread has a step, and in `ctl`, where every behaviour ends. In
`PortAbility`, `Idle` is main finding no command; with it a deadlock is a flush
that can not go on while no worker has a step.

### 3.3 Where the code and its documents disagree

Each of these runs checks one property and ends with a counterexample.

| run | what happens |
|---|---|
| `lost_switch` | a worker's first look at a new classifier is a switch nobody asked for; it walks and empties the shared lists while main appends a port of another component, whose VLAN operation never comes into force |
| `tags` | a flooded packet is one mbuf with several references; the tag one port adds leaves through the other port as well |

`lost_switch` needs three commands: a port of another component whose device
does not open, so that its component is still to be updated, then the start of
the first classifier in its slot.

Without a run of their own:

* The same first look, if it comes between the filling
  of the classifier's area and main's spin, is taken for the answer to its first
  update, and main uninitializes what it has just filled, name included
  (`classifier_mac.c:760`, `:802`).
* When a slot is taken over, between `flush_core` and `flush_component` the worker
  forwards with the path the stopped component left in `g_forward_info`.
* After SIGINT, a command that arrived before is still flushed while the workers
  have left: main spins in `flush_core` for ever (`spp_proc.c:877`).
* The stop action tests the type after clearing it (`command_proc.c:302`), so
  the table of a stopped classifier stays in the status.
* A merger polls with one rx port (`spp_forward.c:153`) and a classifier with
  one tx port (`classifier_mac.c:844`), where
  `docs/guides/design/spp_secondary.rst` asks for two.
* Originals leak in `spp_mirror` (section 2.7); the static method that
  receives replies names `self` (`spp_ctl.py:119`), which fails for replies of
  `MSG_SIZE` bytes or more.

## 4. What TLAPS proves

| module | theorem | statement |
|---|---|---|
| `SppVf_proofs` | `TypeCorrect` | `Spec => []TypeOK` |
| | `ListsAgree` | `Spec => []WorkersAgree` |
| | `SpinHasWorker` | `Spec => []SpinHasPartner`, if start commands name slave lcores |
| | `ListsStable` | `Spec => ListStable` |
| | `ExitsClean` | `Spec => []CleanExit`, without late workers and signals |
| `SppVfPath_proofs` | `PathsStable` | `Spec => PathStable` |
| | `HandoverCorrect` | `Spec => HandoverSpec`, the refinement of `PathSwitch` |
| | `ForwardersFit` | `Spec => []ForwardersAgree`, if no MAC table fails |
| | `TrafficFits` | `Spec => []TrafficFollows`, if no MAC table fails |
| | `AllInForce` | `Spec => []InForce`, if neither devices nor tables fail, without `add_vlantag` |
| | `ReceiversExclusive` | `Spec => []RxExclusive`, without component stops and `add_vlantag`, if no table fails |
| `Classifier_proofs` | `TypeCorrect` | `Spec => []TypeOK` |
| | `RefcountsCorrect` | `Spec => []Conserved` |
| | `OrderKept` | `Spec => []InOrder` |
| | `DeliveryCorrect` | `Spec => DeliverySpec`, the refinement of `Delivery` |
| `PortAbility_proofs` | `TypeCorrect` | `Spec => []TypeOK`, if `Orderly` |
| | `AllInForce` | `Spec => []InForce`, if `Orderly` |
| | `AbilitiesStable` | `Spec => AbilityStable`, if `Orderly` |
| `Mirror_proofs` | `TypeCorrect` | `Spec => []TypeOK` |
| | `MbufsCorrect` | `Spec => []MbufsKept` |
| | `FramesCorrect` | `Spec => []FramesRight` |
| | `AllInForce` | `Spec => []InForce` |
| | `BurstsStable` | `Spec => BurstStable` |
| `Pcap_proofs` | `CountCorrect` | `Spec => []CountRight` |
| | `TypeCorrect` | `Spec => []TypeOK` |
| | `PacketsCorrect` | `Spec => []PacketsKept` |
| `Nfv_proofs` | `TypeCorrect` | `Spec => []TypeOK` |
| | `PortsCorrect` | `Spec => []PortsRight`, if `Named` |
| | `DeletedOnlyInPass` | `Spec => []DeadOnlyInPass`, if `Named` |
| `Ctl_proofs` | `TypeCorrect` | `Spec => []TypeOK` |
| | `AllReachable` | `Spec => []Reachable` |
| | `RepliesMatched` | `Spec => []Matched` |

Each theorem holds for every value of the constants that satisfies the named
assumptions of its module and the condition in the table, faults included unless
the condition excludes them. The conditions are explained below: each names what
the code does that would break the statement.

### 4.1 `SppVf`

The theorems hold for any finite number of workers, any sets of ports,
names, classes and lcores and any bounds, under the named assumptions of
`SppVf` (the main lcore is not a slave, the empty name is not a name, at least
one slot).

The assumption of `SpinHasWorker` is not an idle one: component start accepts
any lcore in use (`command_proc.c:251`), the main lcore among them, and
`flush_core` would wait for ever for a switch that lcore never makes.

Argument. `TypeOK` alone is not inductive: `mid`, the component whose turn it
is, is the least element of `mtodo` and has a type only if `mtodo` is not empty;
`TypeInv` adds that. `LowestIn` (a non-empty set of ids has a least element)
comes from the well-foundedness of strict inclusion of finite sets.

`WorkersAgree` speaks of settled states only. `CoreInv` adds what holds in
between, in three parts:

* `IndexInv`: the two indices of an lcore are equal only while main waits for
  it in `flush_core`;
* `ListInv`: the list that a flush makes current always equals the registered
  components of the lcore. It is the area at `upd_index`, and the other one while
  the switch is awaited. The list in use is right as well wherever no flag is set
  or the copy is done;
* `FlagInv`: flagged components and those still to update are registered, and
  only on lcores that start commands name.

Each part is disturbed by few actions: commands (`CoreCommand`), a worker's
switch (`CoreWorker`) and the two loops of `flush_core` (`CoreFlush`). All other
steps are covered by the frame lemma `CoreFrame`. `ListsStable` follows since
commands and copies write the area at `upd_index`, which `IndexInv` separates
from the one in use.

`ExitsClean` needs `LifeInv`, which ties main's place to the states of the
workers: none has started before the launch, and all that are in their loop are
told to stop at the same time. A signal can be overwritten during the launch
(`spp_vf.c:325`), and main gives up on a worker after five looks: both are excluded.

Paths (`SppVfPath_proofs`). A worker's place in a component is only meaningful
relative to the list it walks and to the family of buffer it looked at, so
`AreaInv` adds to `CoreInv`

* `JobInv`: what a worker does, it does for a component in the list it walks, with
  the family of the registered type if that list is current. A type changes only
  when the slot is stopped and started again, and both flag the lcore;
* `PollInv`: a worker polls in the area at `ref_index`, and the indices of what it
  polls are equal only while main waits for just that path;
* `AskedInv`: a forwarder's indices are equal at no other time. (A new classifier's
  are, which is why the two families differ.)

Main writes the area at `upd_index` and not while it waits (`AreaWritten`), so
not the one a worker polls: `PathsStable`. `HandoverCorrect` is about forwarders
and mergers, whose switches are all requested, and maps every step:
`ComponentRequest` to `Publish`, `WorkerEnter` to `Take` or `Poll`, `WorkerFinish`
to `Finish`, all others to stutters.

What the buffers hold (second half of `SppVfPath_proofs`). `FitInv` says that the path in use of
a component whose update is complete fits (`DoneFits`), that the area which comes
into force with the switch awaited fits (`HandFits`), and that what is filled
next has an empty table (`FreshBlank`). "Fits" is the registered ports and, in
the strict case, the table; otherwise a classifier may also be one that polls
nothing yet. `PortInv` says that a port has one user in each direction. For
`RxExclusive`, `Apart` says that a component that is not up to date receives from
no port of an unflagged one.

* A failing MAC table makes `flush_component` return early, and `backup_mng_info`
  still clears all flags (`spp_proc.c:915`, `classifier_mac.c:788`): what had its turn after
  it is never updated. All four theorems exclude it.
* A device that fails leaves a flag behind, so that a classifier can have its
  first look in the middle of its first update (`classifier_mac.c:760`) and lose what was filled.
  Only `AllInForce` needs to exclude it.
* `add_vlantag` lets two components share a port, and only the first that sends
  to it is flagged when a class changes (`spp_proc.c:712`).
* A stopped component leaves its ports in its areas, and a component started in
  its slot polls them until its first update (section 3.3), whoever has the ports
  then: `ReceiversExclusive` is about histories without a stop.

### 4.2 `Classifier`

For any ports, VLANs, addresses, group addresses and registered configurations, any
size of a burst and of a configuration, any number of packets and commands, drivers
that take any part of a burst, and updates that fail; no condition. Like the
properties, the invariant speaks of packets only until an area that was filled over
the remains of a failed fill comes into force (`spoiled`).

`ClassifierInv` is

* `TypeInv`: the types, and no buffer is full between two steps;
* `AreaInv`: an area without such remains is `Whole`: for each VLAN and address
  its tables name the last port of that class, its active list has the listed
  ports, each once and in order, its default is the last default entry. And main
  starts to fill an area that is empty, or that has remains;
* `SwitchInv`: the indices are equal only while main waits, or the worker has not
  looked at the component yet and no buffer holds a packet. This is what keeps
  main's fill and clearing (`ClearsNothing`) away from packets;
* `PacketInv`: only buffers of the area in use hold packets, in ascending order
  and up to `First`, the last one classified (`BuffersOf`); what a port has sent is in
  order, was not refused too, and is older than anything in its buffer
  (`PortsOf`); the reference count is the number of buffers that hold the
  packet, and one if it waits in `rx_pkts` (`Counted`); `rx_pkts` holds the packets after
  `First` in order.

`Conserved` and `InOrder` need each other: a packet is counted once for each
buffer that holds it because buffers ascend, and they ascend because the packet
that is pushed is newer than all others.

The code has three loops: over the configuration in
`init_component_info`, over the buffers in `transmit_all_packet`, over the tx
indices of a packet. The model has each as a recursive function within an
operator (`WithEntries`, `TransmitAll`, `PushAll`), and one lemma for each
(`WithEntriesInduction` and so on) says that an invariant of the turns holds at the
end. They rest on `NatSetInduction`, induction for a set, which comes from the
well-foundedness of `<`; the library's induction theorems could not be used,
since they take an operator as a parameter. With it:

* `WithEntriesAre`: the tables after n turns are those of the first n ports;
* `TransmitAllSound`: sending all buffers loses nothing and leaves them empty;
* `PushAllSound`: a packet that is pushed to distinct tx indices, with references
  for all of them, is in the buffer of each or went through its port, and
  the references are used up;
* `TargetsAreRight`: `select_classified_index` and the flood choose distinct
  tx indices, those of the ports the packet `Belongs` to, and add one reference
  less than there are. A port has one class, so a flood of another VLAN does not
  have the untagged default in its active list too.

`DeliveryCorrect` maps `Enter` with a switch, `Drain` and `Classify` to `Leave`,
`Receive` to `Receive` and all other steps to stutters. The ghost of the proof is
`Due`, the packets a port has sent, refused or in its buffer: sending all buffers
leaves it (`SameDue`), and a push adds one packet for the ports it belongs to (`DueTo`).
From it follows for each packet and port whether it was settled in the step
(`EmptiedSettles`, `PushedSettles`, `OthersSettle`).

TLC checked `ClassifierInv` on the instance of the run `packets` before it was proved.

### 4.3 `Pcap`

For any finite set of writers, any sizes of ring, burst and file and any bounds.
`CountRight` compares the count with a set of threads that is given by their
places and their status, and the two change in different steps. `PlaceInv` ties
status to places (a writer that has not entered the capture is idle, one that
writes is running), and says that a thread between load and store has loaded the
current count unless `raced`. Then each store adds or removes one thread of a
finite set (`CountUpRight`, `CountDownRight`), all other steps change neither
side (`CountThread`, `CountMain`). A writer that dies stays counted: that is in
the statement, since the receiver's gate depends on it. `StartInv` says that no
thread is anywhere before the launch.

Type correctness adds `ControlInv`, `FileInv` (a file is open only after a
capture has set the date; this is why an open file has a name) and `PacketInv`
(ring and hands hold packets already received, and a writer at "write" has one
in hand, without which it would write from an empty burst).

`PacketsCorrect`. That each packet is in one place depends on the files not
overwriting each other, and that on their names. `KeepInv` adds

* `OpenInv`: a file is open exactly at the places between its opening and its
  closing, and a writer has packets in hand only while it writes;
* `DrainInv`: while there are packets in the ring, every writer that goes on is in
  the capture, and has not seen the ring empty, unless `late`;
* `NameInv`: the name a writer opens is later, by date and then by number, than
  any of its files on disk, and a writer that has still to enter a capture has no file
  of this date: unless two captures began within one second (`clash`);
* `HoldInv`: packets in the ring and in hand are distinct, and each packet
  received is in one place or dropped.

Moving a burst from ring to hands to file is then a matter of the three
sequences, and saving a file replaces none since its name is new.

### 4.4 `Nfv`

For any finite set of workers, any number of ports, NICs and resources. `Named`
says that commands name resources of a type whose number is not the one that
stands for "none" (`PORT_RESET`, which is `MaxPort` in the module):
`parse_resource_uid` takes any number, and a port registered under that one
would count as unregistered. Numbers are also indices into `client_stats`, which
is shorter.

`PortsRight` is not inductive: it speaks of the moments between commands only,
and its claim about patches needs to know what is attached where. `NfvInv` adds

* `DeviceInv`: a device is attached once, so that no two ids have one name;
* `TableInv`: a registered port is a started device under its name, except port
  0 once `add phy` has registered it with no type, and except the port a
  delete is halfway through with;
* `PatchInv`: both ends of a patch are alive, and the far end is the device it
  was made for, unless `fanin`. With `OnlyPatched` (if at most one port is patched to
  the deleted one, the first is the only one) the removal of the first patch
  keeps it;
* `PassInv`: a worker whose pass began after the last deletion holds live ports;
* `StartInv`: what start-up registers is there.

Each command has its lemma (`AddKeeps`, `DelKeeps`, `PatchKeeps`, ...), workers
have one (`WorkerKeeps`). The number of lines that status shows follows from a
bijection between registered ports and names (`NamesDiffer`).

### 4.5 `PortAbility`

For any components and ports (no more than the lists have room for, as dpdk
numbers them below `RTE_MAX_ETHPORTS`), any number of operations and commands, and
devices that fail. `Orderly` says two things. `Fresh` is empty: no classifier is the
first in its slot, since that one's unrequested switch loses other components'
operations (run `lost_switch`). `Foreign` is false: commands name ports
that their component has or that nobody uses (section 2.4).

The lists are shared by main and all workers without a lock, so the invariant has
to say why they never meet. `AbilityInv` is

* `OwnerInv`: a port belongs to one component in each direction;
* `MainInv`: which ports of the current component main has still to handle;
* `WorkerInv`: only the worker that main waits for finds its indices equal, so
  only it walks the lists, and it walks them while main does nothing else;
* `ListInv`: outside an update the lists are empty; during one they hold ports of
  the current component, each once, and the two indices of a port are equal
  exactly while it waits in a list or is about to. From "each once" and the number
  of ports follows that an append finds room (`RoomInList`);
* `ContentInv`: the area in force, or about to be, holds the registered
  operations, except for components still to be updated;
* `PathInv`, `UseInv`: a worker goes through the area in force of a port on its
  path, or that port was taken over by another component while its own is
  still to be updated (the case described in section 3).

TLC checked `AbilityInv` before it was proved, with 4 and with 7 commands. The
operations in an area are a bijection of the slots of their direction
(`OperationsRight`): different slots have different ranks (`RankInjective`), and an
injection between finite sets of one size is onto (`NthSlotIn`).

### 4.6 `Mirror`

For any pool, burst, number of packets, ports, commands and launches, both
kinds of copy, and a process that is killed at any step; no condition.
`MirrorInv` is the conjunction of

* `LifeInv`, `ListInv`, `PathInv`: as for `spp_vf`, for one component and one lcore:
  which stages of main and worker go together, when list and path are the
  registered ones, when the indices are equal;
* `BatchInv`: the locals of `mirror_proc`. The burst is the packets received last,
  the copies counted so far grow, and nothing is left over when it is done;
* `PoolWhole`: free, held, sent and stranded mbufs add up to the pool;
* `FramesInv`: what the ports have of the burst is exactly as far as the worker has
  come (`SentInv`), what it is marked with is the tags of the ports it has gone
  through (`MarkInv`), and with them the parts of `FramesRight` and `MbufsKept`.

That a packet is not sent with its copy by one port needs that the two transmit
ports differ: `PortAdd` adds a port once, and `PortDel`, which closes the gap in the
array (`Closed`), keeps the others apart.

### 4.7 `Ctl`

For any processes, ids, requests, connections and faults; no condition.
`CtlInv` has, besides the types,

* `PlaceInv`: a connection that is not yet known waits in one backlog, once, or with
  one accepting thread;
* `TableInv`: the table names objects whose connections were identified, and a
  thread that waits to replace an object still finds it there, unless a
  request told it to exit in between;
* `OwnConnInv`: objects in use have connections of their own. The takeover of a
  connection by an older object would otherwise lead two requests with different
  semaphores to one socket;
* `SemInv`: a semaphore's queue holds, once, each thread that waits for the object,
  and only its head may have sent a command;
* `MsgInv`: on a connection that is not `torn` there is at most one command or one
  reply, of the one who waits for it.

`Reachable` follows from the first three; `Matched` from the last two: the head of
the queue is alone on the connection, so what it reads is the reply to what
it sent. `MsgInv` is what fails after a reply in two parts, and it is also what makes
`TypeOK` say that a connection carries one command at a time.

### 4.8 Only model-checked

* The liveness properties of all modules (`FlushEnds`, `Served`, `Leaves`,
  `CaptureCompletes`, `ExitCompletes`, `Answered`, `Connects`): fairness and
  ENABLED are outside what the proof system can do.

## 5. Not modelled, and the plan

Not modelled:

* the text of commands and answers, and the string buffer that cuts the stream
  of the connection into commands: a command arrives whole;
* `spp_primary`, except as a client of `spp-ctl`: it initializes memory, ports
  and rings once, and its counters are read by nobody else;
* in `spp-ctl`, which command a REST request becomes and how its body is
  checked: no state of `spp-ctl` depends on it;
* what a VLAN operation does to a packet, apart from the tag that a tx port adds;
* ring latency statistics, the controller CLI and the tools: they have no
  state that anything else depends on.

Next, most important first:

1. `AllInForce` of `SppVf` with failing devices, for components other than
   classifiers that had their first update cut short.
2. The decoding of commands (`command_dec.c`) as an operator that `SppVf` and
   `PortAbility` use.
