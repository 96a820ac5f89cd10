----------------------------- MODULE Nfv_proofs -----------------------------
(***************************************************************************)
(* Proofs about Nfv for any number of workers, ports, resources and        *)
(* commands.                                                               *)
(***************************************************************************)
EXTENDS Nfv, FiniteSetTheorems, FunctionTheorems, TLAPS

LEMMA PortFacts ==
    /\ IsFiniteSet(Port) /\ Port \subseteq Nat /\ 0 \in Port
    /\ NoPort \notin Port /\ NoPort \in Nat
    /\ NoUid \in Uid /\ NoUid.no = NoPort /\ NoUid.type = "undef"
BY PortAssumption, FS_Interval DEF Port, NoPort, NoUid, Uid

(* A non-empty set of ports has a lowest one: the device id that the next   *)
(* device gets.                                                             *)
LEMMA LowestIn ==
    ASSUME NEW S \in SUBSET Port, S # {}
    PROVE  Lowest(S) \in S
<1> DEFINE Below(i) == {k \in S : k < i}
           T == {Below(i) : i \in S}
<1>1. IsFiniteSet(S)
  BY PortFacts, FS_Subset
<1>2. T \subseteq FiniteSubsetsOf(S) /\ T # {}
  <2>1. FiniteSubsetsOf(S) = SUBSET S
    BY <1>1, FS_FiniteSubsetsOfFinite
  <2>2. \A x \in T : x \in SUBSET S
    OBVIOUS
  <2>3. PICK i \in S : TRUE
    OBVIOUS
  <2>4. Below(i) \in T
    BY <2>3
  <2> HIDE DEF T
  <2> QED
    BY <2>1, <2>2, <2>4
<1>3. PICK x \in T : \A y \in T : ~ (<<y, x>> \in StrictSubsetOrdering(S))
  BY <1>2, FS_StrictSubsetOrderingWellFounded, WFMin
<1>4. PICK i \in S : x = Below(i)
  BY <1>3
<1>5. ASSUME NEW k \in S, k < i
      PROVE  FALSE
  <2>0. i \in Int /\ \A j \in S : j \in Int
    BY PortFacts
  <2>1. Below(k) \subseteq Below(i) /\ Below(k) # Below(i)
    <3>1. \A j \in Below(k) : j \in Below(i)
      BY <2>0, <1>5
    <3>2. k \in Below(i) /\ k \notin Below(k)
      BY <2>0, <1>5
    <3> QED
      BY <3>1, <3>2
  <2>2. <<Below(k), Below(i)>> \in StrictSubsetOrdering(S)
    BY <2>1 DEF StrictSubsetOrdering
  <2> QED
    BY <1>3, <1>4, <2>2
<1>6. \A k \in S : i <= k
  BY PortFacts, <1>5
<1> QED
  BY <1>6 DEF Lowest

LEMMA PortIdType ==
    ASSUME NEW u
    PROVE  /\ PortId(u) \in Port \cup {NoPort}
           /\ PortId(u) # NoPort => PortId(u) \in Port /\ map[PortId(u)] = u
<1>1. CASE PortIds(u) = {}
  BY <1>1 DEF PortId
<1>2. CASE PortIds(u) # {}
  <2>1. Lowest(PortIds(u)) \in PortIds(u)
    BY <1>2, LowestIn DEF PortIds
  <2> QED
    BY <1>2, <2>1, PortFacts DEF PortId, PortIds
<1> QED
  BY <1>1, <1>2

LEMMA FreeType ==
    ASSUME FreeIds # {}
    PROVE  Lowest(FreeIds) \in Port /\ dev[Lowest(FreeIds)].state = "absent"
BY LowestIn DEF FreeIds

LEMMA RingIdsType ==
    ASSUME NEW u, NEW i \in RingIds(u)
    PROVE  /\ i \in Port
           /\ \/ dev[i].uid = u
              \/ Attached(u) = {} /\ dev[i].state = "absent"
<1>1. CASE Attached(u) # {}
  <2>1. i \in Attached(u)
    BY <1>1 DEF RingIds
  <2> QED
    BY <2>1 DEF Attached
<1>2. CASE Attached(u) = {}
  <2>1. FreeIds # {} /\ i = Lowest(FreeIds)
    BY <1>2 DEF RingIds
  <2> QED
    BY <1>2, <2>1, FreeType
<1> QED
  BY <1>1, <1>2

-----------------------------------------------------------------------------
(* Type correctness.                                                        *)

TypeInv == TypeOK /\ (mpc = "unpatch" => deleted # NoPort)

LEMMA PlaceType ==
    ASSUME TypeInv, NEW w \in Worker,
           NEW place \in {"top", "scan", "rx", "tx"},
           NEW i \in Port, NEW o \in Port \cup {NoPort},
           Place(w, place, i, o), stale' \subseteq Worker
    PROVE  TypeInv'
<1>1. /\ wpc' \in [Worker -> {"none", "top", "scan", "rx", "tx"}]
      /\ wi' \in [Worker -> Port]
      /\ wout' \in [Worker -> Port \cup {NoPort}]
  BY DEF TypeInv, TypeOK, Place
<1> QED
  BY <1>1 DEF TypeInv, TypeOK, Place, tableVars

LEMMA TypeWorker ==
    ASSUME TypeInv, NEW w \in Worker, WorkerStep(w)
    PROVE  TypeInv'
<1>1. /\ wi[w] \in Port /\ wout[w] \in Port \cup {NoPort}
      /\ fwd[wi[w]].out \in Port \cup {NoPort}
      /\ stale \subseteq Worker
  BY DEF TypeInv, TypeOK
<1>2. ASSUME NextPort(w)
      PROVE  TypeInv'
  <2>1. stale' \subseteq Worker
    BY <1>1, <1>2 DEF NextPort
  <2> QED
    BY <1>2, <2>1, PlaceType, PortFacts DEF NextPort
<1>3. CASE BeginPass(w)
  BY <1>1, <1>3, PlaceType, PortFacts DEF BeginPass
<1>4. CASE SkipPort(w) \/ Send(w)
  BY <1>2, <1>4 DEF SkipPort, Send
<1>5. CASE TakePort(w)
  BY <1>1, <1>5, PlaceType DEF TakePort
<1>6. CASE Receive(w)
  BY <1>1, <1>2, <1>6, PlaceType DEF Receive
<1> QED
  BY <1>3, <1>4, <1>5, <1>6 DEF WorkerStep

LEMMA DeviceType ==
    ASSUME NEW u \in Resource, NEW s \in {"idle", "started"}
    PROVE  [uid |-> u, state |-> s] \in Device
BY DEF Device

LEMMA NoDeviceType == NoDevice \in Device
BY DEF NoDevice, Device

LEMMA CountType ==
    ASSUME TypeInv, TakeCommand
    PROVE  ncmd' \in 0 .. MaxCommand
BY BoundAssumption DEF TypeInv, TypeOK, TakeCommand

LEMMA RegisteredType ==
    ASSUME TypeInv, NEW i \in Port, NEW u \in Uid, Registered(i, u)
    PROVE  /\ fwd' \in [Port -> [in : BOOLEAN, out : Port \cup {NoPort}]]
           /\ map' \in [Port -> Uid]
BY DEF TypeInv, TypeOK, Registered

LEMMA TypeAdd ==
    ASSUME TypeInv, NEW u \in Resource,
           \/ AddRing(u) \/ AddPlugged(u) \/ AddHalfway(u) \/ AddRefused(u)
           \/ AddOther(u)
    PROVE  TypeInv'
<1>1. u \in Uid /\ u.no \in Nat /\ [type |-> "undef", no |-> u.no] \in Uid
  BY ResourceAssumption DEF Uid
<1> USE <1>1, PortFacts, CountType DEF TypeInv, TypeOK, tableVars, workerVars, histVars
<1>2. CASE AddRing(u)
  <2>1. PICK i \in RingIds(u) :
          /\ dev' = [dev EXCEPT ![i] = [uid |-> u, state |-> "started"]]
          /\ Registered(i, u)
    BY <1>2 DEF AddRing
  <2>2. i \in Port
    BY RingIdsType
  <2> QED
    BY <1>2, <2>1, <2>2, DeviceType, RegisteredType DEF AddRing, TakeCommand
<1>3. CASE AddPlugged(u)
  <2>1. Lowest(FreeIds) \in Port
    BY <1>3, FreeType DEF AddPlugged, CanPlug
  <2> QED
    BY <1>3, <2>1, DeviceType, RegisteredType DEF AddPlugged, TakeCommand
<1>4. CASE AddHalfway(u)
  <2>1. Lowest(FreeIds) \in Port
    BY <1>4, FreeType DEF AddHalfway, CanPlug
  <2> QED
    BY <1>4, <2>1, DeviceType DEF AddHalfway, TakeCommand
<1>5. CASE AddRefused(u)
  BY <1>5 DEF AddRefused, TakeCommand
<1>6. CASE AddOther(u)
  BY <1>6, RegisteredType DEF AddOther, TakeCommand
<1> QED
  BY <1>2, <1>3, <1>4, <1>5, <1>6

LEMMA TypeDel ==
    ASSUME TypeInv, NEW u \in Resource, Del(u) \/ DelOther(u)
    PROVE  TypeInv'
<1> USE PortFacts, CountType DEF TypeInv, TypeOK, tableVars, workerVars, histVars
<1>1. CASE DelOther(u)
  BY <1>1 DEF DelOther, TakeCommand
<1>2. CASE Del(u) /\ PortId(u) = NoPort
  BY <1>2 DEF Del, TakeCommand
<1>3. CASE Del(u) /\ PortId(u) # NoPort
  <2> DEFINE i == PortId(u)
  <2>1. i \in Port
    BY <1>3, PortIdType
  <2>2. /\ dev' = [dev EXCEPT ![i] = DeviceAfterDel(i)]
        /\ deleted' = i /\ mpc' = "unpatch"
    BY <1>3 DEF Del
  <2> HIDE DEF i
  <2>3. DeviceAfterDel(i) \in Device
    <3>1. dev[i] \in Device /\ [dev[i] EXCEPT !.state = "closed"] \in Device
      BY <2>1 DEF Device
    <3> QED
      BY <3>1, NoDeviceType DEF DeviceAfterDel
  <2> QED
    BY <1>3, <2>1, <2>2, <2>3 DEF Del, TakeCommand
<1> QED
  BY <1>1, <1>2, <1>3

LEMMA TypePatch ==
    ASSUME TypeInv, NEW u \in Resource, NEW v \in Resource,
           Patch(u, v) \/ PatchRefused(u, v)
    PROVE  TypeInv'
<1> USE PortFacts, CountType DEF TypeInv, TypeOK, tableVars, workerVars, histVars
<1>1. CASE PatchRefused(u, v)
  BY <1>1 DEF PatchRefused, TakeCommand
<1>2. CASE Patch(u, v)
  <2>1. PortId(u) \in Port /\ PortId(v) \in Port
    BY <1>2, PortIdType DEF Patch, ValidPort
  <2>2. \A i \in Port : dev[i].uid \in Uid
    BY ResourceAssumption DEF Device, Phy, Uid, PortType
  <2>3. patched' \in [Port -> Uid]
    BY <1>2, <2>1, <2>2 DEF Patch
  <2>4. fwd' \in [Port -> [in : BOOLEAN, out : Port \cup {NoPort}]]
    BY <1>2, <2>1 DEF Patch
  <2> QED
    BY <1>2, <2>3, <2>4 DEF Patch, TakeCommand
<1> QED
  BY <1>1, <1>2

LEMMA TypeKept ==
    ASSUME TypeInv, [Next]_vars
    PROVE  TypeInv'
<1> USE PortFacts, CountType DEF TypeInv, TypeOK, tableVars, workerVars, histVars
<1>1. CASE StartUp
  <2>1. \A i \in Port : Phy(i) \in Uid
    BY DEF Phy, Uid, PortType
  <2>2. Unpatched \in [in : BOOLEAN, out : Port \cup {NoPort}]
          /\ \A b \in BOOLEAN : [Unpatched EXCEPT !.in = b]
                \in [in : BOOLEAN, out : Port \cup {NoPort}]
    BY DEF Unpatched
  <2>3. fwd' \in [Port -> [in : BOOLEAN, out : Port \cup {NoPort}]]
          /\ map' \in [Port -> Uid]
    <3>1. CASE UNCHANGED tableVars
      BY <3>1
    <3>2. CASE /\ fwd' = [i \in Port |-> [Unpatched EXCEPT !.in = (i < PhyCnt)]]
               /\ map' = [i \in Port |-> IF i < PhyCnt THEN Phy(i) ELSE NoUid]
      <4>1. \A i \in Port : (i < PhyCnt) \in BOOLEAN
        OBVIOUS
      <4>2. \A i \in Port : [Unpatched EXCEPT !.in = (i < PhyCnt)]
                               \in [in : BOOLEAN, out : Port \cup {NoPort}]
        BY <2>2, <4>1
      <4>3. fwd' \in [Port -> [in : BOOLEAN, out : Port \cup {NoPort}]]
        BY <3>2, <4>2
      <4> QED
        BY <2>1, <3>2, <4>3
    <3> QED
      BY <1>1, <3>1, <3>2 DEF StartUp
  <2>4. wpc' \in [Worker -> {"none", "top", "scan", "rx", "tx"}]
          /\ mpc' \in {"loop", "exited"}
    BY <1>1 DEF StartUp
  <2> QED
    BY <1>1, <2>3, <2>4 DEF StartUp
<1>2. CASE StopOrForward \/ SetClientId \/ Exit \/ PatchReset
  BY <1>2 DEF StopOrForward, SetClientId, Exit, PatchReset, TakeCommand
<1>3. CASE DelUnpatch
  BY <1>3 DEF DelUnpatch, EntryAfterDel, NameAfterDel, Unpatched
<1>4. CASE UNCHANGED vars
  BY <1>4 DEF vars
<1> HIDE DEF TypeInv, TypeOK
<1> QED
  BY <1>1, <1>2, <1>3, <1>4, TypeAdd, TypeDel, TypePatch, TypeWorker
     DEF Next, Command, Exited

LEMMA TypeInit == ASSUME Init PROVE TypeInv
<1>1. \A i \in Port : /\ i < PhyCnt => [uid |-> Phy(i), state |-> "started"]
                                          \in Device
  BY DEF Device
<1>2. dev \in [Port -> Device]
  BY <1>1, NoDeviceType DEF Init
<1>3. fwd \in [Port -> [in : BOOLEAN, out : Port \cup {NoPort}]]
        /\ map \in [Port -> Uid] /\ patched \in [Port -> Uid]
  BY PortFacts DEF Init, Unpatched
<1>4. /\ mpc = "init" /\ deleted = NoPort /\ cmd = "stop" /\ client = 0
      /\ ncmd = 0 /\ stale = {} /\ fanin = FALSE
      /\ wpc = [w \in Worker |-> "none"] /\ wi = [w \in Worker |-> 0]
      /\ wout = [w \in Worker |-> NoPort]
  BY DEF Init
<1>5. /\ wpc \in [Worker -> {"none", "top", "scan", "rx", "tx"}]
      /\ wi \in [Worker -> Port] /\ wout \in [Worker -> Port \cup {NoPort}]
  BY <1>4, PortFacts
<1>6. ncmd \in 0 .. MaxCommand
  BY <1>4, BoundAssumption
<1> QED
  BY <1>2, <1>3, <1>4, <1>5, <1>6 DEF TypeInv, TypeOK

(* The tables, the devices and the workers' places have their types: no     *)
(* walk over ports_fwd_array leaves it.                                     *)
THEOREM TypeCorrect == Spec => []TypeOK
<1>1. TypeInv => TypeOK
  BY DEF TypeInv
<1> QED
  BY <1>1, TypeInit, TypeKept, PTL DEF Spec

-----------------------------------------------------------------------------
(***************************************************************************)
(* The tables and the devices, under the assumption that no command names  *)
(* a resource with the number that stands for none: parse_resource_uid     *)
(* takes any number, and port_map[].id of such a port would read as unset. *)
(***************************************************************************)

Named == \A u \in Resource : u.type # "undef" /\ u.no # MaxPort

(* A device is attached once, and what is attached has a name.              *)
DeviceInv ==
    \A i \in Port :
        /\ dev[i].state = "absent" <=> dev[i].uid = NoUid
        /\ \A j \in Port :
              dev[j].uid = dev[i].uid => i = j \/ dev[i].uid = NoUid

(* Between the two halves of do_del the port it deletes has lost its device *)
(* and not its entries.                                                     *)
Settled(i) == mpc # "unpatch" \/ i # deleted
Live(i)    == dev[i].state = "started"

(* A registered port is a started device under its name, or what "add phy"  *)
(* has made of port 0.                                                      *)
TableInv ==
    \A i \in Port :
        /\ fwd[i].in <=> map[i].no # MaxPort
        /\ fwd[i].in /\ Settled(i) =>
              \/ i = 0 /\ map[i].type = "undef"
              \/ dev[i].uid = map[i] /\ Live(i)

(* Both ends of a patch are alive, and the far end is the one it was made   *)
(* for.                                                                     *)
PatchInv ==
    ~fanin => \A i \in Port : fwd[i].out # NoPort =>
        /\ fwd[i].in
        /\ Settled(i) => Live(i)
        /\ Settled(fwd[i].out) => /\ Live(fwd[i].out)
                                  /\ dev[fwd[i].out].uid = patched[i]

(* A worker that took a patch after the last deletion holds live ports.     *)
PassInv ==
    ~fanin /\ mpc = "loop" => \A w \in Worker :
        wpc[w] \in {"rx", "tx"} /\ w \notin stale
            => wout[w] \in Port /\ Live(wi[w]) /\ Live(wout[w])

StartInv ==
    mpc = "init" => \A i \in Port :
        i < PhyCnt => dev[i].uid = Phy(i) /\ Live(i)

NfvInv == TypeInv /\ DeviceInv /\ TableInv /\ PatchInv /\ PassInv /\ StartInv

LEMMA NfvInit == ASSUME Init PROVE NfvInv
<1>1. \A i \in Port : Phy(i) # NoUid /\ (\A j \in Port : Phy(i) = Phy(j) => i = j)
  <2>1. \A i \in Port : Phy(i).no = i
    BY DEF Phy
  <2> QED
    BY <2>1, PortFacts
<1>2. \A i \in Port : dev[i] = IF i < PhyCnt
                               THEN [uid |-> Phy(i), state |-> "started"]
                               ELSE [uid |-> NoUid, state |-> "absent"]
  BY DEF Init, NoDevice
<1>3. DeviceInv
  <2>1. ASSUME NEW i \in Port, i < PhyCnt
        PROVE  dev[i].uid = Phy(i) /\ dev[i].state = "started"
    <3>1. dev[i] = [uid |-> Phy(i), state |-> "started"]
      BY <1>2, <2>1
    <3> QED
      BY <3>1
  <2>2. ASSUME NEW i \in Port, ~(i < PhyCnt)
        PROVE  dev[i].uid = NoUid /\ dev[i].state = "absent"
    <3>1. dev[i] = [uid |-> NoUid, state |-> "absent"]
      BY <1>2, <2>2
    <3> QED
      BY <3>1
  <2> QED
    BY <1>1, <2>1, <2>2 DEF DeviceInv
<1>4. TableInv /\ PatchInv /\ PassInv
  <2>1. \A i \in Port : /\ fwd[i].in = FALSE /\ fwd[i].out = NoPort
                        /\ map[i].no = MaxPort
    BY PortFacts DEF Init, Unpatched, NoPort
  <2>2. mpc = "init"
    BY DEF Init
  <2> QED
    BY <2>1, <2>2 DEF TableInv, PatchInv, PassInv
<1>5. StartInv
  <2> SUFFICES ASSUME NEW i \in Port, i < PhyCnt
               PROVE  dev[i].uid = Phy(i) /\ dev[i].state = "started"
    BY DEF StartInv, Live
  <2>1. dev[i] = [uid |-> Phy(i), state |-> "started"]
    BY <1>2
  <2> QED
    BY <2>1
<1> QED
  BY <1>3, <1>4, <1>5, TypeInit DEF NfvInv

(* A resource that is attached, for the first time or again, is attached    *)
(* once.                                                                    *)
LEMMA AttachedOnce ==
    ASSUME NfvInv, Named, NEW u \in Resource, NEW i \in Port,
           NEW s \in {"idle", "started"},
           dev' = [dev EXCEPT ![i] = [uid |-> u, state |-> s]],
           \/ dev[i].uid = u
           \/ Attached(u) = {} /\ dev[i].state = "absent"
    PROVE  DeviceInv'
<1>1. u # NoUid
  BY PortFacts DEF Named
<1>2. \A j \in Port \ {i} : dev'[j] = dev[j] /\ dev[j].uid # u
  BY <1>1 DEF NfvInv, TypeInv, TypeOK, DeviceInv, Attached
<1>3. dev'[i].uid = u /\ dev'[i].state = s
  BY DEF NfvInv, TypeInv, TypeOK
<1> QED
  BY <1>1, <1>2, <1>3 DEF NfvInv, DeviceInv

(* A port that is registered with a started device is a good port, and no   *)
(* patch leads elsewhere by it.                                             *)
LEMMA RegisterKeeps ==
    ASSUME NfvInv, Named, NEW u \in Resource, NEW i \in Port,
           dev' = [dev EXCEPT ![i] = [uid |-> u, state |-> "started"]],
           \/ dev[i].uid = u
           \/ Attached(u) = {} /\ dev[i].state = "absent",
           Registered(i, u), mpc = "loop",
           UNCHANGED <<mpc, deleted, workerVars, histVars>>, TypeInv'
    PROVE  NfvInv'
<1> USE DEF NfvInv, TypeInv, TypeOK, workerVars, histVars, Live, Settled
<1>1. DeviceInv'
  BY AttachedOnce
<1>2. /\ dev'[i].uid = u /\ dev'[i].state = "started"
      /\ \A j \in Port \ {i} : dev'[j] = dev[j]
      /\ map'[i] = u /\ (\A j \in Port \ {i} : map'[j] = map[j])
      /\ fwd'[i].in /\ (\A j \in Port \ {i} : fwd'[j].in = fwd[j].in)
      /\ \A j \in Port : fwd'[j].out = fwd[j].out
  BY DEF Registered
<1>3. TableInv'
  BY <1>2 DEF TableInv, Named
<1>4. \A j \in Port : Live(j) => Live(j)' /\ dev'[j].uid = dev[j].uid
  BY <1>2
<1>5. PatchInv'
  <2> SUFFICES ASSUME ~fanin, NEW j \in Port, fwd[j].out # NoPort
               PROVE  /\ fwd'[j].in /\ Live(j)'
                      /\ dev'[fwd[j].out].state = "started"
                      /\ dev'[fwd[j].out].uid = patched[j]
    BY <1>2 DEF PatchInv
  <2>1. fwd[j].out \in Port
    OBVIOUS
  <2> QED
    BY <1>2, <1>4, <2>1 DEF PatchInv
<1>6. PassInv'
  <2> SUFFICES ASSUME ~fanin, NEW w \in Worker, wpc[w] \in {"rx", "tx"},
                      w \notin stale
               PROVE  dev'[wi[w]].state = "started"
                        /\ dev'[wout[w]].state = "started"
    BY DEF PassInv
  <2>1. wout[w] \in Port /\ Live(wi[w]) /\ Live(wout[w])
    BY DEF PassInv
  <2> QED
    BY <1>4, <2>1
<1>7. StartInv'
  BY DEF StartInv
<1> QED
  BY <1>1, <1>3, <1>5, <1>6, <1>7

LEMMA AddKeeps ==
    ASSUME NfvInv, Named, NEW u \in Resource,
           \/ AddRing(u) \/ AddPlugged(u) \/ AddHalfway(u) \/ AddRefused(u)
           \/ AddOther(u)
    PROVE  NfvInv'
<1> USE DEF workerVars, histVars, tableVars
<1>1. TypeInv'
  BY TypeAdd DEF NfvInv
<1>2. CASE AddRing(u)
  <2>1. PICK i \in RingIds(u) :
          /\ dev' = [dev EXCEPT ![i] = [uid |-> u, state |-> "started"]]
          /\ Registered(i, u)
    BY <1>2 DEF AddRing
  <2> QED
    BY <1>1, <1>2, <2>1, RingIdsType, RegisterKeeps DEF AddRing, TakeCommand
<1>3. CASE AddPlugged(u)
  BY <1>1, <1>3, FreeType, RegisterKeeps DEF AddPlugged, CanPlug, TakeCommand
<1>4. CASE AddHalfway(u)
  <2> USE DEF NfvInv, TypeInv, TypeOK, Live, Settled
  <2> DEFINE i == Lowest(FreeIds)
  <2>1. i \in Port /\ dev[i].state = "absent" /\ Attached(u) = {}
    BY <1>4, FreeType DEF AddHalfway, CanPlug
  <2>2. dev' = [dev EXCEPT ![i] = [uid |-> u, state |-> "idle"]]
    BY <1>4 DEF AddHalfway
  <2> HIDE DEF i
  <2>3. DeviceInv'
    BY <2>1, <2>2, AttachedOnce
  <2>4. \A j \in Port : Live(j) => dev'[j] = dev[j]
    BY <2>1, <2>2
  <2>5. UNCHANGED <<mpc, deleted, fwd, map, wpc, wi, wout, stale, patched,
                    fanin>> /\ mpc = "loop"
    BY <1>4 DEF AddHalfway, TakeCommand
  <2>6. TableInv'
    BY <2>4, <2>5 DEF TableInv
  <2>7. PatchInv'
    BY <2>4, <2>5 DEF PatchInv
  <2>8. PassInv' /\ StartInv'
    BY <2>4, <2>5 DEF PassInv, StartInv
  <2> QED
    BY <1>1, <2>3, <2>6, <2>7, <2>8
<1>5. CASE AddRefused(u)
  BY <1>1, <1>5 DEF AddRefused, NfvInv, DeviceInv, TableInv, PatchInv,
                    PassInv, StartInv, Settled, Live, TakeCommand
<1>6. CASE AddOther(u)
  <2>1. /\ UNCHANGED <<mpc, deleted, dev, wpc, wi, wout, stale, patched, fanin>>
        /\ mpc = "loop"
    BY <1>6 DEF AddOther, TakeCommand
  <2>2. /\ map'[0] = [type |-> "undef", no |-> u.no] /\ fwd'[0].in = TRUE
        /\ \A j \in Port \ {0} : map'[j] = map[j] /\ fwd'[j].in = fwd[j].in
        /\ \A j \in Port : fwd'[j].out = fwd[j].out
    BY <1>6, PortFacts DEF AddOther, Registered, NfvInv, TypeInv, TypeOK
  <2>3. TableInv'
    BY <2>1, <2>2 DEF NfvInv, TableInv, Settled, Live, Named
  <2>4. DeviceInv' /\ PassInv' /\ StartInv'
    BY <2>1 DEF NfvInv, DeviceInv, PassInv, StartInv, Live
  <2>5. PatchInv'
    BY <2>1, <2>2 DEF NfvInv, PatchInv, Settled, Live
  <2> QED
    BY <1>1, <2>3, <2>4, <2>5 DEF NfvInv
<1> QED
  BY <1>2, <1>3, <1>4, <1>5, <1>6

(* do_del, first half: only the deleted port loses its device.              *)
LEMMA DelKeeps ==
    ASSUME NfvInv, Named, NEW u \in Resource, Del(u) \/ DelOther(u)
    PROVE  NfvInv'
<1> USE DEF tableVars, workerVars, histVars
<1>1. TypeInv'
  BY TypeDel DEF NfvInv
<1>2. CASE DelOther(u) \/ (Del(u) /\ PortId(u) = NoPort)
  BY <1>1, <1>2 DEF Del, DelOther, NfvInv, DeviceInv, TableInv, PatchInv,
                    PassInv, StartInv, Settled, Live, TakeCommand
<1>3. CASE Del(u) /\ PortId(u) # NoPort
  <2> DEFINE i == PortId(u)
  <2>1. i \in Port /\ map[i] = u
    BY <1>3, PortIdType
  <2>2. /\ dev' = [dev EXCEPT ![i] = DeviceAfterDel(i)]
        /\ deleted' = i /\ mpc' = "unpatch" /\ mpc = "loop"
        /\ UNCHANGED <<fwd, map, wpc, wi, wout, stale, patched, fanin>>
    BY <1>3 DEF Del, TakeCommand
  <2> HIDE DEF i
  <2>3. dev[i].uid = u /\ Live(i) /\ u # NoUid
    BY <2>1, <2>2, PortFacts DEF NfvInv, TableInv, Settled, Named, NoPort
  <2>4. /\ dev'[i].state = "absent" <=> dev'[i].uid = NoUid
        /\ dev'[i].uid \in {u, NoUid}
        /\ \A j \in Port \ {i} : dev'[j] = dev[j]
    <3>1. dev'[i] = DeviceAfterDel(i) /\ \A j \in Port \ {i} : dev'[j] = dev[j]
      BY <2>1, <2>2 DEF NfvInv, TypeInv, TypeOK
    <3>2. CASE map[i].type = "vhost"
      BY <3>1, <3>2, <2>3 DEF DeviceAfterDel, Live
    <3>3. CASE map[i].type = "ring"
      <4>1. DeviceAfterDel(i) = [dev[i] EXCEPT !.state = "closed"]
        BY <3>3 DEF DeviceAfterDel
      <4>2. dev[i] \in Device
        BY <2>1 DEF NfvInv, TypeInv, TypeOK
      <4>3. DeviceAfterDel(i).state = "closed" /\ DeviceAfterDel(i).uid = u
        BY <4>1, <4>2, <2>3 DEF Device
      <4> QED
        BY <3>1, <4>3, <2>3
    <3>4. CASE map[i].type \notin {"vhost", "ring"}
      BY <3>1, <3>4 DEF DeviceAfterDel, NoDevice
    <3> QED
      BY <3>2, <3>3, <3>4
  <2>5. DeviceInv'
    BY <2>1, <2>3, <2>4 DEF NfvInv, DeviceInv
  <2>6. TableInv'
    BY <2>1, <2>2, <2>4 DEF NfvInv, TableInv, Settled, Live
  <2>7. PatchInv'
    <3> SUFFICES ASSUME ~fanin, NEW j \in Port, fwd[j].out # NoPort
                 PROVE  /\ fwd[j].in
                        /\ j # i => Live(j)'
                        /\ fwd[j].out # i =>
                              /\ Live(fwd[j].out)'
                              /\ dev'[fwd[j].out].uid = patched[j]
      BY <2>2 DEF PatchInv, Settled, Live
    <3>1. fwd[j].out \in Port
      BY DEF NfvInv, TypeInv, TypeOK
    <3> QED
      BY <2>2, <2>4, <3>1 DEF NfvInv, PatchInv, Settled, Live
  <2>8. PassInv' /\ StartInv'
    BY <2>2 DEF PassInv, StartInv
  <2> QED
    BY <1>1, <2>5, <2>6, <2>7, <2>8 DEF NfvInv
<1> QED
  BY <1>2, <1>3

(* A single port patched to another is the first one.                       *)
LEMMA OnlyPatched ==
    ASSUME NEW i \in Port, ~(Cardinality(PatchedTo(i)) > 1)
    PROVE  FirstPatched(i) = PatchedTo(i)
<1>1. CASE PatchedTo(i) = {}
  BY <1>1 DEF FirstPatched
<1>2. CASE PatchedTo(i) # {}
  <2>1. IsFiniteSet(PatchedTo(i)) /\ PatchedTo(i) \subseteq Port
    BY PortFacts, FS_Subset DEF PatchedTo
  <2>2. Cardinality(PatchedTo(i)) \in Nat /\ Cardinality(PatchedTo(i)) # 0
    BY <1>2, <2>1, FS_CardinalityType, FS_EmptySet
  <2>3. Cardinality(PatchedTo(i)) = 1
    BY <2>2
  <2>4. PICK j : PatchedTo(i) = {j}
    BY <2>1, <2>3, FS_Singleton
  <2>5. Lowest(PatchedTo(i)) \in PatchedTo(i)
    BY <1>2, <2>1, LowestIn
  <2> QED
    BY <1>2, <2>4, <2>5 DEF FirstPatched
<1> QED
  BY <1>1, <1>2

(* do_del, second half: the port loses its entries, and with them every     *)
(* patch to it, unless there were two; workers in a pass become stale.      *)
LEMMA UnpatchKeeps ==
    ASSUME NfvInv, DelUnpatch
    PROVE  NfvInv'
<1> DEFINE i == deleted
<1>1. TypeInv'
  BY TypeKept DEF NfvInv, Next
<1>2. i \in Port
  BY DEF NfvInv, TypeInv, TypeOK, DelUnpatch
<1>3. /\ mpc = "unpatch" /\ mpc' = "loop"
      /\ UNCHANGED <<dev, wpc, wi, wout, patched>>
      /\ stale' = stale \cup {w \in Worker : wpc[w] # "top"}
  BY DEF DelUnpatch, workerVars
<1>4. /\ fwd'[i].in = FALSE /\ fwd'[i].out = NoPort /\ map'[i].no = MaxPort
      /\ \A j \in Port \ {i} : fwd'[j].in = fwd[j].in /\ map'[j] = map[j]
      /\ \A j \in Port \ {i} :
            fwd'[j].out = IF j \in FirstPatched(i) THEN NoPort ELSE fwd[j].out
  BY <1>2, PortFacts DEF NfvInv, TypeInv, TypeOK, DelUnpatch, EntryAfterDel,
                         Unpatched, NameAfterDel, NoPort
<1>5. DeviceInv' /\ StartInv'
  BY <1>3 DEF NfvInv, DeviceInv, StartInv
<1>6. TableInv'
  BY <1>3, <1>4 DEF NfvInv, TableInv, Settled, Live
<1>7. PatchInv'
  <2> SUFFICES ASSUME ~fanin', NEW j \in Port, fwd'[j].out # NoPort
               PROVE  /\ fwd'[j].in /\ Live(j)'
                      /\ dev'[fwd'[j].out].state = "started"
                      /\ dev'[fwd'[j].out].uid = patched'[j]
    BY <1>3 DEF PatchInv, Settled, Live
  <2>1. ~fanin /\ ~(Cardinality(PatchedTo(i)) > 1)
    BY DEF DelUnpatch
  <2>2. j # i /\ j \notin PatchedTo(i) /\ fwd'[j].out = fwd[j].out
    BY <1>2, <1>4, <2>1, OnlyPatched
  <2>3. fwd[j].in
    BY <2>1, <2>2 DEF NfvInv, PatchInv
  <2>4. fwd[j].out # i
    BY <2>2, <2>3 DEF PatchedTo
  <2>5. Settled(j) /\ Settled(fwd[j].out) /\ fwd[j].out # NoPort
    BY <2>2, <2>4 DEF Settled
  <2>6. Live(j) /\ Live(fwd[j].out) /\ dev[fwd[j].out].uid = patched[j]
    BY <2>1, <2>5 DEF NfvInv, PatchInv
  <2>7. fwd'[j].in
    BY <1>4, <2>2, <2>3
  <2> QED
    BY <1>3, <2>2, <2>6, <2>7 DEF Live
<1>8. PassInv'
  BY <1>3 DEF PassInv
<1> QED
  BY <1>1, <1>5, <1>6, <1>7, <1>8 DEF NfvInv

(* add_patch writes to both entries, whose ports are registered.            *)
LEMMA PatchKeeps ==
    ASSUME NfvInv, Named, NEW u \in Resource, NEW v \in Resource,
           Patch(u, v) \/ PatchRefused(u, v)
    PROVE  NfvInv'
<1> USE DEF tableVars, workerVars, histVars
<1>1. TypeInv'
  BY TypePatch DEF NfvInv
<1>2. CASE PatchRefused(u, v)
  BY <1>1, <1>2 DEF PatchRefused, NfvInv, DeviceInv, TableInv,
                    PatchInv, PassInv, StartInv, Settled, Live, TakeCommand
<1>3. CASE Patch(u, v)
  <2> DEFINE i == PortId(u)
             o == PortId(v)
  <2>1. /\ i \in Port /\ map[i] = u /\ o \in Port /\ map[o] = v
    BY <1>3, PortIdType DEF Patch, ValidPort
  <2>2. /\ mpc = "loop"
        /\ fwd' = [fwd EXCEPT ![o].in = TRUE,
                               ![i] = [in |-> TRUE, out |-> o]]
        /\ patched' = [patched EXCEPT ![i] = dev[o].uid]
        /\ UNCHANGED <<mpc, deleted, dev, map, wpc, wi, wout, stale, fanin>>
    BY <1>3 DEF Patch, TakeCommand
  <2> HIDE DEF i, o
  <2>3. Live(i) /\ Live(o) /\ fwd[i].in /\ fwd[o].in
    BY <2>1, <2>2 DEF NfvInv, TableInv, Settled, Named
  <2>4. /\ \A j \in Port : fwd'[j].in = fwd[j].in
        /\ fwd'[i].out = o
        /\ \A j \in Port \ {i} : fwd'[j].out = fwd[j].out
    <3>1. fwd'[i] = [in |-> TRUE, out |-> o]
      BY <2>1, <2>2 DEF NfvInv, TypeInv, TypeOK
    <3> DEFINE f == [fwd EXCEPT ![o].in = TRUE]
    <3>2. fwd \in [Port -> [in : BOOLEAN, out : Port \cup {NoPort}]]
      BY DEF NfvInv, TypeInv, TypeOK
    <3>3. /\ fwd' = [f EXCEPT ![i] = [in |-> TRUE, out |-> o]]
          /\ DOMAIN f = Port
          /\ f[o] = [fwd[o] EXCEPT !.in = TRUE]
          /\ \A j \in Port \ {o} : f[j] = fwd[j]
      BY <2>1, <2>2, <3>2
    <3>4. o # i => fwd'[o] = [fwd[o] EXCEPT !.in = TRUE]
      <4> HIDE DEF f
      <4> QED BY <2>1, <3>3
    <3>5. \A j \in Port \ {i, o} : fwd'[j] = fwd[j]
      <4> HIDE DEF f
      <4> QED BY <3>3
    <3>6. /\ fwd[i].in = TRUE /\ fwd[o].in = TRUE
          /\ [fwd[o] EXCEPT !.in = TRUE].in = TRUE
          /\ [fwd[o] EXCEPT !.in = TRUE].out = fwd[o].out
      BY <2>1, <2>3 DEF NfvInv, TypeInv, TypeOK
    <3>7. o # i => fwd'[o].in = fwd[o].in /\ fwd'[o].out = fwd[o].out
      BY <3>4, <3>6
    <3>8. fwd'[i].in = fwd[i].in /\ fwd'[i].out = o
      <4>1. /\ [in |-> TRUE, out |-> o].in = TRUE
            /\ [in |-> TRUE, out |-> o].out = o
        OBVIOUS
      <4> QED
        BY ONLY <3>1, <3>6, <4>1, Zenon
    <3> QED
      BY <2>1, <3>5, <3>7, <3>8
  <2>5. DeviceInv' /\ PassInv' /\ StartInv'
    BY <2>2 DEF NfvInv, DeviceInv, PassInv, StartInv, Live
  <2>6. TableInv'
    BY <2>2, <2>4 DEF NfvInv, TableInv, Settled, Live
  <2>7. PatchInv'
    <3>1. patched'[i] = dev[o].uid
            /\ \A j \in Port \ {i} : patched'[j] = patched[j]
      BY <2>1, <2>2 DEF NfvInv, TypeInv, TypeOK
    <3> QED
      BY <2>2, <2>3, <2>4, <3>1 DEF NfvInv, PatchInv, Settled, Live
  <2> QED
    BY <1>1, <2>5, <2>6, <2>7 DEF NfvInv
<1> QED
  BY <1>2, <1>3

(* A worker looks at the tables when it takes a port, and from then on at   *)
(* what it has taken.                                                       *)
LEMMA WorkerKeeps ==
    ASSUME NfvInv, NEW w \in Worker, WorkerStep(w)
    PROVE  NfvInv'
<1>1. TypeInv'
  BY TypeWorker DEF NfvInv
<1>2. ASSUME NEW place, NEW i, NEW o, Place(w, place, i, o)
      PROVE  /\ DeviceInv' /\ TableInv' /\ PatchInv' /\ StartInv'
             /\ \A v \in Worker \ {w} : /\ wpc'[v] = wpc[v] /\ wi'[v] = wi[v]
                                         /\ wout'[v] = wout[v]
             /\ wpc'[w] = place /\ wi'[w] = i /\ wout'[w] = o
             /\ UNCHANGED <<mpc, dev, fanin>>
  <2>1. UNCHANGED <<mpc, deleted, dev, fwd, map, patched, fanin>>
    BY <1>2 DEF Place, tableVars
  <2>2. DeviceInv' /\ TableInv' /\ PatchInv' /\ StartInv'
    BY <2>1 DEF NfvInv, DeviceInv, TableInv, PatchInv, StartInv, Settled, Live
  <2> QED
    BY <1>2, <2>1, <2>2 DEF Place, NfvInv, TypeInv, TypeOK
<1>3. ASSUME NEW place, NEW i, NEW o, Place(w, place, i, o),
             place \in {"top", "scan"}, stale' \in {stale, stale \ {w}}
      PROVE  PassInv'
  BY <1>2, <1>3 DEF NfvInv, PassInv, Live
<1>4. ASSUME NextPort(w)
      PROVE  NfvInv'
  BY <1>1, <1>2, <1>3, <1>4 DEF NextPort, NfvInv
<1>5. CASE BeginPass(w)
  BY <1>1, <1>2, <1>3, <1>5 DEF BeginPass, NfvInv
<1>6. CASE TakePort(w)
  <2> DEFINE i == wi[w]
             o == fwd[wi[w]].out
  <2>1. /\ Place(w, "rx", i, o) /\ stale' = stale /\ fwd[i].in /\ o # NoPort
    BY <1>6 DEF TakePort
  <2>2. i \in Port /\ o \in Port
    BY <2>1 DEF NfvInv, TypeInv, TypeOK
  <2>3. ~fanin /\ mpc = "loop" => Live(i) /\ Live(o)
    BY <2>1, <2>2 DEF NfvInv, PatchInv, Settled
  <2> HIDE DEF i, o
  <2>4. PassInv'
    BY <1>2, <2>1, <2>2, <2>3 DEF NfvInv, PassInv, Live
  <2> QED
    BY <1>1, <1>2, <2>1, <2>4 DEF NfvInv
<1>7. CASE wpc[w] = "rx" /\ Place(w, "tx", wi[w], wout[w]) /\ UNCHANGED stale
  <2>1. PassInv'
    BY <1>2, <1>7 DEF NfvInv, PassInv, Live
  <2> QED
    BY <1>1, <1>2, <1>7, <2>1 DEF NfvInv
<1> QED
  BY <1>4, <1>5, <1>6, <1>7 DEF WorkerStep, SkipPort, Receive, Send

LEMMA NfvKept ==
    ASSUME NfvInv, Named, [Next]_vars
    PROVE  NfvInv'
<1>1. TypeInv'
  BY TypeKept DEF NfvInv
<1> USE DEF tableVars, workerVars, histVars
<1>2. CASE StartUp /\ UNCHANGED tableVars
  BY <1>1, <1>2 DEF StartUp, NfvInv, DeviceInv, TableInv, PatchInv, PassInv,
                    StartInv, Settled, Live
<1>3. CASE StartUp /\ ~UNCHANGED tableVars
  <2>1. /\ mpc = "init" /\ mpc' = "loop"
        /\ fwd' = [i \in Port |-> [Unpatched EXCEPT !.in = (i < PhyCnt)]]
        /\ map' = [i \in Port |-> IF i < PhyCnt THEN Phy(i) ELSE NoUid]
        /\ wpc' = [w \in Worker |-> "top"]
        /\ UNCHANGED <<dev, patched, fanin>>
    BY <1>3 DEF StartUp
  <2>2. ASSUME NEW i \in Port
        PROVE  /\ fwd'[i].in = (i < PhyCnt) /\ fwd'[i].out = NoPort
               /\ i < PhyCnt => map'[i] = Phy(i)
               /\ ~(i < PhyCnt) => map'[i].no = MaxPort
    BY <2>1, PortFacts DEF Unpatched, NoPort
  <2>3. TableInv'
    <3>1. ASSUME NEW i \in Port, i < PhyCnt
          PROVE  map'[i].no # MaxPort
      <4>1. map'[i] = Phy(i)
        BY <2>2, <3>1
      <4>2. Phy(i).no = i
        BY DEF Phy
      <4>3. i # MaxPort
        BY PortFacts DEF NoPort
      <4> QED
        BY <4>1, <4>2, <4>3
    <3> QED
      BY <2>1, <2>2, <3>1 DEF NfvInv, TableInv, StartInv, Live
  <2>4. DeviceInv' /\ StartInv' /\ PatchInv' /\ PassInv'
    BY <2>1, <2>2 DEF NfvInv, DeviceInv, StartInv, PatchInv, PassInv
  <2> QED
    BY <1>1, <2>3, <2>4 DEF NfvInv
<1>4. CASE StopOrForward \/ SetClientId \/ Exit
  BY <1>1, <1>4 DEF StopOrForward, SetClientId, Exit, TakeCommand, NfvInv,
         DeviceInv, TableInv, PatchInv, PassInv, StartInv, Settled, Live
<1>5. CASE PatchReset
  <2>1. /\ mpc = "loop"
        /\ UNCHANGED <<mpc, deleted, dev, map, wpc, wi, wout, stale, patched,
                       fanin>>
    BY <1>5 DEF PatchReset, TakeCommand
  <2>2. \A i \in Port : /\ fwd'[i].in = fwd[i].in
                        /\ fwd[i].in => fwd'[i].out = NoPort
                        /\ ~fwd[i].in => fwd'[i] = fwd[i]
    BY <1>5 DEF PatchReset, NfvInv, TypeInv, TypeOK
  <2>3. PatchInv'
    BY <2>1, <2>2 DEF NfvInv, PatchInv
  <2>4. TableInv'
    BY <2>1, <2>2 DEF NfvInv, TableInv, Settled, Live
  <2> QED
    BY <1>1, <2>1, <2>3, <2>4 DEF NfvInv, DeviceInv, PassInv, StartInv, Live
<1>6. CASE UNCHANGED vars
  BY <1>1, <1>6 DEF vars, NfvInv, DeviceInv, TableInv, PatchInv, PassInv,
                    StartInv, Settled, Live
<1> QED
  BY <1>2, <1>3, <1>4, <1>5, <1>6, AddKeeps, DelKeeps, PatchKeeps,
     UnpatchKeeps, WorkerKeeps DEF Next, Command, Exited

(* "status" lists as many names as there are ports.                         *)
LEMMA NamesDiffer ==
    ASSUME NfvInv, Named, mpc = "loop"
    PROVE  Cardinality(PortNames) = Cardinality({i \in Port : fwd[i].in})
<1> DEFINE I == {i \in Port : fwd[i].in}
           f == [i \in I |-> map[i]]
<1>1. ASSUME NEW i \in I, NEW j \in I, map[i] = map[j]
      PROVE  i = j
  <2>1. \A k \in I : \/ k = 0 /\ map[k].type = "undef"
                     \/ dev[k].uid = map[k] /\ dev[k].uid # NoUid
    BY DEF NfvInv, TableInv, DeviceInv, Settled, Live
  <2>2. \A k \in Port : dev[k].uid.type = "undef" => dev[k].uid = NoUid
    BY DEF NfvInv, TypeInv, TypeOK, Device, Named, Phy
  <2> QED
    BY <1>1, <2>1, <2>2 DEF NfvInv, DeviceInv
<1>2. PortNames = {map[i] : i \in I}
  BY DEF PortNames
<1>3. f \in Bijection(I, PortNames)
  BY <1>1, <1>2 DEF Bijection, Injection, Surjection, IsInjective
<1>4. IsFiniteSet(I)
  BY PortFacts, FS_Subset
<1> QED
  BY <1>3, <1>4, FS_Bijection DEF ExistsBijection

(* Between commands, "status" lists exactly the ports that can be patched   *)
(* and deleted, each under a name of its own, and a patch leads to the      *)
(* device it was made for, although device ids are used again.              *)
THEOREM PortsCorrect ==
    ASSUME Named
    PROVE  Spec => []PortsRight
<1>1. NfvInv => PortsRight
  <2> SUFFICES ASSUME NfvInv
               PROVE  PortsRight
    OBVIOUS
  <2>1. TablesAgree
    BY NamesDiffer, PortFacts
       DEF TablesAgree, StatusReply, NfvInv, TableInv, NoPort
  <2>2. PatchesLead
    <3> SUFFICES ASSUME mpc = "loop", ~fanin, NEW i \in Port,
                        fwd[i].out # NoPort
                 PROVE  /\ fwd[i].in
                        /\ dev[fwd[i].out] = [uid |-> patched[i],
                                              state |-> "started"]
      BY DEF PatchesLead
    <3>1. /\ fwd[i].in /\ dev[fwd[i].out].uid = patched[i]
          /\ dev[fwd[i].out].state = "started"
      BY DEF NfvInv, PatchInv, Settled, Live
    <3>2. dev[fwd[i].out] \in Device
      BY DEF NfvInv, TypeInv, TypeOK
    <3> QED
      BY <3>1, <3>2 DEF Device
  <2> QED
    BY <2>1, <2>2 DEF PortsRight
<1> QED
  BY <1>1, NfvInit, NfvKept, PTL DEF Spec

(* do_del does not wait for the forwarding loop; still a worker polls and   *)
(* sends on started devices only, but for the pass that a deletion comes    *)
(* into.                                                                    *)
THEOREM DeletedOnlyInPass ==
    ASSUME Named
    PROVE  Spec => []DeadOnlyInPass
<1>1. NfvInv => DeadOnlyInPass
  BY DEF NfvInv, PassInv, DeadOnlyInPass, Alive, Live, TypeInv, TypeOK
<1> QED
  BY <1>1, NfvInit, NfvKept, PTL DEF Spec
=============================================================================
