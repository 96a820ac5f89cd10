---------------------------- MODULE SppVf_proofs ----------------------------
(***************************************************************************)
(* Proofs about SppVf for any number of lcores, ports, names, component    *)
(* slots and commands.                                                     *)
(***************************************************************************)
EXTENDS SppVf, FiniteSetTheorems, TLAPS

(* A non-empty set of component ids has a lowest one, so get_free_component *)
(* and the loops over the change flags find an id in it.                    *)
LEMMA LowestIn ==
    ASSUME NEW S \in SUBSET Id, S # {}
    PROVE  Lowest(S) \in S
<1> DEFINE Below(i) == {k \in S : k < i}
           T == {Below(i) : i \in S}
<1>0. Id \subseteq Nat /\ IsFiniteSet(Id)
  BY BoundAssumption, FS_Interval DEF Id
<1>1. IsFiniteSet(S)
  BY <1>0, FS_Subset
<1>2. T \subseteq FiniteSubsetsOf(S) /\ T # {}
  <2>1. FiniteSubsetsOf(S) = SUBSET S
    BY <1>1, FS_FiniteSubsetsOfFinite
  <2>2. \A x \in T : x \in SUBSET S
    OBVIOUS
  <2>3. PICK i \in S : TRUE
    OBVIOUS
  <2>4. Below(i) \in T
    BY <2>3
  <2> HIDE DEF T
  <2> QED
    BY <2>1, <2>2, <2>4
<1>3. PICK x \in T : \A y \in T : ~ (<<y, x>> \in StrictSubsetOrdering(S))
  BY <1>2, FS_StrictSubsetOrderingWellFounded, WFMin
<1>4. PICK i \in S : x = Below(i)
  BY <1>3
<1>5. ASSUME NEW k \in S, k < i
      PROVE  FALSE
  <2>0. i \in Int /\ \A j \in S : j \in Int
    BY <1>0
  <2>1. Below(k) \subseteq Below(i) /\ Below(k) # Below(i)
    <3>1. \A j \in Below(k) : j \in Below(i)
      BY <2>0, <1>5
    <3>2. k \in Below(i) /\ k \notin Below(k)
      BY <2>0, <1>5
    <3> QED
      BY <3>1, <3>2
  <2>2. <<Below(k), Below(i)>> \in StrictSubsetOrdering(S)
    BY <2>1 DEF StrictSubsetOrdering
  <2> QED
    BY <1>3, <1>4, <2>2
<1>6. \A k \in S : i <= k
  BY <1>0, <1>5
<1> QED
  BY <1>6 DEF Lowest

-----------------------------------------------------------------------------
(* Type correctness.  While paths are written there is a component whose    *)
(* turn it is: without that, its id would be arbitrary.                     *)
Updating == mpc \in {"write", "request", "wait"}

TypeInv ==
    /\ TypeOK
    /\ Updating => mtodo # {}

USE DEF Updating

(* The component whose turn it is has an id and a family.                   *)
LEMMA TurnType ==
    ASSUME TypeInv, Updating
    PROVE  mid \in mtodo /\ mid \in Id /\ mfam \in Family
<1>1. mid \in mtodo /\ mtodo \subseteq Id
  BY LowestIn DEF TypeInv, TypeOK, mid
<1> QED
  BY <1>1 DEF mfam, FamilyOf, Family

LEMMA UnusedType == Unused \in Component
BY DEF Unused, Component, ComponentType, Lcore

LEMMA NoPathType == NoPath \in Path
BY DEF NoPath, Path, ComponentType

LEMMA FilledType ==
    ASSUME TypeOK, NEW i \in Id, NEW old \in Path
    PROVE  Filled(i, old) \in Path
<1>1. comp[i] \in Component
  BY DEF TypeOK
<1>2. old.table \in SUBSET Class
  BY DEF Path
<1>3. Classes(i) \subseteq Class
  BY <1>1 DEF TypeOK, Classes, Component
<1> QED
  BY <1>1, <1>2, <1>3 DEF Filled, Path, Component, ComponentType

LEMMA FlippedType ==
    ASSUME NEW r \in Area, NEW u \in Area
    PROVE  Flipped(r, u) \in Area
BY DEF Flipped, Area

LEMMA TypeInit == Init => TypeInv
<1> SUFFICES ASSUME Init PROVE TypeInv
  OBVIOUS
<1>1. status \in [Lcore -> CoreStatus]
  BY DEF Init, CoreStatus
<1>2. coreIds \in [Lcore -> [Area -> SUBSET Id]]
  BY DEF Init
<1>3. coreRef \in [Lcore -> Area] /\ coreUpd \in [Lcore -> Area]
  BY DEF Init, Area
<1>4. comp \in [Id -> Component]
  BY UnusedType DEF Init
<1>5. classId \in [Port -> Class \cup {NoClass}] /\ added \in SUBSET Port
      /\ opened \in SUBSET Port
  BY PortAssumption DEF Init
<1>6. ref \in [Family -> [Id -> Area]] /\ upd \in [Family -> [Id -> Area]]
  BY DEF Init, Area
<1>7. area \in [Family -> [Id -> [Area -> Path]]]
  BY NoPathType DEF Init
<1>8. wjob \in [Worker -> Job]
  <2>1. 0 \in Id
    BY BoundAssumption DEF Id
  <2> QED
    BY <2>1 DEF Init, NoJob, Job, Family, Area
<1>9. /\ wpc \in [Worker -> {"launch", "top", "scan", "enter", "burst",
                             "stopped"}]
      /\ wdone \in [Worker -> SUBSET Id]
      /\ ncmd \in 0 .. MaxCommand
  BY BoundAssumption DEF Init
<1> QED
  BY <1>1, <1>2, <1>3, <1>4, <1>5, <1>6, <1>7, <1>8, <1>9
  DEF Init, TypeInv, TypeOK

USE DEF statusVars, coreVars, regVars, flagVars, pathVars, workerVars,
        mainVars

(* Every action of a worker keeps the types ...                             *)
LEMMA TypeWorker ==
    ASSUME TypeInv, NEW w \in Worker, WorkerStep(w)
    PROVE  TypeInv'
<1>0. w \in Lcore /\ wjob[w] \in Job /\ NoJob \in Job /\ 0 \in Id
  <2>1. 0 \in Id
    BY BoundAssumption DEF Id
  <2> QED
    BY <2>1 DEF Lcore, TypeInv, TypeOK, Job, NoJob, Family, Area
<1>1. CASE WorkerStart(w)
  BY <1>0, <1>1 DEF WorkerStart, TypeInv, TypeOK, CoreStatus
<1>2. CASE WorkerStop(w)
  BY <1>0, <1>2 DEF WorkerStop, TypeInv, TypeOK, CoreStatus
<1>3. ASSUME NEW ids \in SUBSET Id, NEW D \in SUBSET Id, Onward(w, ids, D)
      PROVE  /\ wpc' \in [Worker -> {"launch", "top", "scan", "enter",
                                     "burst", "stopped"}]
             /\ wdone' \in [Worker -> SUBSET Id]
             /\ wjob' \in [Worker -> Job]
  BY <1>0, <1>3 DEF Onward, TypeInv, TypeOK
<1>4. CASE WorkerTop(w)
  <2> DEFINE r == Flipped(coreRef[w], coreUpd[w])
  <2>1. r \in Area
    BY <1>0, FlippedType DEF TypeInv, TypeOK
  <2>2. coreIds[w][r] \in SUBSET Id
    BY <1>0, <2>1 DEF TypeInv, TypeOK
  <2> HIDE DEF r
  <2>3. coreRef' \in [Lcore -> Area]
    BY <1>4, <2>1 DEF WorkerTop, TypeInv, TypeOK, r
  <2>4. Onward(w, coreIds[w][r], {})
    BY <1>4 DEF WorkerTop, r
  <2>5. /\ wpc' \in [Worker -> {"launch", "top", "scan", "enter",
                                "burst", "stopped"}]
        /\ wdone' \in [Worker -> SUBSET Id]
        /\ wjob' \in [Worker -> Job]
    BY <1>3, <2>2, <2>4
  <2> QED
    BY <1>4, <2>3, <2>5 DEF WorkerTop, TypeInv, TypeOK
<1>5. ASSUME NEW i \in Id, WorkerPick(w, i)
      PROVE  TypeInv'
  <2>1. [fam |-> FamilyOf(comp[i].type), id |-> i, area |-> 0] \in Job
    BY DEF Job, FamilyOf, Family, Area
  <2> QED
    BY <1>5, <2>1 DEF WorkerPick, TypeInv, TypeOK
<1>6. CASE WorkerEnter(w)
  <2> DEFINE f == wjob[w].fam
             i == wjob[w].id
             r == Flipped(ref[f][i], upd[f][i])
  <2>1. f \in Family /\ i \in Id
    BY <1>0 DEF Job
  <2>2. ref[f][i] \in Area /\ upd[f][i] \in Area
    BY <2>1 DEF TypeInv, TypeOK
  <2>3. r \in Area
    BY <2>2, FlippedType
  <2>4. IdsOf(w) \in SUBSET Id /\ wdone[w] \cup {i} \in SUBSET Id
    BY <1>0, <2>1 DEF IdsOf, TypeInv, TypeOK
  <2> HIDE DEF f, i, r
  <2>5. ref' \in [Family -> [Id -> Area]]
    BY <1>6, <2>1, <2>3 DEF WorkerEnter, TypeInv, TypeOK, f, i, r
  <2>6. /\ wpc' \in [Worker -> {"launch", "top", "scan", "enter",
                                "burst", "stopped"}]
        /\ wdone' \in [Worker -> SUBSET Id]
        /\ wjob' \in [Worker -> Job]
    <3>1. CASE Runnable(f, area[f][i][r])
      <4>1. wjob' = [wjob EXCEPT ![w].area = r]
        BY <1>6, <3>1 DEF WorkerEnter, f, i, r
      <4>2. [wjob[w] EXCEPT !.area = r] \in Job
        BY <1>0, <2>3 DEF Job
      <4>3. wjob' \in [Worker -> Job]
        BY <4>1, <4>2 DEF TypeInv, TypeOK
      <4> QED
        BY <1>6, <3>1, <4>3 DEF WorkerEnter, TypeInv, TypeOK, f, i, r
    <3>2. CASE ~ Runnable(f, area[f][i][r])
      <4>1. Onward(w, IdsOf(w), wdone[w] \cup {i})
        BY <1>6, <3>2 DEF WorkerEnter, f, i, r
      <4> QED
        BY <1>3, <2>4, <4>1
    <3> QED
      BY <3>1, <3>2
  <2> QED
    BY <1>6, <2>5, <2>6 DEF WorkerEnter, TypeInv, TypeOK
<1>7. CASE WorkerFinish(w)
  <2>1. IdsOf(w) \in SUBSET Id /\ wdone[w] \cup {wjob[w].id} \in SUBSET Id
    BY <1>0 DEF IdsOf, TypeInv, TypeOK, Job
  <2>2. Onward(w, IdsOf(w), wdone[w] \cup {wjob[w].id})
    BY <1>7 DEF WorkerFinish
  <2>3. /\ wpc' \in [Worker -> {"launch", "top", "scan", "enter",
                                "burst", "stopped"}]
        /\ wdone' \in [Worker -> SUBSET Id]
        /\ wjob' \in [Worker -> Job]
    BY <1>3, <2>1, <2>2
  <2> QED
    BY <1>7, <2>3 DEF WorkerFinish, TypeInv, TypeOK
<1> QED
  BY <1>1, <1>2, <1>4, <1>5, <1>6, <1>7 DEF WorkerStep

(* ... and so do the life cycle of the main thread and the signal handler,  *)
LEMMA TypeLife ==
    ASSUME TypeInv, LifeCycle \/ Signal
    PROVE  TypeInv'
<1>0. Main \in Lcore
  BY DEF Lcore
<1>1. CASE MainIdle
  BY <1>0, <1>1 DEF MainIdle, TypeInv, TypeOK, CoreStatus
<1>2. CASE WaitIdle
  BY <1>2 DEF WaitIdle, TypeInv, TypeOK
<1>3. CASE StartForwarding
  BY <1>3 DEF StartForwarding, AllSetTo, TypeInv, TypeOK, CoreStatus
<1>4. CASE LeaveLoop
  BY <1>4 DEF LeaveLoop, TypeInv, TypeOK
<1>5. CASE Finalize
  BY <1>0, <1>5 DEF Finalize, TypeInv, TypeOK, CoreStatus
<1>6. CASE WaitStop
  BY <1>6 DEF WaitStop, TypeInv, TypeOK
<1>7. CASE Signal
  BY <1>7 DEF Signal, TypeInv, TypeOK, CoreStatus
<1> QED
  BY <1>1, <1>2, <1>3, <1>4, <1>5, <1>6, <1>7 DEF LifeCycle

(* ... the commands,                                                        *)
LEMMA TypeCommand ==
    ASSUME TypeInv, Command
    PROVE  TypeInv'
<1>0. /\ ~ Updating
      /\ ncmd < MaxCommand => ncmd + 1 \in 0 .. MaxCommand
      /\ \A l \in Lcore : EditedList(l) \in Area
  <2>1. mpc = "command"
    BY DEF Command, Exit, Refuse, StopComponent, StopUnknown, StartComponent,
           PortAdd, PortRetag, PortDel, ClassifierAdd, ClassifierDel,
           TakeCommand
  <2> QED
    BY <2>1, BoundAssumption DEF TypeInv, TypeOK, EditedList
<1>1. CASE Exit
  BY <1>0, <1>1 DEF Exit, TakeCommand, AllSetTo, TypeInv, TypeOK, CoreStatus
<1>2. CASE Refuse
  BY <1>0, <1>2 DEF Refuse, TakeCommand, TypeInv, TypeOK
<1>3. ASSUME NEW n \in Name, NEW l \in StartLcore,
             NEW t \in StartType, StartComponent(n, t, l)
      PROVE  TypeInv'
  <2> DEFINE i == Lowest(FreeIds)
  <2>1. i \in Id
    <3>1. FreeIds \in SUBSET Id /\ FreeIds # {}
      BY <1>3 DEF StartComponent, FreeIds
    <3>2. i \in FreeIds
      BY <3>1, LowestIn
    <3> QED
      BY <3>1, <3>2
  <2>2. l \in Lcore
    BY LcoreAssumption DEF Lcore
  <2> HIDE DEF i
  <2>3. comp' \in [Id -> Component]
    <3>1. [name |-> n, type |-> t, lcore |-> l, rx |-> {}, tx |-> {}]
            \in Component
      BY <2>2, TypeAssumption DEF Component, ComponentType
    <3> QED
      BY <1>3, <3>1 DEF StartComponent, TypeInv, TypeOK, i
  <2>4. coreIds' \in [Lcore -> [Area -> SUBSET Id]]
    BY <1>0, <1>3, <2>1, <2>2 DEF StartComponent, TypeInv, TypeOK, i
  <2>5. chgComp' \in SUBSET Id /\ chgCore' \in SUBSET Lcore
    BY <1>3, <2>1, <2>2 DEF StartComponent, TypeInv, TypeOK, i
  <2> QED
    BY <1>0, <1>3, <2>3, <2>4, <2>5
    DEF StartComponent, TakeCommand, Accepted, TypeInv, TypeOK
<1>4. ASSUME NEW n \in Name, StopComponent(n)
      PROVE  TypeInv'
  <2>1. PICK i \in IdOf(n) :
          LET l == comp[i].lcore IN
          /\ TakeCommand("stop")
          /\ comp' = [comp EXCEPT ![i] = Unused]
          /\ coreIds' = [coreIds EXCEPT ![l][EditedList(l)] = @ \ {i}]
          /\ chgComp' = FlagsAfterStop(i)
          /\ chgCore' = chgCore \cup {l}
          /\ UNCHANGED <<added, classId>>
          /\ Accepted
    BY <1>4 DEF StopComponent
  <2> DEFINE l == comp[i].lcore
  <2>2. l \in Lcore
    BY DEF IdOf, TypeInv, TypeOK, Component
  <2> HIDE DEF l
  <2>3. comp' \in [Id -> Component]
    BY <2>1, UnusedType DEF TypeInv, TypeOK
  <2>4. coreIds' \in [Lcore -> [Area -> SUBSET Id]]
    BY <1>0, <2>1, <2>2 DEF TypeInv, TypeOK, l
  <2>5. chgComp' \in SUBSET Id /\ chgCore' \in SUBSET Lcore
    BY <2>1, <2>2 DEF FlagsAfterStop, TypeInv, TypeOK, l
  <2> QED
    BY <1>0, <2>1, <2>3, <2>4, <2>5 DEF TakeCommand, Accepted, TypeInv, TypeOK
<1>5. ASSUME NEW n \in Name, StopUnknown(n)
      PROVE  TypeInv'
  BY <1>0, <1>5 DEF StopUnknown, TakeCommand, Accepted, TypeInv, TypeOK
<1>6. ASSUME NEW i \in Id, NEW p \in Port, NEW d \in Dir,
             NEW S \in SUBSET comp[i][d]
      PROVE  /\ [comp EXCEPT ![i][d] = @ \cup {p}] \in [Id -> Component]
             /\ [comp EXCEPT ![i][d] = S] \in [Id -> Component]
  <2>1. comp[i] \in Component
    BY DEF TypeInv, TypeOK
  <2>2. CASE d = "rx"
    <3>1. /\ [comp[i] EXCEPT !.rx = @ \cup {p}] \in Component
          /\ [comp[i] EXCEPT !.rx = S] \in Component
      BY <2>1, <2>2 DEF Component
    <3> QED
      BY <2>2, <3>1 DEF TypeInv, TypeOK
  <2>3. CASE d = "tx"
    <3>1. /\ [comp[i] EXCEPT !.tx = @ \cup {p}] \in Component
          /\ [comp[i] EXCEPT !.tx = S] \in Component
      BY <2>1, <2>3 DEF Component
    <3> QED
      BY <2>3, <3>1 DEF TypeInv, TypeOK
  <2> QED
    BY <2>2, <2>3 DEF Dir
<1>7. ASSUME NEW n \in Name, NEW p \in Port, NEW d \in Dir, NEW tag \in Tags,
             PortAdd(n, p, d, tag)
      PROVE  TypeInv'
  <2>1. PICK i \in IdOf(n) :
          /\ TakeCommand("add")
          /\ comp' = [comp EXCEPT ![i][d] = @ \cup {p}]
          /\ added' = added \cup {p}
          /\ chgComp' = chgComp \cup {i}
          /\ UNCHANGED <<coreIds, classId, chgCore>>
          /\ Accepted
    BY <1>7 DEF PortAdd
  <2>2. comp' \in [Id -> Component]
    BY <1>6, <2>1 DEF IdOf
  <2> QED
    BY <1>0, <2>1, <2>2
    DEF IdOf, TakeCommand, Accepted, TypeInv, TypeOK
<1>8. ASSUME NEW n \in Name, NEW p \in Port, NEW d \in Dir, PortRetag(n, p, d)
      PROVE  TypeInv'
  BY <1>0, <1>8 DEF PortRetag, IdOf, TakeCommand, Accepted, TypeInv, TypeOK
<1>9. ASSUME NEW n \in Name, NEW p \in Port, NEW d \in Dir, PortDel(n, p, d)
      PROVE  TypeInv'
  <2>1. PICK i \in IdOf(n) :
          /\ TakeCommand("del")
          /\ comp' = [comp EXCEPT ![i][d] = @ \ {p}]
          /\ chgComp' = chgComp \cup {i}
          /\ UNCHANGED <<coreIds, added, classId, chgCore>>
          /\ Accepted
    BY <1>9 DEF PortDel
  <2>2. comp' = [comp EXCEPT ![i][d] = comp[i][d] \ {p}]
    BY <2>1
  <2>3. comp' \in [Id -> Component]
    BY <1>6, <2>2 DEF IdOf
  <2> QED
    BY <1>0, <2>1, <2>3
    DEF IdOf, TakeCommand, Accepted, TypeInv, TypeOK
<1>10. \A p : FirstSender(p) \subseteq Id
  <2> SUFFICES ASSUME NEW p, UserOf(p, "tx") # {}
               PROVE  Lowest(UserOf(p, "tx")) \in Id
    BY DEF FirstSender
  <2>1. UserOf(p, "tx") \in SUBSET Id
    BY DEF UserOf
  <2> QED
    BY <2>1, LowestIn
<1>11. ASSUME NEW p \in Port, NEW c \in Class,
              ClassifierAdd(p, c) \/ ClassifierDel(p, c)
       PROVE  TypeInv'
  <2>1. classId' \in [Port -> Class \cup {NoClass}]
    BY <1>11 DEF ClassifierAdd, ClassifierDel, TypeInv, TypeOK
  <2>2. chgComp' \in SUBSET Id
    BY <1>10, <1>11 DEF ClassifierAdd, ClassifierDel, TypeInv, TypeOK
  <2> QED
    BY <1>0, <1>11, <2>1, <2>2
    DEF ClassifierAdd, ClassifierDel, TakeCommand, Accepted, TypeInv, TypeOK
<1> QED
  BY <1>1, <1>2, <1>3, <1>4, <1>5, <1>7, <1>8, <1>9, <1>11 DEF Command

(* ... and the steps of spp_flush.                                          *)
LEMMA TypeFlush ==
    ASSUME TypeInv, Flush
    PROVE  TypeInv'
<1>1. ASSUME ToComponents
      PROVE  /\ mpc' \in {"command", "write"}
             /\ mcores' \in SUBSET Lcore /\ mtodo' \in SUBSET Id
             /\ chgCore' \in SUBSET Lcore /\ chgComp' \in SUBSET Id
             /\ Updating' => mtodo' # {}
  BY <1>1 DEF ToComponents, BackToLoop, TypeInv, TypeOK
<1>2. CASE FlushPort
  BY <1>2 DEF FlushPort, Unopened, TypeInv, TypeOK
<1>3. CASE FlushPortFail
  BY <1>3 DEF FlushPortFail, BackToLoop, KeepFlags, Unopened, TypeInv, TypeOK
<1>4. CASE CoreRequest
  <2>1. coreUpd' \in [Lcore -> Area]
    BY <1>4 DEF CoreRequest, TypeInv, TypeOK
  <2>2. CASE chgCore = {}
    BY <1>1, <1>4, <2>1, <2>2 DEF CoreRequest, TypeInv, TypeOK
  <2>3. CASE chgCore # {}
    BY <1>4, <2>1, <2>3 DEF CoreRequest, TypeInv, TypeOK
  <2> QED
    BY <2>2, <2>3
<1>5. ASSUME NEW l \in Lcore, CoreCopy(l)
      PROVE  TypeInv'
  <2>1. IdsOf(l) \in SUBSET Id /\ coreUpd[l] \in Area
    BY DEF IdsOf, TypeInv, TypeOK
  <2>2. coreIds' \in [Lcore -> [Area -> SUBSET Id]]
    BY <1>5, <2>1 DEF CoreCopy, TypeInv, TypeOK
  <2>3. CASE mcores = {l}
    BY <1>1, <1>5, <2>2, <2>3 DEF CoreCopy, TypeInv, TypeOK
  <2>4. CASE mcores # {l}
    BY <1>5, <2>2, <2>4 DEF CoreCopy, TypeInv, TypeOK
  <2> QED
    BY <2>3, <2>4
<1>6. ASSUME Updating, NEW p \in Path
      PROVE  /\ [area EXCEPT ![mfam][mid][upd[mfam][mid]] = p]
                  \in [Family -> [Id -> [Area -> Path]]]
             /\ UpdArea \in Path
  <2>1. mid \in Id /\ mfam \in Family
    BY <1>6, TurnType
  <2>2. upd[mfam][mid] \in Area
    BY <2>1 DEF TypeInv, TypeOK
  <2> QED
    BY <2>1, <2>2 DEF UpdArea, TypeInv, TypeOK
<1>7. CASE ComponentWrite
  <2>1. Updating
    BY <1>7 DEF ComponentWrite
  <2>2. Filled(mid, UpdArea) \in Path
    BY <1>6, <2>1, NoPathType, TurnType, FilledType DEF TypeInv
  <2>3. area' \in [Family -> [Id -> [Area -> Path]]]
    BY <1>6, <1>7, <2>1, <2>2 DEF ComponentWrite
  <2> QED
    BY <1>7, <2>1, <2>3 DEF ComponentWrite, TypeInv, TypeOK
<1>8. CASE ComponentFail
  <2>1. Updating
    BY <1>8 DEF ComponentFail
  <2>2. PICK S \in SUBSET Classes(mid) :
          area' = [area EXCEPT ![mfam][mid][upd[mfam][mid]] =
                     [UpdArea EXCEPT !.rx = comp[mid].rx, !.tx = comp[mid].tx,
                                     !.table = @ \cup S, !.entry = (S # {})]]
    BY <1>8 DEF ComponentFail
  <2> DEFINE q == [UpdArea EXCEPT !.rx = comp[mid].rx, !.tx = comp[mid].tx,
                                  !.table = @ \cup S, !.entry = (S # {})]
  <2>3. q \in Path
    <3>1. UpdArea \in Path /\ mid \in Id
      BY <1>6, <2>1, NoPathType, TurnType
    <3>2. comp[mid] \in Component /\ Classes(mid) \subseteq Class
      BY <3>1 DEF Classes, Component, TypeInv, TypeOK
    <3>3. comp[mid].rx \in SUBSET Port /\ comp[mid].tx \in SUBSET Port
          /\ UpdArea.table \cup S \in SUBSET Class
      BY <3>1, <3>2 DEF Component, Path
    <3> QED
      BY <3>1, <3>3 DEF Path
  <2>4. area' = [area EXCEPT ![mfam][mid][upd[mfam][mid]] = q]
    BY <2>2
  <2> HIDE DEF q
  <2>5. area' \in [Family -> [Id -> [Area -> Path]]]
    BY <1>6, <2>1, <2>3, <2>4
  <2> QED
    BY <1>8, <2>5 DEF ComponentFail, BackToLoop, TypeInv, TypeOK
<1>9. CASE ComponentRequest
  <2>1. mid \in Id /\ mfam \in Family
    BY <1>9, TurnType DEF ComponentRequest
  <2>2. upd' \in [Family -> [Id -> Area]]
    BY <1>9, <2>1 DEF ComponentRequest, TypeInv, TypeOK
  <2>3. used' \in SUBSET Id
    BY <1>9, <2>1 DEF ComponentRequest, TypeInv, TypeOK
  <2> QED
    BY <1>9, <2>2, <2>3 DEF ComponentRequest, TypeInv, TypeOK
<1>10. CASE ComponentSwitched
  <2>1. Updating
    BY <1>10 DEF ComponentSwitched
  <2>2. area' \in [Family -> [Id -> [Area -> Path]]]
    BY <1>6, <1>10, <2>1, NoPathType DEF ComponentSwitched, TypeInv, TypeOK
  <2>3. CASE mtodo = {mid}
    BY <1>10, <2>2, <2>3 DEF ComponentSwitched, BackToLoop, TypeInv, TypeOK
  <2>4. CASE mtodo # {mid}
    <3>1. mtodo \ {mid} # {}
      BY <2>1, <2>4 DEF TypeInv
    <3> QED
      BY <1>10, <2>2, <2>4, <3>1 DEF ComponentSwitched, TypeInv, TypeOK
  <2> QED
    BY <2>3, <2>4
<1> QED
  BY <1>2, <1>3, <1>4, <1>5, <1>7, <1>8, <1>9, <1>10 DEF Flush

LEMMA TypeNext == TypeInv /\ [Next]_vars => TypeInv'
<1> SUFFICES ASSUME TypeInv, [Next]_vars PROVE TypeInv'
  OBVIOUS
<1>1. CASE UNCHANGED vars
  BY <1>1 DEF vars, TypeInv, TypeOK
<1>2. CASE Exited
  BY <1>1, <1>2 DEF Exited
<1> QED
  BY <1>1, <1>2, TypeWorker, TypeLife, TypeCommand, TypeFlush DEF Next

(* The variables keep their types: in particular no index of an area, of a  *)
(* component slot or of an lcore is ever outside its array, and the id a    *)
(* flush works on is that of a slot.                                        *)
THEOREM TypeCorrect == Spec => []TypeOK
<1>1. TypeInv => TypeOK
  BY DEF TypeInv
<1> QED
  BY <1>1, TypeInit, TypeNext, PTL DEF Spec

-----------------------------------------------------------------------------
(* The lists of components.  WorkersAgree speaks of settled states only; it *)
(* is inductive together with what holds of the edited list, of the two     *)
(* indices and of the flags in the middle of a flush.                       *)
Starting == {"launch", "wait_idle", "go"}
CoreDone == {"core_wait", "write", "request", "wait"}

USE DEF Starting, CoreDone

(* The ids registered on an lcore, and the list a flush makes current: the  *)
(* one commands edit, until the worker has switched to it.                  *)
Registered(l) == {i \in Id : InUse(i) /\ comp[i].lcore = l}
NewList(l)    == coreIds[l][IF l \in mcores THEN 1 - coreUpd[l] ELSE coreUpd[l]]

(* The two indices of an lcore are equal only while main awaits its switch. *)
IndexInv ==
    /\ mcores # {} => mpc = "core_wait"
    /\ mcores \subseteq chgCore
    /\ \A l \in Lcore \ mcores : coreRef[l] # coreUpd[l]

(* The new list is right, and the old one too where nothing is flagged or   *)
(* the flush has copied it.                                                 *)
ListInv ==
    /\ \A l \in Lcore : NewList(l) = Registered(l)
    /\ \A l \in Lcore :
          \/ l \notin chgCore
          \/ mpc \in CoreDone /\ l \notin mcores
          => IdsOf(l) = Registered(l)

(* Flagged components exist, on an lcore that start commands name.          *)
FlagInv ==
    /\ \A i \in Id : comp[i].name \in Name => InUse(i)
    /\ \A i \in Id : InUse(i) => comp[i].lcore \in StartLcore
    /\ \A i \in chgComp : InUse(i)
    /\ mtodo \subseteq chgComp
    /\ mtodo # {} => Updating
    /\ mpc \in Starting => chgCore = {}

CoreInv == TypeInv /\ IndexInv /\ ListInv /\ FlagInv

CoreParts == IndexInv /\ ListInv /\ FlagInv

LEMMA CoreInit == Init => CoreInv
<1> SUFFICES ASSUME Init PROVE CoreInv
  OBVIOUS
<1>1. TypeInv
  BY TypeInit
<1>2. IndexInv
  BY DEF Init, IndexInv, Area
<1>3. ListInv
  <2>1. \A i \in Id : ~InUse(i)
    BY DEF Init, InUse, Unused
  <2>2. \A l \in Lcore : Registered(l) = {}
    BY <2>1 DEF Registered
  <2>3. \A l \in Lcore : NewList(l) = {} /\ IdsOf(l) = {}
    BY DEF Init, NewList, IdsOf, Area
  <2> QED
    BY <2>2, <2>3 DEF ListInv
<1>4. FlagInv
  BY NameAssumption DEF Init, FlagInv, InUse, Unused
<1> QED
  BY <1>1, <1>2, <1>3, <1>4 DEF CoreInv

(* A step that leaves the lists, the registration and the flags alone.      *)
LEMMA CoreFrame ==
    ASSUME CoreInv,
           UNCHANGED <<coreVars, comp, flagVars, mcores, mtodo>>,
           mcores # {} => mpc' = "core_wait",
           mpc' \in CoreDone => mpc \in CoreDone,
           mtodo # {} => Updating',
           mpc' \in Starting => mpc \in Starting
    PROVE  CoreParts'
<1>1. IndexInv'
  BY DEF CoreInv, IndexInv
<1>2. /\ \A l \in Lcore : Registered(l)' = Registered(l)
      /\ \A l \in Lcore : NewList(l)' = NewList(l)
      /\ \A l \in Lcore : IdsOf(l)' = IdsOf(l)
  BY DEF Registered, InUse, NewList, IdsOf
<1>3. ListInv'
  BY <1>2 DEF CoreInv, ListInv
<1>4. FlagInv'
  BY DEF CoreInv, FlagInv, InUse
<1> QED
  BY <1>1, <1>3, <1>4 DEF CoreParts

(* A worker moves its ref_index only when main awaits that, and then to the *)
(* new list.                                                                *)
LEMMA CoreWorker ==
    ASSUME CoreInv, NEW w \in Worker, WorkerStep(w)
    PROVE  CoreParts'
<1>1. CASE WorkerTop(w)
  <2> DEFINE r == Flipped(coreRef[w], coreUpd[w])
  <2>0. w \in Lcore /\ coreRef[w] \in Area /\ coreUpd[w] \in Area
    BY DEF Lcore, CoreInv, TypeInv, TypeOK
  <2>1. /\ coreRef' = [coreRef EXCEPT ![w] = r]
        /\ UNCHANGED <<coreUpd, coreIds, comp, flagVars, mainVars>>
    BY <1>1 DEF WorkerTop
  <2>2. r # coreUpd[w]
    BY <2>0 DEF Flipped, Area
  <2>3. w \notin mcores => r = coreRef[w]
    BY <2>0 DEF Flipped, CoreInv, IndexInv
  <2> HIDE DEF r
  <2>4. IndexInv'
    BY <2>0, <2>1, <2>2 DEF CoreInv, TypeInv, TypeOK, IndexInv
  <2>5. /\ \A l \in Lcore : Registered(l)' = Registered(l)
        /\ \A l \in Lcore : NewList(l)' = NewList(l)
    BY <2>1 DEF Registered, InUse, NewList
  <2>6. \A l \in Lcore : l \notin mcores => IdsOf(l)' = IdsOf(l)
    BY <2>0, <2>1, <2>3 DEF IdsOf, CoreInv, TypeInv, TypeOK
  <2>7. ListInv'
    BY <2>1, <2>5, <2>6 DEF CoreInv, ListInv, IndexInv
  <2>8. FlagInv'
    BY <2>1 DEF CoreInv, FlagInv, InUse
  <2> QED
    BY <2>4, <2>7, <2>8 DEF CoreParts
<1>2. CASE ~WorkerTop(w)
  <2>1. UNCHANGED <<coreVars, comp, flagVars, mcores, mtodo, mpc>>
    BY <1>2 DEF WorkerStep, WorkerStart, WorkerStop, WorkerPick, WorkerEnter,
                WorkerFinish
  <2> QED
    BY <2>1, CoreFrame DEF CoreInv, IndexInv, FlagInv
<1> QED
  BY <1>1, <1>2

LEMMA CoreLife ==
    ASSUME CoreInv, LifeCycle \/ Signal
    PROVE  CoreParts'
<1>1. CASE StartForwarding
  <2>1. /\ UNCHANGED <<coreVars, comp, mcores, mtodo>>
        /\ mpc = "go" /\ mpc' = "command" /\ chgCore' = {} /\ chgComp' = {}
    BY <1>1 DEF StartForwarding
  <2>2. chgCore = {} /\ mcores = {} /\ mtodo = {}
    BY <2>1 DEF CoreInv, FlagInv, IndexInv
  <2>3. /\ \A l \in Lcore : Registered(l)' = Registered(l)
        /\ \A l \in Lcore : NewList(l)' = NewList(l)
        /\ \A l \in Lcore : IdsOf(l)' = IdsOf(l)
    BY <2>1 DEF Registered, InUse, NewList, IdsOf
  <2>4. IndexInv' /\ ListInv'
    BY <2>1, <2>2, <2>3 DEF CoreInv, IndexInv, ListInv
  <2>5. FlagInv'
    BY <2>1, <2>2 DEF CoreInv, FlagInv, InUse
  <2> QED
    BY <2>4, <2>5 DEF CoreParts
<1>2. CASE MainIdle \/ WaitIdle \/ LeaveLoop \/ Finalize \/ WaitStop \/ Signal
  <2>1. UNCHANGED <<coreVars, comp, flagVars, mcores, mtodo>>
    BY <1>2 DEF MainIdle, WaitIdle, LeaveLoop, Finalize, WaitStop, Signal
  <2>2. \/ mpc' = mpc
        \/ /\ mpc \notin CoreDone /\ mpc' \notin CoreDone
           /\ mpc' \in Starting => mpc \in Starting
    BY <1>2 DEF MainIdle, WaitIdle, LeaveLoop, Finalize, WaitStop, Signal
  <2> QED
    BY <2>1, <2>2, CoreFrame DEF CoreInv, IndexInv, FlagInv
<1> QED
  BY <1>1, <1>2 DEF LifeCycle

(* A command edits the list of one lcore in step with the registration, and *)
(* flags both.                                                              *)
LEMMA CoreCommand ==
    ASSUME CoreInv, Command
    PROVE  CoreParts'
<1>0. /\ mpc = "command" /\ mcores = {} /\ mtodo = {}
      /\ UNCHANGED <<coreRef, coreUpd, mcores, mtodo>>
      /\ mpc' \in {"finalize", "command", "flush_port"}
  <2> DEFINE Kept ==
        /\ mpc = "command" /\ UNCHANGED <<coreRef, coreUpd, mcores, mtodo>>
        /\ mpc' \in {"finalize", "command", "flush_port"}
  <2>2. Exit \/ Refuse => Kept
    BY DEF Exit, Refuse, TakeCommand
  <2>3. ASSUME NEW n, StopComponent(n) \/ StopUnknown(n)
        PROVE  Kept
    BY <2>3 DEF StopComponent, StopUnknown, TakeCommand, Accepted
  <2>4. ASSUME NEW n, NEW t, NEW l, StartComponent(n, t, l)
        PROVE  Kept
    BY <2>4 DEF StartComponent, TakeCommand, Accepted
  <2>5. ASSUME NEW n, NEW p, NEW d,
               \/ \E tag \in Tags : PortAdd(n, p, d, tag)
               \/ PortRetag(n, p, d)
               \/ PortDel(n, p, d)
        PROVE  Kept
    BY <2>5 DEF PortAdd, PortRetag, PortDel, TakeCommand, Accepted
  <2>6. ASSUME NEW p, NEW c, ClassifierAdd(p, c) \/ ClassifierDel(p, c)
        PROVE  Kept
    BY <2>6 DEF ClassifierAdd, ClassifierDel, TakeCommand, Accepted
  <2> HIDE DEF Kept
  <2>1. Kept
    BY <2>2, <2>3, <2>4, <2>5, <2>6 DEF Command
  <2> USE DEF Kept
  <2> QED
    BY <2>1 DEF CoreInv, IndexInv, FlagInv
<1>1. chgCore \subseteq chgCore' => IndexInv'
  BY <1>0 DEF CoreInv, IndexInv
<1>2. CASE UNCHANGED <<coreIds, comp, flagVars>>
  BY <1>0, <1>2, CoreFrame
<1>3. ASSUME NEW l \in Lcore, NEW i \in Id, NEW c \in Component,
             comp' = [comp EXCEPT ![i] = c],
             \/ /\ ~InUse(i) /\ c.type # "unuse" /\ c.lcore = l
                /\ coreIds' = [coreIds EXCEPT ![l][coreUpd[l]] = @ \cup {i}]
             \/ /\ InUse(i) /\ comp[i].lcore = l /\ c.type = "unuse"
                /\ coreIds' = [coreIds EXCEPT ![l][coreUpd[l]] = @ \ {i}],
             chgCore' = chgCore \cup {l}
      PROVE  ListInv'
  <2>1. /\ comp \in [Id -> Component]
        /\ coreIds \in [Lcore -> [Area -> SUBSET Id]]
        /\ coreUpd \in [Lcore -> Area] /\ coreRef \in [Lcore -> Area]
    BY DEF CoreInv, TypeInv, TypeOK
  <2>2. ASSUME NEW k \in Lcore
        PROVE  NewList(k)' = Registered(k)'
    <3>1. NewList(k) = coreIds[k][coreUpd[k]] /\ NewList(k) = Registered(k)
          /\ NewList(k)' = coreIds'[k][coreUpd[k]]
      BY <1>0 DEF NewList, CoreInv, ListInv
    <3>2. comp'[i] = c /\ \A j \in Id : j # i => comp'[j] = comp[j]
      BY <1>3, <2>1
    <3>3. CASE k = l
      <4>1. CASE ~InUse(i)
        <5>1. NewList(k)' = NewList(k) \cup {i}
          BY <1>3, <2>1, <3>1, <3>3, <4>1
        <5>2. Registered(k)' = Registered(k) \cup {i}
          BY <1>3, <3>2, <3>3, <4>1 DEF Registered, InUse
        <5> QED
          BY <3>1, <5>1, <5>2
      <4>2. CASE InUse(i)
        <5>1. NewList(k)' = NewList(k) \ {i}
          BY <1>3, <2>1, <3>1, <3>3, <4>2
        <5>2. Registered(k)' = Registered(k) \ {i}
          BY <1>3, <3>2, <4>2 DEF Registered, InUse
        <5> QED
          BY <3>1, <5>1, <5>2
      <4> QED
        BY <4>1, <4>2
    <3>4. CASE k # l
      <4>1. NewList(k)' = NewList(k)
        BY <1>3, <2>1, <3>1, <3>4
      <4>2. Registered(k)' = Registered(k)
        BY <1>3, <3>2, <3>4 DEF Registered, InUse
      <4> QED
        BY <3>1, <4>1, <4>2
    <3> QED
      BY <3>3, <3>4
  <2>3. ASSUME NEW k \in Lcore, k \notin chgCore'
        PROVE  IdsOf(k)' = Registered(k)'
    <3>1. k # l /\ k \notin chgCore
      BY <1>3, <2>3
    <3>2. IdsOf(k)' = IdsOf(k)
      BY <1>0, <1>3, <2>1, <3>1 DEF IdsOf
    <3>3. Registered(k)' = Registered(k)
      BY <1>3, <2>1, <3>1 DEF Registered, InUse
    <3> QED
      BY <3>1, <3>2, <3>3 DEF CoreInv, ListInv
  <2> QED
    BY <1>0, <2>2, <2>3 DEF ListInv
<1>4. ASSUME NEW n \in Name, NEW l \in StartLcore,
             NEW t \in StartType, StartComponent(n, t, l)
      PROVE  CoreParts'
  <2> DEFINE i == Lowest(FreeIds)
             c == [name |-> n, type |-> t, lcore |-> l, rx |-> {}, tx |-> {}]
  <2>1. i \in Id /\ ~InUse(i)
    <3>1. FreeIds \in SUBSET Id /\ FreeIds # {}
      BY <1>4 DEF StartComponent, FreeIds
    <3>2. i \in FreeIds
      BY <3>1, LowestIn
    <3> QED
      BY <3>2 DEF FreeIds
  <2>2. l \in Lcore /\ c \in Component
    BY LcoreAssumption, TypeAssumption DEF Lcore, Component, ComponentType
  <2>3. c.type # "unuse" /\ c.lcore = l /\ c.name = n
    BY TypeAssumption
  <2>4. /\ comp' = [comp EXCEPT ![i] = c]
        /\ coreIds' = [coreIds EXCEPT ![l][coreUpd[l]] = @ \cup {i}]
        /\ chgComp' = chgComp \cup {i}
        /\ chgCore' = chgCore \cup {l}
    BY <1>4 DEF StartComponent, EditedList
  <2> HIDE DEF i, c
  <2>5. ListInv'
    BY <1>3, <2>1, <2>2, <2>3, <2>4
  <2>6. FlagInv'
    <3>1. comp'[i] = c /\ \A j \in Id : j # i => comp'[j] = comp[j]
      BY <2>1, <2>4 DEF CoreInv, TypeInv, TypeOK
    <3> QED
      BY <1>0, <2>1, <2>3, <2>4, <3>1
      DEF CoreInv, FlagInv, InUse, TypeInv, TypeOK
  <2> QED
    BY <1>1, <2>4, <2>5, <2>6 DEF CoreParts
<1>5. ASSUME NEW n \in Name, StopComponent(n)
      PROVE  CoreParts'
  <2>1. PICK i \in IdOf(n) :
          LET l == comp[i].lcore IN
          /\ comp' = [comp EXCEPT ![i] = Unused]
          /\ coreIds' = [coreIds EXCEPT ![l][EditedList(l)] = @ \ {i}]
          /\ chgComp' = FlagsAfterStop(i)
          /\ chgCore' = chgCore \cup {l}
    BY <1>5 DEF StopComponent
  <2> DEFINE l == comp[i].lcore
  <2>2. l \in Lcore /\ i \in Id /\ comp[i].name = n
    BY DEF IdOf, CoreInv, TypeInv, TypeOK, Component
  <2>3. InUse(i)
    BY <2>2 DEF CoreInv, FlagInv
  <2>4. Unused.type = "unuse" /\ Unused.name = NoName
    BY DEF Unused
  <2>5. /\ comp' = [comp EXCEPT ![i] = Unused]
        /\ coreIds' = [coreIds EXCEPT ![l][coreUpd[l]] = @ \ {i}]
        /\ chgCore' = chgCore \cup {l}
        /\ chgComp' = chgComp \ {i}
    BY <2>1 DEF EditedList, FlagsAfterStop
  <2>6. comp[i].lcore = l
    OBVIOUS
  <2> HIDE DEF l
  <2>7. ListInv'
    BY <1>3, <2>2, <2>3, <2>4, <2>5, <2>6, UnusedType
  <2>8. FlagInv'
    <3>1. comp'[i] = Unused /\ \A j \in Id : j # i => comp'[j] = comp[j]
      BY <2>2, <2>5 DEF CoreInv, TypeInv, TypeOK
    <3> QED
      BY <1>0, <2>2, <2>4, <2>5, <3>1, NameAssumption
      DEF CoreInv, FlagInv, InUse, TypeInv, TypeOK
  <2> QED
    BY <1>1, <2>5, <2>7, <2>8 DEF CoreParts
<1>6. ASSUME UNCHANGED <<coreIds, chgCore>>, chgComp' \in SUBSET Id,
             \A j \in chgComp' : InUse(j), chgComp \subseteq chgComp',
             \A j \in Id : /\ comp'[j].name = comp[j].name
                           /\ comp'[j].type = comp[j].type
                           /\ comp'[j].lcore = comp[j].lcore
      PROVE  CoreParts'
  <2>1. /\ \A k \in Lcore : Registered(k)' = Registered(k)
        /\ \A k \in Lcore : NewList(k)' = NewList(k)
        /\ \A k \in Lcore : IdsOf(k)' = IdsOf(k)
        /\ \A j \in Id : InUse(j)' = InUse(j)
    BY <1>0, <1>6 DEF Registered, InUse, NewList, IdsOf
  <2>2. ListInv'
    BY <1>0, <1>6, <2>1 DEF CoreInv, ListInv
  <2>3. FlagInv'
    BY <1>0, <1>6, <2>1 DEF CoreInv, FlagInv
  <2> QED
    BY <1>1, <1>6, <2>2, <2>3 DEF CoreParts
<1>7. ASSUME NEW n \in Name, NEW p \in Port, NEW d \in Dir,
             \/ \E tag \in Tags : PortAdd(n, p, d, tag)
             \/ PortRetag(n, p, d)
             \/ PortDel(n, p, d)
      PROVE  CoreParts'
  <2>1. PICK i \in IdOf(n) :
          /\ UNCHANGED <<coreIds, chgCore>>
          /\ chgComp' = chgComp \cup {i}
          /\ \/ comp' = [comp EXCEPT ![i][d] = @ \cup {p}]
             \/ comp' = [comp EXCEPT ![i][d] = @ \ {p}]
             \/ comp' = comp
    BY <1>7 DEF PortAdd, PortRetag, PortDel
  <2>2. i \in Id /\ InUse(i) /\ d # "name" /\ d # "type" /\ d # "lcore"
    BY DEF IdOf, CoreInv, FlagInv, Dir
  <2>3. \A j \in Id : /\ comp'[j].name = comp[j].name
                      /\ comp'[j].type = comp[j].type
                      /\ comp'[j].lcore = comp[j].lcore
    <3>1. comp[i] \in Component /\ comp \in [Id -> Component]
      BY <2>2 DEF CoreInv, TypeInv, TypeOK
    <3>2. \A S : LET c == [comp[i] EXCEPT ![d] = S] IN
                    /\ c.name = comp[i].name
                    /\ c.type = comp[i].type
                    /\ c.lcore = comp[i].lcore
      BY <2>2, <3>1 DEF Component
    <3>3. PICK S : \/ comp' = [comp EXCEPT ![i][d] = S]
                   \/ comp' = comp
      BY <2>1
    <3>4. ASSUME comp' = [comp EXCEPT ![i][d] = S]
          PROVE  comp' = [comp EXCEPT ![i] = [comp[i] EXCEPT ![d] = S]]
      BY <2>2, <3>1, <3>4
    <3> QED
      BY <2>2, <3>1, <3>2, <3>3, <3>4
  <2> QED
    BY <1>6, <2>1, <2>2, <2>3 DEF CoreInv, FlagInv, TypeInv, TypeOK
<1>8. ASSUME NEW p \in Port, NEW c \in Class,
             ClassifierAdd(p, c) \/ ClassifierDel(p, c)
      PROVE  CoreParts'
  <2>1. UNCHANGED <<coreIds, chgCore, comp>>
        /\ chgComp' = chgComp \cup FirstSender(p)
    BY <1>8 DEF ClassifierAdd, ClassifierDel
  <2>2. \A i \in FirstSender(p) : i \in Id /\ InUse(i)
    <3> SUFFICES ASSUME UserOf(p, "tx") # {}
                 PROVE  Lowest(UserOf(p, "tx")) \in UserOf(p, "tx")
      BY DEF FirstSender, UserOf
    <3>1. UserOf(p, "tx") \in SUBSET Id
      BY DEF UserOf
    <3> QED
      BY <3>1, LowestIn
  <2> QED
    BY <1>6, <2>1, <2>2 DEF CoreInv, FlagInv, TypeInv, TypeOK
<1>9. ASSUME \/ Exit \/ Refuse \/ \E n \in Name : StopUnknown(n)
      PROVE  CoreParts'
  <2>1. UNCHANGED <<coreIds, comp, flagVars>>
    BY <1>9 DEF Exit, Refuse, StopUnknown
  <2> QED
    BY <1>2, <2>1
<1> QED
  BY <1>4, <1>5, <1>7, <1>8, <1>9 DEF Command

(* The flush: the indices of the flagged lcores are made equal, each list   *)
(* is copied once its worker has switched, and the flags are cleared when   *)
(* no lcore is left to switch.                                              *)
LEMMA CoreFlush ==
    ASSUME CoreInv, Flush
    PROVE  CoreParts'
<1>0. /\ comp \in [Id -> Component]
      /\ coreIds \in [Lcore -> [Area -> SUBSET Id]]
      /\ coreUpd \in [Lcore -> Area] /\ coreRef \in [Lcore -> Area]
      /\ chgCore \subseteq Lcore /\ chgComp \subseteq Id
      /\ mtodo \subseteq chgComp /\ \A i \in chgComp : InUse(i)
  BY DEF CoreInv, TypeInv, TypeOK, FlagInv
<1>1. comp' = comp
  BY DEF Flush, FlushPort, FlushPortFail, CoreRequest, CoreCopy,
         ComponentWrite, ComponentFail, ComponentRequest, ComponentSwitched
<1>2. /\ \A l \in Lcore : Registered(l)' = Registered(l)
      /\ \A i \in Id : InUse(i)' = InUse(i)
  BY <1>1 DEF Registered, InUse
<1>3. ASSUME \/ ToComponents
             \/ BackToLoop /\ chgCore' = {} /\ chgComp' = {}
             \/ BackToLoop /\ UNCHANGED flagVars,
             mtodo = {} \/ Updating
      PROVE  FlagInv' /\ mcores' = {} /\ mpc' \in {"command", "write"}
  <2>1. /\ mcores' = {} /\ mpc' \in {"command", "write"}
        /\ \/ chgComp' = chgComp
           \/ chgComp' = {}
        /\ \/ mtodo' = {}
           \/ mtodo' = chgComp' /\ mpc' = "write"
    BY <1>3 DEF ToComponents, BackToLoop
  <2>2. \A i \in Id : comp'[i].name \in Name => InUse(i)'
    BY <1>1, <1>2 DEF CoreInv, FlagInv
  <2>3. \A i \in Id : InUse(i)' => comp'[i].lcore \in StartLcore
    BY <1>1, <1>2 DEF CoreInv, FlagInv
  <2>4. \A i \in chgComp' : InUse(i)'
    BY <1>0, <1>2, <2>1
  <2> QED
    BY <2>1, <2>2, <2>3, <2>4 DEF FlagInv
<1>4. ASSUME UNCHANGED <<coreRef, coreUpd, coreIds>>, mcores = {},
             mcores' = {}, mpc' # "core_wait",
             \/ chgCore' = {} /\ mpc \in CoreDone
             \/ chgCore' = {} /\ chgCore = {}
             \/ chgCore' = chgCore /\ mpc' \notin CoreDone
             \/ chgCore' = chgCore /\ mpc \in CoreDone
      PROVE  IndexInv' /\ ListInv'
  <2>1. /\ \A l \in Lcore : NewList(l)' = NewList(l)
        /\ \A l \in Lcore : IdsOf(l)' = IdsOf(l)
    BY <1>4 DEF NewList, IdsOf
  <2>2. IndexInv'
    BY <1>4 DEF CoreInv, IndexInv
  <2>3. ListInv'
    BY <1>2, <1>4, <2>1 DEF CoreInv, ListInv
  <2> QED
    BY <2>2, <2>3
<1>5. CASE FlushPort
  <2>1. UNCHANGED <<coreVars, comp, flagVars, mcores, mtodo>>
        /\ mpc = "flush_port" /\ mpc' = "core_request"
    BY <1>5 DEF FlushPort
  <2> QED
    BY <2>1, CoreFrame DEF CoreInv, IndexInv, FlagInv
<1>6. CASE FlushPortFail
  <2>1. /\ UNCHANGED <<coreRef, coreUpd, coreIds, chgCore>>
        /\ BackToLoop /\ KeepFlags
        /\ mpc = "flush_port" /\ mpc' = "command"
    BY <1>6 DEF FlushPortFail, BackToLoop, KeepFlags
  <2>2. mcores = {} /\ mtodo = {}
    BY <2>1 DEF CoreInv, IndexInv, FlagInv
  <2>3. FlagInv' /\ mcores' = {}
    BY <1>3, <2>1, <2>2 DEF KeepFlags
  <2> QED
    BY <1>4, <2>1, <2>2, <2>3 DEF CoreParts
<1>7. CASE CoreRequest
  <2>0. mcores = {} /\ mtodo = {} /\ UNCHANGED <<coreRef, coreIds>>
    BY <1>7 DEF CoreRequest, CoreInv, IndexInv, FlagInv
  <2>1. CASE chgCore = {}
    <3>1. ToComponents /\ coreUpd' = coreUpd
      BY <1>0, <1>7, <2>1 DEF CoreRequest
    <3>2. chgCore' = {}
      BY <2>1, <3>1 DEF ToComponents
    <3>3. FlagInv' /\ mcores' = {} /\ mpc' \in {"command", "write"}
      BY <1>3, <2>0, <3>1
    <3> QED
      BY <1>4, <2>0, <2>1, <3>1, <3>2, <3>3 DEF CoreParts
  <2>2. CASE chgCore # {}
    <3>1. /\ mpc' = "core_wait" /\ mcores' = chgCore
          /\ UNCHANGED <<mtodo, flagVars>>
          /\ coreUpd' = [l \in Lcore |->
                           IF l \in chgCore THEN coreRef[l] ELSE coreUpd[l]]
      BY <1>7, <2>2 DEF CoreRequest
    <3>2. \A l \in Lcore : coreRef[l] # coreUpd[l]
      BY <2>0 DEF CoreInv, IndexInv
    <3>3. IndexInv'
      BY <2>0, <3>1, <3>2 DEF IndexInv
    <3>4. \A l \in Lcore : NewList(l)' = NewList(l) /\ IdsOf(l)' = IdsOf(l)
      <4> TAKE l \in Lcore
      <4>1. coreRef[l] # coreUpd[l] /\ coreRef[l] \in Area /\ coreUpd[l] \in Area
        BY <1>0, <3>2
      <4>2. CASE l \in chgCore
        BY <2>0, <3>1, <4>1, <4>2 DEF NewList, IdsOf, Area
      <4>3. CASE l \notin chgCore
        BY <2>0, <3>1, <4>1, <4>3 DEF NewList, IdsOf, Area
      <4> QED
        BY <4>2, <4>3
    <3>5. ListInv'
      BY <1>2, <3>1, <3>4 DEF CoreInv, ListInv
    <3>6. FlagInv'
      BY <1>0, <1>1, <1>2, <2>0, <3>1 DEF CoreInv, FlagInv
    <3> QED
      BY <3>3, <3>5, <3>6 DEF CoreParts
  <2> QED
    BY <2>1, <2>2
<1>8. ASSUME NEW l \in Lcore, CoreCopy(l)
      PROVE  CoreParts'
  <2>0. /\ mtodo = {} /\ UNCHANGED <<coreRef, coreUpd>>
        /\ mpc = "core_wait" /\ l \in mcores /\ coreRef[l] # coreUpd[l]
        /\ coreIds' = [coreIds EXCEPT ![l][coreUpd[l]] = IdsOf(l)]
    BY <1>8 DEF CoreCopy, CoreSwitched, CoreInv, FlagInv
  <2>1. coreRef[l] = 1 - coreUpd[l] /\ IdsOf(l) = Registered(l)
    <3>1. coreRef[l] = 1 - coreUpd[l]
      BY <1>0, <2>0 DEF Area
    <3>2. NewList(l) = IdsOf(l)
      BY <2>0, <3>1 DEF NewList, IdsOf
    <3> QED
      BY <3>1, <3>2 DEF CoreInv, ListInv
  <2>2. /\ coreIds'[l][coreUpd[l]] = IdsOf(l)
        /\ coreIds'[l][coreRef[l]] = IdsOf(l)
        /\ \A k \in Lcore : k # l => coreIds'[k] = coreIds[k]
    BY <1>0, <2>0 DEF IdsOf
  <2>3. mcores' = mcores \ {l}
    BY <1>8 DEF CoreCopy, ToComponents, BackToLoop
  <2>4. \A k \in Lcore : NewList(k)' = Registered(k)'
    <3> SUFFICES ASSUME NEW k \in Lcore PROVE NewList(k)' = Registered(k)
      BY <1>2
    <3>1. CASE k = l
      BY <2>0, <2>1, <2>2, <2>3, <3>1 DEF NewList
    <3>2. CASE k # l
      <4>1. NewList(k)' = NewList(k)
        BY <2>0, <2>2, <2>3, <3>2 DEF NewList
      <4> QED
        BY <4>1 DEF CoreInv, ListInv
    <3> QED
      BY <3>1, <3>2
  <2>5. \A k \in Lcore \ mcores' : IdsOf(k)' = Registered(k)'
    <3> SUFFICES ASSUME NEW k \in Lcore, k \notin mcores \ {l}
                 PROVE  IdsOf(k)' = Registered(k)
      BY <1>2, <2>3
    <3>1. CASE k = l
      BY <2>0, <2>1, <2>2, <3>1 DEF IdsOf
    <3>2. CASE k # l
      <4>1. IdsOf(k)' = IdsOf(k)
        BY <2>0, <2>2, <3>2 DEF IdsOf
      <4> QED
        BY <2>0, <3>2, <4>1 DEF CoreInv, ListInv
    <3> QED
      BY <3>1, <3>2
  <2>6. CASE mcores = {l}
    <3>1. ToComponents
      BY <1>8, <2>6 DEF CoreCopy
    <3>2. FlagInv' /\ mcores' = {}
      BY <1>3, <2>0, <3>1
    <3>3. IndexInv'
      BY <2>0, <2>6, <3>2 DEF CoreInv, IndexInv
    <3> QED
      BY <2>4, <2>5, <3>2, <3>3 DEF CoreParts, ListInv
  <2>7. CASE mcores # {l}
    <3>1. UNCHANGED <<mpc, mtodo, flagVars>>
      BY <1>8, <2>7 DEF CoreCopy
    <3>2. IndexInv'
      BY <2>0, <2>3, <3>1 DEF CoreInv, IndexInv
    <3>3. ListInv'
      <4>1. \A k \in Lcore : k \notin chgCore => k \notin mcores'
        BY <2>3 DEF CoreInv, IndexInv
      <4> QED
        BY <2>4, <2>5, <3>1, <4>1 DEF ListInv
    <3>4. FlagInv'
      BY <1>0, <1>1, <1>2, <2>0, <3>1 DEF CoreInv, FlagInv
    <3> QED
      BY <3>2, <3>3, <3>4 DEF CoreParts
  <2> QED
    BY <2>6, <2>7
<1>9. CASE ComponentWrite \/ ComponentRequest
  <2>1. /\ UNCHANGED <<coreVars, comp, flagVars, mcores, mtodo>>
        /\ mpc \in {"write", "request"} /\ mpc' \in {"request", "wait"}
    BY <1>9 DEF ComponentWrite, ComponentRequest
  <2> QED
    BY <2>1, CoreFrame DEF CoreInv, IndexInv
<1>10. CASE ComponentFail
  <2>1. /\ UNCHANGED <<coreRef, coreUpd, coreIds>> /\ mpc = "write"
        /\ BackToLoop /\ chgCore' = {} /\ chgComp' = {}
    BY <1>10 DEF ComponentFail
  <2>2. mcores = {}
    BY <2>1 DEF CoreInv, IndexInv
  <2>3. FlagInv' /\ mcores' = {} /\ mpc' \in {"command", "write"}
    BY <1>3, <2>1
  <2> QED
    BY <1>4, <2>1, <2>2, <2>3 DEF CoreParts
<1>11. CASE ComponentSwitched
  <2>1. UNCHANGED <<coreRef, coreUpd, coreIds>> /\ mpc = "wait"
    BY <1>11 DEF ComponentSwitched
  <2>2. mcores = {}
    BY <2>1 DEF CoreInv, IndexInv
  <2>3. CASE mtodo = {mid}
    <3>1. BackToLoop /\ chgCore' = {} /\ chgComp' = {}
      BY <1>11, <2>3 DEF ComponentSwitched
    <3>2. FlagInv' /\ mcores' = {} /\ mpc' \in {"command", "write"}
      BY <1>3, <2>1, <3>1
    <3> QED
      BY <1>4, <2>1, <2>2, <3>1, <3>2 DEF CoreParts
  <2>4. CASE mtodo # {mid}
    <3>1. /\ mpc' = "write" /\ mtodo' = mtodo \ {mid}
          /\ UNCHANGED <<mcores, flagVars>>
      BY <1>11, <2>4 DEF ComponentSwitched
    <3>2. FlagInv'
      BY <1>0, <1>1, <1>2, <3>1 DEF CoreInv, FlagInv
    <3> QED
      BY <1>4, <2>1, <2>2, <3>1, <3>2 DEF CoreParts
  <2> QED
    BY <2>3, <2>4
<1> QED
  BY <1>5, <1>6, <1>7, <1>8, <1>9, <1>10, <1>11 DEF Flush

LEMMA CoreNext == CoreInv /\ [Next]_vars => CoreInv'
<1> SUFFICES ASSUME CoreInv, [Next]_vars PROVE CoreInv'
  OBVIOUS
<1>1. TypeInv'
  BY TypeNext DEF CoreInv
<1>2. ASSUME UNCHANGED vars PROVE CoreParts'
  <2>1. UNCHANGED <<coreVars, comp, flagVars, mcores, mtodo, mpc>>
    BY <1>2 DEF vars
  <2> QED
    BY <2>1, CoreFrame DEF CoreInv, IndexInv, FlagInv
<1>3. ASSUME Exited PROVE CoreParts'
  BY <1>2, <1>3 DEF Exited
<1>4. CoreParts'
  BY <1>2, <1>3, CoreWorker, CoreLife, CoreCommand, CoreFlush DEF Next
<1> QED
  BY <1>1, <1>4 DEF CoreParts, CoreInv

LEMMA CoreCorrect == Spec => []CoreInv
BY CoreInit, CoreNext, PTL DEF Spec

(* When a command has been answered and no flag is left, every worker walks *)
(* exactly the components registered on its lcore, however many commands    *)
(* came before and however many of their flushes failed to open a device.   *)
THEOREM ListsAgree == Spec => []WorkersAgree
<1>1. CoreInv => WorkersAgree
  <2> SUFFICES ASSUME CoreInv, Settled, NEW w \in Worker
               PROVE  IdsOf(w) = Registered(w)
    BY DEF WorkersAgree, Registered
  <2> QED
    BY DEF CoreInv, ListInv, Settled, Lcore
<1> QED
  BY <1>1, CoreCorrect, PTL

(* If no component is started on the main lcore or on one that EAL did not  *)
(* start, flush_component only ever waits for components that a worker      *)
(* has in the list it walks.                                                *)
THEOREM SpinHasWorker ==
    ASSUME StartLcore \subseteq Worker
    PROVE  Spec => []SpinHasPartner
<1>1. CoreInv => SpinHasPartner
  <2> SUFFICES ASSUME CoreInv, Updating, NEW i \in mtodo
               PROVE  /\ InUse(i)
                      /\ comp[i].lcore \in Worker
                      /\ i \in IdsOf(comp[i].lcore)
    BY DEF SpinHasPartner
  <2>1. i \in Id /\ InUse(i) /\ comp[i].lcore \in StartLcore
    BY DEF CoreInv, TypeInv, TypeOK, FlagInv
  <2>2. comp[i].lcore \in Worker /\ comp[i].lcore \in Lcore
    BY <2>1 DEF Lcore
  <2>3. mcores = {}
    BY DEF CoreInv, IndexInv
  <2>4. IdsOf(comp[i].lcore) = Registered(comp[i].lcore)
    BY <2>2, <2>3 DEF CoreInv, ListInv
  <2> QED
    BY <2>1, <2>2, <2>4 DEF Registered
<1> QED
  BY <1>1, CoreCorrect, PTL

(* Commands and flush_core write the list that the worker does not walk.    *)
LEMMA ListStep ==
    ASSUME CoreInv, [Next]_vars, NEW w \in Worker, coreRef'[w] = coreRef[w]
    PROVE  IdsOf(w)' = IdsOf(w)
<1>0. /\ w \in Lcore /\ coreIds \in [Lcore -> [Area -> SUBSET Id]]
      /\ coreRef[w] \in Area
  BY DEF Lcore, CoreInv, TypeInv, TypeOK
<1>1. ASSUME NEW l \in Lcore, NEW S, coreRef[l] # coreUpd[l],
             coreIds' = [coreIds EXCEPT ![l][coreUpd[l]] = S]
      PROVE  coreIds'[w][coreRef[w]] = coreIds[w][coreRef[w]]
  BY <1>0, <1>1
<1>2. CASE coreIds' = coreIds
  BY <1>2 DEF IdsOf
<1>3. ASSUME NEW l \in Lcore, CoreCopy(l)
      PROVE  coreIds'[w][coreRef[w]] = coreIds[w][coreRef[w]]
  BY <1>1, <1>3 DEF CoreCopy, CoreSwitched
<1>4. ASSUME mpc = "command", NEW l \in Lcore
      PROVE  coreRef[l] # coreUpd[l]
  BY <1>4 DEF CoreInv, IndexInv
<1>5. ASSUME NEW n \in Name, NEW l \in StartLcore, NEW t,
             StartComponent(n, t, l)
      PROVE  coreIds'[w][coreRef[w]] = coreIds[w][coreRef[w]]
  <2>1. l \in Lcore /\ mpc = "command"
    BY <1>5, LcoreAssumption DEF Lcore, StartComponent, TakeCommand
  <2>2. PICK i : coreIds' = [coreIds EXCEPT ![l][coreUpd[l]] = @ \cup {i}]
    BY <1>5 DEF StartComponent, EditedList
  <2> QED
    BY <1>1, <1>4, <2>1, <2>2
<1>6. ASSUME NEW n \in Name, StopComponent(n)
      PROVE  coreIds'[w][coreRef[w]] = coreIds[w][coreRef[w]]
  <2>1. PICK i \in IdOf(n) :
          /\ mpc = "command"
          /\ coreIds' = [coreIds EXCEPT
               ![comp[i].lcore][coreUpd[comp[i].lcore]] = @ \ {i}]
    BY <1>6 DEF StopComponent, EditedList, TakeCommand
  <2>2. comp[i].lcore \in Lcore
    BY DEF IdOf, CoreInv, TypeInv, TypeOK, Component
  <2> QED
    BY <1>1, <1>4, <2>1, <2>2
<1>7. \/ coreIds' = coreIds
      \/ \E l \in Lcore : CoreCopy(l)
      \/ \E n \in Name, l \in StartLcore, t \in StartType :
            StartComponent(n, t, l)
      \/ \E n \in Name : StopComponent(n)
  <2>1. CASE UNCHANGED vars \/ LifeCycle \/ Signal \/ Exited
             \/ \E v \in Worker : WorkerStep(v)
    BY <2>1 DEF vars, LifeCycle, MainIdle, WaitIdle, StartForwarding,
      LeaveLoop, Finalize, WaitStop, Signal, Exited, WorkerStep,
      WorkerStart, WorkerStop, WorkerTop, WorkerPick, WorkerEnter,
      WorkerFinish
  <2>2. CASE Flush
    BY <2>2 DEF Flush, FlushPort, FlushPortFail, CoreRequest,
      ComponentWrite, ComponentFail, ComponentRequest, ComponentSwitched
  <2>3. CASE Command
    BY <2>3 DEF Command, Exit, Refuse, StopUnknown, PortAdd, PortRetag,
      PortDel, ClassifierAdd, ClassifierDel
  <2> QED
    BY <2>1, <2>2, <2>3 DEF Next
<1>8. coreIds'[w][coreRef[w]] = coreIds[w][coreRef[w]]
  BY <1>2, <1>3, <1>5, <1>6, <1>7
<1> QED
  BY <1>8 DEF IdsOf

(* No step but the worker's own switch changes the list that a worker       *)
(* walks: commands and flush_core write the other area only.                *)
THEOREM ListsStable == Spec => ListStable
<1>1. CoreInv /\ [Next]_vars
        => [\A w \in Worker :
              IdsOf(w)' # IdsOf(w) => coreRef'[w] # coreRef[w]]_vars
  BY ListStep
<1> QED
  BY <1>1, CoreCorrect, PTL DEF Spec, ListStable

-----------------------------------------------------------------------------
(* The life of the threads.  Without a signal the workers and the main      *)
(* thread go through their statuses in step; if no worker is too slow to be *)
(* waited for, main() gets through check_core_status only when all agree.   *)
Looping  == {"top", "scan", "enter", "burst"}
Serving  == {"command", "flush_port", "core_request", "core_wait",
             "write", "request", "wait"}
Ending   == {"finalize", "wait_stop", "exited"}

Fresh(w)    == wpc[w] = "launch" /\ status[w] = "stop"
Idle(w)     == wpc[w] = "top" /\ status[w] = "idle"
Forwards(w) == wpc[w] \in Looping /\ status[w] = "forward"
Leaving(w) == wpc[w] \in Looping /\ status[w] = "stop_request"
Stopped(w)  == wpc[w] = "stopped" /\ status[w] = "stop"

LifeInv ==
    /\ status[Main] # "stop_request"
    /\ mpc \in {"launch", "wait_idle"} => \A w \in Worker : Fresh(w) \/ Idle(w)
    /\ mpc = "go" => \A w \in Worker : Idle(w)
    /\ mpc \in Serving => \A w \in Worker : Forwards(w)
    /\ mpc \in Ending => \A w \in Worker : Leaving(w) \/ Stopped(w)
    /\ mpc = "exited" => \A w \in Worker : Stopped(w)

Calm == Faults \cap {"slow", "signal"} = {}

LEMMA LifeStep ==
    ASSUME TypeInv, LifeInv, NEW v \in Worker, WorkerStep(v)
    PROVE  LifeInv'
<1>0. /\ wpc \in [Worker -> {"launch", "top", "scan", "enter", "burst",
                             "stopped"}]
      /\ status \in [Lcore -> CoreStatus]
      /\ v \in Lcore /\ Main # v /\ Main \in Lcore
      /\ mpc' = mpc /\ mpc # "exited"
      /\ \A w \in Worker : w \in Lcore
  BY LcoreAssumption DEF TypeInv, TypeOK, Lcore, WorkerStep, WorkerStart,
    WorkerStop, WorkerTop, WorkerPick, WorkerEnter, WorkerFinish, Alive
<1>1. status'[Main] = status[Main]
  BY <1>0 DEF WorkerStep, WorkerStart, WorkerStop, WorkerTop, WorkerPick,
    WorkerEnter, WorkerFinish
<1>2. \A w \in Worker \ {v} : wpc'[w] = wpc[w] /\ status'[w] = status[w]
  BY <1>0 DEF WorkerStep, WorkerStart, WorkerStop, WorkerTop, WorkerPick,
    WorkerEnter, WorkerFinish, Onward
<1>3. \/ /\ wpc[v] = "launch" /\ Idle(v)'
      \/ /\ status[v] = "stop_request" /\ Stopped(v)'
      \/ /\ wpc[v] \in Looping /\ status[v] # "idle" /\ wpc[v] # "launch"
         /\ wpc'[v] \in Looping /\ status'[v] = status[v]
  <2>1. CASE WorkerStart(v)
    BY <1>0, <2>1 DEF WorkerStart, Idle
  <2>2. CASE WorkerStop(v)
    BY <1>0, <2>2 DEF WorkerStop, Stopped
  <2>3. CASE WorkerTop(v)
    BY <1>0, <2>3 DEF WorkerTop, Onward, Looping
  <2>4. ASSUME wpc[v] \in {"scan", "enter", "burst"}, status' = status,
               wpc'[v] \in Looping
        PROVE  wpc[v] \in Looping /\ status[v] # "idle"
    BY <1>0, <2>4 DEF LifeInv, Looping, Fresh, Idle, Forwards, Leaving,
      Stopped, Serving, Ending, TypeInv, TypeOK
  <2>5. CASE (\E i \in Id : WorkerPick(v, i)) \/ WorkerEnter(v) \/ WorkerFinish(v)
    <3>1. /\ wpc[v] \in {"scan", "enter", "burst"} /\ status' = status
          /\ wpc'[v] \in Looping
      BY <1>0, <2>5 DEF WorkerPick, WorkerEnter, WorkerFinish, Onward, Looping
    <3> QED
      BY <2>4, <3>1
  <2> QED
    BY <2>1, <2>2, <2>3, <2>5 DEF WorkerStep
<1>4. \A w \in Worker \ {v} :
        /\ Fresh(w)' <=> Fresh(w)
        /\ Idle(w)' <=> Idle(w)
        /\ Forwards(w)' <=> Forwards(w)
        /\ Leaving(w)' <=> Leaving(w)
        /\ Stopped(w)' <=> Stopped(w)
  BY <1>2 DEF Fresh, Idle, Forwards, Leaving, Stopped
<1>5. mpc \in {"launch", "wait_idle"} => Fresh(v)' \/ Idle(v)'
  BY <1>3 DEF LifeInv, Fresh, Idle, Stopped, Looping
<1>6. mpc = "go" => Idle(v)'
  BY <1>3 DEF LifeInv, Idle, Stopped, Looping
<1>7. mpc \in Serving => Forwards(v)'
  BY <1>3 DEF LifeInv, Forwards, Idle, Stopped, Looping
<1>8. mpc \in Ending => Leaving(v)' \/ Stopped(v)'
  BY <1>3 DEF LifeInv, Leaving, Stopped, Idle, Looping
<1> QED
  BY <1>0, <1>1, <1>4, <1>5, <1>6, <1>7, <1>8 DEF LifeInv

(* What the main thread does to the statuses.                               *)
LEMMA LifeMain ==
    ASSUME TypeInv, LifeInv, Calm, LifeCycle \/ Command \/ Flush
    PROVE  LifeInv'
<1>0. /\ status \in [Lcore -> CoreStatus] /\ Main \in Lcore
      /\ Main \notin Worker /\ \A w \in Worker : w \in Lcore
      /\ wpc' = wpc
  <2>1. wpc' = wpc
    <3>1. LifeCycle \/ Flush => wpc' = wpc
      BY DEF LifeCycle, MainIdle, WaitIdle, StartForwarding, LeaveLoop,
        Finalize, WaitStop, Flush, FlushPort, FlushPortFail, CoreRequest,
        CoreCopy, ComponentWrite, ComponentFail, ComponentRequest,
        ComponentSwitched
    <3>2. Command => wpc' = wpc
      BY DEF Command, Exit, Refuse, StopComponent, StopUnknown,
        StartComponent, PortAdd, PortRetag, PortDel, ClassifierAdd,
        ClassifierDel, Accepted
    <3> QED
      BY <3>1, <3>2
  <2> QED
    BY <2>1, LcoreAssumption DEF TypeInv, TypeOK, Lcore
<1>1. ASSUME status' = status, mpc \in Serving, mpc' \in Serving
      PROVE  LifeInv'
  BY <1>0, <1>1 DEF LifeInv, Serving, Ending, Forwards
<1>2. CASE Flush
  <2>1. status' = status /\ mpc \in Serving /\ mpc' \in Serving
    BY <1>2 DEF Flush, FlushPort, FlushPortFail, CoreRequest, CoreCopy,
      ComponentWrite, ComponentFail, ComponentRequest, ComponentSwitched,
      BackToLoop, ToComponents, Serving
  <2> QED
    BY <1>1, <2>1
<1>3. CASE Command
  <2>1. CASE Exit
    BY <1>0, <2>1 DEF Exit, TakeCommand, AllSetTo, LifeInv, Serving, Ending,
      Forwards, Leaving
  <2>2. CASE ~Exit
    <3> DEFINE Kept == /\ status' = status /\ mpc = "command"
                       /\ mpc' \in {"command", "flush_port"}
    <3>1. ASSUME Refuse \/ \E n \in Name : StopComponent(n) \/ StopUnknown(n)
          PROVE  Kept
      BY <3>1 DEF Refuse, StopComponent, StopUnknown, TakeCommand, Accepted
    <3>2. ASSUME NEW n, NEW t, NEW l, StartComponent(n, t, l)
          PROVE  Kept
      BY <3>2 DEF StartComponent, TakeCommand, Accepted
    <3>3. ASSUME NEW n, NEW p, NEW d,
                 \/ \E tag \in Tags : PortAdd(n, p, d, tag)
                 \/ PortRetag(n, p, d)
                 \/ PortDel(n, p, d)
          PROVE  Kept
      BY <3>3 DEF PortAdd, PortRetag, PortDel, TakeCommand, Accepted
    <3>4. ASSUME NEW p, NEW c, ClassifierAdd(p, c) \/ ClassifierDel(p, c)
          PROVE  Kept
      BY <3>4 DEF ClassifierAdd, ClassifierDel, TakeCommand, Accepted
    <3> HIDE DEF Kept
    <3>5. Kept
      BY <1>3, <2>2, <3>1, <3>2, <3>3, <3>4 DEF Command
    <3>6. status' = status /\ mpc = "command" /\ mpc' \in {"command", "flush_port"}
      BY <3>5 DEF Kept
    <3> QED
      BY <1>1, <3>6 DEF Serving
  <2> QED
    BY <2>1, <2>2
<1>4. CASE LifeCycle
  <2>1. CASE MainIdle
    BY <1>0, <2>1 DEF MainIdle, LifeInv, Serving, Ending, Fresh, Idle
  <2>2. CASE WaitIdle
    <3>1. \A w \in Worker : Fresh(w) \/ Idle(w)
      BY <2>2 DEF WaitIdle, LifeInv
    <3>2. ~TimedOut("idle")
      BY <3>1 DEF TimedOut, Calm, Reaching, Fresh, Idle
    <3>3. \A w \in Worker : Idle(w)
      BY <2>2, <3>1, <3>2 DEF WaitIdle, AllWorkers, Fresh
    <3> QED
      BY <1>0, <2>2, <3>2, <3>3 DEF WaitIdle, LifeInv, Serving, Ending, Idle
  <2>3. CASE StartForwarding
    BY <1>0, <2>3 DEF StartForwarding, AllSetTo, LifeInv, Serving, Ending,
      Idle, Forwards, Looping
  <2>4. ~LeaveLoop
    BY DEF LeaveLoop, LifeInv
  <2>5. CASE Finalize
    BY <1>0, <2>5 DEF Finalize, LifeInv, Serving, Ending, Leaving, Stopped
  <2>6. CASE WaitStop
    <3>1. \A w \in Worker : Leaving(w) \/ Stopped(w)
      BY <2>6 DEF WaitStop, LifeInv, Ending
    <3>2. ~TimedOut("stop")
      BY <3>1 DEF TimedOut, Calm, Reaching, Leaving, Stopped
    <3>3. \A w \in Worker : Stopped(w)
      BY <2>6, <3>1, <3>2 DEF WaitStop, AllWorkers, Leaving
    <3> QED
      BY <1>0, <2>6, <3>3 DEF WaitStop, LifeInv, Serving, Ending, Stopped
  <2> QED
    BY <1>4, <2>1, <2>2, <2>3, <2>4, <2>5, <2>6 DEF LifeCycle
<1> QED
  BY <1>2, <1>3, <1>4

(* main() takes the vhost sockets away and returns only when every worker   *)
(* has left its loop, as long as no signal comes and no worker is too slow  *)
(* for the five looks that check_core_status takes at it.                   *)
THEOREM ExitsClean ==
    ASSUME Faults \cap {"slow", "signal"} = {}
    PROVE  Spec => []CleanExit
<1>1. Init => LifeInv
  BY LcoreAssumption DEF Init, LifeInv, Fresh, Serving, Ending, Lcore
<1>2. TypeInv /\ LifeInv /\ [Next]_vars => LifeInv'
  <2> SUFFICES ASSUME TypeInv, LifeInv, [Next]_vars PROVE LifeInv'
    OBVIOUS
  <2>1. CASE UNCHANGED vars \/ Exited
    BY <2>1 DEF vars, Exited, LifeInv, Fresh, Idle, Forwards, Leaving,
      Stopped
  <2>2. ~Signal
    BY DEF Signal
  <2> QED
    BY <2>1, <2>2, LifeStep, LifeMain DEF Next, Calm
<1>3. LifeInv => CleanExit
  BY DEF LifeInv, CleanExit, Stopped
<1>4. Spec => []TypeInv
  BY TypeInit, TypeNext, PTL DEF Spec
<1> QED
  BY <1>1, <1>2, <1>3, <1>4, PTL DEF Spec
=============================================================================
