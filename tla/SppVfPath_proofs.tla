------------------------- MODULE SppVfPath_proofs -------------------------
(***************************************************************************)
(* Proofs about the double buffers of SppVf: who works on which component, *)
(* when the areas of a path may be written, what they hold, and that once  *)
(* the flags are cleared they hold the registered configuration.           *)
(***************************************************************************)
EXTENDS SppVf_proofs

USE DEF Updating, Starting, CoreDone, statusVars, coreVars, regVars, flagVars,
        pathVars, workerVars, mainVars

-----------------------------------------------------------------------------
(* What a command does to the registered configuration.                     *)

Recorded(i, c) == /\ comp'[i] = c
                  /\ \A j \in Id \ {i} : comp'[j] = comp[j]

Created(i, n, t, l) ==
    /\ ~InUse(i)
    /\ Recorded(i, [name |-> n, type |-> t, lcore |-> l, rx |-> {}, tx |-> {}])
    /\ chgComp' = chgComp \cup {i}
    /\ chgCore' = chgCore \cup {l}
    /\ classId' = classId
    /\ coreIds' = [coreIds EXCEPT ![l][coreUpd[l]] = @ \cup {i}]

Removed(i) ==
    /\ "stop" \in Verbs
    /\ InUse(i)
    /\ Recorded(i, Unused)
    /\ chgComp' = chgComp \ {i}
    /\ chgCore' = chgCore \cup {comp[i].lcore}
    /\ classId' = classId

(* The ports of one direction of a component change, or only their tags.    *)
Ported(i, d, S) ==
    /\ InUse(i)
    /\ Recorded(i, [comp[i] EXCEPT ![d] = S])
    /\ chgComp' = chgComp \cup {i}
    /\ UNCHANGED <<coreIds, chgCore, classId>>
    /\ \/ S \subseteq comp[i][d]
       \/ \E p \in Port, tag \in Tags :
             S = comp[i][d] \cup {p} /\ PortFree(p, d, tag)

Classed(p) ==
    /\ \E c \in Class \cup {NoClass} : classId' = [classId EXCEPT ![p] = c]
    /\ chgComp' = chgComp \cup FirstSender(p)
    /\ UNCHANGED <<coreIds, comp, chgCore>>

(* A command starts or stops one component, changes the ports of one, or    *)
(* the class of one port; the workers and the areas are left alone.         *)
LEMMA CommandEffect ==
    ASSUME CoreInv, Command
    PROVE  /\ mpc = "command" /\ mcores = {} /\ mtodo = {}
           /\ mpc' \in {"command", "flush_port", "finalize"}
           /\ UNCHANGED <<coreRef, coreUpd, pathVars, workerVars, mcores, mtodo>>
           /\ \/ UNCHANGED <<coreIds, comp, classId, flagVars>>
              \/ \E i \in Id, n \in Name, t \in StartType, l \in StartLcore :
                    Created(i, n, t, l)
              \/ \E i \in Id : Removed(i)
              \/ \E i \in Id, d \in Dir, S \in SUBSET Port : Ported(i, d, S)
              \/ \E p \in Port : Classed(p)
<1> DEFINE Kept ==
      /\ mpc = "command" /\ mpc' \in {"command", "flush_port", "finalize"}
      /\ UNCHANGED <<coreRef, coreUpd, pathVars, workerVars, mcores, mtodo>>
<1>0. comp \in [Id -> Component]
  BY DEF CoreInv, TypeInv, TypeOK
<1>1. mpc = "command" => mcores = {} /\ mtodo = {}
  BY DEF CoreInv, IndexInv, FlagInv
<1>2. ASSUME Exit \/ Refuse \/ \E n \in Name : StopUnknown(n)
      PROVE  Kept /\ UNCHANGED <<coreIds, comp, classId, flagVars>>
  BY <1>2 DEF Exit, Refuse, StopUnknown, TakeCommand, Accepted
<1>3. ASSUME NEW n \in Name, NEW l \in StartLcore, NEW t \in StartType,
             StartComponent(n, t, l)
      PROVE  Kept /\ \E i \in Id : Created(i, n, t, l)
  <2> DEFINE i == Lowest(FreeIds)
             c == [name |-> n, type |-> t, lcore |-> l, rx |-> {}, tx |-> {}]
  <2>1. i \in Id /\ ~InUse(i)
    <3>1. FreeIds \in SUBSET Id /\ FreeIds # {}
      BY <1>3 DEF StartComponent, FreeIds
    <3> QED
      BY <3>1, LowestIn DEF FreeIds
  <2>2. /\ Kept
        /\ comp' = [comp EXCEPT ![i] = c]
        /\ coreIds' = [coreIds EXCEPT ![l][coreUpd[l]] = @ \cup {i}]
        /\ chgComp' = chgComp \cup {i}
        /\ chgCore' = chgCore \cup {l}
        /\ classId' = classId
    BY <1>3 DEF StartComponent, EditedList, TakeCommand, Accepted
  <2> HIDE DEF i, c, Kept
  <2>3. Recorded(i, c)
    BY <1>0, <2>1, <2>2 DEF Recorded
  <2> USE DEF c
  <2>4. Created(i, n, t, l)
    BY <2>1, <2>2, <2>3 DEF Created
  <2> QED
    BY <2>1, <2>2, <2>4
<1>4. ASSUME NEW n \in Name, StopComponent(n)
      PROVE  Kept /\ \E i \in Id : Removed(i)
  <2>1. PICK i \in IdOf(n) :
          /\ TakeCommand("stop") /\ Accepted
          /\ comp' = [comp EXCEPT ![i] = Unused]
          /\ chgComp' = FlagsAfterStop(i)
          /\ chgCore' = chgCore \cup {comp[i].lcore}
          /\ classId' = classId
    BY <1>4 DEF StopComponent
  <2>2. i \in Id /\ InUse(i)
    BY DEF IdOf, CoreInv, FlagInv
  <2>3. Recorded(i, Unused)
    BY <1>0, <2>1, <2>2 DEF Recorded
  <2>4. Removed(i)
    BY <2>1, <2>2, <2>3 DEF Removed, FlagsAfterStop, TakeCommand
  <2> QED
    BY <2>1, <2>2, <2>4 DEF TakeCommand, Accepted
<1>5. ASSUME NEW n \in Name, NEW p \in Port, NEW d \in Dir,
             \/ \E tag \in Tags : PortAdd(n, p, d, tag)
             \/ PortRetag(n, p, d)
             \/ PortDel(n, p, d)
      PROVE  Kept /\ \E i \in Id, S \in SUBSET Port : Ported(i, d, S)
  <2>1. Kept
    BY <1>5 DEF PortAdd, PortRetag, PortDel, TakeCommand, Accepted
  <2>2. PICK i \in IdOf(n) :
          /\ UNCHANGED <<coreIds, chgCore, classId>>
          /\ chgComp' = chgComp \cup {i}
          /\ \/ /\ comp' = [comp EXCEPT ![i][d] = @ \cup {p}]
                /\ \E tag \in Tags : PortFree(p, d, tag)
             \/ comp' = [comp EXCEPT ![i][d] = @ \ {p}]
             \/ comp' = comp
    BY <1>5 DEF PortAdd, PortRetag, PortDel
  <2>3. i \in Id /\ InUse(i)
    BY DEF IdOf, CoreInv, FlagInv
  <2>4. /\ comp[i] \in Component /\ comp[i][d] \in SUBSET Port
        /\ comp[i] = [comp[i] EXCEPT ![d] = comp[i][d]]
    BY <1>0, <2>3 DEF Component, Dir
  <2> HIDE DEF Kept
  <2>5. \E S \in SUBSET Port :
          /\ comp' = [comp EXCEPT ![i] = [comp[i] EXCEPT ![d] = S]]
          /\ \/ S \subseteq comp[i][d]
             \/ \E tag \in Tags :
                   S = comp[i][d] \cup {p} /\ PortFree(p, d, tag)
    <3>1. CASE /\ comp' = [comp EXCEPT ![i][d] = @ \cup {p}]
               /\ \E tag \in Tags : PortFree(p, d, tag)
      <4>1. comp' = [comp EXCEPT ![i] = [comp[i] EXCEPT ![d] = comp[i][d] \cup {p}]]
        BY <1>0, <2>3, <3>1
      <4>2. comp[i][d] \cup {p} \in SUBSET Port
        BY <2>4
      <4> QED
        BY <3>1, <4>1, <4>2
    <3>2. CASE comp' = [comp EXCEPT ![i][d] = @ \ {p}]
      <4>1. comp' = [comp EXCEPT ![i] = [comp[i] EXCEPT ![d] = comp[i][d] \ {p}]]
        BY <1>0, <2>3, <3>2
      <4>2. comp[i][d] \ {p} \in SUBSET Port
        BY <2>4
      <4> QED
        BY <4>1, <4>2
    <3>3. CASE comp' = comp
      <4>1. comp' = [comp EXCEPT ![i] = [comp[i] EXCEPT ![d] = comp[i][d]]]
        BY <1>0, <2>3, <2>4, <3>3
      <4> QED
        BY <2>4, <4>1
    <3> QED
      BY <2>2, <3>1, <3>2, <3>3
  <2>6. PICK S \in SUBSET Port :
          /\ comp' = [comp EXCEPT ![i] = [comp[i] EXCEPT ![d] = S]]
          /\ \/ S \subseteq comp[i][d]
             \/ \E tag \in Tags :
                   S = comp[i][d] \cup {p} /\ PortFree(p, d, tag)
    BY <2>5
  <2>7. Recorded(i, [comp[i] EXCEPT ![d] = S])
    BY <1>0, <2>3, <2>6 DEF Recorded
  <2>8. Ported(i, d, S)
    BY <2>2, <2>3, <2>6, <2>7 DEF Ported
  <2> QED
    BY <2>1, <2>3, <2>8
<1>6. ASSUME NEW p \in Port, NEW c \in Class,
             ClassifierAdd(p, c) \/ ClassifierDel(p, c)
      PROVE  Kept /\ Classed(p)
  BY <1>6 DEF ClassifierAdd, ClassifierDel, TakeCommand, Accepted, Classed
<1> HIDE DEF Kept
<1>7. /\ Kept
      /\ \/ UNCHANGED <<coreIds, comp, classId, flagVars>>
         \/ \E i \in Id, n \in Name, t \in StartType, l \in StartLcore :
               Created(i, n, t, l)
         \/ \E i \in Id : Removed(i)
         \/ \E i \in Id, d \in Dir, S \in SUBSET Port : Ported(i, d, S)
         \/ \E p \in Port : Classed(p)
  BY <1>2, <1>3, <1>4, <1>5, <1>6 DEF Command
<1> QED
  BY <1>1, <1>7 DEF Kept

(* A port command leaves a component what it is and where it runs.          *)
LEMMA PortedKeeps ==
    ASSUME TypeOK, NEW i \in Id, NEW d \in Dir, NEW S, Ported(i, d, S)
    PROVE  \A j \in Id : /\ comp'[j].name = comp[j].name
                         /\ comp'[j].type = comp[j].type
                         /\ comp'[j].lcore = comp[j].lcore
<1>1. comp[i] \in Component
  BY DEF TypeOK
<1>2. d \notin {"name", "type", "lcore"}
  BY DEF Dir
<1>3. LET c == [comp[i] EXCEPT ![d] = S] IN
        c.name = comp[i].name /\ c.type = comp[i].type /\ c.lcore = comp[i].lcore
  BY <1>1, <1>2 DEF Component
<1> QED
  BY <1>3 DEF Ported, Recorded

-----------------------------------------------------------------------------
(* Who works on what.  A worker goes on with the job it has taken while     *)
(* commands replace the component; it has caught up when nothing of its     *)
(* lcore is flagged or when it has switched to the new list.                *)
Working(w) == wpc[w] \in {"enter", "burst"}

Current(w) == \/ w \notin chgCore
              \/ mpc \in CoreDone /\ coreRef[w] # coreUpd[w]

JobInv ==
    \A w \in Worker : Working(w) =>
        /\ wjob[w].id \in IdsOf(w)
        /\ Current(w) => wjob[w].fam = FamilyOf(comp[wjob[w].id].type)

LEMMA CurrentList ==
    ASSUME CoreInv, NEW w \in Worker, Current(w)
    PROVE  IdsOf(w) = Registered(w)
<1>0. w \in Lcore /\ coreRef[w] \in Area /\ coreUpd[w] \in Area
  BY DEF Lcore, CoreInv, TypeInv, TypeOK
<1>1. CASE w \notin mcores
  <2>1. w \notin chgCore \/ (mpc \in CoreDone /\ w \notin mcores)
    BY <1>1 DEF Current
  <2> QED
    BY <1>0, <2>1 DEF CoreInv, ListInv
<1>2. CASE w \in mcores
  <2>1. coreRef[w] = 1 - coreUpd[w]
    BY <1>0, <1>2 DEF Current, CoreInv, IndexInv, Area
  <2>2. NewList(w) = IdsOf(w)
    BY <1>2, <2>1 DEF NewList, IdsOf
  <2> QED
    BY <1>0, <2>2 DEF CoreInv, ListInv
<1> QED
  BY <1>1, <1>2

(* While components are updated every worker has caught up, and so the one  *)
(* that works on a component is the worker of its lcore.                    *)
LEMMA UpdatingCurrent ==
    ASSUME CoreInv, Updating, NEW w \in Worker
    PROVE  Current(w)
BY DEF Current, CoreInv, IndexInv, Lcore

LEMMA SoleWorker ==
    ASSUME CoreInv, JobInv, Updating,
           NEW v \in Worker, Working(v),
           NEW w \in Worker, Working(w),
           wjob[v].id = wjob[w].id
    PROVE  v = w
<1>1. wjob[v].id \in Registered(v) /\ wjob[w].id \in Registered(w)
  BY UpdatingCurrent, CurrentList DEF JobInv
<1> QED
  BY <1>1 DEF Registered

(* What main does leaves a worker behind, or the types of its components as *)
(* they are.                                                                *)
LEMMA CurrentStep ==
    ASSUME CoreInv, LifeCycle \/ Signal \/ Command \/ Flush,
           NEW w \in Worker, Current(w)'
    PROVE  /\ Current(w)
           /\ \A i \in Registered(w) : comp'[i].type = comp[i].type
<1>0. w \in Lcore /\ comp \in [Id -> Component]
  BY DEF Lcore, CoreInv, TypeInv, TypeOK
<1>1. CASE LifeCycle \/ Signal
  <2>1. CASE StartForwarding
    BY <2>1 DEF StartForwarding, Current, CoreInv, FlagInv
  <2>2. CASE MainIdle \/ WaitIdle \/ LeaveLoop \/ Finalize \/ WaitStop \/ Signal
    <3>1. /\ UNCHANGED <<coreVars, comp, flagVars>>
          /\ mpc' \in CoreDone => mpc \in CoreDone
      BY <2>2 DEF MainIdle, WaitIdle, LeaveLoop, Finalize, WaitStop, Signal
    <3> QED
      BY <3>1 DEF Current
  <2> QED
    BY <1>1, <2>1, <2>2 DEF LifeCycle
<1>2. CASE Command
  <2>1. /\ mpc' \notin CoreDone
        /\ \/ UNCHANGED <<coreIds, comp, classId, flagVars>>
           \/ \E i \in Id, n \in Name, t \in StartType, l \in StartLcore :
                 Created(i, n, t, l)
           \/ \E i \in Id : Removed(i)
           \/ \E i \in Id, d \in Dir, S \in SUBSET Port : Ported(i, d, S)
           \/ \E p \in Port : Classed(p)
    BY <1>2, CommandEffect
  <2>2. w \notin chgCore'
    BY <2>1 DEF Current
  <2>3. ASSUME NEW i \in Id, NEW n, NEW t, NEW l, Created(i, n, t, l)
        PROVE  /\ w \notin chgCore
               /\ \A j \in Registered(w) : comp'[j].type = comp[j].type
    BY <2>2, <2>3 DEF Created, Recorded, Registered
  <2>4. ASSUME NEW i \in Id, Removed(i)
        PROVE  /\ w \notin chgCore
               /\ \A j \in Registered(w) : comp'[j].type = comp[j].type
    BY <2>2, <2>4 DEF Removed, Recorded, Registered
  <2>5. ASSUME NEW i \in Id, NEW d \in Dir, NEW S, Ported(i, d, S)
        PROVE  /\ w \notin chgCore
               /\ \A j \in Registered(w) : comp'[j].type = comp[j].type
    <3>1. \A j \in Id : comp'[j].type = comp[j].type
      BY <2>5, PortedKeeps DEF CoreInv, TypeInv
    <3> QED
      BY <2>2, <2>5, <3>1 DEF Ported, Registered
  <2>6. ASSUME NEW p, Classed(p)
        PROVE  /\ w \notin chgCore
               /\ \A j \in Registered(w) : comp'[j].type = comp[j].type
    BY <2>2, <2>6 DEF Classed
  <2>7. /\ w \notin chgCore
        /\ \A j \in Registered(w) : comp'[j].type = comp[j].type
    BY <2>1, <2>2, <2>3, <2>4, <2>5, <2>6
  <2> QED
    BY <2>7 DEF Current
<1>3. CASE Flush
  <2>1. comp' = comp
    BY <1>3 DEF Flush, FlushPort, FlushPortFail, CoreRequest, CoreCopy,
      ComponentWrite, ComponentFail, ComponentRequest, ComponentSwitched
  <2>2. CASE FlushPort \/ FlushPortFail
    BY <2>1, <2>2 DEF FlushPort, FlushPortFail, BackToLoop, KeepFlags, Current
  <2>3. CASE CoreRequest
    <3>1. CASE chgCore = {}
      BY <2>1, <3>1 DEF Current
    <3>2. CASE chgCore # {}
      BY <1>0, <2>1, <2>3, <3>2 DEF CoreRequest, Current
    <3> QED
      BY <3>1, <3>2
  <2>4. ASSUME NEW l \in Lcore, CoreCopy(l)
        PROVE  Current(w)
    <3>0. /\ mpc = "core_wait" /\ UNCHANGED <<coreRef, coreUpd>>
          /\ coreRef[l] # coreUpd[l]
      BY <2>4 DEF CoreCopy, CoreSwitched
    <3>1. CASE mcores = {l}
      BY <1>0, <3>0, <3>1 DEF Current, CoreInv, IndexInv
    <3>2. CASE mcores # {l}
      BY <2>4, <3>0, <3>2 DEF CoreCopy, Current
    <3> QED
      BY <3>1, <3>2
  <2>5. CASE ComponentWrite \/ ComponentFail \/ ComponentRequest
             \/ ComponentSwitched
    <3>1. Updating
      BY <2>5 DEF ComponentWrite, ComponentFail, ComponentRequest,
        ComponentSwitched
    <3> QED
      BY <2>1, <3>1, UpdatingCurrent
  <2> QED
    BY <1>3, <2>1, <2>2, <2>3, <2>4, <2>5 DEF Flush
<1> QED
  BY <1>1, <1>2, <1>3

LEMMA JobInit == Init => JobInv
BY DEF Init, JobInv, Working

(* A worker takes the next id of its list, and takes leave of it before it  *)
(* looks at the list again.                                                 *)
LEMMA JobNext ==
    ASSUME CoreInv, JobInv, [Next]_vars
    PROVE  JobInv'
<1>1. CASE \E v \in Worker : WorkerStep(v)
  <2>0. PICK v \in Worker : WorkerStep(v)
    BY <1>1
  <2>1. /\ wpc \in [Worker -> {"launch", "top", "scan", "enter", "burst",
                               "stopped"}]
        /\ wjob \in [Worker -> Job] /\ coreRef \in [Lcore -> Area]
        /\ v \in Lcore /\ \A w \in Worker : w \in Lcore
    BY DEF CoreInv, TypeInv, TypeOK, Lcore
  <2>2. UNCHANGED <<comp, chgCore, mpc, coreUpd, coreIds>>
    BY <2>0 DEF WorkerStep, WorkerStart, WorkerStop, WorkerTop, WorkerPick,
      WorkerEnter, WorkerFinish
  <2>3. \A w \in Worker \ {v} : UNCHANGED <<wpc[w], wjob[w], coreRef[w]>>
    BY <2>0, <2>1 DEF WorkerStep, WorkerStart, WorkerStop, WorkerTop,
      WorkerPick, WorkerEnter, WorkerFinish, Onward
  <2>4. ASSUME NEW w \in Worker, w # v, Working(w)'
        PROVE  /\ wjob'[w].id \in IdsOf(w)'
               /\ Current(w)' =>
                    wjob'[w].fam = FamilyOf(comp'[wjob'[w].id].type)
    <3>1. Working(w) /\ IdsOf(w)' = IdsOf(w) /\ (Current(w)' <=> Current(w))
      BY <2>2, <2>3, <2>4 DEF Working, IdsOf, Current
    <3> QED
      BY <2>2, <2>3, <2>4, <3>1 DEF JobInv
  <2>5. ASSUME Working(v)'
        PROVE  /\ wjob'[v].id \in IdsOf(v)'
               /\ Current(v)' =>
                    wjob'[v].fam = FamilyOf(comp'[wjob'[v].id].type)
    <3>1. CASE \E i \in Id : WorkerPick(v, i)
      BY <2>1, <3>1 DEF WorkerPick, IdsOf
    <3>2. CASE WorkerEnter(v)
      <4>1. wpc[v] = "enter" /\ coreRef' = coreRef
        BY <3>2 DEF WorkerEnter
      <4>2. /\ wjob'[v].id = wjob[v].id
            /\ wjob'[v].fam = wjob[v].fam
        <5>1. wpc'[v] \in {"enter", "burst"}
          BY <2>5 DEF Working
        <5>2. PICK r : wjob' = [wjob EXCEPT ![v].area = r]
          BY <2>1, <3>2, <5>1 DEF WorkerEnter, Onward
        <5>3. wjob'[v] = [wjob[v] EXCEPT !.area = r] /\ wjob[v] \in Job
          BY <2>1, <5>2
        <5> QED
          BY <5>3 DEF Job
      <4>3. IdsOf(v)' = IdsOf(v) /\ (Current(v)' <=> Current(v)) /\ Working(v)
        BY <2>2, <4>1 DEF IdsOf, Current, Working
      <4> QED
        BY <2>2, <4>2, <4>3 DEF JobInv
    <3>3. CASE WorkerStart(v) \/ WorkerStop(v) \/ WorkerTop(v) \/ WorkerFinish(v)
      BY <2>1, <2>5, <3>3 DEF WorkerStart, WorkerStop, WorkerTop,
        WorkerFinish, Onward, Working
    <3> QED
      BY <2>0, <3>1, <3>2, <3>3 DEF WorkerStep
  <2> QED
    BY <2>4, <2>5 DEF JobInv
<1>2. CASE LifeCycle \/ Signal \/ Command \/ Flush
  <2>1. UNCHANGED workerVars /\ UNCHANGED coreRef
    <3>1. CASE LifeCycle \/ Signal
      BY <3>1 DEF LifeCycle, MainIdle, WaitIdle, StartForwarding, LeaveLoop,
        Finalize, WaitStop, Signal
    <3>2. CASE Command
      BY <3>2, CommandEffect
    <3>3. CASE Flush
      BY <3>3 DEF Flush, FlushPort, FlushPortFail, CoreRequest, CoreCopy,
        ComponentWrite, ComponentFail, ComponentRequest, ComponentSwitched
    <3> QED
      BY <1>2, <3>1, <3>2, <3>3
  <2>2. SUFFICES ASSUME NEW w \in Worker, Working(w)'
                 PROVE  /\ wjob'[w].id \in IdsOf(w)'
                        /\ Current(w)' =>
                             wjob'[w].fam = FamilyOf(comp'[wjob'[w].id].type)
    BY DEF JobInv
  <2>3. Working(w) /\ wjob'[w] = wjob[w] /\ IdsOf(w)' = IdsOf(w)
    BY <2>1, <2>2, ListStep DEF Working
  <2>4. ASSUME Current(w)'
        PROVE  wjob[w].fam = FamilyOf(comp'[wjob[w].id].type)
    <3>1. Current(w) /\ wjob[w].id \in Registered(w)
      BY <1>2, <2>3, <2>4, CurrentStep, CurrentList DEF JobInv
    <3>2. comp'[wjob[w].id].type = comp[wjob[w].id].type
      BY <1>2, <2>4, <3>1, CurrentStep
    <3> QED
      BY <2>3, <3>1, <3>2 DEF JobInv
  <2> QED
    BY <2>3, <2>4 DEF JobInv
<1>3. CASE UNCHANGED vars
  BY <1>3 DEF vars, JobInv, Working, IdsOf, Current
<1> QED
  BY <1>1, <1>2, <1>3 DEF Next, Exited

-----------------------------------------------------------------------------
(* Which area is whose.  A worker polls with the area it has moved ref_index *)
(* to; the indices of a path that is polled are equal only while main waits *)
(* for that path, and those of a forwarder at no other time.                *)
Asked(f, i) == mpc = "wait" /\ i = mid /\ f = mfam

Owned(f, i) == Switched(f, i) \/ Asked(f, i)

PollOK(w) ==
    /\ wjob[w].area = ref[wjob[w].fam][wjob[w].id]
    /\ Owned(wjob[w].fam, wjob[w].id)
    /\ Runnable(wjob[w].fam, PolledPath(w))

PollInv == \A w \in Worker : Polling(w) => PollOK(w)

AskedInv == \A i \in Id : Owned("fwd", i)

AreaInv == CoreInv /\ JobInv /\ PollInv /\ AskedInv

(* Main writes one area, the one upd_index selects, and not while it waits  *)
(* for the switch.                                                          *)
Written(p) ==
    /\ \/ mpc = "write"
       \/ mpc = "wait" /\ ref[mfam][mid] # upd[mfam][mid]
    /\ area' = [area EXCEPT ![mfam][mid][upd[mfam][mid]] = p]

LEMMA AreaWritten ==
    ASSUME CoreInv, [Next]_vars
    PROVE  area' = area \/ \E p : Written(p)
<1>1. CASE UNCHANGED vars \/ LifeCycle \/ Signal \/ Exited
           \/ \E v \in Worker : WorkerStep(v)
  BY <1>1 DEF vars, LifeCycle, MainIdle, WaitIdle, StartForwarding,
    LeaveLoop, Finalize, WaitStop, Signal, Exited, WorkerStep,
    WorkerStart, WorkerStop, WorkerTop, WorkerPick, WorkerEnter, WorkerFinish
<1>2. CASE Command
  BY <1>2, CommandEffect
<1>3. CASE FlushPort \/ FlushPortFail \/ CoreRequest \/ ComponentRequest
           \/ \E l \in Lcore : CoreCopy(l)
  BY <1>3 DEF FlushPort, FlushPortFail, CoreRequest, ComponentRequest, CoreCopy
<1>4. CASE ComponentWrite \/ ComponentFail
  <2>1. mpc = "write"
    BY <1>4 DEF ComponentWrite, ComponentFail
  <2>2. PICK p : area' = [area EXCEPT ![mfam][mid][upd[mfam][mid]] = p]
    BY <1>4 DEF ComponentWrite, ComponentFail
  <2>3. Written(p)
    BY <2>1, <2>2 DEF Written
  <2> QED
    BY <2>3
<1>5. CASE ComponentSwitched
  <2>1. area' = area \/ Written(NoPath)
    BY <1>5 DEF ComponentSwitched, Switched, Written
  <2> QED
    BY <2>1
<1> QED
  BY <1>1, <1>2, <1>3, <1>4, <1>5 DEF Next, Flush

(* A worker that goes on polling keeps its job, and the area it polls with  *)
(* is not the one main writes.                                              *)
LEMMA PollStep ==
    ASSUME AreaInv, [Next]_vars, NEW w \in Worker, Polling(w), Polling(w)'
    PROVE  /\ wjob'[w] = wjob[w]
           /\ PolledPath(w)' = PolledPath(w)
<1> DEFINE f == wjob[w].fam
           i == wjob[w].id
           a == wjob[w].area
<1>0. /\ CoreInv
      /\ wpc \in [Worker -> {"launch", "top", "scan", "enter", "burst",
                             "stopped"}]
      /\ wjob \in [Worker -> Job]
      /\ area \in [Family -> [Id -> [Area -> Path]]]
      /\ upd \in [Family -> [Id -> Area]]
      /\ Updating => mid \in Id /\ mfam \in Family
  BY TurnType DEF AreaInv, CoreInv, TypeInv, TypeOK
<1>1. f \in Family /\ i \in Id /\ a \in Area
  BY <1>0 DEF Job
<1>2. wjob'[w] = wjob[w]
  <2>1. CASE \E v \in Worker : WorkerStep(v)
    <3>1. PICK v \in Worker : WorkerStep(v)
      BY <2>1
    <3>2. CASE v = w
      BY <1>0, <3>1, <3>2 DEF WorkerStep, WorkerStart, WorkerStop, WorkerTop,
        WorkerPick, WorkerEnter, WorkerFinish, Onward, Polling
    <3>3. CASE v # w
      BY <1>0, <3>1, <3>3 DEF WorkerStep, WorkerStart, WorkerStop, WorkerTop,
        WorkerPick, WorkerEnter, WorkerFinish, Onward
    <3> QED
      BY <3>2, <3>3
  <2>2. CASE Command
    BY <1>0, <2>2, CommandEffect
  <2>3. CASE LifeCycle \/ Signal \/ UNCHANGED vars
    BY <2>3 DEF vars, LifeCycle, MainIdle, WaitIdle, StartForwarding,
      LeaveLoop, Finalize, WaitStop, Signal
  <2>4. CASE Flush
    BY <2>4 DEF Flush, FlushPort, FlushPortFail, CoreRequest, CoreCopy,
      ComponentWrite, ComponentFail, ComponentRequest, ComponentSwitched
  <2> QED
    BY <2>1, <2>2, <2>3, <2>4 DEF Next, Exited
<1>3. a = ref[f][i] /\ (Switched(f, i) \/ Asked(f, i))
  BY DEF AreaInv, PollInv, PollOK, Owned
<1>4. area'[f][i][a] = area[f][i][a]
  <2>1. SUFFICES
          ASSUME NEW p, Written(p)
          PROVE  area'[f][i][a] = area[f][i][a]
    BY <1>0, AreaWritten
  <2>2. CASE f = mfam /\ i = mid
    <3>1. a # upd[mfam][mid]
      BY <1>3, <2>1, <2>2 DEF Switched, Asked, Written
    <3> HIDE DEF a, f, i
    <3> QED
      BY <1>0, <1>1, <2>1, <2>2, <3>1 DEF Written
  <2>3. CASE f # mfam \/ i # mid
    <3> HIDE DEF a, f, i
    <3> QED
      BY <1>0, <1>1, <2>1, <2>3 DEF Written
  <2> QED
    BY <2>2, <2>3
<1> QED
  BY <1>2, <1>4 DEF PolledPath

LEMMA AreaInit == Init => AreaInv
<1> SUFFICES ASSUME Init PROVE AreaInv
  OBVIOUS
<1>1. PollInv
  BY DEF Init, PollInv, Polling
<1>2. AskedInv
  BY DEF Init, AskedInv, Owned, Switched, Family
<1> QED
  BY <1>1, <1>2, CoreInit, JobInit DEF AreaInv

(* A worker moves ref_index when it is asked to and when it looks at a      *)
(* classifier for the first time; in either case no one polls the path.     *)
LEMMA AreaEnter ==
    ASSUME AreaInv, NEW v \in Worker, WorkerEnter(v)
    PROVE  PollInv' /\ AskedInv'
<1> DEFINE f == wjob[v].fam
           i == wjob[v].id
           r == Flipped(ref[f][i], upd[f][i])
<1>0. /\ CoreInv /\ JobInv /\ PollInv /\ AskedInv
      /\ wpc \in [Worker -> {"launch", "top", "scan", "enter", "burst",
                             "stopped"}]
      /\ wjob \in [Worker -> Job]
      /\ area \in [Family -> [Id -> [Area -> Path]]]
      /\ upd \in [Family -> [Id -> Area]]
      /\ ref \in [Family -> [Id -> Area]]
  BY DEF AreaInv, CoreInv, TypeInv, TypeOK
<1>1. f \in Family /\ i \in Id
  BY <1>0 DEF Job
<1>2. /\ wpc[v] = "enter" /\ ref' = [ref EXCEPT ![f][i] = r]
      /\ UNCHANGED <<upd, area, comp, mpc, mtodo>>
  BY DEF WorkerEnter
<1>3. r \in Area /\ r # upd[f][i]
  <2>1. ref[f][i] \in Area /\ upd[f][i] \in Area
    BY <1>0, <1>1
  <2> QED
    BY <2>1 DEF Flipped, Area
<1>4. Switched(f, i) => r = ref[f][i]
  BY DEF Switched, Flipped
<1>5. \/ /\ wpc' = [wpc EXCEPT ![v] = "burst"]
         /\ wjob' = [wjob EXCEPT ![v].area = r]
         /\ Runnable(f, area[f][i][r])
      \/ /\ wpc'[v] # "burst"
         /\ \A w \in Worker \ {v} : UNCHANGED <<wpc[w], wjob[w]>>
  BY <1>0 DEF WorkerEnter, Onward
<1> HIDE DEF f, i, r
<1>6. /\ ref'[f][i] = r
      /\ \A g \in Family, j \in Id : g # f \/ j # i => ref'[g][j] = ref[g][j]
  BY <1>0, <1>1, <1>2
<1>7. \A g \in Family, j \in Id :
        /\ Asked(g, j)' <=> Asked(g, j)
        /\ Switched(g, j) => Switched(g, j)'
        /\ g = f /\ j = i => Switched(g, j)'
  BY <1>2, <1>3, <1>4, <1>6 DEF Asked, Switched, mid, mfam
<1>8. AskedInv'
  BY <1>0, <1>7 DEF AskedInv, Owned, Family
<1>9. ASSUME NEW w \in Worker, w # v, Polling(w)'
      PROVE  PollOK(w)'
  <2>1. Polling(w) /\ wjob'[w] = wjob[w]
    BY <1>0, <1>5, <1>9 DEF Polling
  <2>2. wjob[w].fam \in Family /\ wjob[w].id \in Id
    BY <1>0 DEF Job
  <2>3. PolledPath(w)' = PolledPath(w)
    BY <1>2, <2>1 DEF PolledPath
  <2>4. ref'[wjob[w].fam][wjob[w].id] = ref[wjob[w].fam][wjob[w].id]
    <3>1. CASE wjob[w].fam # f \/ wjob[w].id # i
      BY <1>6, <2>2, <3>1
    <3>2. CASE wjob[w].fam = f /\ wjob[w].id = i
      <4>1. Switched(f, i)
        <5>1. SUFFICES ASSUME Asked(f, i) PROVE FALSE
          BY <1>0, <2>1, <3>2 DEF PollInv, PollOK, Owned
        <5>2. Updating /\ wjob[v].id = wjob[w].id
          BY <3>2, <5>1 DEF Asked, i
        <5>3. Working(v) /\ Working(w)
          BY <1>2, <2>1 DEF Working, Polling
        <5> QED
          BY <1>0, <1>9, <5>2, <5>3, SoleWorker
      <4> QED
        BY <1>4, <1>6, <3>2, <4>1
    <3> QED
      BY <3>1, <3>2
  <2> QED
    BY <1>0, <1>7, <2>1, <2>2, <2>3, <2>4 DEF PollInv, PollOK, Owned
<1>10. ASSUME Polling(v)'
       PROVE  PollOK(v)'
  <2>1. wjob'[v] = [wjob[v] EXCEPT !.area = r] /\ Runnable(f, area[f][i][r])
    BY <1>0, <1>5, <1>10 DEF Polling
  <2>2. wjob'[v].fam = f /\ wjob'[v].id = i /\ wjob'[v].area = r
    BY <1>0, <2>1 DEF Job, f, i
  <2> QED
    BY <1>1, <1>2, <1>6, <1>7, <2>1, <2>2 DEF PolledPath, PollOK, Owned
<1>11. PollInv'
  BY <1>9, <1>10 DEF PollInv
<1> QED
  BY <1>8, <1>11

LEMMA AreaNext == AreaInv /\ [Next]_vars => AreaInv'
<1> SUFFICES ASSUME AreaInv, [Next]_vars PROVE AreaInv'
  OBVIOUS
<1>0. /\ CoreInv /\ JobInv /\ PollInv /\ AskedInv
      /\ wpc \in [Worker -> {"launch", "top", "scan", "enter", "burst",
                             "stopped"}]
      /\ wjob \in [Worker -> Job]
      /\ upd \in [Family -> [Id -> Area]]
      /\ Updating => mid \in Id /\ mfam \in Family
  BY TurnType DEF AreaInv, CoreInv, TypeInv, TypeOK
<1>1. CoreInv' /\ JobInv'
  BY <1>0, CoreNext, JobNext
<1>2. ASSUME NEW v \in Worker, WorkerEnter(v)
      PROVE  PollInv' /\ AskedInv'
  BY <1>2, AreaEnter
<1>3. ASSUME ref' = ref,
             \A w \in Worker : Polling(w)' => Polling(w),
             \A g \in Family, j \in Id : Owned(g, j) => Owned(g, j)'
      PROVE  PollInv' /\ AskedInv'
  <2>1. ASSUME NEW w \in Worker, Polling(w)'
        PROVE  PollOK(w)'
    <3>1. Polling(w) /\ wjob'[w] = wjob[w] /\ PolledPath(w)' = PolledPath(w)
      BY <1>3, <2>1, PollStep
    <3>2. wjob[w].fam \in Family /\ wjob[w].id \in Id
      BY <1>0 DEF Job
    <3> QED
      BY <1>0, <1>3, <3>1, <3>2 DEF PollInv, PollOK
  <2>2. AskedInv'
    BY <1>0, <1>3 DEF AskedInv, Family
  <2> QED
    BY <2>1, <2>2 DEF PollInv
<1>4. ASSUME NEW v \in Worker, WorkerStep(v), ~WorkerEnter(v)
      PROVE  PollInv' /\ AskedInv'
  <2>1. /\ UNCHANGED <<ref, upd, comp, mpc, mtodo>>
        /\ \A w \in Worker : Polling(w)' => Polling(w)
    BY <1>0, <1>4 DEF WorkerStep, WorkerStart, WorkerStop, WorkerTop,
      WorkerPick, WorkerFinish, Onward, Polling
  <2>2. \A g \in Family, j \in Id : Owned(g, j) => Owned(g, j)'
    BY <2>1 DEF Owned, Switched, Asked, mid, mfam
  <2> QED
    BY <1>3, <2>1, <2>2
<1>5. ASSUME LifeCycle \/ Signal \/ Command \/ Flush \/ UNCHANGED vars
      PROVE  PollInv' /\ AskedInv'
  <2>1. /\ UNCHANGED <<ref, wpc>>
        /\ \/ UNCHANGED <<upd, comp, mpc, mtodo>>
           \/ upd' = upd /\ mpc # "wait"
           \/ ComponentRequest \/ ComponentSwitched
    <3>1. CASE LifeCycle \/ Signal \/ UNCHANGED vars
      BY <3>1 DEF vars, LifeCycle, MainIdle, WaitIdle, StartForwarding,
        LeaveLoop, Finalize, WaitStop, Signal
    <3>2. CASE Command
      BY <1>0, <3>2, CommandEffect
    <3>3. CASE Flush
      BY <3>3 DEF Flush, FlushPort, FlushPortFail, CoreRequest, CoreCopy,
        ComponentWrite, ComponentFail, ComponentRequest, ComponentSwitched
    <3> QED
      BY <1>5, <3>1, <3>2, <3>3
  <2>2. \A w \in Worker : Polling(w)' => Polling(w)
    BY <2>1 DEF Polling
  <2>3. ASSUME NEW g \in Family, NEW j \in Id, Owned(g, j)
        PROVE  Owned(g, j)'
    <3>1. CASE UNCHANGED <<upd, comp, mpc, mtodo>>
      BY <2>1, <2>3, <3>1 DEF Owned, Switched, Asked, mid, mfam
    <3>2. CASE upd' = upd /\ mpc # "wait"
      BY <2>1, <2>3, <3>2 DEF Owned, Switched, Asked
    <3>3. CASE ComponentRequest
      <4>1. /\ mpc = "request" /\ mpc' = "wait" /\ UNCHANGED <<comp, mtodo>>
            /\ upd' = [upd EXCEPT ![mfam][mid] = ref[mfam][mid]]
        BY <3>3 DEF ComponentRequest
      <4>2. CASE g = mfam /\ j = mid
        BY <4>1, <4>2 DEF Owned, Asked, mid, mfam
      <4>3. CASE g # mfam \/ j # mid
        <5>1. upd'[g][j] = upd[g][j]
          BY <1>0, <4>1, <4>3
        <5> QED
          BY <2>1, <2>3, <4>1, <5>1 DEF Owned, Switched, Asked
      <4> QED
        BY <4>2, <4>3
    <3>4. CASE ComponentSwitched
      <4>1. Switched(mfam, mid) /\ upd' = upd
        BY <3>4 DEF ComponentSwitched
      <4> QED
        BY <2>1, <2>3, <4>1 DEF Owned, Switched, Asked
    <3> QED
      BY <2>1, <3>1, <3>2, <3>3, <3>4
  <2> QED
    BY <1>3, <2>1, <2>2, <2>3
<1>6. PollInv' /\ AskedInv'
  BY <1>2, <1>4, <1>5 DEF Next, Exited
<1> QED
  BY <1>1, <1>6 DEF AreaInv

LEMMA AreaCorrect == Spec => []AreaInv
BY AreaInit, AreaNext, PTL DEF Spec

(* The area a worker polls with is never written: neither a flush, nor the  *)
(* un-initialization of a classifier's old table, nor a failed update       *)
(* touches it, whatever faults happen and whoever else runs.                *)
THEOREM PathsStable == Spec => PathStable
<1>1. AreaInv /\ [Next]_vars
        => [\A w \in Worker :
              Polling(w) /\ Polling(w)' => PolledPath(w)' = PolledPath(w)]_vars
  BY PollStep
<1> QED
  BY <1>1, AreaCorrect, PTL DEF Spec, PathStable

-----------------------------------------------------------------------------
(* The double buffers of forwarders and mergers implement PathSwitch.  The  *)
(* state of the abstract specification, as the instance in SppVf maps it.   *)
CurOf     == [i \in Id |-> PathInUse("fwd", i)]
NextOf    == [i \in Id |-> IF Switched("fwd", i) THEN PathInUse("fwd", i)
                           ELSE area["fwd"][i][1 - ref["fwd"][i]]]
AskedOf   == {i \in Id : ~Switched("fwd", i)}
Reads(w)  == Polling(w) /\ wjob[w].fam = "fwd"
ReadingOf == {<<w, wjob[w].id, PolledPath(w)>> : w \in {v \in Worker : Reads(v)}}

SameBuffers == UNCHANGED <<CurOf, NextOf, AskedOf>>

LEMMA HandoverInit == Init => Handover!Init
<1> SUFFICES ASSUME Init PROVE Handover!Init
  OBVIOUS
<1>1. CurOf \in [Id -> Path]
  BY NoPathType DEF Init, CurOf, PathInUse, Family, Area
<1>2. \A i \in Id : Switched("fwd", i)
  BY DEF Init, Switched, Family
<1>3. NextOf = CurOf /\ AskedOf = {}
  BY <1>2 DEF NextOf, CurOf, AskedOf
<1>4. ReadingOf = {}
  BY DEF Init, ReadingOf, Reads, Polling
<1> QED
  BY <1>1, <1>3, <1>4
  DEF Handover!Init, CurOf, NextOf, AskedOf, ReadingOf, Reads

(* Who polls a forwarder keeps its place in "reading".                      *)
LEMMA ReadingKept ==
    ASSUME AreaInv, [Next]_vars, \A w \in Worker : Reads(w)' <=> Reads(w)
    PROVE  ReadingOf' = ReadingOf
<1>1. ASSUME NEW w \in Worker, Reads(w)
      PROVE  wjob'[w] = wjob[w] /\ PolledPath(w)' = PolledPath(w)
  BY <1>1, PollStep DEF Reads
<1>2. {w \in Worker : Reads(w)'} = {w \in Worker : Reads(w)}
  OBVIOUS
<1> QED
  BY <1>1, <1>2 DEF ReadingOf

LEMMA ReadingWithout ==
    ASSUME AreaInv, [Next]_vars, NEW v \in Worker, ~Reads(v)',
           \A w \in Worker \ {v} : Reads(w)' <=> Reads(w)
    PROVE  ReadingOf' = ReadingOf \ {<<v, wjob[v].id, PolledPath(v)>>}
<1>1. ASSUME NEW w \in Worker \ {v}, Reads(w)
      PROVE  wjob'[w] = wjob[w] /\ PolledPath(w)' = PolledPath(w)
  BY <1>1, PollStep DEF Reads
<1>2. {w \in Worker : Reads(w)'} = {w \in Worker : Reads(w)} \ {v}
  OBVIOUS
<1> QED
  BY <1>1, <1>2 DEF ReadingOf

LEMMA ReadingWith ==
    ASSUME AreaInv, [Next]_vars, NEW v \in Worker, ~Reads(v), Reads(v)',
           \A w \in Worker \ {v} : Reads(w)' <=> Reads(w)
    PROVE  ReadingOf' = ReadingOf \cup {<<v, wjob'[v].id, PolledPath(v)'>>}
<1>1. ASSUME NEW w \in Worker, Reads(w)
      PROVE  wjob'[w] = wjob[w] /\ PolledPath(w)' = PolledPath(w)
  BY <1>1, PollStep DEF Reads
<1>2. {w \in Worker : Reads(w)'} = {w \in Worker : Reads(w)} \cup {v}
  OBVIOUS
<1> QED
  BY <1>1, <1>2 DEF ReadingOf

(* Main writes an area of a forwarder only when no switch is asked for, and *)
(* then the one that is not in use.                                         *)
LEMMA BuffersKept ==
    ASSUME AreaInv, [Next]_vars, UNCHANGED <<ref, upd>>
    PROVE  SameBuffers
<1>0. /\ CoreInv /\ AskedInv
      /\ area \in [Family -> [Id -> [Area -> Path]]]
      /\ upd \in [Family -> [Id -> Area]]
      /\ ref \in [Family -> [Id -> Area]]
      /\ Updating => mid \in Id /\ mfam \in Family
      /\ "fwd" \in Family
  BY TurnType DEF AreaInv, CoreInv, TypeInv, TypeOK, Family
<1>1. \A i \in Id : Switched("fwd", i)' <=> Switched("fwd", i)
  BY DEF Switched
<1>2. AskedOf' = AskedOf
  BY <1>1 DEF AskedOf
<1>3. CASE area' = area
  BY <1>1, <1>2, <1>3 DEF SameBuffers, CurOf, NextOf, PathInUse
<1>4. ASSUME NEW p, Written(p)
      PROVE  SameBuffers
  <2>1. \A i \in Id : i # mid \/ mfam # "fwd" => Switched("fwd", i)
                                               \/ area'["fwd"][i] = area["fwd"][i]
    BY <1>0, <1>4 DEF Written
  <2>2. ASSUME NEW i \in Id
        PROVE  /\ area'["fwd"][i][ref["fwd"][i]] = area["fwd"][i][ref["fwd"][i]]
               /\ ~Switched("fwd", i) => area'["fwd"][i] = area["fwd"][i]
    <3>1. CASE i = mid /\ mfam = "fwd"
      <4>1. ref["fwd"][i] # upd["fwd"][i] /\ Switched("fwd", i)
        BY <1>0, <1>4, <3>1 DEF Written, AskedInv, Owned, Switched, Asked
      <4> QED
        BY <1>0, <1>4, <3>1, <4>1 DEF Written
    <3>2. CASE i # mid \/ mfam # "fwd"
      BY <1>0, <1>4, <3>2 DEF Written
    <3> QED
      BY <3>1, <3>2
  <2>3. \A i \in Id : PathInUse("fwd", i)' = PathInUse("fwd", i)
    BY <2>2 DEF PathInUse
  <2> QED
    BY <1>1, <1>2, <2>2, <2>3 DEF SameBuffers, CurOf, NextOf
<1> QED
  BY <1>0, <1>3, <1>4, AreaWritten

(* Asking for the switch publishes the area that was filled ...             *)
LEMMA RequestPublishes ==
    ASSUME AreaInv, [Next]_vars, ComponentRequest
    PROVE  [Handover!Next]_(Handover!vars)
<1>0. /\ CoreInv /\ AskedInv
      /\ area \in [Family -> [Id -> [Area -> Path]]]
      /\ upd \in [Family -> [Id -> Area]]
      /\ ref \in [Family -> [Id -> Area]]
      /\ mid \in Id /\ mfam \in Family /\ "fwd" \in Family
  BY TurnType DEF AreaInv, CoreInv, TypeInv, TypeOK, Family, ComponentRequest
<1>1. /\ mpc = "request" /\ UNCHANGED <<ref, area, wpc, wjob>>
      /\ upd' = [upd EXCEPT ![mfam][mid] = ref[mfam][mid]]
  BY DEF ComponentRequest
<1>2. ReadingOf' = ReadingOf
  BY <1>1, ReadingKept DEF Reads, Polling
<1>3. CurOf' = CurOf
  BY <1>1 DEF CurOf, PathInUse
<1>4. \A i \in Id : Switched("fwd", i)
  BY <1>0, <1>1 DEF AskedInv, Owned, Asked
<1>5. CASE mfam = "cls"
  <2>1. \A i \in Id : Switched("fwd", i)'
    BY <1>0, <1>1, <1>4, <1>5 DEF Switched
  <2>2. AskedOf' = AskedOf /\ NextOf' = NextOf
    BY <1>1, <1>4, <2>1 DEF AskedOf, NextOf, PathInUse
  <2> QED
    BY <1>2, <1>3, <2>2
    DEF Handover!vars, CurOf, NextOf, AskedOf, ReadingOf, Reads
<1>6. CASE mfam = "fwd"
  <2>1. PICK s \in Id, c \in Path :
          s = mid /\ c = area["fwd"][s][1 - ref["fwd"][s]]
    <3>1. ref["fwd"][mid] \in Area /\ area["fwd"][mid] \in [Area -> Path]
      BY <1>0
    <3>2. 1 - ref["fwd"][mid] \in Area
      BY <3>1 DEF Area
    <3> QED
      BY <1>0, <3>1, <3>2
  <2>2. /\ upd'["fwd"][s] = ref["fwd"][s]
        /\ \A i \in Id \ {s} : upd'["fwd"][i] = upd["fwd"][i]
    BY <1>0, <1>1, <1>6, <2>1
  <2>3. s \notin AskedOf /\ AskedOf' = AskedOf \cup {s}
    BY <1>1, <1>4, <2>2 DEF AskedOf, Switched
  <2>4. NextOf' = [NextOf EXCEPT ![s] = c]
    <3>1. NextOf'[s] = c
      BY <1>1, <2>1, <2>2 DEF NextOf, Switched
    <3>2. ASSUME NEW i \in Id, i # s
          PROVE  NextOf'[i] = NextOf[i]
      BY <1>1, <2>2, <3>2 DEF NextOf, Switched, PathInUse
    <3> QED
      BY <3>1, <3>2 DEF NextOf
  <2>5. Handover!Publish(s)
    BY <1>2, <1>3, <2>3, <2>4
    DEF Handover!Publish, CurOf, NextOf, AskedOf, ReadingOf, Reads
  <2>6. Handover!Next
    BY <2>5 DEF Handover!Next
  <2> QED
    BY <2>6
<1> QED
  BY <1>0, <1>5, <1>6 DEF Family

(* ... a worker that looks at the path takes it and may start to poll ...   *)
LEMMA EnterTakes ==
    ASSUME AreaInv, [Next]_vars, NEW v \in Worker, WorkerEnter(v)
    PROVE  [Handover!Next]_(Handover!vars)
<1>0. /\ CoreInv /\ JobInv /\ PollInv /\ AskedInv
      /\ wpc \in [Worker -> {"launch", "top", "scan", "enter", "burst",
                             "stopped"}]
      /\ wjob \in [Worker -> Job]
      /\ area \in [Family -> [Id -> [Area -> Path]]]
      /\ upd \in [Family -> [Id -> Area]]
      /\ ref \in [Family -> [Id -> Area]]
  BY DEF AreaInv, CoreInv, TypeInv, TypeOK
<1>1. PICK f \in Family, i \in Id, r \in Area :
        f = wjob[v].fam /\ i = wjob[v].id /\ r = Flipped(ref[f][i], upd[f][i])
  <2>1. PICK f \in Family, i \in Id : f = wjob[v].fam /\ i = wjob[v].id
    BY <1>0 DEF Job
  <2>2. Flipped(ref[f][i], upd[f][i]) \in Area
    BY <1>0, FlippedType
  <2> QED
    BY <2>1, <2>2
<1>2. /\ wpc[v] = "enter" /\ ref' = [ref EXCEPT ![f][i] = r]
      /\ UNCHANGED <<upd, area>>
  BY <1>1 DEF WorkerEnter
<1>3. \/ /\ wpc' = [wpc EXCEPT ![v] = "burst"]
         /\ wjob' = [wjob EXCEPT ![v].area = r]
      \/ /\ wpc'[v] # "burst"
         /\ \A w \in Worker \ {v} : UNCHANGED <<wpc[w], wjob[w]>>
  BY <1>0, <1>1 DEF WorkerEnter, Onward
<1>4. ref[f][i] \in Area /\ upd[f][i] \in Area /\ r \in Area /\ r # upd[f][i]
      /\ (Switched(f, i) => r = ref[f][i])
      /\ (~Switched(f, i) => r = 1 - ref[f][i])
  <2>1. ref[f][i] \in Area /\ upd[f][i] \in Area
    BY <1>0, <1>1
  <2> QED
    BY <1>1, <2>1 DEF Flipped, Area, Switched
<1>5. /\ ~Reads(v)
      /\ \A w \in Worker \ {v} : Reads(w)' <=> Reads(w)
  BY <1>0, <1>2, <1>3 DEF Reads, Polling
<1>6. CASE ~Reads(v)' /\ (f = "cls" \/ Switched("fwd", i))
  <2>1. ReadingOf' = ReadingOf
    BY <1>5, <1>6, ReadingKept
  <2>2. \A j \in Id : ref'["fwd"][j] = ref["fwd"][j]
    BY <1>0, <1>1, <1>2, <1>4, <1>6 DEF Family
  <2>3. SameBuffers
    BY <1>2, <2>2 DEF SameBuffers, CurOf, NextOf, AskedOf, Switched, PathInUse
  <2> QED
    BY <2>1, <2>3
    DEF Handover!vars, SameBuffers, CurOf, NextOf, AskedOf, ReadingOf, Reads
<1>7. ASSUME Reads(v)'
      PROVE  /\ f = "fwd"
             /\ ReadingOf' = ReadingOf \cup {<<v, i, area["fwd"][i][r]>>}
  <2>1. wjob'[v] = [wjob[v] EXCEPT !.area = r]
    BY <1>0, <1>3, <1>7 DEF Reads, Polling
  <2>2. wjob'[v].fam = f /\ wjob'[v].id = i /\ wjob'[v].area = r
    BY <1>0, <1>1, <2>1 DEF Job
  <2>3. f = "fwd" /\ PolledPath(v)' = area["fwd"][i][r]
    BY <1>2, <1>7, <2>2 DEF Reads, PolledPath
  <2>4. ReadingOf' = ReadingOf \cup {<<v, wjob'[v].id, PolledPath(v)'>>}
    BY <1>5, <1>7, ReadingWith
  <2> QED
    BY <2>2, <2>3, <2>4
<1>8. \A x \in ReadingOf : x[1] # v
  BY <1>5 DEF ReadingOf
<1>9. CASE Reads(v)' /\ Switched("fwd", i)
  <2>1. f = "fwd" /\ r = ref["fwd"][i] /\ ref' = ref
    BY <1>0, <1>1, <1>2, <1>4, <1>7, <1>9
  <2>2. SameBuffers
    BY <1>2, <2>1 DEF SameBuffers, CurOf, NextOf, AskedOf, Switched, PathInUse
  <2>3. ReadingOf' = ReadingOf \cup {<<v, i, CurOf[i]>>}
    BY <1>1, <1>7, <1>9, <2>1 DEF CurOf, PathInUse
  <2>4. i \notin AskedOf
    BY <1>9 DEF AskedOf
  <2>5. Handover!Poll(v, i)
    BY <1>8, <2>2, <2>3, <2>4 DEF Handover!Poll, Handover!Idle, SameBuffers,
      CurOf, NextOf, AskedOf, ReadingOf, Reads
  <2>6. Handover!Next
    BY <2>5 DEF Handover!Next
  <2> QED
    BY <2>6
<1>10. CASE f = "fwd" /\ ~Switched("fwd", i)
  <2>1. r = 1 - ref["fwd"][i]
    BY <1>4, <1>10
  <2>2. \A j \in Id \ {i} : ref'["fwd"][j] = ref["fwd"][j]
    BY <1>0, <1>2, <1>10
  <2>3. ref'["fwd"][i] = r /\ r # upd'["fwd"][i]
    BY <1>0, <1>2, <1>4, <1>10
  <2>4. i \in AskedOf /\ AskedOf' = AskedOf \ {i}
    BY <1>2, <1>10, <2>2, <2>3 DEF AskedOf, Switched
  <2>5. NextOf[i] = area["fwd"][i][r]
    BY <1>1, <1>10, <2>1 DEF NextOf
  <2>6. CurOf' = [CurOf EXCEPT ![i] = NextOf[i]]
    <3>1. CurOf'[i] = NextOf[i]
      BY <1>2, <2>3, <2>5 DEF CurOf, PathInUse
    <3>2. ASSUME NEW j \in Id, j # i
          PROVE  CurOf'[j] = CurOf[j]
      BY <1>2, <2>2, <3>2 DEF CurOf, PathInUse
    <3> QED
      BY <3>1, <3>2 DEF CurOf
  <2>7. NextOf' = NextOf
    <3>1. ASSUME NEW j \in Id
          PROVE  NextOf'[j] = NextOf[j]
      <4>1. CASE j = i
        <5>1. NextOf'[j] = area["fwd"][i][r]
          BY <1>2, <2>3, <4>1 DEF NextOf, PathInUse, Switched
        <5> QED
          BY <2>5, <4>1, <5>1
      <4>2. CASE j # i
        BY <1>2, <2>2, <4>2 DEF NextOf, PathInUse, Switched
      <4> QED
        BY <4>1, <4>2
    <3> QED
      BY <3>1 DEF NextOf
  <2>8. \A x \in ReadingOf : x[2] # i
    <3>1. ASSUME NEW w \in Worker, Reads(w), wjob[w].id = i
          PROVE  FALSE
      <4>1. Asked("fwd", i)
        BY <1>0, <1>1, <1>10 DEF AskedInv, Owned
      <4>2. Working(v) /\ Working(w) /\ Updating /\ w # v
        BY <1>2, <1>5, <3>1, <4>1 DEF Working, Reads, Polling, Asked
      <4> QED
        BY <1>0, <1>1, <3>1, <4>2, SoleWorker
    <3> QED
      BY <3>1 DEF ReadingOf
  <2>9. ReadingOf' \in {ReadingOf, ReadingOf \cup {<<v, i, NextOf[i]>>}}
    <3>1. CASE Reads(v)'
      BY <1>7, <2>5, <3>1
    <3>2. CASE ~Reads(v)'
      <4>1. ReadingOf' = ReadingOf
        BY <1>5, <3>2, ReadingKept
      <4> QED
        BY <4>1
    <3> QED
      BY <3>1, <3>2
  <2>10. Handover!Take(v, i)
    BY <1>8, <2>4, <2>6, <2>7, <2>8, <2>9 DEF Handover!Take, Handover!Idle,
      CurOf, NextOf, AskedOf, ReadingOf, Reads
  <2>11. Handover!Next
    BY <2>10 DEF Handover!Next
  <2> QED
    BY <2>11
<1> QED
  BY <1>1, <1>6, <1>7, <1>9, <1>10 DEF Family

(* ... and stops when the burst is over.                                    *)
LEMMA FinishFinishes ==
    ASSUME AreaInv, [Next]_vars, NEW v \in Worker, WorkerFinish(v)
    PROVE  [Handover!Next]_(Handover!vars)
<1>0. /\ wpc \in [Worker -> {"launch", "top", "scan", "enter", "burst",
                             "stopped"}]
      /\ wjob \in [Worker -> Job]
  BY DEF AreaInv, CoreInv, TypeInv, TypeOK
<1>1. /\ wpc[v] = "burst" /\ UNCHANGED <<ref, upd>> /\ wpc'[v] # "burst"
      /\ \A w \in Worker \ {v} : UNCHANGED <<wpc[w], wjob[w]>>
  BY <1>0 DEF WorkerFinish, Onward
<1>2. SameBuffers
  BY <1>1, BuffersKept
<1>3. /\ ~Reads(v)'
      /\ \A w \in Worker \ {v} : Reads(w)' <=> Reads(w)
  BY <1>1 DEF Reads, Polling
<1>4. CASE ~Reads(v)
  <2>1. ReadingOf' = ReadingOf
    BY <1>3, <1>4, ReadingKept
  <2> QED
    BY <1>2, <2>1
    DEF Handover!vars, SameBuffers, CurOf, NextOf, AskedOf, ReadingOf, Reads
<1>5. CASE Reads(v)
  <2>0. PICK x : x = <<v, wjob[v].id, PolledPath(v)>>
    OBVIOUS
  <2>1. x \in ReadingOf /\ ReadingOf' = ReadingOf \ {x}
    BY <1>3, <1>5, <2>0, ReadingWithout DEF ReadingOf
  <2>2. Handover!Finish(x)
    BY <1>2, <2>1 DEF Handover!Finish, SameBuffers, CurOf, NextOf, AskedOf,
      ReadingOf, Reads
  <2>3. \E y \in ReadingOf : Handover!Finish(y)
    BY <2>1, <2>2
  <2>4. Handover!Next
    BY <2>3 DEF Handover!Next, ReadingOf, Reads
  <2> QED
    BY <2>4
<1> QED
  BY <1>4, <1>5

LEMMA HandoverNext ==
    ASSUME AreaInv, [Next]_vars
    PROVE  [Handover!Next]_(Handover!vars)
<1>1. CASE ComponentRequest
  BY <1>1, RequestPublishes
<1>2. ASSUME NEW v \in Worker, WorkerStep(v)
      PROVE  [Handover!Next]_(Handover!vars)
  <2>1. CASE WorkerEnter(v)
    BY <2>1, EnterTakes
  <2>2. CASE WorkerFinish(v)
    BY <2>2, FinishFinishes
  <2>3. CASE ~WorkerEnter(v) /\ ~WorkerFinish(v)
    <3>1. /\ UNCHANGED <<ref, upd>>
          /\ \A w \in Worker : Reads(w)' <=> Reads(w)
      <4>1. /\ wpc \in [Worker -> {"launch", "top", "scan", "enter", "burst",
                                   "stopped"}]
            /\ wjob \in [Worker -> Job]
        BY DEF AreaInv, CoreInv, TypeInv, TypeOK
      <4> QED
        BY <1>2, <2>3, <4>1 DEF WorkerStep, WorkerStart, WorkerStop,
          WorkerTop, WorkerPick, Onward, Reads, Polling
    <3>2. SameBuffers /\ ReadingOf' = ReadingOf
      BY <3>1, BuffersKept, ReadingKept
    <3> QED
      BY <3>2
      DEF Handover!vars, SameBuffers, CurOf, NextOf, AskedOf, ReadingOf, Reads
  <2> QED
    BY <2>1, <2>2, <2>3
<1>3. ASSUME UNCHANGED <<ref, upd, wpc, wjob>>
      PROVE  [Handover!Next]_(Handover!vars)
  <2>1. SameBuffers /\ ReadingOf' = ReadingOf
    BY <1>3, BuffersKept, ReadingKept DEF Reads, Polling
  <2> QED
    BY <2>1
    DEF Handover!vars, SameBuffers, CurOf, NextOf, AskedOf, ReadingOf, Reads
<1>4. CASE LifeCycle \/ Signal \/ UNCHANGED vars
  BY <1>3, <1>4 DEF vars, LifeCycle, MainIdle, WaitIdle, StartForwarding,
    LeaveLoop, Finalize, WaitStop, Signal
<1>5. CASE Command
  BY <1>3, <1>5, CommandEffect DEF AreaInv
<1>6. CASE Flush /\ ~ComponentRequest
  BY <1>3, <1>6 DEF Flush, FlushPort, FlushPortFail, CoreRequest, CoreCopy,
    ComponentWrite, ComponentFail, ComponentSwitched
<1> QED
  BY <1>1, <1>2, <1>4, <1>5, <1>6 DEF Next, Exited

(* A path is published only when the previous one was taken, taken only     *)
(* while no one polls the slot, and never changed while it is used: the     *)
(* lock-free indices keep the promise of PathSwitch, also when flushes      *)
(* fail, workers are slow and signals come.                                 *)
THEOREM HandoverCorrect == Spec => HandoverSpec
<1>1. AreaInv /\ [Next]_vars => [Handover!Next]_(Handover!vars)
  BY HandoverNext
<1> QED
  BY <1>1, HandoverInit, AreaCorrect, PTL DEF Spec, HandoverSpec, Handover!Spec

-----------------------------------------------------------------------------
(* The ports of the registered components.  Without the add_vlantag form a  *)
(* port has at most one user in each direction.                             *)
Exclusive == "add_vlantag" \notin Tags

PortInv ==
    /\ \A i \in Id : ~InUse(i) => comp[i].rx = {} /\ comp[i].tx = {}
    /\ Exclusive => \A i, j \in Id : i # j => /\ comp[i].rx \cap comp[j].rx = {}
                                              /\ comp[i].tx \cap comp[j].tx = {}

LEMMA PortInit == Init => PortInv
BY DEF Init, PortInv, Unused

(* Only commands change the registration.                                   *)
LEMMA CompKept ==
    ASSUME CoreInv, [Next]_vars, ~Command
    PROVE  UNCHANGED <<comp, classId>>
<1>1. CASE UNCHANGED vars \/ LifeCycle \/ Signal \/ Exited
           \/ \E v \in Worker : WorkerStep(v)
  BY <1>1 DEF vars, LifeCycle, MainIdle, WaitIdle, StartForwarding,
    LeaveLoop, Finalize, WaitStop, Signal, Exited, WorkerStep,
    WorkerStart, WorkerStop, WorkerTop, WorkerPick, WorkerEnter, WorkerFinish
<1>2. CASE Flush
  BY <1>2 DEF Flush, FlushPort, FlushPortFail, CoreRequest, CoreCopy,
    ComponentWrite, ComponentFail, ComponentRequest, ComponentSwitched
<1> QED
  BY <1>1, <1>2 DEF Next

(* What a component is after a command that changes its ports.              *)
LEMMA PortedPorts ==
    ASSUME TypeOK, NEW i \in Id, NEW d \in Dir, NEW S, Ported(i, d, S)
    PROVE  /\ comp'[i][d] = S
           /\ \A e \in Dir \ {d} : comp'[i][e] = comp[i][e]
           /\ \A j \in Id \ {i} : comp'[j] = comp[j]
<1>1. comp[i] \in Component
  BY DEF TypeOK
<1>2. comp'[i] = [comp[i] EXCEPT ![d] = S]
  BY DEF Ported, Recorded
<1>3. CASE d = "rx"
  BY <1>1, <1>2, <1>3 DEF Component, Dir, Ported, Recorded
<1>4. CASE d = "tx"
  BY <1>1, <1>2, <1>4 DEF Component, Dir, Ported, Recorded
<1> QED
  BY <1>3, <1>4 DEF Dir

LEMMA PortNext ==
    ASSUME CoreInv, PortInv, [Next]_vars
    PROVE  PortInv'
<1>0. TypeOK /\ comp \in [Id -> Component]
  BY DEF CoreInv, TypeInv, TypeOK
<1>1. CASE ~Command
  <2>1. comp' = comp
    BY <1>1, CompKept
  <2> QED
    BY <2>1 DEF PortInv, InUse
<1>2. ASSUME NEW i \in Id, NEW n \in Name, NEW t \in StartType,
             NEW l \in StartLcore, Created(i, n, t, l)
      PROVE  PortInv'
  <2>1. /\ comp'[i].rx = {} /\ comp'[i].tx = {}
        /\ \A j \in Id \ {i} : comp'[j] = comp[j]
    BY <1>2 DEF Created, Recorded
  <2> QED
    BY <2>1 DEF PortInv, InUse
<1>3. ASSUME NEW i \in Id, Removed(i)
      PROVE  PortInv'
  <2>1. /\ comp'[i].rx = {} /\ comp'[i].tx = {}
        /\ \A j \in Id \ {i} : comp'[j] = comp[j]
    BY <1>3 DEF Removed, Recorded, Unused
  <2> QED
    BY <2>1 DEF PortInv, InUse
<1>4. ASSUME NEW i \in Id, NEW d \in Dir, NEW S \in SUBSET Port, Ported(i, d, S)
      PROVE  PortInv'
  <2>1. /\ comp'[i][d] = S
        /\ \A e \in Dir \ {d} : comp'[i][e] = comp[i][e]
        /\ \A j \in Id \ {i} : comp'[j] = comp[j]
    BY <1>0, <1>4, PortedPorts
  <2>2. InUse(i) /\ InUse(i)'
    <3>1. comp'[i].type = comp[i].type
      BY <1>0, <1>4, PortedKeeps
    <3> QED
      BY <1>4, <3>1 DEF Ported, InUse
  <2>3. ASSUME Exclusive, NEW j \in Id \ {i}
        PROVE  S \cap comp[j][d] = {}
    <3>1. comp[i][d] \cap comp[j][d] = {}
      BY <2>3 DEF PortInv, Dir
    <3>2. CASE S \subseteq comp[i][d]
      BY <3>1, <3>2
    <3>3. ASSUME NEW p \in Port, NEW tag \in Tags,
                 S = comp[i][d] \cup {p}, PortFree(p, d, tag)
          PROVE  S \cap comp[j][d] = {}
      <4>1. UserOf(p, d) = {}
        BY <2>3, <3>3 DEF PortFree, Exclusive
      <4>2. p \notin comp[j][d]
        BY <2>3, <4>1 DEF UserOf, PortInv, Dir
      <4> QED
        BY <3>1, <3>3, <4>2
    <3> QED
      BY <1>4, <3>2, <3>3 DEF Ported
  <2>4. ASSUME Exclusive, NEW j \in Id \ {i}, NEW e \in Dir
        PROVE  comp'[i][e] \cap comp'[j][e] = {}
    BY <2>1, <2>3, <2>4 DEF PortInv, Dir
  <2>5. ASSUME Exclusive, NEW j \in Id, NEW k \in Id, j # k, NEW e \in Dir
        PROVE  comp'[j][e] \cap comp'[k][e] = {}
    BY <2>1, <2>4, <2>5 DEF PortInv, Dir
  <2>6. \A j \in Id : ~InUse(j)' => comp'[j].rx = {} /\ comp'[j].tx = {}
    BY <2>1, <2>2 DEF PortInv, InUse
  <2> QED
    BY <2>5, <2>6 DEF PortInv, Dir
<1>5. ASSUME comp' = comp
      PROVE  PortInv'
  BY <1>5 DEF PortInv, InUse
<1> QED
  BY <1>1, <1>2, <1>3, <1>4, <1>5, CommandEffect DEF Classed

-----------------------------------------------------------------------------
(* What the areas hold.  A path fits its component if it has the registered *)
(* ports; of a classifier that failures may have kept from its first update *)
(* only that it does not poll can be said.  Strict is when they may not.    *)
Strict == "pmd" \notin Faults /\ Exclusive
Fam(i) == FamilyOf(comp[i].type)

Exact(i, p) == p.rx = comp[i].rx /\ p.tx = comp[i].tx

Fits(f, i, p) ==
    \/ Exact(i, p) /\ (Strict /\ f = "cls" => p.table = Classes(i))
    \/ ~Strict /\ f = "cls" /\ p.rx = {}

(* The components whose update is complete, and the one that is in hand.    *)
Done(i)      == i \notin chgComp \/ (Updating /\ i \notin mtodo)
InHand(f, i) == mpc \in {"request", "wait"} /\ i = mid /\ f = mfam

DoneFits ==
    \A i \in Id : InUse(i) /\ Done(i) => Fits(Fam(i), i, PathInUse(Fam(i), i))

(* The area that will be in use after the switch fits.                      *)
HandFits ==
    \A f \in Family, i \in Id : InHand(f, i) =>
        /\ mpc = "request" => Fits(f, i, area[f][i][upd[f][i]])
        /\ mpc = "wait" \/ ~Switched(f, i)
              => Fits(f, i, area[f][i][1 - upd[f][i]])

(* What is filled in next finds an empty table; the areas of a classifier   *)
(* that no worker has looked at are both empty.                             *)
Blank(p) == p.rx = {} /\ p.tx = {} /\ p.table = {}

FreshBlank ==
    \A i \in Id : ~InHand("cls", i) =>
        /\ area["cls"][i][upd["cls"][i]].table = {}
        /\ ~Switched("cls", i) => \A k \in Area : Blank(area["cls"][i][k])

(* Without failures a command finds no flag set, so a classifier has been   *)
(* looked at before it gets its first port.                                 *)
StrictInv ==
    /\ mpc = "command" => chgComp = {}
    /\ \A i \in Id : InUse(i) /\ Done(i) => Switched(Fam(i), i)
    /\ \A i \in Id : InUse(i) /\ ~Owned(Fam(i), i)
                        => comp[i].rx = {} /\ comp[i].tx = {}

FitInv ==
    /\ DoneFits
    /\ HandFits
    /\ FreshBlank
    /\ Strict => StrictInv
    /\ mpc \in Starting => chgComp = {}

FitAll == AreaInv /\ PortInv /\ FitInv

LEMMA FitInit == Init => FitInv
<1> SUFFICES ASSUME Init PROVE FitInv
  OBVIOUS
<1>1. \A i \in Id : ~InUse(i)
  BY DEF Init, InUse, Unused
<1>2. \A i \in Id, k \in Area : Blank(area["cls"][i][k])
  BY DEF Init, Family, NoPath, Blank
<1>3. \A i \in Id : upd["cls"][i] \in Area
  BY DEF Init, Family, Area
<1>4. FreshBlank
  BY <1>2, <1>3 DEF FreshBlank, Blank
<1> QED
  BY <1>1, <1>4
  DEF Init, FitInv, DoneFits, HandFits, InHand, StrictInv

(* Steps that leave the areas, the indices and the registration alone: the  *)
(* component in hand is the same, or there was none and the flagged ones    *)
(* are taken up.                                                            *)
LEMMA FitFrame ==
    ASSUME FitInv, UNCHANGED <<ref, upd, area, comp, classId, chgComp>>,
           \/ UNCHANGED <<mpc, mtodo>>
           \/ /\ ~Updating
              /\ mpc' \notin {"request", "wait"}
              /\ Updating' => mtodo' = chgComp
              /\ mpc' \in Starting => mpc \in Starting
              /\ mpc' = "command" => \/ mpc = "command" \/ chgComp = {}
                                     \/ ~Strict
    PROVE  FitInv'
<1>1. \A i \in Id : /\ InUse(i)' <=> InUse(i)
                    /\ Done(i)' <=> Done(i)
                    /\ Fam(i)' = Fam(i)
  BY DEF InUse, Done, Fam
<1>2. \A f \in Family, i \in Id :
        /\ InHand(f, i)' <=> InHand(f, i)
        /\ InHand(f, i) => mpc' = mpc
        /\ Switched(f, i)' <=> Switched(f, i)
        /\ Owned(f, i)' <=> Owned(f, i)
  BY DEF InHand, Switched, Owned, Asked, mid, mfam
<1>3. \A f, i, p : Fits(f, i, p)' <=> Fits(f, i, p)
  BY DEF Fits, Exact, Classes
<1>4. \A f, i : PathInUse(f, i)' = PathInUse(f, i)
  BY DEF PathInUse
<1>5. \A i \in Id : Fam(i) \in Family /\ "cls" \in Family
  BY DEF Fam, FamilyOf, Family
<1>6. DoneFits'
  BY <1>1, <1>3, <1>4 DEF FitInv, DoneFits
<1>7. HandFits'
  BY <1>2, <1>3 DEF FitInv, HandFits
<1>8. FreshBlank'
  BY <1>2, <1>5 DEF FitInv, FreshBlank
<1>9. Strict => StrictInv'
  BY <1>1, <1>2, <1>5 DEF FitInv, StrictInv
<1>10. mpc' \in Starting => chgComp' = {}
  BY DEF FitInv
<1> QED
  BY <1>6, <1>7, <1>8, <1>9, <1>10 DEF FitInv

(* A command flags what it changes: what stays unflagged keeps its ports    *)
(* and, as a port has one sender, its classes.                              *)
LEMMA UnflaggedKept ==
    ASSUME CoreInv, PortInv, Command, NEW i \in Id,
           i \notin chgComp', InUse(i)'
    PROVE  /\ i \notin chgComp /\ InUse(i) /\ comp'[i] = comp[i]
           /\ Strict => Classes(i)' = Classes(i)
<1>0. TypeOK /\ comp \in [Id -> Component] /\ classId \in [Port -> Class \cup {NoClass}]
  BY DEF CoreInv, TypeInv, TypeOK
<1>1. ASSUME UNCHANGED <<coreIds, comp, classId, flagVars>>
      PROVE  /\ i \notin chgComp /\ InUse(i) /\ comp'[i] = comp[i]
             /\ Classes(i)' = Classes(i)
  BY <1>1 DEF InUse, Classes
<1>2. ASSUME NEW k \in Id, \/ \E n \in Name, t \in StartType, l \in StartLcore :
                                 Created(k, n, t, l)
                           \/ Removed(k)
                           \/ \E d \in Dir, S \in SUBSET Port : Ported(k, d, S)
      PROVE  /\ i \notin chgComp /\ InUse(i) /\ comp'[i] = comp[i]
             /\ Classes(i)' = Classes(i)
  <2>1. /\ \A j \in Id \ {k} : comp'[j] = comp[j]
        /\ classId' = classId
    BY <1>2 DEF Created, Removed, Ported, Recorded
  <2>2. i # k /\ i \notin chgComp
    <3>1. CASE Removed(k)
      BY <3>1 DEF Removed, Recorded, Unused, InUse
    <3>2. CASE ~Removed(k)
      BY <1>2, <3>2 DEF Created, Ported
    <3> QED
      BY <3>1, <3>2
  <2> QED
    BY <2>1, <2>2 DEF InUse, Classes
<1>3. ASSUME NEW p \in Port, Classed(p)
      PROVE  /\ i \notin chgComp /\ InUse(i) /\ comp'[i] = comp[i]
             /\ Strict => Classes(i)' = Classes(i)
  <2>1. /\ comp' = comp /\ i \notin chgComp /\ i \notin FirstSender(p)
        /\ \A q \in Port : q # p => classId'[q] = classId[q]
    BY <1>0, <1>3 DEF Classed
  <2>2. InUse(i)
    BY <2>1 DEF InUse
  <2>3. ASSUME Strict
        PROVE  p \notin comp[i].tx
    <3>1. SUFFICES ASSUME p \in comp[i].tx PROVE FALSE
      OBVIOUS
    <3>2. UserOf(p, "tx") \in SUBSET Id /\ i \in UserOf(p, "tx")
      BY <2>2, <3>1 DEF UserOf
    <3>3. Lowest(UserOf(p, "tx")) \in UserOf(p, "tx")
      BY <3>2, LowestIn
    <3>4. \A j \in UserOf(p, "tx") : j = i
      BY <2>3, <3>1 DEF UserOf, Strict, PortInv
    <3> QED
      BY <2>1, <3>2, <3>3, <3>4 DEF FirstSender
  <2>4. ASSUME Strict
        PROVE  Classes(i)' = Classes(i)
    <3>1. comp[i].tx \subseteq Port
      BY <1>0 DEF Component
    <3>2. \A q \in comp[i].tx : classId'[q] = classId[q]
      BY <2>1, <2>3, <2>4, <3>1
    <3> QED
      BY <2>1, <3>2 DEF Classes
  <2> QED
    BY <2>1, <2>2, <2>4
<1> QED
  BY <1>1, <1>2, <1>3, CommandEffect

LEMMA FitCommand ==
    ASSUME FitAll, Command
    PROVE  FitInv'
<1>0. TypeOK /\ CoreInv /\ PortInv /\ FitInv /\ comp \in [Id -> Component]
  BY DEF FitAll, AreaInv, CoreInv, TypeInv, TypeOK
<1>1. /\ mpc = "command" /\ mpc' \in {"command", "flush_port", "finalize"}
      /\ UNCHANGED <<ref, upd, area>>
  BY <1>0, CommandEffect
<1>2. mpc' = "command" => chgComp' = chgComp
  BY DEF Command, Exit, Refuse, StopComponent, StopUnknown, StartComponent,
    PortAdd, PortRetag, PortDel, ClassifierAdd, ClassifierDel, TakeCommand,
    Accepted
<1>3. /\ \A i \in Id : Done(i)' => i \notin chgComp'
      /\ \A f, i : ~InHand(f, i)' /\ ~InHand(f, i) /\ ~Asked(f, i)
      /\ \A f, i : Switched(f, i)' <=> Switched(f, i)
  BY <1>1 DEF Done, InHand, Asked, Switched
<1>4. DoneFits'
  <2>1. SUFFICES ASSUME NEW i \in Id, InUse(i)', Done(i)'
                 PROVE  Fits(Fam(i), i, PathInUse(Fam(i), i))'
    BY DEF DoneFits
  <2>2. /\ i \notin chgComp /\ InUse(i) /\ comp'[i] = comp[i]
        /\ Strict => Classes(i)' = Classes(i)
    BY <1>0, <1>3, <2>1, UnflaggedKept
  <2>3. Fits(Fam(i), i, PathInUse(Fam(i), i))
    BY <1>0, <2>2 DEF FitInv, DoneFits, Done
  <2> QED
    BY <1>1, <2>2, <2>3 DEF Fits, Exact, Fam, PathInUse
<1>5. HandFits'
  BY <1>3 DEF HandFits
<1>6. FreshBlank'
  BY <1>0, <1>1, <1>3 DEF FitInv, FreshBlank
<1>7. ASSUME Strict
      PROVE  StrictInv'
  <2>1. StrictInv /\ chgComp = {}
    BY <1>0, <1>1, <1>7 DEF FitInv, StrictInv
  <2>2. \A i \in Id : InUse(i) => Switched(Fam(i), i)
    BY <2>1 DEF StrictInv, Done
  <2>3. ASSUME NEW i \in Id, InUse(i)'
        PROVE  \/ Switched(Fam(i)', i)
               \/ i \in chgComp' /\ comp'[i].rx = {} /\ comp'[i].tx = {}
    <3>1. CASE InUse(i) /\ Fam(i)' = Fam(i)
      BY <2>2, <3>1
    <3>2. ASSUME NEW k \in Id, NEW n \in Name, NEW t \in StartType,
                 NEW l \in StartLcore, Created(k, n, t, l)
          PROVE  \/ InUse(i) /\ Fam(i)' = Fam(i)
                 \/ i \in chgComp' /\ comp'[i].rx = {} /\ comp'[i].tx = {}
      BY <2>3, <3>2 DEF Created, Recorded, InUse, Fam
    <3>3. ASSUME NEW k \in Id, Removed(k)
          PROVE  InUse(i) /\ Fam(i)' = Fam(i)
      BY <2>3, <3>3 DEF Removed, Recorded, InUse, Fam, Unused
    <3>4. ASSUME NEW k \in Id, NEW d \in Dir, NEW S \in SUBSET Port,
                 Ported(k, d, S)
          PROVE  InUse(i) /\ Fam(i)' = Fam(i)
      <4>1. comp'[i].type = comp[i].type
        BY <1>0, <3>4, PortedKeeps
      <4> QED
        BY <2>3, <4>1 DEF InUse, Fam
    <3>5. ASSUME comp' = comp
          PROVE  InUse(i) /\ Fam(i)' = Fam(i)
      BY <2>3, <3>5 DEF InUse, Fam
    <3> QED
      BY <1>0, <3>1, <3>2, <3>3, <3>4, <3>5, CommandEffect DEF Classed
  <2>4. \A i \in Id : InUse(i)' /\ Done(i)' => Switched(Fam(i), i)'
    BY <1>1, <1>3, <2>3 DEF Switched
  <2>5. \A i \in Id : InUse(i)' /\ ~Owned(Fam(i), i)'
                        => comp'[i].rx = {} /\ comp'[i].tx = {}
    BY <1>1, <2>3 DEF Owned, Switched
  <2> QED
    BY <1>2, <2>1, <2>4, <2>5 DEF StrictInv
<1>8. mpc' \notin Starting
  BY <1>1
<1> QED
  BY <1>4, <1>5, <1>6, <1>7, <1>8 DEF FitInv

(* A worker that flips the index of the component in hand, or of a          *)
(* classifier it sees for the first time, disturbs no finished update.      *)
LEMMA FitEnter ==
    ASSUME FitAll, NEW v \in Worker, WorkerEnter(v)
    PROVE  FitInv'
<1>0. /\ CoreInv /\ AskedInv /\ FitInv
      /\ wjob \in [Worker -> Job]
      /\ upd \in [Family -> [Id -> Area]]
      /\ ref \in [Family -> [Id -> Area]]
      /\ Updating => mid \in mtodo
      /\ mtodo \subseteq chgComp
  BY TurnType DEF FitAll, AreaInv, CoreInv, TypeInv, TypeOK, FlagInv
<1>1. PICK f \in Family, i \in Id, r \in Area :
        f = wjob[v].fam /\ i = wjob[v].id /\ r = Flipped(ref[f][i], upd[f][i])
  <2>1. PICK f \in Family, i \in Id : f = wjob[v].fam /\ i = wjob[v].id
    BY <1>0 DEF Job
  <2>2. Flipped(ref[f][i], upd[f][i]) \in Area
    BY <1>0, FlippedType
  <2> QED
    BY <2>1, <2>2
<1>2. /\ ref' = [ref EXCEPT ![f][i] = r]
      /\ UNCHANGED <<upd, area, comp, classId, chgComp, mpc, mtodo>>
  BY <1>1 DEF WorkerEnter
<1>3. CASE Switched(f, i)
  <2>1. ref' = ref
    BY <1>0, <1>1, <1>2, <1>3 DEF Switched, Flipped
  <2> QED
    BY <1>0, <1>2, <2>1, FitFrame
<1>4. CASE ~Switched(f, i)
  <2>1. ref'[f][i] = r /\ r # upd[f][i]
    BY <1>0, <1>1, <1>2, <1>4 DEF Switched, Flipped, Area
  <2>2. \A g \in Family, j \in Id : g # f \/ j # i => ref'[g][j] = ref[g][j]
    BY <1>0, <1>2
  <2>3. /\ \A g \in Family, j \in Id :
             /\ InHand(g, j)' <=> InHand(g, j)
             /\ Asked(g, j)' <=> Asked(g, j)
             /\ Switched(g, j) => Switched(g, j)'
        /\ \A j \in Id : /\ InUse(j)' <=> InUse(j)
                         /\ Done(j)' <=> Done(j)
                         /\ Fam(j)' = Fam(j)
        /\ \A g, j, p : Fits(g, j, p)' <=> Fits(g, j, p)
    BY <1>2, <2>1, <2>2 DEF InHand, Asked, Switched, InUse, Done, Fam, mid,
      mfam, Fits, Exact, Classes
  <2>4. \A j \in Id : Fam(j) \in Family /\ "cls" \in Family
    BY DEF Fam, FamilyOf, Family
  <2>5. ASSUME NEW j \in Id, InUse(j), Done(j)
        PROVE  Fits(Fam(j), j, PathInUse(Fam(j), j))'
    <3>1. CASE Fam(j) # f \/ j # i
      <4>1. PathInUse(Fam(j), j)' = PathInUse(Fam(j), j)
        BY <1>2, <2>2, <2>3, <2>4, <3>1 DEF PathInUse
      <4> QED
        BY <1>0, <2>3, <2>5, <4>1 DEF FitInv, DoneFits
    <3>2. CASE Fam(j) = f /\ j = i
      <4>1. ~InHand(f, i) /\ ~Asked(f, i)
        BY <1>0, <2>5, <3>2 DEF InHand, Asked, Done
      <4>2. f = "cls"
        BY <1>0, <1>4, <4>1 DEF AskedInv, Owned, Family
      <4>3. ~Strict
        BY <1>0, <1>4, <2>5, <3>2 DEF FitInv, StrictInv
      <4>4. area[f][i][r].rx = {}
        BY <1>0, <1>4, <4>1, <4>2 DEF FitInv, FreshBlank, Blank
      <4>5. PathInUse(Fam(j), j)' = area[f][i][r]
        BY <1>2, <2>1, <2>3, <3>2 DEF PathInUse
      <4> QED
        BY <2>3, <3>2, <4>2, <4>3, <4>4, <4>5 DEF Fits
    <3> QED
      BY <3>1, <3>2
  <2>6. DoneFits'
    BY <2>3, <2>5 DEF DoneFits
  <2>7. HandFits'
    BY <1>0, <1>2, <2>3 DEF FitInv, HandFits
  <2>8. FreshBlank'
    BY <1>0, <1>2, <2>3, <2>4 DEF FitInv, FreshBlank
  <2>9. Strict => StrictInv'
    BY <1>0, <1>2, <2>3, <2>4 DEF FitInv, StrictInv, Owned
  <2> QED
    BY <1>0, <1>2, <2>6, <2>7, <2>8, <2>9 DEF FitInv
<1> QED
  BY <1>3, <1>4

(* What is filled in fits, whatever the area held before.                   *)
LEMMA FitWrite ==
    ASSUME FitAll, ComponentWrite
    PROVE  FitInv'
<1>0. /\ CoreInv /\ AskedInv /\ FitInv
      /\ area \in [Family -> [Id -> [Area -> Path]]]
      /\ upd \in [Family -> [Id -> Area]]
      /\ mpc = "write" /\ mid \in mtodo /\ mid \in Id /\ mfam \in Family
      /\ mtodo \subseteq chgComp /\ \A j \in chgComp : InUse(j)
  BY TurnType
  DEF FitAll, AreaInv, CoreInv, TypeInv, TypeOK, FlagInv, ComponentWrite
<1>1. PICK c \in Id, f \in Family, u \in Area :
        c = mid /\ f = mfam /\ u = upd[f][c]
  BY <1>0
<1>2. /\ area' = [area EXCEPT ![f][c][u] = Filled(c, area[f][c][u])]
      /\ UNCHANGED <<ref, upd, comp, classId, chgComp, mtodo>>
      /\ mpc' = "request"
  BY <1>1 DEF ComponentWrite, UpdArea
<1>3. /\ c \in mtodo /\ c \in chgComp /\ InUse(c) /\ f = Fam(c)
      /\ mid' = c /\ mfam' = f
  BY <1>0, <1>1, <1>2 DEF mid, mfam, Fam
<1>4. /\ area'[f][c][u] = Filled(c, area[f][c][u])
      /\ \A k \in Area \ {u} : area'[f][c][k] = area[f][c][k]
      /\ \A g \in Family, j \in Id : g # f \/ j # c => area'[g][j] = area[g][j]
  BY <1>0, <1>2
<1>5. /\ \A g, j : (InHand(g, j)' <=> g = f /\ j = c) /\ ~InHand(g, j)
                   /\ ~Asked(g, j) /\ ~Asked(g, j)'
      /\ \A g, j : Switched(g, j)' <=> Switched(g, j)
      /\ \A j \in Id : /\ InUse(j)' <=> InUse(j)
                       /\ Done(j)' <=> Done(j)
                       /\ Fam(j)' = Fam(j)
      /\ \A g, j, p : Fits(g, j, p)' <=> Fits(g, j, p)
      /\ \A j \in Id : Fam(j) \in Family /\ "cls" \in Family
  BY <1>0, <1>2, <1>3 DEF InHand, Asked, Switched, InUse, Done, Fam, Fits,
    Exact, Classes, FamilyOf, Family
<1>6. Fits(f, c, Filled(c, area[f][c][u]))
  <2>1. CASE f = "cls"
    <3>1. area[f][c][u].table = {}
      BY <1>0, <1>1, <1>5, <2>1 DEF FitInv, FreshBlank
    <3>2. comp[c].type = "classifier_mac"
      BY <1>3, <2>1 DEF Fam, FamilyOf
    <3> QED
      BY <3>1, <3>2 DEF Fits, Exact, Filled
  <2>2. CASE f # "cls"
    BY <2>2 DEF Fits, Exact, Filled
  <2> QED
    BY <2>1, <2>2
<1>7. ASSUME ~Switched(f, c), NEW k \in Area
      PROVE  Fits(f, c, area[f][c][k])
  <2>1. f = "cls" /\ Blank(area[f][c][k])
    BY <1>0, <1>5, <1>7 DEF AskedInv, Owned, Family, FitInv, FreshBlank
  <2>2. ASSUME Strict
        PROVE  comp[c].rx = {} /\ comp[c].tx = {} /\ Classes(c) = {}
    <3>1. ~Owned(Fam(c), c)
      BY <1>3, <1>5, <1>7 DEF Owned
    <3>2. comp[c].rx = {} /\ comp[c].tx = {}
      BY <1>0, <1>3, <2>2, <3>1 DEF FitInv, StrictInv
    <3> QED
      BY <3>2 DEF Classes
  <2> QED
    BY <2>1, <2>2 DEF Fits, Exact, Blank
<1>8. DoneFits'
  <2>1. SUFFICES ASSUME NEW j \in Id, InUse(j), Done(j)
                 PROVE  Fits(Fam(j), j, PathInUse(Fam(j), j))'
    BY <1>5 DEF DoneFits
  <2>2. j # c
    BY <1>0, <1>3, <2>1 DEF Done
  <2>3. PathInUse(Fam(j), j)' = PathInUse(Fam(j), j)
    BY <1>2, <1>4, <1>5, <2>2 DEF PathInUse
  <2> QED
    BY <1>0, <1>5, <2>1, <2>3 DEF FitInv, DoneFits
<1>9. HandFits'
  <2>1. 1 - u \in Area /\ 1 - u # u
    BY DEF Area
  <2>2. Fits(f, c, area'[f][c][u])
    BY <1>4, <1>6
  <2>3. ~Switched(f, c) => Fits(f, c, area'[f][c][1 - u])
    BY <1>4, <1>7, <2>1
  <2> QED
    BY <1>1, <1>2, <1>5, <2>2, <2>3 DEF HandFits
<1>10. FreshBlank'
  BY <1>0, <1>2, <1>4, <1>5 DEF FitInv, FreshBlank
<1>11. Strict => StrictInv'
  BY <1>0, <1>2, <1>5 DEF FitInv, StrictInv, Owned
<1> QED
  BY <1>2, <1>8, <1>9, <1>10, <1>11 DEF FitInv

(* Asking for the switch makes the filled area the next one; one that no    *)
(* worker has looked at yet will be followed by the other, blank one.       *)
LEMMA FitRequest ==
    ASSUME FitAll, ComponentRequest
    PROVE  FitInv'
<1>0. /\ CoreInv /\ FitInv
      /\ upd \in [Family -> [Id -> Area]]
      /\ ref \in [Family -> [Id -> Area]]
      /\ mpc = "request" /\ mid \in mtodo /\ mid \in Id /\ mfam \in Family
      /\ mtodo \subseteq chgComp
  BY TurnType
  DEF FitAll, AreaInv, CoreInv, TypeInv, TypeOK, FlagInv, ComponentRequest
<1>1. PICK c \in Id, f \in Family : c = mid /\ f = mfam
  BY <1>0
<1>2. /\ upd' = [upd EXCEPT ![f][c] = ref[f][c]]
      /\ UNCHANGED <<ref, area, comp, classId, chgComp, mtodo>>
      /\ mpc' = "wait"
  BY <1>1 DEF ComponentRequest
<1>3. /\ c \in mtodo /\ c \in chgComp /\ mid' = c /\ mfam' = f
      /\ upd'[f][c] = ref[f][c]
      /\ \A g \in Family, j \in Id : g # f \/ j # c => upd'[g][j] = upd[g][j]
  BY <1>0, <1>1, <1>2 DEF mid, mfam
<1>4. /\ \A g, j : /\ InHand(g, j)' <=> g = f /\ j = c
                   /\ InHand(g, j) <=> g = f /\ j = c
                   /\ Asked(g, j)' <=> g = f /\ j = c
                   /\ ~Asked(g, j)
      /\ \A g \in Family, j \in Id :
            g # f \/ j # c => (Switched(g, j)' <=> Switched(g, j))
      /\ \A j \in Id : /\ InUse(j)' <=> InUse(j)
                       /\ Done(j)' <=> Done(j)
                       /\ Fam(j)' = Fam(j)
      /\ \A g, j, p : Fits(g, j, p)' <=> Fits(g, j, p)
      /\ \A j \in Id : Fam(j) \in Family /\ "cls" \in Family
      /\ \A g, j : PathInUse(g, j)' = PathInUse(g, j)
  BY <1>0, <1>1, <1>2, <1>3 DEF InHand, Asked, Switched, InUse, Done, Fam,
    Fits, Exact, Classes, FamilyOf, Family, PathInUse
<1>5. DoneFits'
  BY <1>0, <1>4 DEF FitInv, DoneFits
<1>6. Fits(f, c, area[f][c][1 - ref[f][c]])
  <2>1. ref[f][c] \in Area /\ upd[f][c] \in Area
    BY <1>0
  <2>2. CASE Switched(f, c)
    <3>1. 1 - ref[f][c] = upd[f][c]
      BY <2>1, <2>2 DEF Switched, Area
    <3> QED
      BY <1>0, <1>4, <3>1 DEF FitInv, HandFits
  <2>3. CASE ~Switched(f, c)
    <3>1. ref[f][c] = upd[f][c]
      BY <2>3 DEF Switched
    <3> QED
      BY <1>0, <1>4, <2>3, <3>1 DEF FitInv, HandFits
  <2> QED
    BY <2>2, <2>3
<1>7. HandFits'
  BY <1>2, <1>3, <1>4, <1>6 DEF HandFits
<1>8. FreshBlank'
  BY <1>0, <1>2, <1>3, <1>4 DEF FitInv, FreshBlank
<1>9. ASSUME Strict
      PROVE  StrictInv'
  <2>1. StrictInv
    BY <1>0, <1>9 DEF FitInv
  <2>2. ASSUME NEW j \in Id, InUse(j)', Done(j)'
        PROVE  Switched(Fam(j), j)'
    <3>1. j # c
      BY <1>0, <1>3, <1>4, <2>2 DEF Done
    <3>2. Switched(Fam(j), j)
      BY <1>4, <2>1, <2>2 DEF StrictInv
    <3> QED
      BY <1>2, <1>3, <1>4, <3>1, <3>2 DEF Switched
  <2>3. ASSUME NEW j \in Id, InUse(j)', ~Owned(Fam(j), j)'
        PROVE  comp'[j].rx = {} /\ comp'[j].tx = {}
    <3>1. ~(Fam(j) = f /\ j = c)
      BY <1>1, <1>2, <1>3, <1>4, <2>3 DEF Owned, Asked
    <3>2. ~Owned(Fam(j), j)
      BY <1>2, <1>3, <1>4, <2>3, <3>1 DEF Owned, Switched
    <3> QED
      BY <1>2, <1>4, <2>1, <2>3, <3>2 DEF StrictInv
  <2> QED
    BY <1>2, <2>2, <2>3 DEF StrictInv
<1> QED
  BY <1>2, <1>5, <1>7, <1>8, <1>9 DEF FitInv

(* After the switch the area in use is the one that fits, and that of a     *)
(* classifier that was left is blank.                                       *)
LEMMA FitSwitched ==
    ASSUME FitAll, ComponentSwitched
    PROVE  FitInv'
<1>0. /\ CoreInv /\ FitInv
      /\ area \in [Family -> [Id -> [Area -> Path]]]
      /\ upd \in [Family -> [Id -> Area]]
      /\ ref \in [Family -> [Id -> Area]]
      /\ mpc = "wait" /\ mid \in mtodo /\ mid \in Id /\ mfam \in Family
      /\ mtodo \subseteq chgComp
  BY TurnType
  DEF FitAll, AreaInv, CoreInv, TypeInv, TypeOK, FlagInv, ComponentSwitched
<1>1. PICK c \in Id, f \in Family, u \in Area :
        c = mid /\ f = mfam /\ u = upd[f][c]
  BY <1>0
<1>2. /\ area' = IF f = "cls" THEN [area EXCEPT ![f][c][u] = NoPath] ELSE area
      /\ UNCHANGED <<ref, upd, comp, classId>>
      /\ Switched(f, c)
      /\ \/ mtodo = {c} /\ mpc' = "command" /\ mtodo' = {} /\ chgComp' = {}
         \/ mpc' = "write" /\ mtodo' = mtodo \ {c} /\ chgComp' = chgComp
  BY <1>1 DEF ComponentSwitched, BackToLoop
<1>3. /\ ref[f][c] \in Area /\ ref[f][c] # u /\ ref[f][c] = 1 - u
      /\ f = Fam(c) /\ c \in mtodo /\ c \in chgComp
  <2>1. ref[f][c] \in Area /\ ref[f][c] # u
    BY <1>0, <1>1, <1>2 DEF Switched
  <2> QED
    BY <1>0, <1>1, <2>1 DEF Area, Fam, mfam
<1>4. /\ \A k \in Area \ {u} : area'[f][c][k] = area[f][c][k]
      /\ f = "cls" => area'[f][c][u] = NoPath
      /\ \A g \in Family, j \in Id : g # f \/ j # c => area'[g][j] = area[g][j]
  BY <1>0, <1>2
<1>5. /\ \A g, j : /\ ~InHand(g, j)' /\ ~Asked(g, j)'
                   /\ InHand(g, j) <=> g = f /\ j = c
                   /\ Asked(g, j) <=> g = f /\ j = c
      /\ \A g, j : Switched(g, j)' <=> Switched(g, j)
      /\ \A j \in Id : /\ InUse(j)' <=> InUse(j)
                       /\ Done(j)' => Done(j) \/ j = c
                       /\ Fam(j)' = Fam(j)
      /\ \A g, j, p : Fits(g, j, p)' <=> Fits(g, j, p)
      /\ \A j \in Id : Fam(j) \in Family /\ "cls" \in Family
  BY <1>0, <1>1, <1>2, <1>3 DEF InHand, Asked, Switched, InUse, Done, Fam,
    Fits, Exact, Classes, FamilyOf, Family
<1>6. DoneFits'
  <2>1. SUFFICES ASSUME NEW j \in Id, InUse(j), Done(j)'
                 PROVE  Fits(Fam(j), j, PathInUse(Fam(j), j))'
    BY <1>5 DEF DoneFits
  <2>2. CASE j = c
    <3>1. Fits(f, c, area[f][c][1 - u])
      BY <1>0, <1>1, <1>5 DEF FitInv, HandFits
    <3>2. PathInUse(Fam(j), j)' = area[f][c][1 - u]
      BY <1>2, <1>3, <1>4, <1>5, <2>2 DEF PathInUse
    <3> QED
      BY <1>3, <1>5, <2>2, <3>1, <3>2
  <2>3. CASE j # c
    <3>1. Done(j)
      BY <1>5, <2>1, <2>3
    <3>2. PathInUse(Fam(j), j)' = PathInUse(Fam(j), j)
      BY <1>2, <1>4, <1>5, <2>3 DEF PathInUse
    <3> QED
      BY <1>0, <1>5, <2>1, <3>1, <3>2 DEF FitInv, DoneFits
  <2> QED
    BY <2>2, <2>3
<1>7. HandFits'
  BY <1>5 DEF HandFits
<1>8. FreshBlank'
  <2>1. SUFFICES ASSUME NEW j \in Id
                 PROVE  /\ area'["cls"][j][upd["cls"][j]].table = {}
                        /\ ~Switched("cls", j) =>
                              \A k \in Area : Blank(area'["cls"][j][k])
    BY <1>2, <1>5 DEF FreshBlank, Switched, Blank
  <2>2. CASE f = "cls" /\ j = c
    BY <1>1, <1>2, <1>4, <2>2 DEF NoPath
  <2>3. CASE f # "cls" \/ j # c
    <3>1. area'["cls"][j] = area["cls"][j] /\ ~InHand("cls", j)
      BY <1>4, <1>5, <2>3
    <3> QED
      BY <1>0, <3>1 DEF FitInv, FreshBlank
  <2> QED
    BY <2>2, <2>3
<1>9. ASSUME Strict
      PROVE  StrictInv'
  <2>1. StrictInv
    BY <1>0, <1>9 DEF FitInv
  <2>2. \A j \in Id : InUse(j)' /\ Done(j)' => Switched(Fam(j), j)'
    <3>1. ASSUME NEW j \in Id, InUse(j), Done(j)'
          PROVE  Switched(Fam(j), j)
      BY <1>2, <1>3, <1>5, <2>1, <3>1 DEF StrictInv
    <3> QED
      BY <1>2, <1>5, <3>1 DEF Switched
  <2>3. \A j \in Id : InUse(j)' /\ ~Owned(Fam(j), j)'
                        => comp'[j].rx = {} /\ comp'[j].tx = {}
    <3>1. ASSUME NEW j \in Id, InUse(j), ~Switched(Fam(j), j)
          PROVE  comp[j].rx = {} /\ comp[j].tx = {}
      <4>1. ~Asked(Fam(j), j)
        BY <1>2, <1>5, <3>1
      <4> QED
        BY <2>1, <3>1, <4>1 DEF StrictInv, Owned
    <3> QED
      BY <1>2, <1>5, <3>1 DEF Owned, Switched
  <2> QED
    BY <1>2, <2>2, <2>3 DEF StrictInv
<1> QED
  BY <1>2, <1>6, <1>7, <1>8, <1>9 DEF FitInv

LEMMA FitNext ==
    ASSUME FitAll, [Next]_vars, "table" \notin Faults
    PROVE  FitAll'
<1>0. AreaInv /\ CoreInv /\ PortInv /\ FitInv
  BY DEF FitAll, AreaInv
<1> SUFFICES FitInv'
  BY <1>0, AreaNext, PortNext DEF FitAll
<1>2. CASE Command
  BY <1>2, FitCommand
<1>3. ASSUME NEW v \in Worker, WorkerStep(v)
      PROVE  FitInv'
  <2>1. CASE WorkerEnter(v)
    BY <2>1, FitEnter
  <2>2. CASE ~WorkerEnter(v)
    <3>1. UNCHANGED <<ref, upd, area, comp, classId, chgComp, mpc, mtodo>>
      BY <1>3, <2>2 DEF WorkerStep, WorkerStart, WorkerStop, WorkerTop,
        WorkerPick, WorkerFinish
    <3> QED
      BY <1>0, <3>1, FitFrame
  <2> QED
    BY <2>1, <2>2
<1>4. CASE LifeCycle
  <2>1. UNCHANGED <<ref, upd, area, comp, classId, mtodo>>
    BY <1>4 DEF LifeCycle, MainIdle, WaitIdle, StartForwarding, LeaveLoop,
      Finalize, WaitStop
  <2>2. /\ ~Updating /\ ~Updating'
        /\ mpc' \in Starting => mpc \in Starting
        /\ \/ chgComp' = chgComp /\ mpc' # "command"
           \/ chgComp' = {} /\ mpc = "go"
    BY <1>4 DEF LifeCycle, MainIdle, WaitIdle, StartForwarding, LeaveLoop,
      Finalize, WaitStop
  <2>3. mpc = "go" => chgComp = {}
    BY <1>0 DEF FitInv
  <2> QED
    BY <1>0, <2>1, <2>2, <2>3, FitFrame
<1>5. CASE FlushPort \/ FlushPortFail
  <2>1. /\ UNCHANGED <<ref, upd, area, comp, classId, chgComp>>
        /\ ~Updating /\ ~Updating' /\ mpc' \notin Starting
        /\ mpc' = "command" => ~Strict
    BY <1>5 DEF FlushPort, FlushPortFail, BackToLoop, KeepFlags, Strict
  <2> QED
    BY <1>0, <2>1, FitFrame
<1>6. CASE CoreRequest \/ \E l \in Lcore : CoreCopy(l)
  <2>1. /\ UNCHANGED <<ref, upd, area, comp, classId>>
        /\ ~Updating
        /\ \/ UNCHANGED <<chgComp, mtodo>> /\ mpc' = "core_wait"
           \/ ToComponents
    BY <1>6 DEF CoreRequest, CoreCopy
  <2>2. CASE ToComponents
    <3>1. /\ chgComp' = chgComp
          /\ \/ mpc' = "command" /\ chgComp = {}
             \/ mpc' = "write" /\ mtodo' = chgComp
      BY <2>2 DEF ToComponents, BackToLoop
    <3> QED
      BY <1>0, <2>1, <3>1, FitFrame
  <2>3. CASE ~ToComponents
    BY <1>0, <2>1, <2>3, FitFrame
  <2> QED
    BY <2>2, <2>3
<1>7. CASE ComponentWrite
  BY <1>7, FitWrite
<1>8. CASE ComponentRequest
  BY <1>8, FitRequest
<1>9. CASE ComponentSwitched
  BY <1>9, FitSwitched
<1>10. CASE UNCHANGED vars \/ Signal \/ Exited
  <2>1. UNCHANGED <<ref, upd, area, comp, classId, chgComp, mpc, mtodo>>
    BY <1>10 DEF vars, Signal, Exited
  <2> QED
    BY <1>0, <2>1, FitFrame
<1>11. ~ComponentFail
  BY DEF ComponentFail
<1> QED
  BY <1>2, <1>3, <1>4, <1>5, <1>6, <1>7, <1>8, <1>9, <1>10, <1>11
  DEF Next, Flush

LEMMA FitCorrect ==
    ASSUME "table" \notin Faults
    PROVE  Spec => []FitAll
<1>1. Init => FitAll
  BY AreaInit, PortInit, FitInit DEF FitAll
<1>2. FitAll /\ [Next]_vars => FitAll'
  BY FitNext
<1> QED
  BY <1>1, <1>2, PTL DEF Spec

(* When a command has been answered and no flag is left, every forwarder    *)
(* and merger is polled with exactly its registered ports, also after       *)
(* flushes that failed to open a device: the flags that spp_flush leaves    *)
(* make a later one repeat the update.  (Where a MAC table cannot be made   *)
(* the flags of every component are cleared, and this fails.)               *)
THEOREM ForwardersFit ==
    ASSUME "table" \notin Faults
    PROVE  Spec => []ForwardersAgree
<1>1. FitAll => ForwardersAgree
  <2> SUFFICES ASSUME FitAll, Settled, NEW i \in Id,
                      comp[i].type \in {"forward", "merge"}
               PROVE  PathAgrees("fwd", i)
    BY DEF ForwardersAgree
  <2>1. AskedInv /\ FitInv
    BY DEF FitAll, AreaInv
  <2>2. InUse(i) /\ Fam(i) = "fwd" /\ Done(i) /\ ~Asked("fwd", i)
    BY DEF InUse, Fam, FamilyOf, Done, Settled, Asked
  <2>3. Switched("fwd", i)
    BY <2>1, <2>2 DEF AskedInv, Owned
  <2>4. Fits("fwd", i, PathInUse("fwd", i))
    BY <2>1, <2>2 DEF FitInv, DoneFits
  <2> QED
    BY <2>3, <2>4 DEF Fits, Exact, PathAgrees
<1> QED
  BY <1>1, FitCorrect, PTL

(* A command is answered only when no worker moves packets any more for     *)
(* what it replaced: whoever polls then polls a component of its own lcore  *)
(* with the registered ports, whatever is still in its hands.               *)
THEOREM TrafficFits ==
    ASSUME "table" \notin Faults
    PROVE  Spec => []TrafficFollows
<1>1. FitAll => TrafficFollows
  <2> SUFFICES ASSUME FitAll, Settled, NEW w \in Worker, Polling(w)
               PROVE  /\ comp[wjob[w].id].lcore = w
                      /\ Exact(wjob[w].id, PolledPath(w))
    BY DEF TrafficFollows, Exact
  <2>1. /\ CoreInv /\ JobInv /\ FitInv /\ PollOK(w)
        /\ wjob \in [Worker -> Job]
    BY DEF FitAll, AreaInv, PollInv, CoreInv, TypeInv, TypeOK
  <2>2. PICK i \in Id, f \in Family : i = wjob[w].id /\ f = wjob[w].fam
    BY <2>1 DEF Job
  <2>3. Working(w) /\ Current(w)
    BY DEF Working, Polling, Current, Settled
  <2>4. /\ InUse(i) /\ comp[i].lcore = w
        /\ f = Fam(i)
    BY <2>1, <2>2, <2>3, CurrentList DEF JobInv, Registered, Fam
  <2>5. Fits(f, i, PathInUse(f, i))
    BY <2>1, <2>4 DEF FitInv, DoneFits, Done, Settled
  <2>6. /\ PolledPath(w) = PathInUse(f, i)
        /\ Runnable(f, PathInUse(f, i))
    BY <2>1, <2>2 DEF PollOK, PolledPath, PathInUse
  <2>7. f = "cls" => PathInUse(f, i).rx # {}
    BY <2>6 DEF Runnable
  <2> QED
    BY <2>2, <2>4, <2>5, <2>6, <2>7 DEF Fits
<1> QED
  BY <1>1, FitCorrect, PTL

(* Where no device and no MAC table fails and no port is shared, every      *)
(* component, classifiers and their tables included, runs with what is      *)
(* registered as soon as the command is answered.                           *)
THEOREM AllInForce ==
    ASSUME Faults \cap {"pmd", "table"} = {}, "add_vlantag" \notin Tags
    PROVE  Spec => []InForce
<1>0. "table" \notin Faults /\ Strict
  BY DEF Strict, Exclusive
<1>1. FitAll => InForce
  <2> SUFFICES ASSUME FitAll, Settled, NEW i \in Id, InUse(i)
               PROVE  PathAgrees(Fam(i), i)
    BY DEF InForce, Fam
  <2>1. FitInv /\ StrictInv /\ Done(i)
    BY <1>0 DEF FitAll, FitInv, Done, Settled
  <2>2. Switched(Fam(i), i) /\ Fits(Fam(i), i, PathInUse(Fam(i), i))
    BY <2>1 DEF FitInv, DoneFits, StrictInv
  <2> QED
    BY <1>0, <2>2 DEF Fits, Exact, PathAgrees
<1> QED
  BY <1>0, <1>1, FitCorrect, PTL

-----------------------------------------------------------------------------
(* Who receives from a port.  Where nothing is stopped, a component that is *)
(* in a list stays what it is and where it is, and an area that is in use   *)
(* without being up to date holds no port of an unflagged component.        *)
Owning ==
    /\ \A l \in Lcore, k \in Area : \A i \in coreIds[l][k] :
          InUse(i) /\ comp[i].lcore = l
    /\ \A w \in Worker : Working(w) => wjob[w].fam = Fam(wjob[w].id)

Apart ==
    /\ \A i \in Id : ~InUse(i) => \A f \in Family : PathInUse(f, i).rx = {}
    /\ \A i, j \in Id : i \notin chgComp /\ i # j
          => PathInUse(Fam(j), j).rx \cap comp[i].rx = {}

NoStop == "stop" \notin Verbs

RxAll == FitAll /\ Owning /\ Apart

LEMMA RegistrationKept ==
    ASSUME CoreInv, [Next]_vars, NoStop, NEW i \in Id, InUse(i)
    PROVE  /\ InUse(i)' /\ Fam(i)' = Fam(i)
           /\ comp'[i].lcore = comp[i].lcore
<1> SUFFICES comp'[i].type = comp[i].type /\ comp'[i].lcore = comp[i].lcore
  BY DEF InUse, Fam
<1>1. CASE ~Command
  BY <1>1, CompKept
<1>2. ASSUME NEW j \in Id, NEW n, NEW t, NEW l, Created(j, n, t, l)
      PROVE  comp'[i].type = comp[i].type /\ comp'[i].lcore = comp[i].lcore
  BY <1>2 DEF Created, Recorded
<1>3. ASSUME NEW j \in Id, NEW d \in Dir, NEW S, Ported(j, d, S)
      PROVE  comp'[i].type = comp[i].type /\ comp'[i].lcore = comp[i].lcore
  BY <1>3, PortedKeeps DEF CoreInv, TypeInv
<1>4. \A j : ~Removed(j)
  BY DEF Removed, NoStop
<1> QED
  BY <1>1, <1>2, <1>3, <1>4, CommandEffect DEF Classed

LEMMA OwningNext ==
    ASSUME CoreInv, JobInv, Owning, [Next]_vars, NoStop
    PROVE  Owning'
<1>0. /\ coreIds \in [Lcore -> [Area -> SUBSET Id]]
      /\ coreRef \in [Lcore -> Area]
      /\ coreUpd \in [Lcore -> Area]
      /\ wjob \in [Worker -> Job]
      /\ wpc \in [Worker -> {"launch", "top", "scan", "enter", "burst",
                             "stopped"}]
      /\ \A w \in Worker : w \in Lcore
  BY DEF CoreInv, TypeInv, TypeOK, Lcore
<1>1. ASSUME NEW l \in Lcore, NEW k \in Area, NEW i \in coreIds'[l][k]
      PROVE  InUse(i)' /\ comp'[i].lcore = l
  <2>1. CASE \E m \in Area : i \in coreIds[l][m]
    <3>1. InUse(i) /\ comp[i].lcore = l /\ i \in Id
      BY <1>0, <2>1 DEF Owning
    <3> QED
      BY <3>1, RegistrationKept DEF Fam
  <2>2. CASE coreIds' = coreIds
    BY <1>1, <2>1, <2>2
  <2>3. ASSUME NEW j \in Id, NEW n \in Name, NEW t \in StartType,
               NEW h \in StartLcore, Created(j, n, t, h)
        PROVE  InUse(i)' /\ comp'[i].lcore = l
    <3>1. h \in Lcore
      BY LcoreAssumption DEF Lcore
    <3>2. coreIds'[l][k] \subseteq
             coreIds[l][k] \cup (IF l = h THEN {j} ELSE {})
      BY <1>0, <2>3, <3>1 DEF Created
    <3>3. CASE i = j /\ l = h
      BY <2>3, <3>3, TypeAssumption DEF Created, Recorded, InUse
    <3> QED
      BY <1>1, <2>1, <3>2, <3>3
  <2>4. ASSUME NEW h \in Lcore, CoreCopy(h)
        PROVE  InUse(i)' /\ comp'[i].lcore = l
    <3>1. coreIds'[l][k] = coreIds[l][k] \/ coreIds'[l][k] = coreIds[l][coreRef[l]]
      BY <1>0, <2>4 DEF CoreCopy, IdsOf
    <3> QED
      BY <1>0, <1>1, <2>1, <3>1
  <2>5. CASE Command
    <3>1. \A j : ~Removed(j)
      BY DEF Removed, NoStop
    <3> QED
      BY <2>2, <2>3, <2>5, <3>1, CommandEffect DEF Ported, Classed
  <2>6. CASE UNCHANGED vars \/ LifeCycle \/ Signal \/ Exited
             \/ \E v \in Worker : WorkerStep(v)
    <3>1. coreIds' = coreIds
      BY <2>6 DEF vars, LifeCycle, MainIdle, WaitIdle, StartForwarding,
        LeaveLoop, Finalize, WaitStop, Signal, Exited, WorkerStep,
        WorkerStart, WorkerStop, WorkerTop, WorkerPick, WorkerEnter, WorkerFinish
    <3> QED
      BY <2>2, <3>1
  <2>7. CASE Flush
    <3>1. coreIds' = coreIds \/ \E h \in Lcore : CoreCopy(h)
      BY <2>7 DEF Flush, FlushPort, FlushPortFail, CoreRequest,
        ComponentWrite, ComponentFail, ComponentRequest, ComponentSwitched
    <3> QED
      BY <2>2, <2>4, <3>1
  <2> QED
    BY <2>5, <2>6, <2>7 DEF Next
<1>2. ASSUME NEW w \in Worker, Working(w)'
      PROVE  wjob'[w].fam = FamilyOf(comp'[wjob'[w].id].type)
  <2>1. CASE Working(w) /\ wjob'[w].fam = wjob[w].fam /\ wjob'[w].id = wjob[w].id
    <3>1. wjob[w].id \in Id /\ InUse(wjob[w].id)
      BY <1>0, <2>1 DEF JobInv, Owning, IdsOf, Job
    <3>2. FamilyOf(comp'[wjob[w].id].type) = Fam(wjob[w].id)
      BY <3>1, RegistrationKept DEF Fam
    <3> QED
      BY <2>1, <3>2 DEF Owning, Fam
  <2>2. CASE UNCHANGED <<wpc, wjob>>
    BY <1>2, <2>1, <2>2 DEF Working
  <2>3. ASSUME NEW v \in Worker, WorkerStep(v)
        PROVE  wjob'[w].fam = FamilyOf(comp'[wjob'[w].id].type)
    <3>1. CASE v # w
      <4>1. wpc'[w] = wpc[w] /\ wjob'[w] = wjob[w]
        BY <1>0, <2>3, <3>1 DEF WorkerStep, WorkerStart, WorkerStop,
          WorkerTop, WorkerPick, WorkerEnter, WorkerFinish, Onward
      <4> QED
        BY <1>2, <2>1, <4>1 DEF Working
    <3>2. CASE v = w /\ \E i \in Id : WorkerPick(w, i)
      BY <1>0, <3>2 DEF WorkerPick
    <3>3. CASE v = w /\ WorkerEnter(w)
      <4>1. wpc[w] = "enter" /\ wpc'[w] \in {"enter", "burst"}
        BY <1>2, <3>3 DEF WorkerEnter, Working
      <4>2. PICK r : wjob' = [wjob EXCEPT ![w].area = r]
        BY <1>0, <3>3, <4>1 DEF WorkerEnter, Onward
      <4>3. wjob'[w] = [wjob[w] EXCEPT !.area = r] /\ wjob[w] \in Job
        BY <1>0, <4>2
      <4> QED
        BY <2>1, <4>1, <4>3 DEF Job, Working
    <3>4. CASE v = w /\ (WorkerStart(w) \/ WorkerStop(w) \/ WorkerTop(w)
                         \/ WorkerFinish(w))
      BY <1>0, <1>2, <3>4 DEF WorkerStart, WorkerStop, WorkerTop,
        WorkerFinish, Onward, Working
    <3> QED
      BY <2>3, <3>1, <3>2, <3>3, <3>4 DEF WorkerStep
  <2>4. CASE Command
    BY <2>2, <2>4, CommandEffect
  <2>5. CASE UNCHANGED vars \/ LifeCycle \/ Signal \/ Exited
    BY <2>2, <2>5 DEF vars, LifeCycle, MainIdle, WaitIdle, StartForwarding,
      LeaveLoop, Finalize, WaitStop, Signal, Exited
  <2>6. CASE Flush
    BY <2>2, <2>6 DEF Flush, FlushPort, FlushPortFail, CoreRequest,
      CoreCopy, ComponentWrite, ComponentFail, ComponentRequest,
      ComponentSwitched
  <2> QED
    BY <2>2, <2>3, <2>4, <2>5, <2>6 DEF Next
<1> QED
  BY <1>1, <1>2 DEF Owning, Fam

(* A step leaves what is in use of a component as it is, or makes it one    *)
(* with no other ports than those registered.                               *)
LEMMA InUseStep ==
    ASSUME FitAll, Owning, [Next]_vars, "table" \notin Faults,
           NEW f \in Family, NEW i \in Id
    PROVE  \/ PathInUse(f, i)' = PathInUse(f, i)
           \/ /\ f = Fam(i) /\ InUse(i)
              /\ PathInUse(f, i).rx' \subseteq comp[i].rx
<1>0. /\ CoreInv /\ JobInv /\ AskedInv /\ FitInv
      /\ area \in [Family -> [Id -> [Area -> Path]]]
      /\ ref \in [Family -> [Id -> Area]]
      /\ upd \in [Family -> [Id -> Area]]
      /\ wjob \in [Worker -> Job]
  BY DEF FitAll, AreaInv, CoreInv, TypeInv, TypeOK
<1>1. CASE UNCHANGED <<ref, area>>
  BY <1>1 DEF PathInUse
<1>2. ASSUME NEW v \in Worker, WorkerEnter(v)
      PROVE  \/ PathInUse(f, i)' = PathInUse(f, i)
             \/ /\ f = Fam(i) /\ InUse(i)
                /\ PathInUse(f, i).rx' \subseteq comp[i].rx
  <2>1. PICK g \in Family, j \in Id, r \in Area :
          /\ g = wjob[v].fam /\ j = wjob[v].id
          /\ r = Flipped(ref[g][j], upd[g][j])
    <3>1. PICK g \in Family, j \in Id : g = wjob[v].fam /\ j = wjob[v].id
      BY <1>0 DEF Job
    <3>2. Flipped(ref[g][j], upd[g][j]) \in Area
      BY <1>0, FlippedType
    <3> QED
      BY <3>1, <3>2
  <2>2. /\ ref' = [ref EXCEPT ![g][j] = r] /\ area' = area
        /\ Working(v)
    BY <1>2, <2>1 DEF WorkerEnter, Working
  <2>3. CASE g # f \/ j # i
    <3>1. ref'[f][i] = ref[f][i]
      BY <1>0, <2>2, <2>3
    <3> QED
      BY <2>2, <3>1 DEF PathInUse
  <2>4. CASE g = f /\ j = i
    <3>1. InUse(i) /\ f = Fam(i)
      <4>1. wjob[v].id \in IdsOf(v) /\ v \in Lcore
        BY <1>0, <2>2 DEF JobInv, Lcore
      <4>2. coreRef[v] \in Area
        BY <1>0, <4>1 DEF CoreInv, TypeInv, TypeOK
      <4>3. InUse(i)
        BY <2>1, <2>4, <4>1, <4>2 DEF Owning, IdsOf
      <4>4. wjob[v].fam = Fam(wjob[v].id)
        BY <2>2 DEF Owning
      <4> QED
        BY <2>1, <2>4, <4>3, <4>4
    <3>2. PathInUse(f, i)' = area[f][i][r]
      BY <1>0, <2>2, <2>4 DEF PathInUse
    <3>3. CASE Switched(f, i)
      BY <2>1, <2>4, <3>2, <3>3 DEF Switched, Flipped, PathInUse
    <3>4. CASE ~Switched(f, i)
      <4>1. r = 1 - upd[f][i]
        BY <2>1, <2>4, <3>4 DEF Switched, Flipped
      <4>2. CASE InHand(f, i)
        <5>1. Fits(f, i, area[f][i][r])
          BY <1>0, <3>4, <4>1, <4>2 DEF FitInv, HandFits
        <5> QED
          BY <3>1, <3>2, <5>1 DEF Fits, Exact
      <4>3. CASE ~InHand(f, i)
        <5>1. f = "cls"
          BY <1>0, <3>4, <4>3 DEF AskedInv, Owned, Asked, InHand, Family
        <5>2. area[f][i][r].rx = {}
          BY <1>0, <3>4, <4>3, <5>1 DEF FitInv, FreshBlank, Blank
        <5> QED
          BY <3>1, <3>2, <5>2
      <4> QED
        BY <4>2, <4>3
    <3> QED
      BY <3>3, <3>4
  <2> QED
    BY <2>3, <2>4
<1>3. ASSUME NEW p, Written(p), ref' = ref, p.rx \subseteq comp[mid].rx
      PROVE  \/ PathInUse(f, i)' = PathInUse(f, i)
             \/ /\ f = Fam(i) /\ InUse(i)
                /\ PathInUse(f, i).rx' \subseteq comp[i].rx
  <2>1. Updating /\ mid \in mtodo /\ mtodo \subseteq chgComp
        /\ mid \in Id /\ mfam \in Family
    BY <1>0, <1>3, TurnType DEF Written, CoreInv, TypeInv, FlagInv
  <2>2. PICK c \in Id, g \in Family, u \in Area :
          c = mid /\ g = mfam /\ u = upd[g][c]
    BY <1>0, <2>1
  <2>3. area' = [area EXCEPT ![g][c][u] = p]
    BY <1>3, <2>2 DEF Written
  <2>4. CASE g = f /\ c = i /\ u = ref[f][i]
    <3>1. PathInUse(f, i)' = p
      BY <1>0, <1>3, <2>3, <2>4 DEF PathInUse
    <3>2. InUse(i) /\ f = Fam(i)
      BY <1>0, <2>1, <2>2, <2>4 DEF CoreInv, FlagInv, Fam, mfam
    <3> QED
      BY <1>3, <2>2, <2>4, <3>1, <3>2
  <2>5. CASE ~(g = f /\ c = i /\ u = ref[f][i])
    <3>1. area'[f][i][ref[f][i]] = area[f][i][ref[f][i]]
      BY <1>0, <2>3, <2>5
    <3> QED
      BY <1>3, <3>1 DEF PathInUse
  <2> QED
    BY <2>4, <2>5
<1>4. CASE ComponentWrite
  <2>1. Written(Filled(mid, UpdArea)) /\ ref' = ref
    BY <1>4 DEF ComponentWrite, Written
  <2>2. Filled(mid, UpdArea).rx \subseteq comp[mid].rx
    BY DEF Filled
  <2> QED
    BY <1>3, <2>1, <2>2
<1>5. CASE ComponentSwitched
  <2>1. ref' = ref /\ (area' = area \/ Written(NoPath))
    BY <1>5 DEF ComponentSwitched, Switched, Written
  <2>2. NoPath.rx \subseteq comp[mid].rx
    BY DEF NoPath
  <2> QED
    BY <1>1, <1>3, <2>1, <2>2
<1>6. CASE UNCHANGED vars \/ LifeCycle \/ Signal \/ Exited
           \/ \E v \in Worker : WorkerStep(v) /\ ~WorkerEnter(v)
  BY <1>1, <1>6 DEF vars, LifeCycle, MainIdle, WaitIdle, StartForwarding,
    LeaveLoop, Finalize, WaitStop, Signal, Exited, WorkerStep,
    WorkerStart, WorkerStop, WorkerTop, WorkerPick, WorkerFinish
<1>7. CASE Command
  BY <1>0, <1>1, <1>7, CommandEffect
<1>8. CASE FlushPort \/ FlushPortFail \/ CoreRequest \/ ComponentRequest
           \/ \E l \in Lcore : CoreCopy(l)
  BY <1>1, <1>8 DEF FlushPort, FlushPortFail, CoreRequest, ComponentRequest,
    CoreCopy
<1>9. ~ComponentFail
  BY DEF ComponentFail
<1> QED
  BY <1>2, <1>4, <1>5, <1>6, <1>7, <1>8, <1>9 DEF Next, Flush

(* Flags are cleared all at once.                                           *)
LEMMA FlagsCleared ==
    ASSUME CoreInv, FitInv, [Next]_vars, NoStop, "table" \notin Faults
    PROVE  chgComp' = {} \/ chgComp \subseteq chgComp'
<1>1. CASE Command
  <2>1. \A i : ~Removed(i)
    BY DEF Removed, NoStop
  <2> QED
    BY <1>1, <2>1, CommandEffect DEF Created, Ported, Classed
<1>2. CASE UNCHANGED vars \/ LifeCycle \/ Signal \/ Exited
           \/ \E v \in Worker : WorkerStep(v)
  BY <1>2 DEF vars, LifeCycle, MainIdle, WaitIdle, StartForwarding,
    LeaveLoop, Finalize, WaitStop, Signal, Exited, WorkerStep,
    WorkerStart, WorkerStop, WorkerTop, WorkerPick, WorkerEnter, WorkerFinish
<1>3. CASE Flush
  BY <1>3 DEF Flush, FlushPort, FlushPortFail, KeepFlags, CoreRequest,
    CoreCopy, ToComponents, ComponentWrite, ComponentFail, ComponentRequest,
    ComponentSwitched
<1> QED
  BY <1>1, <1>2, <1>3 DEF Next

LEMMA ApartNext ==
    ASSUME RxAll, [Next]_vars, NoStop, Exclusive, "table" \notin Faults
    PROVE  Apart'
<1>0. /\ FitAll /\ CoreInv /\ PortInv /\ FitInv /\ Owning /\ Apart
      /\ PortInv' /\ FitInv'
  BY FitNext DEF RxAll, FitAll, AreaInv
<1>1. ASSUME NEW i \in Id, ~InUse(i)', NEW f \in Family
      PROVE  ~InUse(i) /\ PathInUse(f, i)'.rx = {}
  <2>1. ~InUse(i)
    BY <1>0, <1>1, RegistrationKept
  <2>2. PathInUse(f, i)' = PathInUse(f, i)
    BY <1>0, <2>1, InUseStep
  <2> QED
    BY <1>0, <2>1, <2>2 DEF Apart
<1>2. ASSUME NEW i \in Id, NEW j \in Id, i \notin chgComp', i # j
      PROVE  PathInUse(Fam(j), j)'.rx \cap comp'[i].rx = {}
  <2>0. /\ Fam(j) \in Family /\ Fam(j)' \in Family
        /\ comp'[i].rx \cap comp'[j].rx = {}
        /\ comp[i].rx \cap comp[j].rx = {}
    BY <1>0, <1>2 DEF Fam, FamilyOf, Family, PortInv
  <2>1. PICK g \in Family : g = Fam(j)'
    BY <2>0
  <2>2. PathInUse(Fam(j), j)' = PathInUse(g, j)'
    BY <2>1 DEF PathInUse
  <2>3. CASE ~InUse(j)'
    BY <1>1, <2>2, <2>3
  <2>4. CASE InUse(j)' /\ j \notin chgComp'
    <3>1. Fits(Fam(j), j, PathInUse(Fam(j), j))'
      BY <1>0, <2>4 DEF FitInv, DoneFits, Done
    <3> QED
      BY <2>0, <3>1 DEF Fits, Exact
  <2>5. CASE InUse(j)' /\ j \in chgComp'
    <3>1. i \notin chgComp
      BY <1>0, <1>2, <2>5, FlagsCleared
    <3>2. comp'[i] = comp[i] \/ comp'[i].rx = {}
      <4>1. CASE ~Command
        BY <1>0, <4>1, CompKept
      <4>2. CASE Command /\ InUse(i)'
        BY <1>0, <1>2, <4>2, UnflaggedKept
      <4>3. CASE ~InUse(i)'
        BY <1>0, <4>3 DEF PortInv
      <4> QED
        BY <4>1, <4>2, <4>3
    <3>3. PathInUse(g, j)'.rx \cap comp[i].rx = {}
      <4>1. CASE ~InUse(j)
        <5>1. PathInUse(g, j)' = PathInUse(g, j)
          BY <1>0, <4>1, InUseStep
        <5> QED
          BY <1>0, <4>1, <5>1 DEF Apart
      <4>2. CASE InUse(j)
        <5>1. g = Fam(j)
          BY <1>0, <2>1, <4>2, RegistrationKept
        <5>2. PathInUse(g, j).rx \cap comp[i].rx = {}
          BY <1>0, <1>2, <3>1, <5>1 DEF Apart
        <5>3. \/ PathInUse(g, j)' = PathInUse(g, j)
              \/ PathInUse(g, j).rx' \subseteq comp[j].rx
          BY <1>0, InUseStep
        <5> QED
          BY <2>0, <5>2, <5>3
      <4> QED
        BY <4>1, <4>2
    <3> QED
      BY <2>2, <3>2, <3>3
  <2> QED
    BY <2>3, <2>4, <2>5
<1>3. \A i \in Id : ~InUse(i)' => \A f \in Family : PathInUse(f, i)'.rx = {}
  BY <1>1
<1> QED
  BY <1>2, <1>3 DEF Apart

LEMMA RxInit == Init => RxAll
<1> SUFFICES ASSUME Init PROVE RxAll
  OBVIOUS
<1>1. \A f \in Family, i \in Id : PathInUse(f, i).rx = {}
  BY DEF Init, PathInUse, NoPath, Area
<1>2. \A i \in Id : Fam(i) \in Family
  BY DEF Fam, FamilyOf, Family
<1>3. Apart
  BY <1>1, <1>2 DEF Apart
<1>4. Owning
  BY DEF Init, Owning, Working
<1> QED
  BY <1>3, <1>4, AreaInit, PortInit, FitInit DEF RxAll, FitAll

(* Two lcores never receive from one port at once, in the middle of a flush *)
(* or not, unless the port changes hands between two components that both   *)
(* wait for their update: rx_burst is not safe for two callers.  A          *)
(* component that is stopped leaves its ports in the area, where the next   *)
(* user of the id finds them, so nothing may be stopped; and add_vlantag    *)
(* makes two components share a port.                                       *)
THEOREM ReceiversExclusive ==
    ASSUME "stop" \notin Verbs, "add_vlantag" \notin Tags, "table" \notin Faults
    PROVE  Spec => []RxExclusive
<1>0. NoStop /\ Exclusive
  BY DEF NoStop, Exclusive
<1>1. RxAll /\ [Next]_vars => RxAll'
  <2> SUFFICES ASSUME RxAll, [Next]_vars PROVE RxAll'
    OBVIOUS
  <2>1. FitAll' /\ Apart'
    BY <1>0, FitNext, ApartNext DEF RxAll
  <2>2. Owning'
    BY <1>0, OwningNext DEF RxAll, FitAll, AreaInv
  <2> QED
    BY <2>1, <2>2 DEF RxAll
<1>2. RxAll => RxExclusive
  <2> SUFFICES ASSUME RxAll,
                      NEW v \in Worker, NEW w \in Worker, v # w,
                      Polling(v), Polling(w),
                      PolledPath(v).rx \cap PolledPath(w).rx # {}
               PROVE  {wjob[v].id, wjob[w].id} \subseteq chgComp
    BY DEF RxExclusive
  <2>0. /\ CoreInv /\ JobInv /\ PollInv /\ PortInv /\ FitInv /\ Owning /\ Apart
        /\ wjob \in [Worker -> Job] /\ coreRef \in [Lcore -> Area]
    BY DEF RxAll, FitAll, AreaInv, CoreInv, TypeInv, TypeOK
  <2>1. ASSUME NEW u \in Worker, Polling(u)
        PROVE  /\ wjob[u].id \in Id /\ InUse(wjob[u].id)
               /\ comp[wjob[u].id].lcore = u
               /\ PolledPath(u) = PathInUse(Fam(wjob[u].id), wjob[u].id)
               /\ wjob[u].id \notin chgComp
                     => PolledPath(u).rx \subseteq comp[wjob[u].id].rx
    <3>1. Working(u) /\ u \in Lcore
      BY <2>1 DEF Working, Polling, Lcore
    <3>2. PICK i \in Id : i = wjob[u].id
      BY <2>0 DEF Job
    <3>3. i \in coreIds[u][coreRef[u]]
      BY <2>0, <3>1, <3>2 DEF JobInv, IdsOf
    <3>4. InUse(i) /\ comp[i].lcore = u
      BY <2>0, <3>1, <3>3 DEF Owning
    <3>5. wjob[u].fam = Fam(i)
      BY <2>0, <3>1, <3>2 DEF Owning
    <3>6. PolledPath(u) = PathInUse(Fam(i), i)
      BY <2>0, <2>1, <3>2, <3>5 DEF PollInv, PollOK, PolledPath, PathInUse
    <3>7. ASSUME i \notin chgComp
          PROVE  PolledPath(u).rx \subseteq comp[i].rx
      <4>1. Fits(Fam(i), i, PathInUse(Fam(i), i))
        BY <2>0, <3>4, <3>7 DEF FitInv, DoneFits, Done
      <4> QED
        BY <3>6, <4>1 DEF Fits, Exact
    <3> QED
      BY <3>2, <3>4, <3>6, <3>7
  <2>2. ASSUME NEW t \in Worker, NEW u \in Worker, t # u,
               Polling(t), Polling(u), wjob[t].id \notin chgComp
        PROVE  PolledPath(t).rx \cap PolledPath(u).rx = {}
    <3>1. PICK i \in Id, j \in Id : i = wjob[t].id /\ j = wjob[u].id
      BY <2>1, <2>2
    <3>2. i # j
      BY <2>1, <2>2, <3>1
    <3>3. PathInUse(Fam(j), j).rx \cap comp[i].rx = {}
      BY <2>0, <2>2, <3>1, <3>2 DEF Apart
    <3> QED
      BY <2>1, <2>2, <3>1, <3>3
  <2> QED
    BY <2>2
<1> QED
  BY <1>1, <1>2, RxInit, PTL DEF Spec
=============================================================================
