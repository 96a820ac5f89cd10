---------------------------- MODULE Pcap_proofs ----------------------------
(***************************************************************************)
(* Proofs about Pcap for any number of writers, any sizes of the ring, the *)
(* bursts and the files, and any number of packets and commands.           *)
(***************************************************************************)
EXTENDS Pcap, FiniteSetTheorems, SequenceTheorems, TLAPS

(***************************************************************************)
(* The count of threads.  What it depends on is only how far each thread   *)
(* is: its place tells whether it is running, but for the receiver between *)
(* two looks at the request.                                               *)
(***************************************************************************)

Place == {"none", "launched", "top"} \cup Ended \cup ReceiverPlace
           \cup WriterPlace \cup CountPlace

CountTypes ==
    /\ cnt \in Nat
    /\ raced \in BOOLEAN
    /\ reg \in [Thread -> Nat]
    /\ pc \in [Thread -> Place]
    /\ status \in [Thread -> CaptureStatus]

RunningPlace == {"inc", "inc_store"} \cup WriterPlace
IdlePlace    == {"none", "launched", "dec", "dec_store"} \cup Ended

PlaceInv ==
    \A t \in Thread :
        /\ pc[t] \in RunningPlace => status[t] = "running"
        /\ pc[t] \in IdlePlace => status[t] = "idle"
        /\ t \in Writer /\ pc[t] = "top" => status[t] = "idle"

Parties == {t \in Thread : TakesPart(t)}

(* Before the launch no thread is anywhere.                                 *)
StartInv == mpc = "init" => \A t \in Thread : pc[t] = "none"

CountInv == CountTypes /\ PlaceInv /\ CountRight

USE DEF CountTypes, PlaceInv, TakesPart, Place, Ended, ReceiverPlace,
        WriterPlace, CountPlace, RunningPlace, IdlePlace, CaptureStatus

(* A thread is the receiver or one of finitely many writers.                *)
LEMMA ThreadFacts ==
    /\ IsFiniteSet(Thread)
    /\ Receiver \in Thread /\ Writer \subseteq Thread
    /\ \A w \in Writer : w # Receiver
<1>1. Thread = Writer \cup {Receiver}
  BY DEF Thread
<1> QED
  BY <1>1, ThreadAssumption, FS_AddElement

LEMMA PartiesFinite ==
    IsFiniteSet(Parties) /\ Cardinality(Parties) \in Nat
BY ThreadFacts, FS_Subset, FS_CardinalityType DEF Parties

(* If a step changes neither the count nor who takes part, it stays right.  *)
LEMMA CountKept ==
    ASSUME CountRight, cnt' = cnt, raced' = raced,
           \A t \in Thread : TakesPart(t)' <=> TakesPart(t)
    PROVE  CountRight'
<1>1. Parties' = Parties
  BY DEF Parties
<1> QED
  BY <1>1 DEF CountRight, Parties

(* A thread that has added itself takes part from then on.                  *)
LEMMA CountUpRight ==
    ASSUME CountInv, NEW t \in Thread, CountUp(t)
    PROVE  CountRight'
<1> USE DEF CountInv
<1>1. SUFFICES ASSUME ~raced'
               PROVE  cnt' = Cardinality(Parties')
  BY DEF CountRight, Parties
<1>2. ~raced /\ cnt' = cnt + 1
  BY <1>1 DEF CountUp, StoreCount
<1>3. Parties' = Parties \cup {t} /\ t \notin Parties
  BY DEF Parties, CountUp, Goto
<1>4. cnt = Cardinality(Parties)
  BY <1>2 DEF CountRight, Parties
<1> QED
  BY <1>2, <1>3, <1>4, PartiesFinite, FS_AddElement

(* A thread that has taken itself out was counted, so that the count is not *)
(* zero and the code's test of it makes no difference.                      *)
LEMMA CountDownRight ==
    ASSUME CountInv, NEW t \in Thread, CountDown(t)
    PROVE  CountRight'
<1> USE DEF CountInv
<1>1. SUFFICES ASSUME ~raced'
               PROVE  cnt' = Cardinality(Parties')
  BY DEF CountRight, Parties
<1>2. ~raced /\ reg[t] = cnt
  BY <1>1 DEF CountDown, StoreCount
<1>3. Parties' = Parties \ {t} /\ t \in Parties
  BY DEF Parties, CountDown, Goto
<1>4. cnt = Cardinality(Parties)
  BY <1>2 DEF CountRight, Parties
<1>5. Cardinality(Parties') = Cardinality(Parties) - 1
  BY <1>3, PartiesFinite, FS_RemoveElement
<1>6. Cardinality(Parties) # 0
  BY <1>3, PartiesFinite, FS_EmptySet
<1> QED
  BY <1>2, <1>4, <1>5, <1>6 DEF CountDown, StoreCount

(* The other steps of a thread change nobody's part.                        *)
LEMMA CountThread ==
    ASSUME CountInv, NEW t \in Thread, ThreadStep(t)
    PROVE  CountInv'
<1> USE DEF CountInv, Goto
<1>1. CASE ThreadStart(t)
  BY <1>1, CountKept DEF ThreadStart, countVars
<1>2. CASE ThreadStop(t)
  BY <1>2, CountKept DEF ThreadStop, MustStop, countVars
<1>3. CASE CountLoad(t)
  BY <1>3, CountKept DEF CountLoad
<1>4. CASE CountUp(t)
  <2>1. CountTypes' /\ PlaceInv'
    BY <1>4, ThreadFacts DEF CountUp, StoreCount
  <2> QED
    BY <1>4, <2>1, CountUpRight
<1>5. CASE CountDown(t)
  <2>1. CountTypes' /\ PlaceInv'
    BY <1>5, ThreadFacts DEF CountDown, StoreCount
  <2> QED
    BY <1>5, <2>1, CountDownRight
<1>6. CASE t = Receiver /\ ReceiverStep
  <2>1. CASE ReceiverTop
    BY <1>6, <2>1, CountKept, ThreadFacts DEF ReceiverTop, countVars
  <2>2. CASE ReceiverStopsCapture
    BY <1>6, <2>2, CountKept, ThreadFacts DEF ReceiverStopsCapture, countVars
  <2>3. CASE ReceiverStartsCapture
    BY <1>6, <2>3, CountKept, ThreadFacts DEF ReceiverStartsCapture, countVars
  <2>4. CASE ReceiverGoesOn
    BY <1>6, <2>4, CountKept, ThreadFacts DEF ReceiverGoesOn, countVars
  <2>5. CASE ReceiverGate
    BY <1>6, <2>5, CountKept, ThreadFacts DEF ReceiverGate, countVars
  <2>6. CASE Receive
    BY <1>6, <2>6, CountKept, ThreadFacts DEF Receive, countVars
  <2> QED
    BY <1>6, <2>1, <2>2, <2>3, <2>4, <2>5, <2>6 DEF ReceiverStep
<1>7. CASE t \in Writer /\ WriterStep(t)
  <2>1. CASE WriterStarts(t)
    BY <1>7, <2>1, CountKept DEF WriterStarts
  <2>2. CASE WriterStartFails(t)
    BY <1>7, <2>2, CountKept DEF WriterStartFails, countVars
  <2>3. CASE WriterTakes(t)
    BY <1>7, <2>3, CountKept DEF WriterTakes, countVars
  <2>4. CASE WriterTakesNone(t)
    BY <1>7, <2>4, CountKept DEF WriterTakesNone, countVars
  <2>5. CASE WriterEmpty(t)
    BY <1>7, <2>5, CountKept DEF WriterEmpty, countVars
  <2>6. CASE WritePacket(t)
    BY <1>7, <2>6, CountKept DEF WritePacket, countVars
  <2>7. CASE RollFile(t)
    BY <1>7, <2>7, CountKept DEF RollFile, countVars
  <2>8. CASE WriteFails(t)
    BY <1>7, <2>8, CountKept DEF WriteFails, WriterDies, countVars
  <2>9. CASE RollFails(t)
    BY <1>7, <2>9, CountKept DEF RollFails, WriterDies, countVars
  <2> QED
    BY <1>7, <2>1, <2>2, <2>3, <2>4, <2>5, <2>6, <2>7, <2>8, <2>9
       DEF WriterStep
<1> QED
  BY <1>1, <1>2, <1>3, <1>4, <1>5, <1>6, <1>7 DEF ThreadStep

(* The main thread launches the threads and touches nothing of this later.  *)
LEMMA CountMain ==
    ASSUME CountInv, StartInv, MainStep \/ Command \/ Signal \/ UNCHANGED vars
    PROVE  CountInv'
<1> USE DEF CountInv
<1>1. CASE StartUp /\ UNCHANGED pc
  BY <1>1, CountKept DEF StartUp, countVars
<1>2. CASE StartUp /\ pc' = [t \in Thread |-> "launched"]
  BY <1>2, CountKept DEF StartUp, StartInv, countVars
<1>3. CASE WaitIdle \/ LoopEnds \/ Resume \/ WaitStop \/ Command \/ Signal
           \/ UNCHANGED vars
  <2>1. UNCHANGED <<cnt, raced, reg, pc, status>>
    BY <1>3 DEF WaitIdle, LoopEnds, Resume, WaitStop, Command, Signal, vars,
                countVars
  <2> QED
    BY <2>1, CountKept
<1> QED
  BY <1>1, <1>2, <1>3 DEF MainStep, StartUp

(* The launch ends the time before it, and no thread steps in it.           *)
LEMMA StartKept ==
    ASSUME StartInv, [Next]_vars
    PROVE  StartInv'
<1> USE DEF StartInv
<1>1. CASE \E t \in Thread : ThreadStep(t)
  <2>1. PICK t \in Thread : ThreadStep(t)
    BY <1>1
  <2>2. mpc' = mpc
    BY <2>1 DEF ThreadStep, ThreadStart, ThreadStop, CountLoad, CountUp,
         CountDown, ReceiverStep, ReceiverTop, ReceiverStopsCapture,
         ReceiverStartsCapture, ReceiverGoesOn, ReceiverGate, Receive,
         WriterStep, WriterStarts, WriterStartFails, WriterTakes,
         WriterTakesNone, WriterEmpty, WritePacket, RollFile, WriteFails,
         RollFails, WriterDies, mainVars
  <2>3. pc[t] # "none"
    BY <2>1 DEF ThreadStep, ThreadStart, ThreadStop, CountLoad, CountUp,
         CountDown, ReceiverStep, ReceiverTop, ReceiverStopsCapture,
         ReceiverStartsCapture, ReceiverGoesOn, ReceiverGate, Receive,
         WriterStep, WriterStarts, WriterStartFails, WriterTakes,
         WriterTakesNone, WriterEmpty, WritePacket, RollFile, WriteFails,
         RollFails
  <2> QED
    BY <2>2, <2>3
<1>2. CASE MainStep \/ Command \/ Signal \/ UNCHANGED vars
  <2>1. mpc' # "init" \/ (mpc' = mpc /\ pc' = pc)
    BY <1>2 DEF MainStep, StartUp, WaitIdle, LoopEnds, Resume, WaitStop,
         Command, StartOrStop, Exit, Answer, Signal, vars, mainVars
  <2> QED
    BY <2>1
<1> QED
  BY <1>1, <1>2 DEF Next, Exited

LEMMA CountInit ==
    ASSUME Init
    PROVE  CountInv /\ StartInv
<1>1. CountTypes /\ PlaceInv
  BY DEF Init
<1>2. Parties = {}
  BY DEF Init, Parties
<1> QED
  BY <1>1, <1>2, FS_EmptySet DEF Init, CountInv, CountRight, StartInv, Parties

LEMMA CountKeeps ==
    ASSUME CountInv, StartInv, [Next]_vars
    PROVE  CountInv'
BY CountThread, CountMain DEF Next, Exited

(* spp_pcap's start_up_cnt, which opens the receiver's gate, counts exactly *)
(* the threads that take part in a capture and the writers that died in     *)
(* one, as long as no two threads have updated it at once.                  *)
THEOREM CountCorrect == Spec => []CountRight
<1>1. Init => CountInv /\ StartInv
  BY CountInit
<1>2. CountInv /\ StartInv /\ [Next]_vars => CountInv' /\ StartInv'
  BY CountKeeps, StartKept
<1>3. CountInv => CountRight
  BY DEF CountInv
<1> QED
  BY <1>1, <1>2, <1>3, PTL DEF Spec

-----------------------------------------------------------------------------
(***************************************************************************)
(* Type correctness, in three parts beside CountTypes: what main and the   *)
(* handler write, the files, and the packets.                              *)
(***************************************************************************)

USE DEF CoreStatus

ControlInv ==
    /\ core \in [Thread -> CoreStatus]
    /\ mainCore \in {"stop", "idle", "stop_request"}
    /\ mpc \in {"init", "wait_idle", "loop", "interrupted", "wait_stop",
                "exited"}
    /\ request \in CaptureStatus
    /\ ncmd \in 0 .. MaxCommand
    /\ clash \in BOOLEAN /\ late \in BOOLEAN

(* A file is open only after a capture has set the date.                    *)
FileInv ==
    /\ date \in Nat
    /\ capture \in CaptureStatus
    /\ capture = "running" => date # 0
    /\ file \in [Writer -> [name : [date : Nat, thread : Thread, no : Nat],
                            data : Seq(Packet)]]
    /\ \A w \in Writer : IsOpen(w) =>
          file[w].name.thread = w /\ file[w].name.no # 0 /\ date # 0
              /\ file[w].name.date # 0

(* What is in the ring and in the hands has been received, and who writes   *)
(* has a packet in hand.                                                    *)
PacketInv ==
    /\ rx \in 0 .. MaxPacket
    /\ ring \in Seq(1 .. rx) /\ Len(ring) <= RingSize
    /\ hand \in [Writer -> Seq(1 .. rx)]
    /\ \A w \in Writer : pc[w] = "write" => hand[w] # << >>
    /\ dropped \subseteq 1 .. rx

TypeInv == CountInv /\ StartInv /\ ControlInv /\ FileInv /\ PacketInv

LEMMA ControlKept ==
    ASSUME ControlInv, [Next]_vars
    PROVE  ControlInv'
<1> USE BoundAssumption DEF ControlInv
<1>1. CASE \E t \in Thread : ThreadStep(t)
  <2> PICK t \in Thread : ThreadStep(t)
    BY <1>1
  <2>1. CASE ThreadStart(t) \/ ThreadStop(t)
    BY <2>1 DEF ThreadStart, ThreadStop, mainVars, packetVars
  <2>2. CASE CountLoad(t) \/ CountUp(t) \/ CountDown(t)
    BY <2>2 DEF CountLoad, CountUp, CountDown, mainVars, packetVars
  <2>3. CASE t = Receiver /\ ReceiverStep
    <3>1. CASE ReceiverTop
      BY <3>1 DEF ReceiverTop, packetVars
    <3>2. CASE ReceiverStartsCapture
      BY <3>2 DEF ReceiverStartsCapture, mainVars, packetVars
    <3>3. CASE Receive
      BY <3>3 DEF Receive, mainVars
    <3>4. CASE ReceiverStopsCapture \/ ReceiverGoesOn \/ ReceiverGate
      BY <3>4 DEF ReceiverStopsCapture, ReceiverGoesOn, ReceiverGate,
                  mainVars, packetVars
    <3> QED
      BY <2>3, <3>1, <3>2, <3>3, <3>4 DEF ReceiverStep
  <2>4. CASE t \in Writer /\ WriterStep(t)
    <3>1. CASE WriterStartFails(t)
      BY <3>1 DEF WriterStartFails, mainVars, packetVars
    <3>2. CASE WriteFails(t) \/ RollFails(t)
      BY <3>2 DEF WriteFails, RollFails, WriterDies, mainVars
    <3>3. CASE WriterStarts(t) \/ WriterTakes(t) \/ WriterTakesNone(t)
                 \/ WriterEmpty(t) \/ WritePacket(t) \/ RollFile(t)
      BY <3>3 DEF WriterStarts, WriterTakes, WriterTakesNone, WriterEmpty,
                  WritePacket, RollFile, mainVars, packetVars
    <3> QED
      BY <2>4, <3>1, <3>2, <3>3 DEF WriterStep
  <2> QED
    BY <2>1, <2>2, <2>3, <2>4 DEF ThreadStep
<1>2. CASE MainStep
  BY <1>2 DEF MainStep, StartUp, WaitIdle, LoopEnds, Resume, WaitStop,
              AllSetTo, packetVars
<1>3. CASE Command
  <2>1. PICK words \in Request :
          LET verb == Decode(words) IN
          StartOrStop(verb) \/ Exit(verb) \/ Answer(verb)
    BY <1>3 DEF Command
  <2>2. \A verb \in DOMAIN RequestFor : RequestFor[verb] \in CaptureStatus
    BY DEF RequestFor
  <2>3. UNCHANGED <<clash, late>>
    BY <1>3 DEF Command, packetVars
  <2> QED
    BY <2>1, <2>2, <2>3 DEF StartOrStop, Exit, Answer, AllSetTo
<1>4. CASE Signal
  BY <1>4 DEF Signal, AllSetTo, packetVars
<1>5. CASE UNCHANGED vars
  BY <1>5 DEF vars, mainVars, packetVars
<1> QED
  BY <1>1, <1>2, <1>3, <1>4, <1>5 DEF Next, Exited

(* Steps that leave the files, or that only close one, are of no interest.  *)
LEMMA FileClosed ==
    ASSUME FileInv, UNCHANGED <<date, capture>>,
           UNCHANGED file
              \/ \E w \in Writer : file' = [file EXCEPT ![w] = NoFile]
    PROVE  FileInv'
<1> USE DEF FileInv, IsOpen
<1>1. NoFile \in [name : [date : Nat, thread : Thread, no : Nat],
                 data : Seq(Packet)]
  BY ThreadFacts DEF NoFile
<1> QED
  BY <1>1

(* A new file with a number gets a name.                                    *)
LEMMA FileOpened ==
    ASSUME FileInv, date # 0, UNCHANGED <<date, capture>>,
           NEW w \in Writer, NEW no \in Nat \ {0},
           file' = [file EXCEPT ![w] = NewFile(w, no)]
    PROVE  FileInv'
<1> USE DEF FileInv, IsOpen
<1>1. NewFile(w, no) \in [name : [date : Nat, thread : Thread, no : Nat],
                         data : Seq(Packet)]
  BY ThreadFacts DEF NewFile
<1>2. NewFile(w, no).name = [date |-> date, thread |-> w, no |-> no]
  BY DEF NewFile
<1> QED
  BY <1>1, <1>2

LEMMA FileKept ==
    ASSUME FileInv, PacketInv, CountInv, [Next]_vars
    PROVE  FileInv'
<1>1. CASE \E t \in Thread : ThreadStep(t)
  <2> PICK t \in Thread : ThreadStep(t)
    BY <1>1
  <2>1. CASE ThreadStart(t) \/ ThreadStop(t) \/ CountLoad(t) \/ CountUp(t)
    BY <2>1, FileClosed DEF ThreadStart, ThreadStop, CountLoad, CountUp,
                            fileVars
  <2>2. CASE CountDown(t)
    BY <2>2, FileClosed DEF CountDown
  <2>3. CASE t = Receiver /\ ReceiverStep
    <3>1. CASE ReceiverStartsCapture
      BY <3>1 DEF ReceiverStartsCapture, fileVars, FileInv, IsOpen
    <3>2. CASE ReceiverStopsCapture
      BY <3>2 DEF ReceiverStopsCapture, fileVars, FileInv, IsOpen
    <3>3. CASE ReceiverTop \/ Receive \/ ReceiverGoesOn \/ ReceiverGate
      BY <3>3, FileClosed DEF ReceiverTop, Receive, ReceiverGoesOn,
                              ReceiverGate, fileVars
    <3> QED
      BY <2>3, <3>1, <3>2, <3>3 DEF ReceiverStep
  <2>4. CASE t \in Writer /\ WriterStep(t)
    <3>1. CASE WriterStarts(t)
      <4>1. date # 0
        BY <3>1 DEF WriterStarts, FileInv
      <4>2. /\ UNCHANGED <<date, capture>>
            /\ file' = [file EXCEPT ![t] = NewFile(t, 1)]
            /\ 1 \in Nat \ {0}
        BY <3>1 DEF WriterStarts
      <4> QED
        BY <2>4, <3>1, <4>1, <4>2, FileOpened
    <3>2. CASE RollFile(t)
      <4>1. IsOpen(t)
        BY <3>2 DEF RollFile, FileFull
      <4>2. date # 0 /\ file[t].name.no + 1 \in Nat \ {0}
        BY <2>4, <4>1 DEF FileInv
      <4> QED
        BY <2>4, <3>2, <4>2, FileOpened DEF RollFile, NextFile
    <3>3. CASE WritePacket(t)
      <4>1. CASE ~IsOpen(t)
        BY <3>3, <4>1, FileClosed DEF WritePacket
      <4>2. CASE IsOpen(t)
        <5> DEFINE p == Head(hand[t])
                   data == Append(file[t].data, p)
        <5>1. p \in 1 .. rx
          BY <2>4, <3>3, HeadTailProperties DEF WritePacket, PacketInv
        <5>2. p \in Packet
          BY <5>1, BoundAssumption DEF PacketInv, Packet
        <5>3. data \in Seq(Packet)
          BY <2>4, <5>2, AppendProperties DEF FileInv
        <5>4. /\ file' = [file EXCEPT ![t].data = data]
              /\ UNCHANGED <<date, capture>>
          BY <3>3, <4>2 DEF WritePacket
        <5> DEFINE Rec == [name : [date : Nat, thread : Thread, no : Nat],
                           data : Seq(Packet)]
        <5>5. file[t] \in Rec
          BY <2>4 DEF FileInv
        <5> HIDE DEF data
        <5>6. /\ [file[t] EXCEPT !.data = data] \in Rec
              /\ [file[t] EXCEPT !.data = data].name = file[t].name
          BY <5>3, <5>5
        <5>7. file' = [file EXCEPT ![t] = [file[t] EXCEPT !.data = data]]
          BY <5>4
        <5> QED
          BY <2>4, <4>2, <5>4, <5>6, <5>7 DEF FileInv, IsOpen
      <4> QED
        BY <4>1, <4>2
    <3>4. CASE WriteFails(t) \/ RollFails(t)
      BY <2>4, <3>4, FileClosed DEF WriteFails, RollFails, WriterDies
    <3>5. CASE WriterStartFails(t) \/ WriterTakes(t) \/ WriterTakesNone(t)
                 \/ WriterEmpty(t)
      BY <3>5, FileClosed DEF WriterStartFails, WriterTakes, WriterTakesNone,
                              WriterEmpty, fileVars
    <3> QED
      BY <2>4, <3>1, <3>2, <3>3, <3>4, <3>5 DEF WriterStep
  <2> QED
    BY <2>1, <2>2, <2>3, <2>4 DEF ThreadStep
<1>2. CASE MainStep \/ Command \/ Signal \/ UNCHANGED vars
  BY <1>2, FileClosed DEF MainStep, StartUp, WaitIdle, LoopEnds, Resume,
         WaitStop, Command, Signal, vars, fileVars
<1> QED
  BY <1>1, <1>2 DEF Next, Exited

(* Steps that move no packet, and take no writer to where it needs one.     *)
LEMMA PacketsStay ==
    ASSUME PacketInv, UNCHANGED <<rx, ring, hand, dropped>>,
           \A w \in Writer : pc'[w] = "write" => pc[w] = "write"
    PROVE  PacketInv'
BY DEF PacketInv

(* A burst fills the ring as far as it goes; the rest is dropped.           *)
LEMMA ReceiveKeeps ==
    ASSUME PacketInv, CountInv, Receive
    PROVE  PacketInv'
<1> USE SizeAssumption, BoundAssumption DEF PacketInv
<1> PICK n \in 0 .. Lesser(Burst, MaxPacket - rx) :
      LET kept == Lesser(n, RingSlots) IN
      /\ ring' = ring \o [k \in 1 .. kept |-> rx + k]
      /\ dropped' = dropped \cup (rx + kept + 1 .. rx + n)
      /\ rx' = rx + n
  BY DEF Receive
<1> DEFINE kept == Lesser(n, RingSlots)
           burst == [k \in 1 .. kept |-> rx + k]
<1>1. rx \in Nat /\ MaxPacket - rx \in Nat /\ Len(ring) \in Nat
  BY LenProperties
<1>2. n \in Nat /\ n <= MaxPacket - rx
  BY <1>1 DEF Lesser
<1>3. kept \in 0 .. n /\ kept <= RingSize - Len(ring)
  BY <1>1, <1>2 DEF Lesser, RingSlots
<1> HIDE DEF kept
<1>4. rx' \in 0 .. MaxPacket /\ 1 .. rx \subseteq 1 .. rx'
  BY <1>1, <1>2
<1>5. burst \in Seq(1 .. rx') /\ Len(burst) = kept
  <2>1. \A k \in 1 .. kept : rx + k \in 1 .. rx'
    BY <1>1, <1>2, <1>3
  <2> QED
    BY <1>3, <2>1, IsASeq
<1>6. ring \in Seq(1 .. rx') /\ hand \in [Writer -> Seq(1 .. rx')]
  BY <1>4
<1>7. ring' \in Seq(1 .. rx') /\ Len(ring') = Len(ring) + kept
  <2>1. ring' = ring \o burst
    BY DEF kept
  <2> HIDE DEF burst
  <2>2. /\ ring \o burst \in Seq(1 .. rx')
        /\ Len(ring \o burst) = Len(ring) + Len(burst)
    BY <1>5, <1>6, ConcatProperties, Zenon
  <2> QED
    BY <1>5, <2>1, <2>2
<1>8. dropped' \subseteq 1 .. rx'
  <2>1. rx + kept + 1 .. rx + n \subseteq 1 .. rx'
    BY <1>1, <1>2, <1>3
  <2>2. dropped' = dropped \cup (rx + kept + 1 .. rx + n)
    BY DEF kept
  <2> QED
    BY <1>4, <2>1, <2>2
<1>9. hand' = hand /\ \A w \in Writer : pc'[w] = "write" => pc[w] = "write"
  BY ThreadFacts DEF Receive, Goto, CountInv
<1>10. Len(ring') <= RingSize
  <2>1. kept \in Nat /\ kept <= RingSize - Len(ring)
    BY <1>2, <1>3
  <2>2. Len(ring) \in Nat /\ RingSize \in Nat
    BY <1>1
  <2>3. Len(ring') = Len(ring) + kept
    BY <1>7
  <2> QED
    BY ONLY <2>1, <2>2, <2>3, SMT
<1> QED
  BY <1>4, <1>6, <1>7, <1>8, <1>9, <1>10

(* What a writer takes leaves the ring.                                     *)
LEMMA TakesKeeps ==
    ASSUME PacketInv, CountInv, NEW w \in Writer, WriterTakes(w)
    PROVE  PacketInv'
<1> USE SizeAssumption DEF PacketInv
<1> DEFINE n == Lesser(Burst, Len(ring))
           s == SubSeq(ring, 1, n)
           r == SubSeq(ring, n + 1, Len(ring))
<1>1. Len(ring) \in Nat \ {0} /\ ring \in [1 .. Len(ring) -> 1 .. rx]
  BY LenProperties, EmptySeq DEF WriterTakes
<1>2. n \in 1 .. Len(ring)
  BY <1>1 DEF Lesser
<1> HIDE DEF n
<1>3. s \in Seq(1 .. rx) /\ Len(s) = n
  <2>1. \A i \in 1 .. n : ring[i] \in 1 .. rx
    BY <1>1, <1>2
  <2> QED
    BY <1>2, <2>1, SubSeqProperties
<1>4. r \in Seq(1 .. rx) /\ Len(r) <= RingSize
  <2>1. \A i \in n + 1 .. Len(ring) : ring[i] \in 1 .. rx
    BY <1>1, <1>2
  <2>2. r \in Seq(1 .. rx)
          /\ Len(r) = IF n + 1 <= Len(ring) THEN Len(ring) - (n + 1) + 1
                                            ELSE 0
    BY <1>1, <1>2, <2>1, SubSeqProperties
  <2> QED
    BY <1>1, <1>2, <2>2
<1>5. s # << >>
  BY <1>2, <1>3
<1>6. hand' = [hand EXCEPT ![w] = s] /\ ring' = r
        /\ rx' = rx /\ dropped' = dropped
        /\ \A v \in Writer \ {w} : pc'[v] = pc[v]
  BY ThreadFacts DEF WriterTakes, Goto, CountInv, n
<1> HIDE DEF s, r
<1> QED
  BY <1>3, <1>4, <1>5, <1>6

(* A packet that is written leaves the hand; with the last one the writer   *)
(* goes back to the ring.                                                   *)
LEMMA WriteKeeps ==
    ASSUME PacketInv, CountInv, NEW w \in Writer, WritePacket(w)
    PROVE  PacketInv'
<1> USE DEF PacketInv
<1>1. Tail(hand[w]) \in Seq(1 .. rx)
  BY HeadTailProperties DEF WritePacket
<1>2. hand' = [hand EXCEPT ![w] = Tail(hand[w])]
  BY DEF WritePacket
<1>3. pc'[w] = "write" => Tail(hand[w]) # << >>
  BY ThreadFacts DEF WritePacket, Goto, CountInv
<1>4. \A v \in Writer \ {w} : pc'[v] = pc[v]
  BY ThreadFacts DEF WritePacket, Goto, CountInv
<1>5. UNCHANGED <<rx, ring, dropped>>
  BY DEF WritePacket
<1> QED
  BY <1>1, <1>2, <1>3, <1>4, <1>5

(* A writer that dies drops its burst.                                      *)
LEMMA DeathKeeps ==
    ASSUME PacketInv, CountInv, NEW w \in Writer, WriterDies(w)
    PROVE  PacketInv'
<1> USE DEF PacketInv
<1>1. \A k \in 1 .. Len(hand[w]) : hand[w][k] \in 1 .. rx
  BY LenProperties
<1>2. dropped' \subseteq 1 .. rx
  BY <1>1 DEF WriterDies
<1>3. hand' = [hand EXCEPT ![w] = << >>] /\ << >> \in Seq(1 .. rx)
  BY DEF WriterDies
<1>4. \A v \in Writer : pc'[v] = "write" => pc[v] = "write" /\ v # w
  BY ThreadFacts DEF WriterDies, Goto, CountInv
<1>5. UNCHANGED <<rx, ring>>
  BY DEF WriterDies
<1> QED
  BY <1>2, <1>3, <1>4, <1>5

LEMMA PacketKept ==
    ASSUME PacketInv, CountInv, [Next]_vars
    PROVE  PacketInv'
<1>1. CASE \E t \in Thread : ThreadStep(t)
  <2> PICK t \in Thread : ThreadStep(t)
    BY <1>1
  <2> USE ThreadFacts DEF Goto, CountInv, packetVars
  <2>1. CASE ThreadStart(t) \/ ThreadStop(t)
    BY <2>1, PacketsStay DEF ThreadStart, ThreadStop
  <2>2. CASE CountLoad(t) \/ CountUp(t) \/ CountDown(t)
    BY <2>2, PacketsStay DEF CountLoad, CountUp, CountDown
  <2>3. CASE t = Receiver /\ ReceiverStep
    <3>1. CASE ReceiverTop \/ ReceiverStopsCapture \/ ReceiverStartsCapture
      BY <2>3, <3>1, PacketsStay DEF ReceiverTop, ReceiverStopsCapture,
                                     ReceiverStartsCapture
    <3>2. CASE ReceiverGoesOn \/ ReceiverGate
      BY <2>3, <3>2, PacketsStay DEF ReceiverGoesOn, ReceiverGate
    <3> QED
      BY <2>3, <3>1, <3>2, ReceiveKeeps DEF ReceiverStep
  <2>4. CASE t \in Writer /\ WriterStep(t)
    <3>1. CASE WriterStarts(t) \/ WriterStartFails(t)
      BY <2>4, <3>1, PacketsStay DEF WriterStarts, WriterStartFails
    <3>2. CASE WriterTakesNone(t) \/ WriterEmpty(t) \/ RollFile(t)
      BY <2>4, <3>2, PacketsStay DEF WriterTakesNone, WriterEmpty, RollFile
    <3>3. CASE WriteFails(t) \/ RollFails(t)
      BY <2>4, <3>3, DeathKeeps DEF WriteFails, RollFails
    <3> QED
      BY <2>4, <3>1, <3>2, <3>3, TakesKeeps, WriteKeeps DEF WriterStep
  <2> QED
    BY <2>1, <2>2, <2>3, <2>4 DEF ThreadStep
<1>2. CASE MainStep \/ Command \/ Signal \/ UNCHANGED vars
  <2>1. UNCHANGED <<rx, ring, hand, dropped>>
    BY <1>2 DEF MainStep, StartUp, WaitIdle, LoopEnds, Resume, WaitStop,
                Command, Signal, vars, packetVars
  <2>2. \A w \in Writer : pc'[w] = "write" => pc[w] = "write"
    BY <1>2, ThreadFacts DEF MainStep, StartUp, WaitIdle, LoopEnds, Resume,
                WaitStop, Command, Signal, vars
  <2> QED
    BY <2>1, <2>2, PacketsStay
<1> QED
  BY <1>1, <1>2 DEF Next, Exited

(* The types of spp_pcap's state, and how far a thread is in its capture:   *)
(* its status, its file and its count go with its place.                    *)
THEOREM TypeInvariant == Spec => []TypeInv
<1>1. Init => TypeInv
  <2> SUFFICES ASSUME Init
               PROVE  TypeInv
    OBVIOUS
  <2>1. CountInv /\ StartInv
    BY CountInit
  <2>2. ControlInv
    <3>1. /\ core = [t \in Thread |-> "stop"] /\ mainCore = "stop"
          /\ mpc = "init" /\ request = "idle" /\ ncmd = 0
          /\ clash = FALSE /\ late = FALSE
      BY DEF Init
    <3>2. core \in [Thread -> CoreStatus]
      BY <3>1
    <3>3. ncmd \in 0 .. MaxCommand
      BY <3>1, BoundAssumption
    <3> QED
      BY <3>1, <3>2, <3>3 DEF ControlInv
  <2>3. FileInv
    <3>1. NoFile \in [name : [date : Nat, thread : Thread, no : Nat],
                     data : Seq(Packet)]
      BY ThreadFacts DEF NoFile
    <3> QED
      BY <3>1 DEF Init, FileInv, IsOpen
  <2>4. PacketInv
    <3>1. /\ rx = 0 /\ ring = << >> /\ dropped = {}
          /\ hand = [w \in Writer |-> << >>]
          /\ \A w \in Writer : pc[w] = "none"
      BY ThreadFacts DEF Init
    <3>2. << >> \in Seq(1 .. rx) /\ Len(<< >>) = 0
      OBVIOUS
    <3> QED
      BY <3>1, <3>2, BoundAssumption, SizeAssumption DEF PacketInv
  <2> QED
    BY <2>1, <2>2, <2>3, <2>4 DEF TypeInv
<1>2. TypeInv /\ [Next]_vars => TypeInv'
  BY CountKeeps, StartKept, ControlKept, FileKept, PacketKept DEF TypeInv
<1> QED
  BY <1>1, <1>2, PTL DEF Spec

(* The variables of spp_pcap have their types: the ring never holds more    *)
(* than its size, open files carry the name of their writer, and only       *)
(* packets that were received can be dropped.                               *)
THEOREM TypeCorrect == Spec => []TypeOK
<1>1. TypeInv => TypeOK
  <2> SUFFICES ASSUME TypeInv
               PROVE  TypeOK
    OBVIOUS
  <2>1. \A w \in Writer : IsOpen(w) => /\ file[w].name.thread = w
                                       /\ file[w].name.no \in Nat \ {0}
                                       /\ file[w].name.date \in Nat \ {0}
    BY DEF TypeInv, FileInv
  <2>2. 1 .. rx \subseteq Packet
    BY BoundAssumption DEF TypeInv, PacketInv, Packet
  <2>3. ring \in Seq(Packet) /\ hand \in [Writer -> Seq(Packet)]
    BY <2>2 DEF TypeInv, PacketInv
  <2> QED
    BY <2>1, <2>3 DEF TypeInv, CountInv, ControlInv, FileInv, PacketInv,
                      TypeOK
<1> QED
  BY <1>1, TypeInvariant, PTL

-----------------------------------------------------------------------------
(***************************************************************************)
(* Packets.  First what sequences contain.                                 *)
(***************************************************************************)

HIDE DEF CountTypes, PlaceInv, TakesPart, Place, Ended, ReceiverPlace,
         WriterPlace, CountPlace, RunningPlace, IdlePlace, CaptureStatus,
         CoreStatus

Distinct(s) == \A j, k \in 1 .. Len(s) : s[j] = s[k] => j = k

LEMMA ContainsAppend ==
    ASSUME NEW S, NEW s \in Seq(S), NEW x \in S, NEW p
    PROVE  Contains(Append(s, x), p) <=> Contains(s, p) \/ p = x
<1>1. PICK t \in Seq(S) : t = Append(s, x)
  BY AppendProperties
<1>2. /\ Len(s) \in Nat /\ Len(t) = Len(s) + 1 /\ t[Len(s) + 1] = x
      /\ \A k \in 1 .. Len(s) : t[k] = s[k]
  BY <1>1
<1>3. \A k \in 1 .. Len(t) : k \in 1 .. Len(s) \/ k = Len(s) + 1
  BY <1>2
<1>4. 1 .. Len(s) \subseteq 1 .. Len(t) /\ Len(s) + 1 \in 1 .. Len(t)
  BY <1>2
<1> QED BY <1>1, <1>2, <1>3, <1>4 DEF Contains

LEMMA ContainsConcat ==
    ASSUME NEW S, NEW s \in Seq(S), NEW u \in Seq(S), NEW p
    PROVE  Contains(s \o u, p) <=> Contains(s, p) \/ Contains(u, p)
<1>1. PICK t \in Seq(S) : t = s \o u
  BY ConcatProperties
<1>2. /\ Len(s) \in Nat /\ Len(u) \in Nat /\ Len(t) = Len(s) + Len(u)
      /\ \A k \in 1 .. Len(s) : t[k] = s[k]
      /\ \A k \in 1 .. Len(u) : t[Len(s) + k] = u[k]
  BY <1>1
<1>3. \A k \in 1 .. Len(t) :
        k \in 1 .. Len(s) \/ \E j \in 1 .. Len(u) : k = Len(s) + j
  <2>1. ASSUME NEW k \in 1 .. Len(t), k \notin 1 .. Len(s)
        PROVE  k - Len(s) \in 1 .. Len(u) /\ k = Len(s) + (k - Len(s))
    BY <1>2, <2>1
  <2> QED BY <2>1
<1>4. /\ 1 .. Len(s) \subseteq 1 .. Len(t)
      /\ \A k \in 1 .. Len(u) : Len(s) + k \in 1 .. Len(t)
  BY <1>2
<1>5. Contains(s, p) => Contains(t, p)
  BY <1>2, <1>4 DEF Contains
<1>6. Contains(u, p) => Contains(t, p)
  BY <1>2, <1>4 DEF Contains
<1>7. Contains(t, p) => Contains(s, p) \/ Contains(u, p)
  BY <1>2, <1>3 DEF Contains
<1> QED BY <1>1, <1>5, <1>6, <1>7

LEMMA DistinctConcat ==
    ASSUME NEW S, NEW s \in Seq(S), NEW u \in Seq(S), Distinct(s), Distinct(u),
           \A p : ~ (Contains(s, p) /\ Contains(u, p))
    PROVE  Distinct(s \o u)
<1>1. PICK t \in Seq(S) : t = s \o u
  BY ConcatProperties
<1>2. /\ Len(s) \in Nat /\ Len(u) \in Nat /\ Len(t) = Len(s) + Len(u)
      /\ \A k \in 1 .. Len(s) : t[k] = s[k]
      /\ \A k \in 1 .. Len(u) : t[Len(s) + k] = u[k]
  BY <1>1
<1>3. ASSUME NEW k \in 1 .. Len(t)
      PROVE  \/ k \in 1 .. Len(s) /\ t[k] = s[k]
             \/ k - Len(s) \in 1 .. Len(u) /\ t[k] = u[k - Len(s)]
  <2>1. CASE k \in 1 .. Len(s)
    BY <1>2, <2>1
  <2>2. CASE k \notin 1 .. Len(s)
    <3>1. PICK j : j = k - Len(s)
      OBVIOUS
    <3>2. j \in 1 .. Len(u) /\ k = Len(s) + j
      BY <1>2, <2>2, <3>1
    <3> QED BY <1>2, <3>1, <3>2
  <2> QED BY <2>1, <2>2
<1>4. ASSUME NEW j \in 1 .. Len(t), NEW k \in 1 .. Len(t), t[j] = t[k]
      PROVE  j = k
  <2>1. CASE j \in 1 .. Len(s) /\ t[j] = s[j] /\ k \in 1 .. Len(s) /\ t[k] = s[k]
    BY <1>4, <2>1 DEF Distinct
  <2>2. CASE /\ j - Len(s) \in 1 .. Len(u) /\ t[j] = u[j - Len(s)]
             /\ k - Len(s) \in 1 .. Len(u) /\ t[k] = u[k - Len(s)]
    <3>1. PICK i, l : i = j - Len(s) /\ l = k - Len(s)
      OBVIOUS
    <3>2. i = l
      BY <1>4, <2>2, <3>1 DEF Distinct
    <3> QED BY <1>2, <3>1, <3>2
  <2>3. CASE /\ j \in 1 .. Len(s) /\ t[j] = s[j]
             /\ k - Len(s) \in 1 .. Len(u) /\ t[k] = u[k - Len(s)]
    BY <1>4, <2>3 DEF Contains
  <2>4. CASE /\ k \in 1 .. Len(s) /\ t[k] = s[k]
             /\ j - Len(s) \in 1 .. Len(u) /\ t[j] = u[j - Len(s)]
    BY <1>4, <2>4 DEF Contains
  <2> QED BY <1>3, <2>1, <2>2, <2>3, <2>4
<1> QED BY <1>1, <1>4 DEF Distinct

(* The parts of a sequence share nothing. *)
LEMMA SplitIs ==
    ASSUME NEW S, NEW t \in Seq(S), NEW n \in 0 .. Len(t), Distinct(t)
    PROVE  LET s == SubSeq(t, 1, n)
               u == SubSeq(t, n + 1, Len(t))
           IN  /\ s \in Seq(S) /\ u \in Seq(S) /\ Distinct(s) /\ Distinct(u)
               /\ \A p : /\ Contains(t, p) <=> Contains(s, p) \/ Contains(u, p)
                         /\ ~ (Contains(s, p) /\ Contains(u, p))
<1>1. Len(t) \in Nat /\ n \in Nat /\ n <= Len(t)
  OBVIOUS
<1>2. \A k \in 1 .. Len(t) : t[k] \in S
  OBVIOUS
<1>3. PICK s : s = SubSeq(t, 1, n)
  OBVIOUS
<1>4. PICK u : u = SubSeq(t, n + 1, Len(t))
  OBVIOUS
<1>5. s \in Seq(S) /\ Len(s) = n /\ \A k \in 1 .. n : s[k] = t[k]
  BY <1>1, <1>3
<1>6. /\ u \in Seq(S) /\ Len(u) = Len(t) - n
      /\ \A k \in 1 .. Len(u) : u[k] = t[n + k]
  BY <1>1, <1>4
<1>7. Distinct(s)
  BY <1>1, <1>5 DEF Distinct
<1>8. Distinct(u)
  <2>1. ASSUME NEW j \in 1 .. Len(u), NEW k \in 1 .. Len(u), u[j] = u[k]
        PROVE  j = k
    <3>1. n + j \in 1 .. Len(t) /\ n + k \in 1 .. Len(t)
      BY <1>1, <1>6
    <3>2. t[n + j] = t[n + k]
      BY <1>6, <2>1
    <3>3. n + j = n + k
      BY <3>1, <3>2 DEF Distinct
    <3> QED BY <1>1, <1>6, <3>3
  <2> QED BY <2>1 DEF Distinct
<1>9. ASSUME NEW p
      PROVE  /\ Contains(t, p) <=> Contains(s, p) \/ Contains(u, p)
             /\ ~ (Contains(s, p) /\ Contains(u, p))
  <2>1. ASSUME Contains(s, p)
        PROVE  Contains(t, p)
    BY <1>1, <1>5, <2>1 DEF Contains
  <2>2. ASSUME Contains(u, p)
        PROVE  \E k \in 1 .. Len(t) : k > n /\ t[k] = p
    <3>1. PICK j \in 1 .. Len(u) : u[j] = p
      BY <2>2 DEF Contains
    <3>2. n + j \in 1 .. Len(t) /\ n + j > n
      BY <1>1, <1>6
    <3> QED BY <1>6, <3>1, <3>2
  <2>3. ASSUME NEW k \in 1 .. Len(t), t[k] = p, k > n
        PROVE  Contains(u, p)
    <3>1. PICK j : j = k - n
      OBVIOUS
    <3>2. j \in 1 .. Len(u) /\ n + j = k
      BY <1>1, <1>6, <2>3, <3>1
    <3> QED BY <1>6, <2>3, <3>2 DEF Contains
  <2>4. ASSUME NEW k \in 1 .. Len(t), t[k] = p, k <= n
        PROVE  Contains(s, p)
    BY <1>1, <1>5, <2>4 DEF Contains
  <2>5. ASSUME Contains(s, p), Contains(u, p)
        PROVE  FALSE
    <3>1. PICK k \in 1 .. Len(t) : k <= n /\ t[k] = p
      BY <1>1, <1>5, <2>5 DEF Contains
    <3>2. PICK j \in 1 .. Len(t) : j > n /\ t[j] = p
      BY <2>2, <2>5
    <3>3. j = k
      BY <3>1, <3>2 DEF Distinct
    <3> QED BY <1>1, <3>1, <3>2, <3>3
  <2>6. Contains(t, p) => Contains(s, p) \/ Contains(u, p)
    <3>1. ASSUME NEW k \in 1 .. Len(t), t[k] = p
          PROVE  Contains(s, p) \/ Contains(u, p)
      <4>1. k > n \/ k <= n
        BY <1>1
      <4> QED BY <2>3, <2>4, <3>1, <4>1
    <3> QED BY <3>1 DEF Contains
  <2>7. Contains(u, p) => Contains(t, p)
    BY <2>2 DEF Contains
  <2> QED BY <2>1, <2>5, <2>6, <2>7
<1> QED BY <1>3, <1>4, <1>5, <1>6, <1>7, <1>8, <1>9

LEMMA HeadOff ==
    ASSUME NEW S, NEW t \in Seq(S), t # << >>, Distinct(t)
    PROVE  /\ Tail(t) \in Seq(S) /\ Distinct(Tail(t)) /\ Head(t) \in S
           /\ \A p : Contains(Tail(t), p) <=> Contains(t, p) /\ p # Head(t)
<1>1. Len(t) \in Nat \ {0}
  OBVIOUS
<1>2. PICK u \in Seq(S) : u = Tail(t)
  BY HeadTailProperties
<1>3. PICK h \in S : h = Head(t) /\ h = t[1]
  BY <1>1
<1>4. Len(u) = Len(t) - 1 /\ \A k \in 1 .. Len(u) : u[k] = t[k + 1]
  BY <1>1, <1>2
<1>5. Distinct(u)
  <2>1. ASSUME NEW j \in 1 .. Len(u), NEW k \in 1 .. Len(u), u[j] = u[k]
        PROVE  j = k
    <3>1. j + 1 \in 1 .. Len(t) /\ k + 1 \in 1 .. Len(t)
      BY <1>1, <1>4
    <3>2. j + 1 = k + 1
      BY <1>4, <2>1, <3>1 DEF Distinct
    <3> QED BY <1>1, <1>4, <3>2
  <2> QED BY <2>1 DEF Distinct
<1>6. ASSUME NEW p
      PROVE  Contains(u, p) <=> Contains(t, p) /\ p # h
  <2>1. ASSUME NEW k \in 1 .. Len(u), u[k] = p
        PROVE  Contains(t, p) /\ p # h
    <3>1. k + 1 \in 1 .. Len(t) /\ 1 \in 1 .. Len(t) /\ k + 1 # 1
      BY <1>1, <1>4
    <3>2. t[k + 1] = p
      BY <1>4, <2>1
    <3> QED BY <1>3, <3>1, <3>2 DEF Contains, Distinct
  <2>2. ASSUME NEW k \in 1 .. Len(t), t[k] = p, p # h
        PROVE  Contains(u, p)
    <3>1. PICK j : j = k - 1
      OBVIOUS
    <3>2. k # 1
      BY <1>3, <2>2
    <3>3. j \in 1 .. Len(u) /\ k = j + 1
      BY <1>1, <1>4, <3>1, <3>2
    <3> QED BY <1>4, <2>2, <3>3 DEF Contains
  <2> QED BY <2>1, <2>2 DEF Contains
<1> QED BY <1>2, <1>3, <1>5, <1>6

-----------------------------------------------------------------------------
(* A writer has a file open from its start in a capture to its end, and     *)
(* packets in hand only to write them.                                      *)
OpenPlace == {"inc", "inc_store", "take", "empty", "write", "dec", "dec_store"}

OpenInv ==
    \A w \in Writer :
        /\ IsOpen(w) <=> pc[w] \in OpenPlace
        /\ pc[w] # "write" => hand[w] = << >>

(* If no packet came while a writer could miss it, then all that go on are  *)
(* in the capture as long as there are packets in the ring.                 *)
DrainInv ==
    ~late /\ ring # << >> =>
        \A w \in Writer : \/ pc[w] \in Ended
                          \/ status[w] = "running" /\ pc[w] # "empty"

(* The files on disk and, if no capture began in the second of the one      *)
(* before, their names: a writer opens files with later and later names,    *)
(* and one that is to begin has no file of the day yet.                     *)
Record == [name : [date : Nat, thread : Thread, no : Nat], data : Seq(Packet)]
Kept   == saved \cup left

Older(m, n) == m.date < n.date \/ (m.date = n.date /\ m.no < n.no)

OlderThan(w, n) == \A f \in Kept : f.name.thread = w => Older(f.name, n)
Before(w)  == \A f \in Kept : f.name.thread = w => f.name.date < date
Waits(w)   == capture = "running" /\ status[w] = "idle" /\ pc[w] \notin Ended

Named(w) ==
    /\ IsOpen(w) => /\ file[w].name.date <= date
                    /\ OlderThan(w, file[w].name)
    /\ Waits(w) => Before(w) /\ (IsOpen(w) => file[w].name.date < date)

NameInv == /\ \A f \in Kept : f.name.date <= date
           /\ \A w \in Writer : Named(w)

KeptInv == Kept \subseteq Record

(* A packet is in one place, or was dropped.                                *)
Holds(f, p) == f \in Files /\ Contains(f.data, p)

Once(p) ==
    /\ \A w \in Writer : ~ (Contains(ring, p) /\ Contains(hand[w], p))
    /\ \A f : Holds(f, p) => /\ ~Contains(ring, p)
                             /\ \A w \in Writer : ~Contains(hand[w], p)
    /\ \A v, w \in Writer : Contains(hand[v], p) /\ Contains(hand[w], p) => v = w
    /\ \A f, g : Holds(f, p) /\ Holds(g, p) => f = g
    /\ p \in dropped <=> /\ ~Contains(ring, p)
                         /\ \A w \in Writer : ~Contains(hand[w], p)
                         /\ \A f : ~Holds(f, p)

HoldInv == /\ Distinct(ring)
           /\ \A w \in Writer : Distinct(hand[w])
           /\ \A f, p : Holds(f, p) => p \in 1 .. rx
           /\ \A p \in 1 .. rx : Once(p)

KeepInv == /\ TypeInv /\ OpenInv /\ DrainInv /\ KeptInv
           /\ ~clash => NameInv /\ HoldInv

(* What the types say of a writer. *)
LEMMA WriterFacts ==
    ASSUME TypeInv, NEW w \in Writer
    PROVE  /\ w \in Thread /\ w # Receiver
           /\ file[w] \in Record /\ hand[w] \in Seq(1 .. rx)
           /\ pc[w] \in Place /\ status[w] \in CaptureStatus
           /\ IsOpen(w) => file[w].name.thread = w
           /\ pc[w] = "write" => hand[w] # << >>
           /\ pc[w] \in RunningPlace => status[w] = "running"
           /\ pc[w] \in IdlePlace \cup {"top"} => status[w] = "idle"
  BY ThreadFacts DEF TypeInv, CountInv, CountTypes, PlaceInv, FileInv, PacketInv,
                     Record

(* How a step of one thread leaves the others.                              *)
LEMMA OnlyOne ==
    ASSUME TypeInv, NEW t \in Thread, NEW place, pc' = [pc EXCEPT ![t] = place]
    PROVE  /\ pc'[t] = place
           /\ \A u \in Thread : u # t => pc'[u] = pc[u]
  BY DEF TypeInv, CountInv, CountTypes

LEMMA OnlyStatus ==
    ASSUME TypeInv, NEW t \in Thread, NEW s, status' = [status EXCEPT ![t] = s]
    PROVE  /\ status'[t] = s
           /\ \A u \in Thread : u # t => status'[u] = status[u]
  BY DEF TypeInv, CountInv, CountTypes

LEMMA OnlyFile ==
    ASSUME TypeInv, NEW w \in Writer, NEW f, file' = [file EXCEPT ![w] = f]
    PROVE  /\ file'[w] = f
           /\ \A v \in Writer : v # w => file'[v] = file[v]
  BY DEF TypeInv, FileInv

LEMMA OnlyHand ==
    ASSUME TypeInv, NEW w \in Writer, NEW s, hand' = [hand EXCEPT ![w] = s]
    PROVE  /\ hand'[w] = s
           /\ \A v \in Writer : v # w => hand'[v] = hand[v]
  BY DEF TypeInv, PacketInv

(* Main, the signal handler and commands touch none of it but for the       *)
(* launch.                                                                  *)
OuterStep == MainStep \/ Command \/ Signal \/ UNCHANGED vars

LEMMA OuterIs ==
    ASSUME TypeInv, OuterStep
    PROVE  /\ UNCHANGED <<capture, date, status, file, saved, left, ring, hand, rx,
                          dropped, late, clash>>
           /\ \/ pc' = pc
              \/ /\ \A t \in Thread : pc[t] = "none"
                 /\ pc' = [t \in Thread |-> "launched"]
<1>1. CASE StartUp
  BY <1>1 DEF StartUp, TypeInv, StartInv, fileVars, packetVars
<1>2. CASE WaitIdle \/ LoopEnds \/ Resume \/ WaitStop \/ Command \/ Signal
  BY <1>2 DEF WaitIdle, LoopEnds, Resume, WaitStop, Command, Signal, fileVars,
              packetVars
<1>3. CASE UNCHANGED vars
  BY <1>3 DEF vars, fileVars, packetVars
<1> QED BY <1>1, <1>2, <1>3 DEF OuterStep, MainStep

LEMMA NextIs ==
    ASSUME [Next]_vars
    PROVE  OuterStep \/ \E t \in Thread : ThreadStep(t)
  BY DEF Next, Exited, OuterStep

(* The steps that move no packet and touch no file. *)
IdleStep(t) ==
    \/ ThreadStart(t) \/ ThreadStop(t) \/ CountLoad(t) \/ CountUp(t)
    \/ CountDown(t) /\ ~ (t \in Writer /\ IsOpen(t))
    \/ /\ t = Receiver
       /\ \/ ReceiverTop \/ ReceiverStopsCapture \/ ReceiverGoesOn \/ ReceiverGate
    \/ t \in Writer /\ (WriterTakesNone(t) \/ WriterEmpty(t))

LEMMA IdleIs ==
    ASSUME TypeInv, NEW t \in Thread, IdleStep(t)
    PROVE  /\ UNCHANGED <<date, file, saved, left, ring, hand, rx, dropped, late,
                          clash>>
           /\ \A u \in Thread : u # t => pc'[u] = pc[u] /\ status'[u] = status[u]
           /\ capture' = capture \/ capture' = "idle"
           /\ t \in Writer => capture' = capture
<1> USE DEF Goto
<1>1. CASE ThreadStart(t) \/ ThreadStop(t) \/ CountLoad(t) \/ CountUp(t)
  BY <1>1, OnlyOne DEF ThreadStart, ThreadStop, CountLoad, CountUp, fileVars,
                       packetVars
<1>2. CASE CountDown(t) /\ ~ (t \in Writer /\ IsOpen(t))
  BY <1>2, OnlyOne DEF CountDown, packetVars
<1>3. CASE t = Receiver /\ (ReceiverTop \/ ReceiverStopsCapture
                             \/ ReceiverGoesOn \/ ReceiverGate)
  <2>1. t \notin Writer
    BY <1>3, ThreadFacts
  <2> QED BY <1>3, <2>1, OnlyOne, OnlyStatus
          DEF ReceiverTop, ReceiverStopsCapture, ReceiverGoesOn, ReceiverGate,
              fileVars, packetVars
<1>4. CASE t \in Writer /\ WriterTakesNone(t)
  BY <1>4, OnlyOne DEF WriterTakesNone, fileVars, packetVars
<1>5. CASE t \in Writer /\ WriterEmpty(t)
  BY <1>5, OnlyOne, OnlyStatus DEF WriterEmpty, fileVars, packetVars
<1> QED BY <1>1, <1>2, <1>3, <1>4, <1>5 DEF IdleStep

LEMMA ThreadStepIs ==
    ASSUME NEW t \in Thread, ThreadStep(t)
    PROVE  \/ IdleStep(t)
           \/ t \in Writer /\ IsOpen(t) /\ CountDown(t)
           \/ t = Receiver /\ (ReceiverStartsCapture \/ Receive)
           \/ /\ t \in Writer
              /\ \/ WriterStarts(t) \/ WriterStartFails(t) \/ WriterTakes(t)
                 \/ WritePacket(t) \/ RollFile(t) \/ WriteFails(t) \/ RollFails(t)
  BY DEF ThreadStep, IdleStep, ReceiverStep, WriterStep

LEMMA OpenOthers ==
    ASSUME TypeInv, OpenInv, NEW w \in Writer,
           \A v \in Writer : v # w => /\ pc'[v] = pc[v] /\ file'[v] = file[v]
                                      /\ hand'[v] = hand[v],
           IsOpen(w)' <=> pc'[w] \in OpenPlace,
           pc'[w] # "write" => hand'[w] = << >>
    PROVE  OpenInv'
<1>1. ASSUME NEW v \in Writer, v # w
      PROVE  /\ IsOpen(v)' <=> pc'[v] \in OpenPlace
             /\ pc'[v] # "write" => hand'[v] = << >>
  BY <1>1 DEF OpenInv, IsOpen
<1> QED BY <1>1 DEF OpenInv

LEMMA OpenSame ==
    ASSUME OpenInv, UNCHANGED <<pc, file, hand>>
    PROVE  OpenInv'
  BY DEF OpenInv, IsOpen

LEMMA IdleOpen ==
    ASSUME TypeInv, OpenInv, NEW t \in Thread, IdleStep(t)
    PROVE  OpenInv'
<1>1. /\ UNCHANGED <<file, hand>>
      /\ \A u \in Thread : u # t => pc'[u] = pc[u]
  BY IdleIs
<1>2. CASE t \notin Writer
  <2>1. \A v \in Writer : pc'[v] = pc[v]
    BY <1>1, <1>2, ThreadFacts
  <2> QED BY <1>1, <2>1 DEF OpenInv, IsOpen
<1>3. CASE t \in Writer
  <2>1. t # Receiver /\ (IsOpen(t) <=> pc[t] \in OpenPlace)
    BY <1>3, ThreadFacts DEF OpenInv
  <2>2. (pc'[t] \in OpenPlace <=> pc[t] \in OpenPlace) /\ pc[t] # "write"
    <3>1. CASE ThreadStart(t) \/ ThreadStop(t) \/ CountLoad(t) \/ CountUp(t)
      BY <2>1, <3>1, OnlyOne DEF ThreadStart, ThreadStop, CountLoad, CountUp, Goto,
                                 OpenPlace
    <3>2. CASE CountDown(t) /\ ~IsOpen(t)
      BY <2>1, <3>2 DEF CountDown, OpenPlace
    <3>3. CASE WriterTakesNone(t) \/ WriterEmpty(t)
      BY <3>3, OnlyOne DEF WriterTakesNone, WriterEmpty, Goto, OpenPlace
    <3> QED BY <1>3, <2>1, <3>1, <3>2, <3>3 DEF IdleStep
  <2>3. hand'[t] = << >>
    BY <1>1, <1>3, <2>2 DEF OpenInv
  <2>4. IsOpen(t)' <=> pc'[t] \in OpenPlace
    BY <1>1, <2>1, <2>2 DEF IsOpen
  <2>5. \A v \in Writer : v # t => /\ pc'[v] = pc[v] /\ file'[v] = file[v]
                                   /\ hand'[v] = hand[v]
    BY <1>1, ThreadFacts
  <2> QED BY <1>3, <2>3, <2>4, <2>5, OpenOthers
<1> QED BY <1>2, <1>3

LEMMA NewIsOpen ==
    ASSUME NEW w, NEW no \in Nat \ {0}
    PROVE  NewFile(w, no) # NoFile
  BY DEF NewFile, NoFile

(* The state of a file while its writer appends to it.                      *)
LEMMA WriteIs ==
    ASSUME TypeInv, OpenInv, NEW w \in Writer, WritePacket(w)
    PROVE  /\ IsOpen(w) /\ IsOpen(w)' /\ hand[w] # << >>
           /\ file'[w].name = file[w].name
           /\ file'[w].data = Append(file[w].data, Head(hand[w]))
           /\ file'[w] \in Record
           /\ \A v \in Writer : v # w => /\ file'[v] = file[v] /\ hand'[v] = hand[v]
                                         /\ pc'[v] = pc[v]
           /\ hand'[w] = Tail(hand[w])
           /\ pc'[w] \in {"take", "write"}
           /\ pc'[w] = "take" => Tail(hand[w]) = << >>
           /\ UNCHANGED <<saved, left, ring, rx, dropped, status, capture, date,
                          late, clash>>
<1>1. pc[w] = "write" /\ hand[w] # << >> /\ IsOpen(w) /\ w \in Thread
  BY WriterFacts DEF WritePacket, OpenInv, OpenPlace
<1>2. PICK h \in 1 .. rx : h = Head(hand[w])
  BY <1>1, WriterFacts, HeadTailProperties
<1>3. h \in Packet
  BY <1>2, BoundAssumption DEF TypeInv, PacketInv, Packet
<1>4. PICK d \in Seq(Packet) : d = file[w].data
  BY WriterFacts DEF Record
<1>5. PICK e \in Seq(Packet) : e = Append(d, h)
  BY <1>3, AppendProperties
<1>6. file' = [file EXCEPT ![w].data = e]
  BY <1>1, <1>2, <1>4, <1>5 DEF WritePacket
<1>7. file[w] \in [name : [date : Nat, thread : Thread, no : Nat],
                   data : Seq(Packet)]
  BY WriterFacts DEF Record
<1>8. PICK f : f = [name |-> file[w].name, data |-> e]
  OBVIOUS
<1>9. f \in Record
  BY <1>7, <1>8 DEF Record
<1>10. f = [file[w] EXCEPT !.data = e]
  BY <1>7, <1>8
<1>11. file' = [file EXCEPT ![w] = f]
  BY <1>6, <1>10
<1>12. file'[w] = f /\ \A v \in Writer : v # w => file'[v] = file[v]
  BY <1>11, OnlyFile
<1>13. f # NoFile
  <2>1. file[w].name.no # 0
    BY <1>1 DEF TypeInv, FileInv
  <2> QED BY <1>8, <2>1 DEF NoFile
<1>14. hand'[w] = Tail(hand[w]) /\ \A v \in Writer : v # w => hand'[v] = hand[v]
  <2>1. hand' = [hand EXCEPT ![w] = Tail(hand[w])]
    BY DEF WritePacket
  <2> QED BY <2>1, OnlyHand
<1>15. /\ pc'[w] \in {"take", "write"}
       /\ pc'[w] = "take" => Tail(hand[w]) = << >>
       /\ \A v \in Writer : v # w => pc'[v] = pc[v]
  BY <1>1, OnlyOne, ThreadFacts DEF WritePacket, Goto
<1>16. UNCHANGED <<saved, left, ring, rx, dropped, status, capture, date, late, clash>>
  BY DEF WritePacket
<1> QED BY <1>1, <1>2, <1>4, <1>5, <1>8, <1>9, <1>12, <1>13, <1>14, <1>15, <1>16
        DEF IsOpen

(* The other steps of a writer that move packets or files, in terms of its  *)
(* new place and its new file.                                              *)
Moved(w, place, f, s) ==
    /\ pc'[w] = place /\ file'[w] = f /\ hand'[w] = s
    /\ \A v \in Writer : v # w => /\ pc'[v] = pc[v] /\ file'[v] = file[v]
                                  /\ hand'[v] = hand[v] /\ status'[v] = status[v]
    /\ UNCHANGED <<rx, capture, date, late, clash>>

LEMMA CloseIs ==
    ASSUME TypeInv, OpenInv, NEW w \in Writer, IsOpen(w), CountDown(w)
    PROVE  /\ Moved(w, "top", NoFile, hand[w])
           /\ saved' = Renamed(file[w])
           /\ UNCHANGED <<status, left, ring, dropped>>
           /\ pc[w] = "dec_store"
<1>1. w \in Thread
  BY ThreadFacts
<1>2. file' = [file EXCEPT ![w] = NoFile] /\ saved' = Renamed(file[w])
  BY DEF CountDown
<1>3. pc[w] = "dec_store" /\ pc' = [pc EXCEPT ![w] = "top"]
  BY DEF CountDown, Goto
<1>4. UNCHANGED <<status, left, ring, hand, dropped, rx, capture, date, late, clash>>
  BY DEF CountDown, packetVars
<1>5. file'[w] = NoFile /\ \A v \in Writer : v # w => file'[v] = file[v]
  BY <1>2, OnlyFile
<1>6. pc'[w] = "top" /\ \A v \in Writer : v # w => pc'[v] = pc[v]
  BY <1>1, <1>3, OnlyOne, ThreadFacts
<1> QED BY <1>2, <1>3, <1>4, <1>5, <1>6 DEF Moved

LEMMA StartsIs ==
    ASSUME TypeInv, OpenInv, NEW w \in Writer, WriterStarts(w)
    PROVE  /\ Moved(w, "inc_store", NewFile(w, 1), hand[w])
           /\ UNCHANGED <<saved, ring, dropped>>
           /\ left' = Without(left, NewFile(w, 1))
           /\ status'[w] = "running" /\ Waits(w) /\ pc[w] = "top"
<1>1. w \in Thread /\ pc[w] \notin Ended
  BY ThreadFacts DEF WriterStarts, Ended
<1>2. /\ file' = [file EXCEPT ![w] = NewFile(w, 1)]
      /\ pc' = [pc EXCEPT ![w] = "inc_store"]
      /\ status' = [status EXCEPT ![w] = "running"]
      /\ left' = Without(left, NewFile(w, 1))
      /\ pc[w] = "top" /\ capture = "running" /\ status[w] = "idle"
      /\ UNCHANGED <<saved, ring, hand, dropped, rx, capture, date, late, clash>>
  BY DEF WriterStarts, Goto, packetVars
<1>3. file'[w] = NewFile(w, 1) /\ \A v \in Writer : v # w => file'[v] = file[v]
  BY <1>2, OnlyFile
<1>4. pc'[w] = "inc_store" /\ \A v \in Writer : v # w => pc'[v] = pc[v]
  BY <1>1, <1>2, OnlyOne, ThreadFacts
<1>5. status'[w] = "running" /\ \A v \in Writer : v # w => status'[v] = status[v]
  BY <1>1, <1>2, OnlyStatus, ThreadFacts
<1> QED BY <1>1, <1>2, <1>3, <1>4, <1>5 DEF Moved, Waits

LEMMA StartFailsIs ==
    ASSUME TypeInv, OpenInv, NEW w \in Writer, WriterStartFails(w)
    PROVE  /\ Moved(w, "unopened", file[w], hand[w])
           /\ UNCHANGED <<status, saved, ring, dropped>>
           /\ left' \in Abandoned(NewFile(w, 1))
           /\ Waits(w) /\ pc[w] = "top"
<1>1. w \in Thread /\ pc[w] \notin Ended
  BY ThreadFacts DEF WriterStartFails, Ended
<1> QED BY <1>1, OnlyOne, ThreadFacts
        DEF WriterStartFails, Moved, Goto, packetVars, Waits

LEMMA TakesIs ==
    ASSUME TypeInv, OpenInv, NEW w \in Writer, WriterTakes(w)
    PROVE  \E n \in 0 .. Len(ring) :
             /\ Moved(w, "write", file[w], SubSeq(ring, 1, n))
             /\ ring' = SubSeq(ring, n + 1, Len(ring))
             /\ UNCHANGED <<status, saved, left, dropped>>
             /\ pc[w] = "take"
<1>1. w \in Thread
  BY ThreadFacts
<1>2. PICK n : n = Lesser(Burst, Len(ring))
  OBVIOUS
<1>3. n \in 0 .. Len(ring)
  <2>1. Len(ring) \in Nat
    BY LenProperties DEF TypeInv, PacketInv
  <2> QED BY <1>2, <2>1, SizeAssumption DEF Lesser
<1>4. /\ hand' = [hand EXCEPT ![w] = SubSeq(ring, 1, n)]
      /\ ring' = SubSeq(ring, n + 1, Len(ring))
  BY <1>2 DEF WriterTakes
<1>5. /\ pc' = [pc EXCEPT ![w] = "write"] /\ pc[w] = "take"
      /\ UNCHANGED <<file, status, saved, left, dropped, rx, capture, date, late,
                     clash>>
  BY DEF WriterTakes, Goto, fileVars
<1>6. pc'[w] = "write" /\ \A v \in Writer : v # w => pc'[v] = pc[v]
  BY <1>1, <1>5, OnlyOne, ThreadFacts
<1>7. /\ hand'[w] = SubSeq(ring, 1, n)
      /\ \A v \in Writer : v # w => hand'[v] = hand[v]
  BY <1>4, OnlyHand
<1>8. Moved(w, "write", file[w], SubSeq(ring, 1, n))
  BY <1>5, <1>6, <1>7 DEF Moved
<1> QED BY <1>3, <1>4, <1>5, <1>8

LEMMA RollIs ==
    ASSUME TypeInv, OpenInv, NEW w \in Writer, RollFile(w)
    PROVE  /\ Moved(w, pc[w], NextFile(w), hand[w])
           /\ IsOpen(w) /\ pc[w] = "write"
           /\ saved' = Renamed(file[w]) /\ left' = Without(left, NextFile(w))
           /\ UNCHANGED <<status, ring, dropped>>
<1>1. file' = [file EXCEPT ![w] = NextFile(w)]
  BY DEF RollFile
<1>2. file'[w] = NextFile(w)
  BY <1>1, OnlyFile
<1> QED BY <1>1, <1>2, OnlyFile DEF RollFile, Moved, packetVars, FileFull

InHand(s) == {s[k] : k \in 1 .. Len(s)}

LEMMA DiesIs ==
    ASSUME TypeInv, OpenInv, NEW w \in Writer, WriteFails(w) \/ RollFails(w)
    PROVE  /\ Moved(w, "failed", NoFile, << >>)
           /\ IsOpen(w) /\ pc[w] = "write"
           /\ dropped' = dropped \cup InHand(hand[w])
           /\ UNCHANGED ring
           /\ \/ saved' = Renamed(file[w]) /\ left' = left
              \/ saved' = saved /\ left' = Without(left, file[w]) \cup {file[w]}
              \/ saved' = Renamed(file[w]) /\ left' \in Abandoned(NextFile(w))
<1>1. w \in Thread /\ WriterDies(w)
  BY ThreadFacts DEF WriteFails, RollFails
<1>2. /\ file' = [file EXCEPT ![w] = NoFile] /\ hand' = [hand EXCEPT ![w] = << >>]
      /\ status' = [status EXCEPT ![w] = "idle"] /\ pc' = [pc EXCEPT ![w] = "failed"]
      /\ dropped' = dropped \cup InHand(hand[w])
      /\ UNCHANGED <<capture, date, ring, rx, late, clash>>
  BY <1>1 DEF WriterDies, Goto, InHand
<1>3. file'[w] = NoFile /\ \A v \in Writer : v # w => file'[v] = file[v]
  BY <1>2, OnlyFile
<1>4. pc'[w] = "failed" /\ \A v \in Writer : v # w => pc'[v] = pc[v]
  BY <1>1, <1>2, OnlyOne, ThreadFacts
<1>5. \A v \in Writer : v # w => status'[v] = status[v]
  BY <1>1, <1>2, OnlyStatus, ThreadFacts
<1>6. hand'[w] = << >> /\ \A v \in Writer : v # w => hand'[v] = hand[v]
  BY <1>2, OnlyHand
<1>7. Moved(w, "failed", NoFile, << >>)
  BY <1>2, <1>3, <1>4, <1>5, <1>6 DEF Moved
<1>8. IsOpen(w) /\ pc[w] = "write"
  BY DEF WriteFails, RollFails, FileFull
<1>9. \/ saved' = Renamed(file[w]) /\ left' = left
      \/ saved' = saved /\ left' = Without(left, file[w]) \cup {file[w]}
      \/ saved' = Renamed(file[w]) /\ left' \in Abandoned(NextFile(w))
  BY DEF WriteFails, RollFails
<1> QED BY <1>2, <1>7, <1>8, <1>9

(* The receiver's two steps that matter.                                    *)
LEMMA ReceiveIs ==
    ASSUME TypeInv, Receive
    PROVE  /\ UNCHANGED <<file, saved, left, hand, status, capture, date, clash>>
           /\ \A v \in Writer : pc'[v] = pc[v]
           /\ \E n \in 0 .. Lesser(Burst, MaxPacket - rx) :
                LET kept == Lesser(n, RingSlots) IN
                /\ ring' = ring \o [k \in 1 .. kept |-> rx + k]
                /\ dropped' = dropped \cup (rx + kept + 1 .. rx + n)
                /\ rx' = rx + n
                /\ late' = (late \/ (kept > 0 /\ \E w \in Writer : MayMiss(w)))
<1>1. pc' = [pc EXCEPT ![Receiver] = "top"]
  BY DEF Receive, Goto
<1>2. \A v \in Writer : pc'[v] = pc[v]
  BY <1>1, OnlyOne, ThreadFacts
<1> QED BY <1>2 DEF Receive, fileVars

LEMMA StartsCaptureIs ==
    ASSUME TypeInv, ReceiverStartsCapture
    PROVE  /\ UNCHANGED <<file, saved, left, ring, hand, rx, dropped, late>>
           /\ \A v \in Writer : pc'[v] = pc[v] /\ status'[v] = status[v]
           /\ date' \in {date, date + 1}
           /\ clash' = (clash \/ date' = date)
<1>1. /\ pc' = [pc EXCEPT ![Receiver] = "inc"]
      /\ status' = [status EXCEPT ![Receiver] = "running"]
  BY DEF ReceiverStartsCapture, Goto
<1>2. \A v \in Writer : pc'[v] = pc[v]
  BY <1>1, OnlyOne, ThreadFacts
<1>3. \A v \in Writer : status'[v] = status[v]
  BY <1>1, OnlyStatus, ThreadFacts
<1> QED BY <1>2, <1>3 DEF ReceiverStartsCapture, fileVars, packetVars

LEMMA OpenMoved ==
    ASSUME TypeInv, OpenInv, NEW w \in Writer, NEW place, NEW f, NEW s,
           Moved(w, place, f, s), f # NoFile <=> place \in OpenPlace,
           place # "write" => s = << >>
    PROVE  OpenInv'
<1>1. IsOpen(w)' <=> pc'[w] \in OpenPlace
  BY DEF Moved, IsOpen
<1> QED BY <1>1, OpenOthers DEF Moved

(* What a writer has open, by its place.                                    *)
LEMMA OpenFacts ==
    ASSUME OpenInv, NEW w \in Writer
    PROVE  /\ pc[w] \in OpenPlace => file[w] # NoFile
           /\ pc[w] \notin OpenPlace => file[w] = NoFile
           /\ pc[w] # "write" => hand[w] = << >>
  BY DEF OpenInv, IsOpen

LEMMA OpenKept ==
    ASSUME TypeInv, OpenInv, [Next]_vars
    PROVE  OpenInv'
<1>1. CASE OuterStep
  <2>1. CASE pc' = pc
    BY <1>1, <2>1, OuterIs, OpenSame
  <2>2. CASE /\ \A t \in Thread : pc[t] = "none"
             /\ pc' = [t \in Thread |-> "launched"]
    <3>1. \A v \in Writer : pc[v] = "none" /\ pc'[v] = "launched"
      BY <2>2, ThreadFacts
    <3>2. UNCHANGED <<file, hand>>
      BY <1>1, OuterIs
    <3> QED BY <3>1, <3>2 DEF OpenInv, IsOpen, OpenPlace
  <2> QED BY <1>1, <2>1, <2>2, OuterIs
<1>2. ASSUME NEW t \in Thread, ThreadStep(t)
      PROVE  OpenInv'
  <2>1. CASE IdleStep(t)
    BY <2>1, IdleOpen
  <2>2. CASE t \in Writer /\ IsOpen(t) /\ CountDown(t)
    <3>1. Moved(t, "top", NoFile, hand[t]) /\ pc[t] = "dec_store"
      BY <2>2, CloseIs
    <3>2. hand[t] = << >>
      BY <2>2, <3>1, OpenFacts
    <3> QED BY <2>2, <3>1, <3>2, OpenMoved DEF OpenPlace
  <2>3. CASE t = Receiver /\ ReceiverStartsCapture
    BY <2>3, StartsCaptureIs DEF OpenInv, IsOpen
  <2>4. CASE t = Receiver /\ Receive
    BY <2>4, ReceiveIs DEF OpenInv, IsOpen
  <2>5. CASE t \in Writer /\ WriterStarts(t)
    <3>1. Moved(t, "inc_store", NewFile(t, 1), hand[t]) /\ pc[t] = "top"
      BY <2>5, StartsIs
    <3>2. hand[t] = << >>
      BY <2>5, <3>1, OpenFacts
    <3> QED BY <2>5, <3>1, <3>2, OpenMoved, NewIsOpen DEF OpenPlace
  <2>6. CASE t \in Writer /\ WriterStartFails(t)
    <3>1. Moved(t, "unopened", file[t], hand[t]) /\ pc[t] = "top"
      BY <2>6, StartFailsIs
    <3>2. hand[t] = << >> /\ file[t] = NoFile
      BY <2>6, <3>1, OpenFacts DEF OpenPlace
    <3> QED BY <2>6, <3>1, <3>2, OpenMoved DEF OpenPlace
  <2>7. CASE t \in Writer /\ WriterTakes(t)
    <3>1. PICK s : Moved(t, "write", file[t], s) /\ pc[t] = "take"
      BY <2>7, TakesIs
    <3>2. file[t] # NoFile
      BY <2>7, <3>1, OpenFacts DEF OpenPlace
    <3> QED BY <2>7, <3>1, <3>2, OpenMoved DEF OpenPlace
  <2>8. CASE t \in Writer /\ WritePacket(t)
    <3>1. /\ IsOpen(t)' /\ pc'[t] \in {"take", "write"}
          /\ pc'[t] # "write" => hand'[t] = << >>
          /\ \A v \in Writer : v # t => /\ file'[v] = file[v] /\ hand'[v] = hand[v]
                                        /\ pc'[v] = pc[v]
      BY <2>8, WriteIs
    <3>2. IsOpen(t)' <=> pc'[t] \in OpenPlace
      BY <3>1 DEF OpenPlace
    <3> QED BY <2>8, <3>1, <3>2, OpenOthers
  <2>9. CASE t \in Writer /\ RollFile(t)
    <3>1. Moved(t, pc[t], NextFile(t), hand[t]) /\ pc[t] = "write"
      BY <2>9, RollIs
    <3>2. NextFile(t) # NoFile
      <4>1. file[t].name.no + 1 \in Nat \ {0}
        BY <2>9, WriterFacts DEF Record
      <4> QED BY <4>1, NewIsOpen DEF NextFile
    <3> QED BY <2>9, <3>1, <3>2, OpenMoved DEF OpenPlace
  <2>10. CASE t \in Writer /\ (WriteFails(t) \/ RollFails(t))
    <3>1. Moved(t, "failed", NoFile, << >>)
      BY <2>10, DiesIs
    <3> QED BY <2>10, <3>1, OpenMoved DEF OpenPlace
  <2> QED BY <1>2, <2>1, <2>2, <2>3, <2>4, <2>5, <2>6, <2>7, <2>8, <2>9, <2>10,
             ThreadStepIs
<1> QED BY <1>1, <1>2, NextIs

-----------------------------------------------------------------------------
(* The ring between captures.                                               *)
Goes(v) == pc[v] \in Ended \/ (status[v] = "running" /\ pc[v] # "empty")

LEMMA DrainStep ==
    ASSUME DrainInv, late' = late, ring' # << >> => ring # << >>,
           ASSUME \A v \in Writer : Goes(v)
           PROVE  \A v \in Writer : Goes(v)'
    PROVE  DrainInv'
  BY DEF DrainInv, Goes

LEMMA DrainMoved ==
    ASSUME DrainInv, NEW w \in Writer, NEW place, NEW f, NEW s,
           Moved(w, place, f, s), ring' # << >> => ring # << >>,
           Goes(w) => place \in Ended \/ (status'[w] = "running" /\ place # "empty")
    PROVE  DrainInv'
<1>1. \A v \in Writer : v # w => (Goes(v)' <=> Goes(v))
  BY DEF Moved, Goes
<1>2. Goes(w) => Goes(w)'
  BY DEF Moved, Goes
<1>3. late' = late
  BY DEF Moved
<1> QED BY <1>1, <1>2, <1>3, DrainStep

LEMMA IdleDrain ==
    ASSUME TypeInv, DrainInv, NEW t \in Thread, IdleStep(t)
    PROVE  DrainInv'
<1>1. /\ UNCHANGED <<ring, late>>
      /\ \A v \in Writer : v # t => (Goes(v)' <=> Goes(v))
  BY IdleIs, ThreadFacts DEF Goes
<1>2. CASE t \notin Writer
  BY <1>1, <1>2, DrainStep
<1>3. CASE t \in Writer /\ Goes(t) /\ ~WriterTakesNone(t)
  <2>1. /\ t # Receiver
        /\ pc[t] \in Ended \/ (pc[t] # "empty" /\ status[t] = "running")
        /\ pc[t] \notin {"top", "launched", "dec", "dec_store"}
    BY <1>3, WriterFacts DEF Goes, Ended, IdlePlace
  <2>2. pc'[t] # "empty" /\ status' = status
    <3>1. CASE ThreadStart(t) \/ ThreadStop(t) \/ CountDown(t) \/ WriterEmpty(t)
      BY <2>1, <3>1 DEF ThreadStart, ThreadStop, CountDown, WriterEmpty, Ended
    <3>2. CASE CountLoad(t) \/ CountUp(t)
      BY <3>2, OnlyOne DEF CountLoad, CountUp, Goto
    <3> QED BY <1>3, <2>1, <3>1, <3>2 DEF IdleStep
  <2>3. pc[t] \notin Ended
    BY <1>3, <2>1 DEF IdleStep, ThreadStart, ThreadStop, CountLoad, CountUp, CountDown,
                      WriterEmpty, Ended
  <2>4. Goes(t)'
    BY <1>3, <2>1, <2>2, <2>3 DEF Goes
  <2> QED BY <1>1, <2>4, DrainStep
<1>4. CASE t \in Writer /\ ~Goes(t)
  BY <1>1, <1>4, DrainStep
<1>5. CASE WriterTakesNone(t)
  <2>1. ring = << >>
    BY <1>5 DEF WriterTakesNone
  <2> QED BY <1>1, <2>1 DEF DrainInv
<1> QED BY <1>2, <1>3, <1>4, <1>5

LEMMA DrainKept ==
    ASSUME TypeInv, OpenInv, DrainInv, [Next]_vars
    PROVE  DrainInv'
<1>1. CASE OuterStep
  <2>1. UNCHANGED <<ring, late, status>>
    BY <1>1, OuterIs
  <2>2. CASE pc' = pc
    BY <2>1, <2>2 DEF DrainInv
  <2>3. CASE \A t \in Thread : pc[t] = "none"
    <3>1. \A v \in Writer : pc[v] = "none" /\ status[v] = "idle"
      BY <2>3, WriterFacts DEF IdlePlace
    <3>2. \A v \in Writer : ~Goes(v)
      BY <3>1 DEF Goes, Ended
    <3> QED BY <2>1, <3>2, DrainStep
  <2> QED BY <1>1, <2>2, <2>3, OuterIs
<1>2. ASSUME NEW t \in Thread, ThreadStep(t)
      PROVE  DrainInv'
  <2>1. CASE IdleStep(t)
    BY <2>1, IdleDrain
  <2>2. CASE t \in Writer /\ IsOpen(t) /\ CountDown(t)
    <3>1. Moved(t, "top", NoFile, hand[t]) /\ pc[t] = "dec_store" /\ ring' = ring
      BY <2>2, CloseIs
    <3>2. ~Goes(t)
      BY <2>2, <3>1, WriterFacts DEF Goes, Ended, IdlePlace
    <3> QED BY <2>2, <3>1, <3>2, DrainMoved
  <2>3. CASE t = Receiver /\ ReceiverStartsCapture
    BY <2>3, StartsCaptureIs DEF DrainInv
  <2>4. CASE t = Receiver /\ Receive
    <3>1. /\ status' = status
          /\ \A v \in Writer : pc'[v] = pc[v]
      BY <2>4, ReceiveIs
    <3>2. PICK n \in 0 .. Lesser(Burst, MaxPacket - rx) :
            LET kept == Lesser(n, RingSlots) IN
            /\ ring' = ring \o [k \in 1 .. kept |-> rx + k]
            /\ late' = (late \/ (kept > 0 /\ \E w \in Writer : MayMiss(w)))
      BY <2>4, ReceiveIs
    <3>3. PICK kept : kept = Lesser(n, RingSlots)
      OBVIOUS
    <3>4. SUFFICES ASSUME ~late', ring' # << >>
                   PROVE  \A v \in Writer : Goes(v)'
      BY DEF DrainInv, Goes
    <3>5. ~late
      BY <3>2, <3>4
    <3>6. CASE kept > 0
      <4>1. \A w \in Writer : ~MayMiss(w)
        BY <3>2, <3>3, <3>4, <3>6
      <4> QED BY <3>1, <4>1, WriterFacts DEF MayMiss, Goes, CaptureStatus
    <3>7. CASE ~(kept > 0)
      <4>1. kept \in Int
        <5>1. Len(ring) \in Nat
          BY LenProperties DEF TypeInv, PacketInv
        <5> QED BY <3>3, <5>1, SizeAssumption DEF Lesser, RingSlots
      <4>2. 1 .. kept = {}
        BY <3>7, <4>1
      <4>3. PICK new : new = [k \in 1 .. kept |-> rx + k]
        OBVIOUS
      <4>4. new = << >>
        BY <4>2, <4>3
      <4>5. ring' = ring
        BY <3>2, <3>3, <4>3, <4>4, ConcatEmptySeq DEF TypeInv, PacketInv
      <4> QED BY <3>1, <3>4, <3>5, <4>5 DEF DrainInv, Goes
    <3> QED BY <3>6, <3>7
  <2>5. CASE t \in Writer /\ WriterStarts(t)
    <3>1. Moved(t, "inc_store", NewFile(t, 1), hand[t]) /\ ring' = ring
      BY <2>5, StartsIs
    <3>2. status'[t] = "running"
      BY <2>5, StartsIs
    <3> QED BY <2>5, <3>1, <3>2, DrainMoved
  <2>6. CASE t \in Writer /\ WriterStartFails(t)
    <3>1. Moved(t, "unopened", file[t], hand[t]) /\ ring' = ring
      BY <2>6, StartFailsIs
    <3> QED BY <2>6, <3>1, DrainMoved DEF Ended
  <2>7. CASE t \in Writer /\ WriterTakes(t)
    <3>1. PICK s : Moved(t, "write", file[t], s)
      BY <2>7, TakesIs
    <3>2. ring # << >> /\ status' = status /\ pc[t] = "take"
      BY <2>7 DEF WriterTakes
    <3> QED BY <2>7, <3>1, <3>2, DrainMoved DEF Goes, Ended
  <2>8. CASE t \in Writer /\ WritePacket(t)
    <3>1. /\ pc[t] = "write" /\ pc'[t] \in {"take", "write"}
          /\ \A v \in Writer : v # t => pc'[v] = pc[v]
          /\ UNCHANGED <<status, ring, late>>
      BY <2>8, WriteIs DEF WritePacket
    <3>2. \A v \in Writer : Goes(v) => Goes(v)'
      BY <3>1 DEF Goes, Ended
    <3> QED BY <3>1, <3>2, DrainStep
  <2>9. CASE t \in Writer /\ RollFile(t)
    <3>1. Moved(t, pc[t], NextFile(t), hand[t]) /\ ring' = ring /\ status' = status
      BY <2>9, RollIs
    <3> QED BY <2>9, <3>1, DrainMoved DEF Goes
  <2>10. CASE t \in Writer /\ (WriteFails(t) \/ RollFails(t))
    <3>1. Moved(t, "failed", NoFile, << >>) /\ ring' = ring
      BY <2>10, DiesIs
    <3> QED BY <2>10, <3>1, DrainMoved DEF Ended
  <2> QED BY <1>2, <2>1, <2>2, <2>3, <2>4, <2>5, <2>6, <2>7, <2>8, <2>9, <2>10,
             ThreadStepIs
<1> QED BY <1>1, <1>2, NextIs

-----------------------------------------------------------------------------
(* The names of files.  A writer's new file, or the next one, has a name    *)
(* that no file of its has had, so that nothing is overwritten.             *)
LEMMA NewNames ==
    ASSUME KeptInv, NEW w, NEW f \in Record, f.name.thread = w,
           OlderThan(w, f.name)
    PROVE  /\ \A g \in Kept : g.name # f.name
           /\ Without(left, f) = left /\ Without(saved, f) = saved
<1>1. ASSUME NEW g \in Kept, g.name = f.name
      PROVE  FALSE
  <2>1. Older(f.name, f.name)
    BY <1>1 DEF OlderThan
  <2>2. f.name.date \in Nat /\ f.name.no \in Nat
    BY DEF Record
  <2> QED BY <2>1, <2>2 DEF Older
<1> QED BY <1>1 DEF Kept, Without

(* What the files of the others and the names of a writer's own keep.       *)
LEMMA NamesMoved ==
    ASSUME TypeInv, NameInv, NEW w \in Writer, NEW place, NEW g, NEW s,
           Moved(w, place, g, s),
           \A f \in Kept' : f \in Kept \/ (f.name.thread = w /\ f.name.date <= date),
           Named(w)'
    PROVE  NameInv'
<1>1. \A f \in Kept' : f.name.date <= date'
  BY DEF NameInv, Moved
<1>2. ASSUME NEW v \in Writer, v # w
      PROVE  Named(v)'
  <2>1. /\ pc'[v] = pc[v] /\ file'[v] = file[v] /\ status'[v] = status[v]
        /\ date' = date /\ capture' = capture
    BY <1>2 DEF Moved
  <2>2. \A f \in Kept' : f.name.thread = v => f \in Kept
    BY <1>2
  <2>3. Named(v)
    BY <1>2 DEF NameInv
  <2>4. (Waits(v)' <=> Waits(v)) /\ (IsOpen(v)' <=> IsOpen(v))
    BY <2>1 DEF Waits, IsOpen
  <2>5. Before(v) => Before(v)'
    BY <2>1, <2>2 DEF Before
  <2>6. OlderThan(v, file[v].name) => OlderThan(v, file[v].name)'
    BY <2>1, <2>2 DEF OlderThan
  <2> QED BY <2>1, <2>3, <2>4, <2>5, <2>6 DEF Named
<1> QED BY <1>1, <1>2 DEF NameInv

(* A writer may move without its names, if it comes to wait for no start.   *)
LEMMA NamesStay ==
    ASSUME NameInv, UNCHANGED <<saved, left, date>>,
           \A v \in Writer : /\ file'[v].name = file[v].name
                             /\ IsOpen(v)' <=> IsOpen(v)
                             /\ Waits(v)' => Waits(v)
    PROVE  NameInv'
<1>1. Kept' = Kept
  BY DEF Kept
<1>2. ASSUME NEW v \in Writer
      PROVE  Named(v)'
  <2>1. Named(v)
    BY DEF NameInv
  <2>2. Before(v)' <=> Before(v)
    BY <1>1 DEF Before
  <2>3. OlderThan(v, file[v].name)' <=> OlderThan(v, file[v].name)
    BY <1>1 DEF OlderThan
  <2> QED BY <2>1, <2>2, <2>3 DEF Named
<1> QED BY <1>1, <1>2 DEF NameInv

LEMMA IdleNames ==
    ASSUME TypeInv, NameInv, NEW t \in Thread, IdleStep(t)
    PROVE  NameInv'
<1>1. /\ UNCHANGED <<saved, left, date, file>>
      /\ \A v \in Thread : v # t => pc'[v] = pc[v] /\ status'[v] = status[v]
      /\ capture' = capture \/ capture' = "idle"
  BY IdleIs
<1>2. ASSUME NEW v \in Writer
      PROVE  Waits(v)' => Waits(v)
  <2>1. CASE v # t
    BY <1>1, <2>1, ThreadFacts DEF Waits
  <2>2. CASE v = t
    <3>1. t \in Writer /\ t # Receiver /\ capture' = capture
      BY <2>2, IdleIs, ThreadFacts
    <3>2. pc[t] \notin Ended
      BY <3>1 DEF IdleStep, ThreadStart, ThreadStop, CountLoad, CountUp, CountDown,
                  WriterTakesNone, WriterEmpty, Ended
    <3>3. status' = status \/ capture = "idle"
      BY <3>1 DEF IdleStep, ThreadStart, ThreadStop, CountLoad, CountUp, CountDown,
                  WriterTakesNone, WriterEmpty
    <3> QED BY <2>2, <3>1, <3>2, <3>3 DEF Waits
  <2> QED BY <2>1, <2>2
<1>3. \A v \in Writer : IsOpen(v)' <=> IsOpen(v)
  BY <1>1 DEF IsOpen
<1> QED BY <1>1, <1>2, <1>3, NamesStay

(* The names of a writer's open file, of its first and of its next one.     *)
LEMMA OpenName ==
    ASSUME TypeInv, KeptInv, NameInv, NEW w \in Writer, IsOpen(w)
    PROVE  /\ file[w] \in Record /\ file[w].name.thread = w
           /\ file[w].name.date <= date /\ OlderThan(w, file[w].name)
           /\ \A g \in Kept : g.name # file[w].name
           /\ Without(left, file[w]) = left /\ Renamed(file[w]) = saved \cup {file[w]}
<1>1. file[w] \in Record /\ file[w].name.thread = w
  BY WriterFacts
<1>2. file[w].name.date <= date /\ OlderThan(w, file[w].name)
  BY DEF NameInv, Named
<1> QED BY <1>1, <1>2, NewNames DEF Renamed

LEMMA FirstName ==
    ASSUME TypeInv, KeptInv, NameInv, NEW w \in Writer, Waits(w)
    PROVE  /\ NewFile(w, 1) \in Record /\ NewFile(w, 1).data = << >>
           /\ NewFile(w, 1).name.thread = w /\ NewFile(w, 1).name.date = date
           /\ OlderThan(w, NewFile(w, 1).name)
           /\ Without(left, NewFile(w, 1)) = left
<1>1. PICK f : f = NewFile(w, 1)
  OBVIOUS
<1>2. w \in Thread /\ date \in Nat
  BY WriterFacts DEF TypeInv, FileInv
<1>3. /\ f \in Record /\ f.data = << >>
      /\ f.name.thread = w /\ f.name.date = date
  BY <1>1, <1>2 DEF NewFile, Record
<1>4. OlderThan(w, f.name)
  BY <1>3 DEF NameInv, Named, Before, OlderThan, Older
<1>5. Without(left, f) = left
  BY <1>3, <1>4, NewNames
<1> QED BY <1>1, <1>3, <1>4, <1>5

LEMMA NextName ==
    ASSUME TypeInv, KeptInv, NameInv, NEW w \in Writer, IsOpen(w)
    PROVE  /\ NextFile(w) \in Record /\ NextFile(w).data = << >>
           /\ NextFile(w).name.thread = w /\ NextFile(w).name.date = date
           /\ OlderThan(w, NextFile(w).name)
           /\ Older(file[w].name, NextFile(w).name)
           /\ Without(left, NextFile(w)) = left
<1>1. PICK f : f = NextFile(w)
  OBVIOUS
<1>2. w \in Thread /\ date \in Nat
  BY WriterFacts DEF TypeInv, FileInv
<1>3. PICK m \in [date : Nat, thread : Thread, no : Nat] : m = file[w].name
  BY WriterFacts DEF Record
<1>4. m.date \in Nat /\ m.no \in Nat
  OBVIOUS
<1>5. f = [name |-> [date |-> date, thread |-> w, no |-> m.no + 1], data |-> << >>]
  BY <1>1, <1>3 DEF NextFile, NewFile
<1>6. f \in Record
  BY <1>2, <1>4, <1>5 DEF Record
<1>7. /\ f.data = << >> /\ f.name.thread = w /\ f.name.date = date
      /\ f.name.no = m.no + 1
  BY <1>5
<1>8. m.date <= date /\ OlderThan(w, m)
  BY <1>3, OpenName
<1>9. Older(m, f.name)
  BY <1>2, <1>4, <1>7, <1>8 DEF Older
<1>10. ASSUME NEW g \in Kept, g.name.thread = w
       PROVE  Older(g.name, f.name)
  <2>1. Older(g.name, m)
    BY <1>8, <1>10 DEF OlderThan
  <2>2. g.name.date \in Nat /\ g.name.no \in Nat
    BY DEF KeptInv, Record
  <2> QED BY <1>2, <1>4, <1>7, <1>8, <2>1, <2>2 DEF Older
<1>11. OlderThan(w, f.name)
  BY <1>10 DEF OlderThan
<1>12. Without(left, f) = left
  BY <1>6, <1>7, <1>11, NewNames
<1> QED BY <1>1, <1>3, <1>6, <1>7, <1>9, <1>11, <1>12

LEMMA CloseNames ==
    ASSUME TypeInv, OpenInv, KeptInv, NameInv, NEW w \in Writer, IsOpen(w),
           CountDown(w)
    PROVE  NameInv' /\ Kept' = Kept \cup {file[w]}
<1>1. /\ Moved(w, "top", NoFile, hand[w]) /\ saved' = Renamed(file[w])
      /\ left' = left /\ status' = status /\ pc[w] = "dec_store"
  BY CloseIs
<1>2. Kept' = Kept \cup {file[w]}
  BY <1>1, OpenName DEF Kept
<1>3. ~IsOpen(w)'
  BY <1>1 DEF Moved, IsOpen
<1>4. Waits(w)' => Waits(w)
  BY <1>1 DEF Waits, Moved, Ended
<1>5. Waits(w) => Before(w) /\ file[w].name.date < date
  BY DEF NameInv, Named
<1>6. Waits(w)' => Before(w)'
  <2>1. date' = date
    BY <1>1 DEF Moved
  <2> QED BY <1>2, <1>4, <1>5, <2>1 DEF Before
<1>7. Named(w)'
  BY <1>3, <1>6 DEF Named
<1> QED BY <1>1, <1>2, <1>7, OpenName, NamesMoved

LEMMA StartNames ==
    ASSUME TypeInv, OpenInv, KeptInv, NameInv, NEW w \in Writer, WriterStarts(w)
    PROVE  NameInv' /\ Kept' = Kept
<1>1. /\ Moved(w, "inc_store", NewFile(w, 1), hand[w])
      /\ saved' = saved /\ left' = Without(left, NewFile(w, 1))
      /\ status'[w] = "running" /\ Waits(w)
  BY StartsIs
<1>2. Kept' = Kept
  BY <1>1, FirstName DEF Kept
<1>3. ~Waits(w)'
  BY <1>1 DEF Waits
<1>4. file'[w] = NewFile(w, 1) /\ date' = date /\ date \in Nat
  BY <1>1 DEF Moved, TypeInv, FileInv
<1>5. file'[w].name.date <= date' /\ OlderThan(w, file[w].name)'
  BY <1>1, <1>2, <1>4, FirstName DEF OlderThan
<1>6. Named(w)'
  BY <1>3, <1>5 DEF Named
<1> QED BY <1>1, <1>2, <1>6, NamesMoved

LEMMA StartFailsNames ==
    ASSUME TypeInv, OpenInv, KeptInv, NameInv, NEW w \in Writer,
           WriterStartFails(w)
    PROVE  /\ NameInv' /\ Waits(w)
           /\ Kept' = Kept \/ Kept' = Kept \cup {NewFile(w, 1)}
<1>1. /\ Moved(w, "unopened", file[w], hand[w])
      /\ saved' = saved /\ left' \in Abandoned(NewFile(w, 1))
      /\ Waits(w) /\ pc[w] = "top"
  BY StartFailsIs
<1>2. Kept' = Kept \/ Kept' = Kept \cup {NewFile(w, 1)}
  BY <1>1, FirstName DEF Kept, Abandoned
<1>3. ~Waits(w)'
  BY <1>1 DEF Waits, Moved, Ended
<1>4. ~IsOpen(w)'
  <2>1. file[w] = NoFile
    BY <1>1, OpenFacts DEF OpenPlace
  <2> QED BY <1>1, <2>1 DEF Moved, IsOpen
<1>5. Named(w)'
  BY <1>3, <1>4 DEF Named
<1>6. \A f \in Kept' : f \in Kept \/ (f.name.thread = w /\ f.name.date <= date)
  <2>1. date \in Nat
    BY DEF TypeInv, FileInv
  <2> QED BY <1>1, <1>2, <2>1, FirstName
<1> QED BY <1>1, <1>2, <1>5, <1>6, NamesMoved

LEMMA RollNames ==
    ASSUME TypeInv, OpenInv, KeptInv, NameInv, NEW w \in Writer, RollFile(w)
    PROVE  NameInv' /\ Kept' = Kept \cup {file[w]}
<1>1. /\ Moved(w, pc[w], NextFile(w), hand[w])
      /\ IsOpen(w) /\ pc[w] = "write"
      /\ saved' = Renamed(file[w]) /\ left' = Without(left, NextFile(w))
      /\ status' = status
  BY RollIs
<1>2. Kept' = Kept \cup {file[w]}
  BY <1>1, OpenName, NextName DEF Kept
<1>3. status[w] = "running"
  BY <1>1, WriterFacts DEF RunningPlace, WriterPlace
<1>4. ~Waits(w)'
  BY <1>1, <1>3 DEF Waits
<1>5. file'[w] = NextFile(w) /\ date' = date /\ date \in Nat
  BY <1>1 DEF Moved, TypeInv, FileInv
<1>6. file'[w].name.date <= date' /\ OlderThan(w, file[w].name)'
  BY <1>1, <1>2, <1>5, NextName DEF OlderThan
<1>7. Named(w)'
  BY <1>4, <1>6 DEF Named
<1> QED BY <1>1, <1>2, <1>7, OpenName, NamesMoved

LEMMA DiesNames ==
    ASSUME TypeInv, OpenInv, KeptInv, NameInv, NEW w \in Writer,
           WriteFails(w) \/ RollFails(w)
    PROVE  /\ NameInv' /\ IsOpen(w)
           /\ \/ Kept' = Kept \cup {file[w]}
              \/ Kept' = Kept \cup {file[w], NextFile(w)}
<1>1. Moved(w, "failed", NoFile, << >>) /\ IsOpen(w)
  BY DiesIs
<1>2. \/ Kept' = Kept \cup {file[w]}
      \/ Kept' = Kept \cup {file[w], NextFile(w)}
  <2>1. CASE saved' = Renamed(file[w]) /\ left' = left
    BY <1>1, <2>1, OpenName DEF Kept
  <2>2. CASE saved' = saved /\ left' = Without(left, file[w]) \cup {file[w]}
    BY <1>1, <2>2, OpenName DEF Kept
  <2>3. CASE saved' = Renamed(file[w]) /\ left' \in Abandoned(NextFile(w))
    BY <1>1, <2>3, OpenName, NextName DEF Kept, Abandoned
  <2> QED BY <2>1, <2>2, <2>3, DiesIs
<1>3. ~Waits(w)' /\ ~IsOpen(w)'
  BY <1>1 DEF Waits, Moved, Ended, IsOpen
<1>4. Named(w)'
  BY <1>3 DEF Named
<1>5. \A f \in Kept' : f \in Kept \/ (f.name.thread = w /\ f.name.date <= date)
  <2>1. date \in Nat
    BY DEF TypeInv, FileInv
  <2> QED BY <1>1, <1>2, <2>1, OpenName, NextName
<1> QED BY <1>1, <1>2, <1>4, <1>5, NamesMoved

(* A capture that begins in a second of its own has names of its own.       *)
LEMMA CaptureNames ==
    ASSUME TypeInv, KeptInv, NameInv, ReceiverStartsCapture, ~clash'
    PROVE  NameInv'
<1>1. /\ UNCHANGED <<saved, left, file>>
      /\ date' = date + 1 /\ date \in Nat
  BY StartsCaptureIs DEF TypeInv, FileInv
<1>2. Kept' = Kept
  BY <1>1 DEF Kept
<1>3. \A f \in Kept : f.name.date \in Nat /\ f.name.date <= date
  BY DEF KeptInv, NameInv, Record
<1>4. \A f \in Kept : f.name.date < date' /\ f.name.date <= date'
  BY <1>1, <1>3
<1>5. ASSUME NEW v \in Writer
      PROVE  Named(v)'
  <2>1. Before(v)'
    BY <1>2, <1>4 DEF Before
  <2>2. IsOpen(v) => file[v].name.date <= date /\ OlderThan(v, file[v].name)
    BY DEF NameInv, Named
  <2>3. file[v].name.date \in Nat
    BY WriterFacts DEF Record
  <2>4. OlderThan(v, file[v].name)' <=> OlderThan(v, file[v].name)
    BY <1>1, <1>2 DEF OlderThan
  <2>5. IsOpen(v)' <=> IsOpen(v)
    BY <1>1 DEF IsOpen
  <2> QED BY <1>1, <2>1, <2>2, <2>3, <2>4, <2>5 DEF Named
<1> QED BY <1>2, <1>4, <1>5 DEF NameInv

LEMMA NamesKept ==
    ASSUME TypeInv, OpenInv, KeptInv, NameInv, [Next]_vars, ~clash'
    PROVE  NameInv'
<1>1. CASE OuterStep
  <2>1. UNCHANGED <<saved, left, date, file, capture, status>>
    BY <1>1, OuterIs
  <2>2. \A v \in Writer : pc[v] \in Ended => pc'[v] \in Ended
    <3>1. CASE \A t \in Thread : pc[t] = "none"
      BY <3>1, ThreadFacts DEF Ended
    <3> QED BY <1>1, <3>1, OuterIs
  <2>3. \A v \in Writer : (IsOpen(v)' <=> IsOpen(v)) /\ (Waits(v)' => Waits(v))
    BY <2>1, <2>2 DEF IsOpen, Waits
  <2> QED BY <2>1, <2>3, NamesStay
<1>2. ASSUME NEW t \in Thread, ThreadStep(t)
      PROVE  NameInv'
  <2>1. CASE IdleStep(t)
    BY <2>1, IdleNames
  <2>2. CASE t \in Writer /\ IsOpen(t) /\ CountDown(t)
    BY <2>2, CloseNames
  <2>3. CASE t = Receiver /\ ReceiverStartsCapture
    BY <2>3, CaptureNames
  <2>4. CASE t = Receiver /\ Receive
    <3>1. /\ UNCHANGED <<saved, left, date, file, capture, status>>
          /\ \A v \in Writer : pc'[v] = pc[v]
      BY <2>4, ReceiveIs
    <3> QED BY <3>1, NamesStay DEF IsOpen, Waits
  <2>5. CASE t \in Writer /\ WriterStarts(t)
    BY <2>5, StartNames
  <2>6. CASE t \in Writer /\ WriterStartFails(t)
    BY <2>6, StartFailsNames
  <2>7. CASE t \in Writer /\ WriterTakes(t)
    <3>1. /\ UNCHANGED <<saved, left, date, file, capture, status>>
          /\ pc[t] = "take"
          /\ \A v \in Writer : v # t => pc'[v] = pc[v]
      BY <2>7, TakesIs DEF Moved, WriterTakes, fileVars
    <3>2. \A v \in Writer : (IsOpen(v)' <=> IsOpen(v)) /\ (Waits(v)' => Waits(v))
      BY <3>1 DEF IsOpen, Waits, Ended
    <3> QED BY <3>1, <3>2, NamesStay
  <2>8. CASE t \in Writer /\ WritePacket(t)
    <3>1. /\ UNCHANGED <<saved, left, date, capture, status>>
          /\ IsOpen(t) /\ IsOpen(t)' /\ file'[t].name = file[t].name
          /\ \A v \in Writer : v # t => pc'[v] = pc[v] /\ file'[v] = file[v]
      BY <2>8, WriteIs
    <3>2. pc[t] = "write"
      BY <2>8 DEF WritePacket
    <3>3. \A v \in Writer : (IsOpen(v)' <=> IsOpen(v)) /\ (Waits(v)' => Waits(v))
      BY <3>1, <3>2 DEF IsOpen, Waits, Ended
    <3> QED BY <3>1, <3>3, NamesStay
  <2>9. CASE t \in Writer /\ RollFile(t)
    BY <2>9, RollNames
  <2>10. CASE t \in Writer /\ (WriteFails(t) \/ RollFails(t))
    BY <2>10, DiesNames
  <2> QED BY <1>2, <2>1, <2>2, <2>3, <2>4, <2>5, <2>6, <2>7, <2>8, <2>9, <2>10,
             ThreadStepIs
<1> QED BY <1>1, <1>2, NextIs

(* What is on the disk are files with names, whatever they overwrite.       *)
LEMMA NewIsRecord ==
    ASSUME TypeInv, NEW w \in Writer, NEW no \in Nat
    PROVE  NewFile(w, no) \in Record
  BY ThreadFacts DEF NewFile, Record, TypeInv, FileInv

LEMMA KeptSame ==
    ASSUME KeptInv, UNCHANGED <<saved, left>>
    PROVE  KeptInv'
  BY DEF KeptInv, Kept

LEMMA KeptKept ==
    ASSUME TypeInv, OpenInv, KeptInv, [Next]_vars
    PROVE  KeptInv'
<1>1. CASE OuterStep
  BY <1>1, OuterIs, KeptSame
<1>2. ASSUME NEW t \in Thread, ThreadStep(t)
      PROVE  KeptInv'
  <2>1. CASE IdleStep(t)
    BY <2>1, IdleIs, KeptSame
  <2>2. CASE t \in Writer /\ IsOpen(t) /\ CountDown(t)
    BY <2>2, CloseIs, WriterFacts DEF KeptInv, Kept, Renamed, Without
  <2>3. CASE t = Receiver /\ ReceiverStartsCapture
    BY <2>3, StartsCaptureIs, KeptSame
  <2>4. CASE t = Receiver /\ Receive
    BY <2>4, ReceiveIs, KeptSame
  <2>5. CASE t \in Writer /\ WriterStarts(t)
    BY <2>5, StartsIs DEF KeptInv, Kept, Without
  <2>6. CASE t \in Writer /\ WriterStartFails(t)
    BY <2>6, StartFailsIs, NewIsRecord DEF KeptInv, Kept, Without, Abandoned
  <2>7. CASE t \in Writer /\ WriterTakes(t)
    BY <2>7, TakesIs, KeptSame
  <2>8. CASE t \in Writer /\ WritePacket(t)
    BY <2>8, WriteIs, KeptSame
  <2>9. CASE t \in Writer /\ RollFile(t)
    BY <2>9, RollIs, WriterFacts DEF KeptInv, Kept, Renamed, Without
  <2>10. CASE t \in Writer /\ (WriteFails(t) \/ RollFails(t))
    <3>1. NextFile(t) \in Record /\ file[t] \in Record
      <4>1. file[t].name.no + 1 \in Nat
        BY <2>10, WriterFacts DEF Record
      <4> QED BY <2>10, <4>1, WriterFacts, NewIsRecord DEF NextFile
    <3>2. \/ saved' = Renamed(file[t]) /\ left' = left
          \/ saved' = saved /\ left' = Without(left, file[t]) \cup {file[t]}
          \/ saved' = Renamed(file[t]) /\ left' \in Abandoned(NextFile(t))
      BY <2>10, DiesIs
    <3> QED BY <3>1, <3>2 DEF KeptInv, Kept, Renamed, Without, Abandoned
  <2> QED BY <1>2, <2>1, <2>2, <2>3, <2>4, <2>5, <2>6, <2>7, <2>8, <2>9, <2>10,
             ThreadStepIs
<1> QED BY <1>1, <1>2, NextIs

-----------------------------------------------------------------------------
(* Where the packets are.  What a writer does to its files moves none, as   *)
(* the files that come are empty and those that go have gone to the disk.   *)
LEMMA SameHolds ==
    ASSUME NEW w \in Writer,
           \A v \in Writer : v # w => file'[v] = file[v],
           \A f \in Kept : f \in Kept',
           \A f \in Kept' : f \in Kept \/ f = file[w] \/ f.data = << >>,
           file'[w] = file[w] \/ file'[w].data = << >>,
           file[w] \in Kept' \/ file'[w] = file[w] \/ file[w].data = << >>
    PROVE  \A f, p : Holds(f, p)' <=> Holds(f, p)
<1>1. Files = Kept \cup {file[v] : v \in Writer}
  BY DEF Files, Kept
<1>2. Files' = Kept' \cup {file'[v] : v \in Writer}
  BY DEF Files, Kept
<1>3. \A p : ~Contains(<< >>, p)
  BY DEF Contains
<1>4. ASSUME NEW f, NEW p, Holds(f, p)
      PROVE  Holds(f, p)'
  <2>1. f \in Files /\ Contains(f.data, p)
    BY <1>4 DEF Holds
  <2>2. f.data # << >>
    BY <1>3, <2>1
  <2>3. f \in Files'
    <3>1. CASE f \in Kept
      BY <1>2, <3>1
    <3>2. CASE \E v \in Writer : f = file[v]
      BY <1>2, <2>2, <3>2
    <3> QED BY <1>1, <2>1, <3>1, <3>2
  <2> QED BY <2>1, <2>3 DEF Holds
<1>5. ASSUME NEW f, NEW p, Holds(f, p)'
      PROVE  Holds(f, p)
  <2>1. f \in Files' /\ Contains(f.data, p)
    BY <1>5 DEF Holds
  <2>2. f.data # << >>
    BY <1>3, <2>1
  <2>3. f \in Files
    <3>1. CASE f \in Kept'
      BY <1>1, <2>2, <3>1
    <3>2. CASE \E v \in Writer : f = file'[v]
      BY <1>1, <2>2, <3>2
    <3> QED BY <1>2, <2>1, <3>1, <3>2
  <2> QED BY <2>1, <2>3 DEF Holds
<1> QED BY <1>4, <1>5

LEMMA HoldsStay ==
    ASSUME HoldInv, UNCHANGED <<ring, hand, dropped, rx>>,
           \A f, p : Holds(f, p)' <=> Holds(f, p)
    PROVE  HoldInv'
<1>1. \A p : Once(p) => Once(p)'
  BY DEF Once
<1> QED BY <1>1 DEF HoldInv

LEMMA HoldsUnchanged ==
    ASSUME UNCHANGED <<file, saved, left>>
    PROVE  \A f, p : Holds(f, p)' <=> Holds(f, p)
  BY DEF Holds, Files

LEMMA CloseHolds ==
    ASSUME TypeInv, OpenInv, KeptInv, NameInv, NEW w \in Writer, IsOpen(w),
           CountDown(w)
    PROVE  \A f, p : Holds(f, p)' <=> Holds(f, p)
<1>1. Moved(w, "top", NoFile, hand[w])
  BY CloseIs
<1>2. Kept' = Kept \cup {file[w]}
  BY CloseNames
<1>3. file'[w].data = << >> /\ \A v \in Writer : v # w => file'[v] = file[v]
  BY <1>1 DEF Moved, NoFile
<1> QED BY <1>2, <1>3, SameHolds

LEMMA StartHolds ==
    ASSUME TypeInv, OpenInv, KeptInv, NameInv, NEW w \in Writer, WriterStarts(w)
    PROVE  \A f, p : Holds(f, p)' <=> Holds(f, p)
<1>1. Moved(w, "inc_store", NewFile(w, 1), hand[w]) /\ pc[w] = "top" /\ Waits(w)
  BY StartsIs
<1>2. Kept' = Kept
  BY StartNames
<1>3. file'[w].data = << >> /\ \A v \in Writer : v # w => file'[v] = file[v]
  BY <1>1, FirstName DEF Moved
<1>4. file[w].data = << >>
  BY <1>1, OpenFacts DEF OpenPlace, NoFile
<1> QED BY <1>2, <1>3, <1>4, SameHolds

LEMMA StartFailsHolds ==
    ASSUME TypeInv, OpenInv, KeptInv, NameInv, NEW w \in Writer,
           WriterStartFails(w)
    PROVE  \A f, p : Holds(f, p)' <=> Holds(f, p)
<1>1. \A v \in Writer : file'[v] = file[v]
  BY StartFailsIs DEF Moved
<1>2. /\ Kept' = Kept \/ Kept' = Kept \cup {NewFile(w, 1)}
      /\ NewFile(w, 1).data = << >>
  BY StartFailsNames, FirstName
<1> QED BY <1>1, <1>2, SameHolds

LEMMA RollHolds ==
    ASSUME TypeInv, OpenInv, KeptInv, NameInv, NEW w \in Writer, RollFile(w)
    PROVE  \A f, p : Holds(f, p)' <=> Holds(f, p)
<1>1. Moved(w, pc[w], NextFile(w), hand[w]) /\ IsOpen(w)
  BY RollIs
<1>2. Kept' = Kept \cup {file[w]}
  BY RollNames
<1>3. file'[w].data = << >> /\ \A v \in Writer : v # w => file'[v] = file[v]
  BY <1>1, NextName DEF Moved
<1> QED BY <1>2, <1>3, SameHolds

LEMMA DiesHolds ==
    ASSUME TypeInv, OpenInv, KeptInv, NameInv, NEW w \in Writer,
           WriteFails(w) \/ RollFails(w)
    PROVE  \A f, p : Holds(f, p)' <=> Holds(f, p)
<1>1. Moved(w, "failed", NoFile, << >>)
  BY DiesIs
<1>2. /\ \/ Kept' = Kept \cup {file[w]}
         \/ Kept' = Kept \cup {file[w], NextFile(w)}
      /\ IsOpen(w)
  BY DiesNames
<1>3. NextFile(w).data = << >>
  BY <1>2, NextName
<1>4. file'[w].data = << >> /\ \A v \in Writer : v # w => file'[v] = file[v]
  BY <1>1 DEF Moved, NoFile
<1>5. file[w] \in Kept'
  BY <1>2
<1>6. \A f \in Kept' : f \in Kept \/ f = file[w] \/ f.data = << >>
  BY <1>2, <1>3
<1>7. \A f \in Kept : f \in Kept'
  BY <1>2
<1> QED BY <1>4, <1>5, <1>6, <1>7, SameHolds

(* What a sequence contains are its elements.                               *)
LEMMA ContainsIn ==
    ASSUME NEW S, NEW s \in Seq(S), NEW p, Contains(s, p)
    PROVE  p \in S
<1>1. PICK k \in 1 .. Len(s) : s[k] = p
  BY DEF Contains
<1> QED BY <1>1

LEMMA HeadIn ==
    ASSUME NEW S, NEW s \in Seq(S), s # << >>
    PROVE  Contains(s, Head(s))
<1>1. 1 \in 1 .. Len(s) /\ s[1] = Head(s)
  OBVIOUS
<1> QED BY <1>1 DEF Contains

LEMMA EmptyHolds == \A p : ~Contains(<< >>, p)
  BY DEF Contains

(* The packets in the hands of a writer that dies are dropped.              *)
LEMMA DiesHold ==
    ASSUME TypeInv, OpenInv, KeptInv, NameInv, HoldInv, NEW w \in Writer,
           WriteFails(w) \/ RollFails(w)
    PROVE  HoldInv'
<1>1. /\ hand'[w] = << >>
      /\ \A v \in Writer : v # w => hand'[v] = hand[v]
      /\ dropped' = dropped \cup InHand(hand[w])
      /\ UNCHANGED <<ring, rx>>
  BY DiesIs DEF Moved
<1>2. \A f, p : Holds(f, p)' <=> Holds(f, p)
  BY DiesHolds
<1>3. ASSUME NEW p \in 1 .. rx
      PROVE  Once(p)'
  <2>1. Once(p)
    BY DEF HoldInv
  <2>2. p \in dropped' <=> p \in dropped \/ Contains(hand[w], p)
    BY <1>1 DEF InHand, Contains
  <2>3. ~Contains(hand'[w], p)
    BY <1>1, EmptyHolds
  <2>4. \A v \in Writer : Contains(hand'[v], p) => v # w /\ Contains(hand[v], p)
    BY <1>1, <2>3
  <2>5. p \in dropped' => /\ ~Contains(ring, p)
                          /\ \A v \in Writer : ~Contains(hand'[v], p)
                          /\ \A f : ~Holds(f, p)
    BY <2>1, <2>2, <2>4 DEF Once
  <2>6. ASSUME /\ ~Contains(ring, p)
               /\ \A v \in Writer : ~Contains(hand'[v], p)
               /\ \A f : ~Holds(f, p)
        PROVE  p \in dropped'
    <3>1. \A v \in Writer : v # w => ~Contains(hand[v], p)
      BY <1>1, <2>6
    <3> QED BY <2>1, <2>2, <2>6, <3>1 DEF Once
  <2>7. ring' = ring
    BY <1>1
  <2> QED BY <1>2, <2>1, <2>4, <2>5, <2>6, <2>7 DEF Once
<1>4. \A v \in Writer : Distinct(hand'[v])
  <2>1. Distinct(<< >>)
    BY DEF Distinct
  <2> QED BY <1>1, <2>1 DEF HoldInv
<1> QED BY <1>1, <1>2, <1>3, <1>4 DEF HoldInv

(* A burst moves from the ring to the hands of the writer.                  *)
LEMMA TakesHold ==
    ASSUME TypeInv, OpenInv, HoldInv, NEW w \in Writer, WriterTakes(w)
    PROVE  HoldInv'
<1>1. PICK n \in 0 .. Len(ring) :
        /\ Moved(w, "write", file[w], SubSeq(ring, 1, n))
        /\ ring' = SubSeq(ring, n + 1, Len(ring))
        /\ UNCHANGED <<saved, left, dropped>> /\ pc[w] = "take"
  BY TakesIs
<1>2. PICK s : s = SubSeq(ring, 1, n)
  OBVIOUS
<1>3. /\ hand'[w] = s /\ rx' = rx
      /\ \A v \in Writer : v # w => hand'[v] = hand[v] /\ file'[v] = file[v]
      /\ file'[w] = file[w]
  BY <1>1, <1>2 DEF Moved
<1>4. ring \in Seq(1 .. rx) /\ Distinct(ring)
  BY DEF TypeInv, PacketInv, HoldInv
<1>5. /\ Distinct(s) /\ Distinct(ring')
      /\ \A p : /\ Contains(ring, p) <=> Contains(s, p) \/ Contains(ring', p)
                /\ ~ (Contains(s, p) /\ Contains(ring', p))
  BY <1>1, <1>2, <1>4, SplitIs
<1>6. \A f, p : Holds(f, p)' <=> Holds(f, p)
  BY <1>1, HoldsUnchanged DEF WriterTakes, fileVars
<1>7. hand[w] = << >>
  BY <1>1, OpenFacts
<1>8. ASSUME NEW p \in 1 .. rx
      PROVE  Once(p)'
  <2>1. Once(p)
    BY DEF HoldInv
  <2>2. ~Contains(hand[w], p)
    BY <1>7, EmptyHolds
  <2>3. /\ Contains(hand'[w], p) <=> Contains(s, p)
        /\ \A v \in Writer : v # w => (Contains(hand'[v], p) <=> Contains(hand[v], p))
    BY <1>3
  <2>4. /\ Contains(ring, p) <=> Contains(s, p) \/ Contains(ring', p)
        /\ ~ (Contains(s, p) /\ Contains(ring', p))
    BY <1>5
  <2>5. \A v \in Writer : ~ (Contains(ring', p) /\ Contains(hand'[v], p))
    BY <2>1, <2>3, <2>4 DEF Once
  <2>6. \A f : Holds(f, p) => /\ ~Contains(ring', p)
                              /\ \A v \in Writer : ~Contains(hand'[v], p)
    BY <2>1, <2>3, <2>4 DEF Once
  <2>7. \A v, x \in Writer :
          Contains(hand'[v], p) /\ Contains(hand'[x], p) => v = x
    BY <2>1, <2>3, <2>4 DEF Once
  <2>8. p \in dropped' <=> /\ ~Contains(ring', p)
                           /\ \A v \in Writer : ~Contains(hand'[v], p)
                           /\ \A f : ~Holds(f, p)
    <3>1. dropped' = dropped
      BY <1>1
    <3>2. (/\ ~Contains(ring', p)
           /\ \A v \in Writer : ~Contains(hand'[v], p))
            <=> /\ ~Contains(ring, p)
                /\ \A v \in Writer : ~Contains(hand[v], p)
      BY <2>2, <2>3, <2>4
    <3> QED BY <2>1, <3>1, <3>2 DEF Once
  <2> QED BY <1>6, <2>1, <2>5, <2>6, <2>7, <2>8 DEF Once
<1>9. \A v \in Writer : Distinct(hand'[v])
  BY <1>3, <1>5 DEF HoldInv
<1> QED BY <1>3, <1>5, <1>6, <1>8, <1>9 DEF HoldInv

(* A packet moves from the hands of a writer to the end of its file, which  *)
(* is no other file: the disk has none of its name, and the other writers   *)
(* have theirs.                                                             *)
LEMMA WriteFiles ==
    ASSUME TypeInv, OpenInv, KeptInv, NameInv, NEW w \in Writer, WritePacket(w)
    PROVE  LET Other(f) == f \in Kept \/ \E v \in Writer : v # w /\ f = file[v] IN
           /\ \A f : f \in Files <=> Other(f) \/ f = file[w]
           /\ \A f : f \in Files' <=> Other(f) \/ f = file'[w]
           /\ \A f : Other(f) => f # file[w] /\ f # file'[w]
<1> DEFINE Other(f) == f \in Kept \/ \E v \in Writer : v # w /\ f = file[v]
<1>1. /\ IsOpen(w) /\ file'[w].name = file[w].name
      /\ \A v \in Writer : v # w => file'[v] = file[v]
      /\ UNCHANGED <<saved, left>>
  BY WriteIs
<1>2. \A f : f \in Files <=> Other(f) \/ f = file[w]
  BY DEF Files, Kept
<1>3. \A f : f \in Files' <=> Other(f) \/ f = file'[w]
  <2>1. Files' = Kept \cup {file'[v] : v \in Writer}
    BY <1>1 DEF Files, Kept
  <2> QED BY <1>1, <2>1
<1>4. ASSUME NEW f, Other(f)
      PROVE  f.name # file[w].name
  <2>1. CASE f \in Kept
    BY <1>1, <2>1, OpenName
  <2>2. ASSUME NEW v \in Writer, v # w, f = file[v]
        PROVE  f.name # file[w].name
    <3>1. file[w].name.thread = w /\ file[w].name.thread # Receiver
      BY <1>1, WriterFacts
    <3>2. file[v].name.thread = v \/ file[v].name.thread = Receiver
      BY WriterFacts DEF IsOpen, NoFile
    <3> QED BY <2>2, <3>1, <3>2
  <2> QED BY <1>4, <2>1, <2>2
<1>5. \A f : Other(f) => f # file[w] /\ f # file'[w]
  BY <1>1, <1>4
<1> QED BY <1>2, <1>3, <1>5

LEMMA WriteHold ==
    ASSUME TypeInv, OpenInv, KeptInv, NameInv, HoldInv, NEW w \in Writer,
           WritePacket(w)
    PROVE  HoldInv'
<1> DEFINE Other(f) == f \in Kept \/ \E v \in Writer : v # w /\ f = file[v]
<1>1. PICK g \in Record : g = file[w]
  BY WriterFacts
<1>2. PICK h : h = Head(hand[w])
  OBVIOUS
<1>3. PICK e : e = file'[w]
  OBVIOUS
<1>4. /\ hand[w] # << >> /\ hand[w] \in Seq(1 .. rx) /\ Distinct(hand[w])
      /\ hand'[w] = Tail(hand[w])
      /\ \A v \in Writer : v # w => hand'[v] = hand[v]
      /\ e.data = Append(g.data, h)
      /\ UNCHANGED <<ring, rx, dropped>>
  BY <1>1, <1>2, <1>3, WriteIs, WriterFacts DEF HoldInv
<1>5. /\ Distinct(hand'[w]) /\ h \in 1 .. rx
      /\ \A p : Contains(hand'[w], p) <=> Contains(hand[w], p) /\ p # h
      /\ Contains(hand[w], h)
  BY <1>2, <1>4, HeadOff, HeadIn
<1>6. \A p : Contains(e.data, p) <=> Contains(g.data, p) \/ p = h
  <2>1. g.data \in Seq(Packet)
    BY DEF Record
  <2>2. h \in Packet
    BY <1>5, BoundAssumption DEF TypeInv, PacketInv, Packet
  <2> QED BY <1>4, <2>1, <2>2, ContainsAppend
<1>7. /\ \A f : f \in Files <=> Other(f) \/ f = g
      /\ \A f : f \in Files' <=> Other(f) \/ f = e
      /\ \A f : Other(f) => f # g /\ f # e
  BY <1>1, <1>3, WriteFiles
<1> HIDE DEF Other
<1>8. \A f, p : Holds(f, p) <=> /\ Other(f) \/ f = g
                                /\ Contains(f.data, p)
  BY <1>7 DEF Holds
<1>9. \A f, p : Holds(f, p)' <=> /\ Other(f) \/ f = e
                                 /\ Contains(f.data, p)
  BY <1>7 DEF Holds
<1>10. ASSUME NEW p \in 1 .. rx, p # h
       PROVE  Once(p)'
  <2>1. Once(p)
    BY DEF HoldInv
  <2>2. \A v \in Writer : Contains(hand'[v], p) <=> Contains(hand[v], p)
    BY <1>4, <1>5, <1>10
  <2>3. Contains(e.data, p) <=> Contains(g.data, p)
    BY <1>6, <1>10
  <2>4. \A f : Holds(f, p)' => /\ ~Contains(ring, p)
                               /\ \A v \in Writer : ~Contains(hand[v], p)
    BY <1>8, <1>9, <2>1, <2>3 DEF Once
  <2>5. ASSUME NEW f, NEW k, Holds(f, p)', Holds(k, p)'
        PROVE  f = k
    <3>1. \A x : Holds(x, p)' => \/ Other(x) /\ Holds(x, p) /\ x # g
                                 \/ x = e /\ Holds(g, p)
      BY <1>7, <1>8, <1>9, <2>3
    <3> QED BY <2>1, <2>5, <3>1 DEF Once
  <2>6. (\E f : Holds(f, p)') <=> (\E f : Holds(f, p))
    BY <1>8, <1>9, <2>3
  <2>7. p \in dropped' <=> /\ ~Contains(ring, p)
                           /\ \A v \in Writer : ~Contains(hand[v], p)
                           /\ \A f : ~Holds(f, p)'
    <3>1. dropped' = dropped
      BY <1>4
    <3>2. (\A f : ~Holds(f, p)') <=> (\A f : ~Holds(f, p))
      BY <2>6
    <3> QED BY <2>1, <3>1, <3>2 DEF Once
  <2>8. ring' = ring
    BY <1>4
  <2> QED BY <2>1, <2>2, <2>4, <2>5, <2>7, <2>8 DEF Once
<1>11. Once(h)'
  <2>1. Once(h)
    BY <1>5 DEF HoldInv
  <2>2. /\ ~Contains(ring, h) /\ h \notin dropped
        /\ \A v \in Writer : v # w => ~Contains(hand[v], h)
        /\ \A f : ~Holds(f, h)
    BY <1>5, <2>1 DEF Once
  <2>3. \A v \in Writer : ~Contains(hand'[v], h)
    BY <1>4, <1>5, <2>2
  <2>4. \A f : Holds(f, h)' <=> f = e
    BY <1>6, <1>8, <1>9, <2>2
  <2>5. ring' = ring /\ dropped' = dropped
    BY <1>4
  <2> QED BY <2>2, <2>3, <2>4, <2>5 DEF Once
<1>12. \A f, p : Holds(f, p)' => p \in 1 .. rx
  <2>1. \A f, p : Holds(f, p) => p \in 1 .. rx
    BY DEF HoldInv
  <2> QED BY <1>5, <1>6, <1>8, <1>9, <2>1
<1>13. \A v \in Writer : Distinct(hand'[v])
  BY <1>4, <1>5 DEF HoldInv
<1>14. ring' = ring /\ rx' = rx
  BY <1>4
<1>15. \A p \in 1 .. rx : Once(p)'
  BY <1>10, <1>11
<1> QED BY <1>12, <1>13, <1>14, <1>15 DEF HoldInv

(* The packets of a burst, as they are put into the ring.                   *)
LEMMA BurstIs ==
    ASSUME NEW r \in Nat, NEW n \in Nat, NEW k \in 0 .. n
    PROVE  LET s == [j \in 1 .. k |-> r + j] IN
           /\ s \in Seq(1 .. (r + n)) /\ Distinct(s)
           /\ \A p : Contains(s, p) <=> p \in r + 1 .. r + k
<1>1. PICK s : s = [j \in 1 .. k |-> r + j]
  OBVIOUS
<1>2. s \in Seq(1 .. (r + n)) /\ Len(s) = k /\ \A j \in 1 .. k : s[j] = r + j
  BY <1>1
<1>3. Distinct(s)
  BY <1>2 DEF Distinct
<1>4. ASSUME NEW p
      PROVE  Contains(s, p) <=> p \in r + 1 .. r + k
  <2>1. ASSUME p \in r + 1 .. r + k
        PROVE  Contains(s, p)
    <3>1. PICK j : j = p - r
      OBVIOUS
    <3>2. j \in 1 .. k /\ p = r + j
      BY <2>1, <3>1
    <3> QED BY <1>2, <3>2 DEF Contains
  <2>2. ASSUME Contains(s, p)
        PROVE  p \in r + 1 .. r + k
    <3>1. PICK j \in 1 .. k : s[j] = p
      BY <1>2, <2>2 DEF Contains
    <3> QED BY <1>2, <3>1
  <2> QED BY <2>1, <2>2
<1> QED BY <1>1, <1>2, <1>3, <1>4

LEMMA ReceiveHold ==
    ASSUME TypeInv, HoldInv, Receive
    PROVE  HoldInv'
<1>1. PICK n \in 0 .. Lesser(Burst, MaxPacket - rx) :
        LET kept == Lesser(n, RingSlots) IN
        /\ ring' = ring \o [k \in 1 .. kept |-> rx + k]
        /\ dropped' = dropped \cup (rx + kept + 1 .. rx + n)
        /\ rx' = rx + n
  BY ReceiveIs
<1>2. PICK kept : kept = Lesser(n, RingSlots)
  OBVIOUS
<1>3. /\ n \in Nat /\ rx \in Nat /\ kept \in 0 .. n
      /\ ring \in Seq(1 .. rx) /\ dropped \subseteq 1 .. rx
  <2>1. rx \in 0 .. MaxPacket /\ ring \in Seq(1 .. rx) /\ Len(ring) <= RingSize
    BY DEF TypeInv, PacketInv
  <2>2. Len(ring) \in Nat
    BY <2>1, LenProperties
  <2>3. n \in Nat
    BY <2>1, SizeAssumption, BoundAssumption DEF Lesser
  <2>4. RingSlots \in Nat
    BY <2>1, <2>2, SizeAssumption DEF RingSlots
  <2>5. kept \in 0 .. n
    BY <1>2, <2>3, <2>4 DEF Lesser
  <2>6. dropped \subseteq 1 .. rx
    BY DEF TypeInv, PacketInv
  <2> QED BY <2>1, <2>3, <2>5, <2>6, BoundAssumption
<1>4. PICK new : new = [k \in 1 .. kept |-> rx + k]
  OBVIOUS
<1>5. /\ new \in Seq(1 .. (rx + n)) /\ Distinct(new)
      /\ \A p : Contains(new, p) <=> p \in rx + 1 .. rx + kept
  BY <1>3, <1>4, BurstIs
<1>6. ring' = ring \o new /\ rx' = rx + n
  BY <1>1, <1>2, <1>4
<1>7. \A p : Contains(ring, p) => p \in 1 .. rx
  BY <1>3, ContainsIn
<1>8. \A p : ~ (Contains(ring, p) /\ Contains(new, p))
  BY <1>3, <1>5, <1>7
<1>9. ring \in Seq(1 .. (rx + n))
  BY <1>3
<1>10. /\ \A p : Contains(ring', p) <=> Contains(ring, p) \/ Contains(new, p)
       /\ Distinct(ring')
  BY <1>5, <1>6, <1>8, <1>9, ContainsConcat, DistinctConcat DEF HoldInv
<1>11. /\ hand' = hand /\ UNCHANGED <<file, saved, left>>
  BY ReceiveIs
<1>12. \A f, p : Holds(f, p)' <=> Holds(f, p)
  BY <1>11, HoldsUnchanged
<1>13. \A p : p \in dropped' <=> p \in dropped \/ p \in rx + kept + 1 .. rx + n
  BY <1>1, <1>2
<1>14. ASSUME NEW p \in 1 .. rx
       PROVE  Once(p)'
  <2>1. Once(p)
    BY DEF HoldInv
  <2>2. p \in dropped' <=> p \in dropped
    BY <1>3, <1>13
  <2>3. Contains(ring', p) <=> Contains(ring, p)
    BY <1>3, <1>5, <1>10
  <2> QED BY <1>11, <1>12, <2>1, <2>2, <2>3 DEF Once
<1>15. ASSUME NEW p \in rx + 1 .. rx + n
       PROVE  Once(p)'
  <2>1. p \notin 1 .. rx
    BY <1>3
  <2>2. ~Contains(ring, p) /\ p \notin dropped
    BY <1>3, <1>7, <2>1
  <2>3. \A v \in Writer : ~Contains(hand[v], p)
    BY <2>1, ContainsIn, WriterFacts
  <2>4. \A f : ~Holds(f, p)
    BY <2>1 DEF HoldInv
  <2>5. p \in dropped' <=> ~Contains(ring', p)
    <3>1. p \in rx + kept + 1 .. rx + n <=> ~ (p \in rx + 1 .. rx + kept)
      BY <1>3
    <3>2. Contains(ring', p) <=> p \in rx + 1 .. rx + kept
      BY <1>5, <1>10, <2>2
    <3>3. p \in dropped' <=> p \in rx + kept + 1 .. rx + n
      BY <1>13, <2>2
    <3> QED BY <3>1, <3>2, <3>3
  <2> QED BY <1>11, <1>12, <2>3, <2>4, <2>5 DEF Once
<1>16. \A p \in 1 .. rx' : p \in 1 .. rx \/ p \in rx + 1 .. rx + n
  BY <1>3, <1>6
<1>17. \A f, p : Holds(f, p)' => p \in 1 .. rx'
  <2>1. 1 .. rx \subseteq 1 .. rx'
    BY <1>3, <1>6
  <2> QED BY <1>12, <2>1 DEF HoldInv
<1>18. \A v \in Writer : Distinct(hand'[v])
  BY <1>11 DEF HoldInv
<1>19. \A p \in 1 .. rx' : Once(p)'
  BY <1>14, <1>15, <1>16
<1> QED BY <1>10, <1>17, <1>18, <1>19 DEF HoldInv

LEMMA HoldKept ==
    ASSUME TypeInv, OpenInv, KeptInv, NameInv, HoldInv, [Next]_vars
    PROVE  HoldInv'
<1>1. CASE OuterStep
  BY <1>1, OuterIs, HoldsStay, HoldsUnchanged
<1>2. ASSUME NEW t \in Thread, ThreadStep(t)
      PROVE  HoldInv'
  <2>1. CASE IdleStep(t)
    BY <2>1, IdleIs, HoldsStay, HoldsUnchanged
  <2>2. CASE t \in Writer /\ IsOpen(t) /\ CountDown(t)
    <3>1. UNCHANGED <<ring, hand, dropped, rx>>
      BY <2>2 DEF CountDown, packetVars
    <3> QED BY <2>2, <3>1, CloseHolds, HoldsStay
  <2>3. CASE t = Receiver /\ ReceiverStartsCapture
    BY <2>3, StartsCaptureIs, HoldsStay, HoldsUnchanged
  <2>4. CASE t = Receiver /\ Receive
    BY <2>4, ReceiveHold
  <2>5. CASE t \in Writer /\ WriterStarts(t)
    <3>1. UNCHANGED <<ring, hand, dropped, rx>>
      BY <2>5 DEF WriterStarts, packetVars
    <3> QED BY <2>5, <3>1, StartHolds, HoldsStay
  <2>6. CASE t \in Writer /\ WriterStartFails(t)
    <3>1. UNCHANGED <<ring, hand, dropped, rx>>
      BY <2>6 DEF WriterStartFails, packetVars
    <3> QED BY <2>6, <3>1, StartFailsHolds, HoldsStay
  <2>7. CASE t \in Writer /\ WriterTakes(t)
    BY <2>7, TakesHold
  <2>8. CASE t \in Writer /\ WritePacket(t)
    BY <2>8, WriteHold
  <2>9. CASE t \in Writer /\ RollFile(t)
    <3>1. UNCHANGED <<ring, hand, dropped, rx>>
      BY <2>9 DEF RollFile, packetVars
    <3> QED BY <2>9, <3>1, RollHolds, HoldsStay
  <2>10. CASE t \in Writer /\ (WriteFails(t) \/ RollFails(t))
    BY <2>10, DiesHold
  <2> QED BY <1>2, <2>1, <2>2, <2>3, <2>4, <2>5, <2>6, <2>7, <2>8, <2>9, <2>10,
             ThreadStepIs
<1> QED BY <1>1, <1>2, NextIs

(* A capture that began too soon is never forgotten.                        *)
LEMMA ClashStays ==
    ASSUME TypeInv, OpenInv, [Next]_vars, clash
    PROVE  clash'
<1>1. CASE OuterStep
  BY <1>1, OuterIs
<1>2. ASSUME NEW t \in Thread, ThreadStep(t)
      PROVE  clash'
  <2>1. CASE IdleStep(t)
    BY <2>1, IdleIs
  <2>2. CASE t \in Writer /\ CountDown(t)
    BY <2>2 DEF CountDown
  <2>3. CASE t = Receiver /\ (ReceiverStartsCapture \/ Receive)
    BY <2>3 DEF ReceiverStartsCapture, Receive
  <2>4. CASE /\ t \in Writer
             /\ \/ WriterStarts(t) \/ WriterStartFails(t) \/ WriterTakes(t)
                \/ WritePacket(t) \/ RollFile(t) \/ WriteFails(t) \/ RollFails(t)
    BY <2>4 DEF WriterStarts, WriterStartFails, WriterTakes, WritePacket, RollFile,
                WriteFails, RollFails, WriterDies
  <2> QED BY <1>2, <2>1, <2>2, <2>3, <2>4, ThreadStepIs
<1> QED BY <1>1, <1>2, NextIs

LEMMA KeepInit ==
    ASSUME Init, TypeInv
    PROVE  KeepInv
<1>1. /\ pc = [t \in Thread |-> "none"] /\ status = [t \in Thread |-> "idle"]
      /\ file = [w \in Writer |-> NoFile] /\ hand = [w \in Writer |-> << >>]
      /\ ring = << >> /\ saved = {} /\ left = {} /\ rx = 0 /\ dropped = {}
      /\ capture = "idle"
  BY DEF Init
<1>2. \A w \in Writer : pc[w] = "none" /\ file[w] = NoFile /\ hand[w] = << >>
  BY <1>1, ThreadFacts
<1>3. OpenInv
  BY <1>2 DEF OpenInv, IsOpen, OpenPlace
<1>4. DrainInv
  BY <1>1 DEF DrainInv
<1>5. Kept = {}
  BY <1>1 DEF Kept
<1>6. KeptInv
  BY <1>5 DEF KeptInv
<1>7. NameInv
  BY <1>1, <1>2, <1>5 DEF NameInv, Named, IsOpen, Waits
<1>8. \A f \in Files : f.data = << >>
  BY <1>1, <1>2 DEF Files, NoFile
<1>9. \A f, p : ~Holds(f, p)
  BY <1>8, EmptyHolds DEF Holds
<1>10. Distinct(<< >>)
  BY DEF Distinct
<1>11. \A p : p \notin 1 .. rx
  BY <1>1
<1>12. HoldInv
  BY <1>1, <1>2, <1>9, <1>10, <1>11 DEF HoldInv
<1> QED BY <1>3, <1>4, <1>6, <1>7, <1>12 DEF KeepInv

LEMMA KeepKept ==
    ASSUME KeepInv, TypeInv', [Next]_vars
    PROVE  KeepInv'
<1>1. TypeInv /\ OpenInv /\ DrainInv /\ KeptInv
  BY DEF KeepInv
<1>2. OpenInv' /\ DrainInv' /\ KeptInv'
  BY <1>1, OpenKept, DrainKept, KeptKept
<1>3. ASSUME ~clash'
      PROVE  NameInv' /\ HoldInv'
  <2>1. NameInv /\ HoldInv
    BY <1>1, <1>3, ClashStays DEF KeepInv
  <2> QED BY <1>1, <1>3, <2>1, NamesKept, HoldKept
<1> QED BY <1>2, <1>3 DEF KeepInv

(* Being in one place is having one place.                                  *)
LEMMA OnePlace ==
    ASSUME NEW p \in 1 .. rx, Once(p)
    PROVE  Cardinality(PlacesOf(p)) = IF p \in dropped THEN 0 ELSE 1
<1>1. \A x : x \in PlacesOf(p) <=>
                \/ x = "ring" /\ Contains(ring, p)
                \/ x \in Writer /\ Contains(hand[x], p)
                \/ \E f : Holds(f, p) /\ x = f.name
  BY DEF PlacesOf, Holds
<1>2. CASE p \in dropped
  <2>1. PlacesOf(p) = {}
    BY <1>1, <1>2 DEF Once
  <2> QED BY <1>2, <2>1, FS_EmptySet
<1>3. CASE p \notin dropped
  <2>1. \E x : PlacesOf(p) = {x}
    <3>1. CASE Contains(ring, p)
      <4>1. \A x : x \in PlacesOf(p) <=> x = "ring"
        BY <1>1, <3>1 DEF Once
      <4>2. PlacesOf(p) = {"ring"}
        BY <4>1
      <4> QED BY <4>2
    <3>2. ASSUME NEW w \in Writer, Contains(hand[w], p)
          PROVE  PlacesOf(p) = {w}
      <4>1. \A x : x \in PlacesOf(p) <=> x = w
        BY <1>1, <3>2 DEF Once
      <4> QED BY <4>1
    <3>3. ASSUME NEW f, Holds(f, p)
          PROVE  PlacesOf(p) = {f.name}
      <4>1. \A x : x \in PlacesOf(p) <=> x = f.name
        BY <1>1, <3>3 DEF Once
      <4> QED BY <4>1
    <3> QED BY <1>3, <3>1, <3>2, <3>3 DEF Once
  <2>2. PICK x : PlacesOf(p) = {x}
    BY <2>1
  <2> QED BY <1>3, <2>2, FS_Singleton
<1> QED BY <1>2, <1>3

(* spp_pcap loses no packet and writes none twice: each packet received is  *)
(* in the ring, in the hands of one writer or in one file on the disk, once, *)
(* or its loss was reported; captures that begin in one second apart.  And   *)
(* no packet of a capture stays in the ring for the next one, but for        *)
(* writers that could miss it.                                              *)
THEOREM PacketsCorrect == Spec => []PacketsKept
<1>1. Init /\ TypeInv => KeepInv
  BY KeepInit
<1>2. KeepInv /\ TypeInv' /\ [Next]_vars => KeepInv'
  BY KeepKept
<1>3. KeepInv => PacketsKept
  <2> SUFFICES ASSUME KeepInv
               PROVE  PacketsKept
    OBVIOUS
  <2>1. Accounted
    BY OnePlace DEF Accounted, KeepInv, HoldInv
  <2>2. Drained
    <3>1. SUFFICES ASSUME AtRest, ~late, ring # << >>
                   PROVE  FALSE
      BY DEF Drained
    <3>2. PICK w \in Writer : pc[w] \notin Ended /\ status[w] = "idle"
      BY <3>1, ThreadFacts DEF AtRest
    <3> QED BY <3>1, <3>2 DEF KeepInv, DrainInv
  <2> QED BY <2>1, <2>2 DEF PacketsKept
<1> QED
  BY <1>1, <1>2, <1>3, TypeInvariant, PTL DEF Spec
=============================================================================
