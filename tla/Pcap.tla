-------------------------------- MODULE Pcap --------------------------------
(***************************************************************************)
(* The spp_pcap process: one lcore receives packets from the captured port *)
(* and puts them into a ring, the other lcores take them from the ring and *)
(* write compressed files.  A capture is started and stopped by commands;  *)
(* the lcores learn of it through two shared words, g_capture_request      *)
(* (main to receiver) and g_capture_status (receiver to writers), and      *)
(* count themselves in start_up_cnt, which the receiver waits for.         *)
(*                                                                         *)
(* Abstractions: a packet is a number in the order of reception; the size  *)
(* of a file is its number of packets; the date in a file name counts the  *)
(* seconds in which captures started; what lz4 or the file system refuse   *)
(* is one failure per operation.                                           *)
(***************************************************************************)
EXTENDS Naturals, FiniteSets, Sequences

CONSTANTS
    Receiver, Writer,  \* the slave lcores: thread 0, and the others
    RingSize,          \* RING_SIZE
    Burst,             \* MAX_PCAP_BURST
    FileLimit,         \* fsize_limit, in packets
    Faulty,            \* the writers whose file operations may fail
    Signals,           \* whether SIGTERM or SIGINT may come
    MaxPacket,         \* bound: packets that arrive at the captured port
    MaxCommand         \* bound: start and stop commands and signals

ASSUME ThreadAssumption == IsFiniteSet(Writer) /\ Receiver \notin Writer
ASSUME SizeAssumption ==
    /\ RingSize \in Nat \ {0}
    /\ Burst \in Nat \ {0}
    /\ FileLimit \in Nat \ {0}
ASSUME BoundAssumption ==
    MaxPacket \in Nat /\ MaxCommand \in Nat
ASSUME FaultAssumption == Faulty \subseteq Writer /\ Signals \in BOOLEAN

Thread     == {Receiver} \cup Writer
ThreadCnt  == Cardinality(Thread)          \* pcap_status_info.thread_cnt
Packet     == 1 .. MaxPacket
CoreStatus == {"stop", "idle", "forward", "stop_request"}
CaptureStatus == {"idle", "running"}

VARIABLES
    core,       \* g_core_info[].status of the slave lcores
    mainCore,   \* ... and of the main lcore
    mpc,        \* where main() is
    request,    \* g_capture_request
    capture,    \* g_capture_status
    date,       \* g_pcap_option.compress_file_date
    status,     \* g_pcap_info[].status
    cnt,        \* g_pcap_thread_info.start_up_cnt
    pc, reg,    \* where each thread is, and the count it has loaded
    file,       \* g_pcap_info[].compress_fp: the open .tmp file
    ring, hand, \* cap_ring, and the packets each writer took from it
    saved, left,\* the files on disk: renamed, and .tmp files left behind
    rx, ncmd,   \* packets received and commands taken so far
    dropped,    \* packets that were dropped with an error message
    raced,      \* a thread's update of start_up_cnt overwrote another's
    clash,      \* a capture was started in the second of the one before
    late        \* a packet came while a writer was out of the capture or
                \* had just found the ring empty

countVars == <<cnt, reg, raced>>
fileVars  == <<file, saved, left>>
mainVars  == <<mainCore, mpc, request, ncmd>>
packetVars == <<ring, hand, rx, dropped, late>>
vars == <<core, mainVars, capture, date, status, countVars, pc, fileVars,
          packetVars, clash>>

-----------------------------------------------------------------------------
(* Files.  compress_file_name holds date, thread_no and file_no; a thread   *)
(* stands for its number.                                                   *)

FileName == [date : Nat, thread : Writer, no : Nat \ {0}]
File     == [name : FileName, data : Seq(Packet)]
NoFile   == [name |-> [date |-> 0, thread |-> Receiver, no |-> 0],
             data |-> << >>]

IsOpen(w)      == file[w] # NoFile
NewFile(w, no) == [name |-> [date |-> date, thread |-> w, no |-> no],
                   data |-> << >>]

(* Mutant: the next file keeps the number of the last.                      *)
NextFileSame(w) == NewFile(w, file[w].name.no)

(* UPDATE_MODE counts file_no up; date and number make the next name.      *)
NextFile(w) == NewFile(w, file[w].name.no + 1)

(* What fopen("wb") and rename do to a file of the same name.               *)
Without(files, f) == {g \in files : g.name # f.name}
Renamed(f)        == Without(saved, f) \cup {f}

(* Mutant: the ring takes whatever comes.                                   *)
RingSlotsUnchecked == MaxPacket

RingSlots == RingSize - Len(ring)
Lesser(m, n) == IF m <= n THEN m ELSE n

Init ==
    /\ core = [t \in Thread |-> "stop"]
    /\ mainCore = "stop"
    /\ mpc = "init"
    /\ request = "idle"
    /\ capture = "idle"
    /\ date = 0
    /\ status = [t \in Thread |-> "idle"]
    /\ cnt = 0
    /\ pc = [t \in Thread |-> "none"]
    /\ reg = [t \in Thread |-> 0]
    /\ file = [w \in Writer |-> NoFile]
    /\ ring = << >>
    /\ hand = [w \in Writer |-> << >>]
    /\ saved = {}
    /\ left = {}
    /\ rx = 0
    /\ ncmd = 0
    /\ dropped = {}
    /\ raced = FALSE
    /\ clash = FALSE
    /\ late = FALSE

Goto(t, place) == pc' = [pc EXCEPT ![t] = place]

-----------------------------------------------------------------------------
(* slave_main.  A thread that leaves the loop is "stopped", or "failed" when *)
(* an error ended it: "unopened" if it never had a file.                    *)

Ended == {"stopped", "failed", "unopened"}

ThreadStart(t) ==
    /\ pc[t] = "launched"
    /\ core' = [core EXCEPT ![t] = "idle"]
    /\ Goto(t, "top")
    /\ UNCHANGED <<mainVars, capture, date, status, countVars, fileVars,
                   packetVars, clash>>

MustStop(t) == core[t] = "stop_request" /\ status[t] = "idle"

(* Mutant: the stop request does not call the capture off.                  *)
ReceiverTopDeaf ==
    /\ pc[Receiver] = "top"
    /\ ~MustStop(Receiver)
    /\ Goto(Receiver, "look")
    /\ UNCHANGED <<core, mainVars, capture, date, status, countVars,
                   fileVars, packetVars, clash>>

ReceiverTop ==
    /\ pc[Receiver] = "top"
    /\ ~MustStop(Receiver)
    /\ Goto(Receiver, "look")
    /\ request' = IF core[Receiver] = "stop_request" THEN "idle" ELSE request
    /\ UNCHANGED <<core, mainCore, mpc, ncmd, capture, date, status,
                   countVars, fileVars, packetVars, clash>>

ThreadStop(t) ==
    /\ pc[t] = "top"
    /\ MustStop(t)
    /\ core' = [core EXCEPT ![t] = "stop"]
    /\ Goto(t, "stopped")
    /\ UNCHANGED <<mainVars, capture, date, status, countVars, fileVars,
                   packetVars, clash>>

(* start_up_cnt is a plain int that all threads add to and subtract from.   *)
CountLoad(t) ==
    /\ pc[t] \in {"inc", "dec"}
    /\ reg' = [reg EXCEPT ![t] = cnt]
    /\ Goto(t, IF pc[t] = "inc" THEN "inc_store" ELSE "dec_store")
    /\ UNCHANGED <<core, mainVars, capture, date, status, cnt, raced,
                   fileVars, packetVars, clash>>

StoreCount(t, n) ==
    /\ cnt' = n
    /\ raced' = (raced \/ reg[t] # cnt)
    /\ reg' = [reg EXCEPT ![t] = 0]

CountUp(t) ==
    /\ pc[t] = "inc_store"
    /\ StoreCount(t, reg[t] + 1)
    /\ Goto(t, IF t = Receiver THEN "gate" ELSE "take")
    /\ UNCHANGED <<core, mainVars, capture, date, status, fileVars,
                   packetVars, clash>>

(* A writer then closes its file, CLOSE_MODE.  A stream that cannot be      *)
(* ended is renamed all the same.                                           *)
CountDown(t) ==
    /\ pc[t] = "dec_store"
    /\ StoreCount(t, IF reg[t] # 0 THEN reg[t] - 1 ELSE cnt)
    /\ IF t \in Writer /\ IsOpen(t)
       THEN file' = [file EXCEPT ![t] = NoFile] /\ saved' = Renamed(file[t])
       ELSE UNCHANGED <<file, saved>>
    /\ Goto(t, "top")
    /\ UNCHANGED <<core, mainVars, capture, date, status, left, packetVars,
                   clash>>

-----------------------------------------------------------------------------
(* pcap_proc_receive.                                                       *)

(* Mutant: the receiver stays counted.                                      *)
ReceiverStopsCounted ==
    /\ pc[Receiver] = "look"
    /\ request = "idle" /\ status[Receiver] = "running"
    /\ status' = [status EXCEPT ![Receiver] = "idle"]
    /\ capture' = "idle"
    /\ Goto(Receiver, "top")
    /\ UNCHANGED <<core, mainVars, date, countVars, fileVars, packetVars,
                   clash>>

ReceiverStopsCapture ==
    /\ pc[Receiver] = "look"
    /\ request = "idle" /\ status[Receiver] = "running"
    /\ status' = [status EXCEPT ![Receiver] = "idle"]
    /\ capture' = "idle"
    /\ Goto(Receiver, "dec")
    /\ UNCHANGED <<core, mainVars, date, countVars, fileVars, packetVars, clash>>

(* The date has a resolution of one second: it may be that of the capture  *)
(* before, or a later one.                                                  *)
ReceiverStartsCapture ==
    /\ pc[Receiver] = "look"
    /\ request = "running" /\ status[Receiver] = "idle"
    /\ date' \in {date, date + 1} \ {0}
    /\ clash' = (clash \/ date' = date)
    /\ status' = [status EXCEPT ![Receiver] = "running"]
    /\ capture' = "running"
    /\ Goto(Receiver, "inc")
    /\ UNCHANGED <<core, mainVars, countVars, fileVars, packetVars>>

ReceiverGoesOn ==
    /\ pc[Receiver] = "look"
    /\ request = status[Receiver]
    /\ Goto(Receiver, IF request = "idle" THEN "top" ELSE "gate")
    /\ UNCHANGED <<core, mainVars, capture, date, status, countVars,
                   fileVars, packetVars, clash>>

(* Mutant: main is counted as well.                                         *)
AllStartedAndMain == ThreadCnt < cnt

(* "Write thread start up wait."                                            *)
AllStarted == ThreadCnt <= cnt

ReceiverGate ==
    /\ pc[Receiver] = "gate"
    /\ Goto(Receiver, IF AllStarted THEN "rx" ELSE "top")
    /\ UNCHANGED <<core, mainVars, capture, date, status, countVars,
                   fileVars, packetVars, clash>>

MayMiss(w) == pc[w] = "empty" \/ (status[w] = "idle" /\ pc[w] \notin Ended)

(* The burst and the enqueue: what the ring has no room for is dropped.     *)
Receive ==
    /\ pc[Receiver] = "rx"
    /\ \E n \in 0 .. Lesser(Burst, MaxPacket - rx) :
         LET kept == Lesser(n, RingSlots) IN
         /\ ring' = ring \o [k \in 1 .. kept |-> rx + k]
         /\ dropped' = dropped \cup (rx + kept + 1 .. rx + n)
         /\ rx' = rx + n
         /\ late' = (late \/ (kept > 0 /\ \E w \in Writer : MayMiss(w)))
    /\ Goto(Receiver, "top")
    /\ UNCHANGED <<core, mainVars, capture, date, status, countVars,
                   fileVars, hand, clash>>

-----------------------------------------------------------------------------
(* pcap_proc_write with file_compression_operation and compress_file_packet. *)
(* A writer with nothing to do stays at "top", where it sees the core status *)
(* and g_capture_status in one step; a running one needs neither and goes   *)
(* on to the ring.                                                          *)

(* INIT_MODE: the first file of the capture.                                *)
WriterStarts(w) ==
    /\ pc[w] = "top" /\ ~MustStop(w)
    /\ capture = "running" /\ status[w] = "idle"
    /\ status' = [status EXCEPT ![w] = "running"]
    /\ file' = [file EXCEPT ![w] = NewFile(w, 1)]
    /\ left' = Without(left, NewFile(w, 1))
    /\ reg' = [reg EXCEPT ![w] = cnt]
    /\ Goto(w, "inc_store")
    /\ UNCHANGED <<core, mainVars, capture, date, cnt, raced, saved,
                   packetVars, clash>>

(* What a failed open leaves: nothing, or a .tmp without its header.        *)
Abandoned(f) == {left, Without(left, f) \cup {f}}

WriterStartFails(w) ==
    /\ w \in Faulty
    /\ pc[w] = "top" /\ ~MustStop(w)
    /\ capture = "running" /\ status[w] = "idle"
    /\ left' \in Abandoned(NewFile(w, 1))
    /\ core' = [core EXCEPT ![w] = "stop"]
    /\ Goto(w, "unopened")
    /\ UNCHANGED <<mainVars, capture, date, status, countVars, file, saved,
                   packetVars, clash>>

WriterTakes(w) ==
    /\ pc[w] = "take"
    /\ ring # << >>
    /\ LET n == Lesser(Burst, Len(ring)) IN
       /\ hand' = [hand EXCEPT ![w] = SubSeq(ring, 1, n)]
       /\ ring' = SubSeq(ring, n + 1, Len(ring))
    /\ Goto(w, "write")
    /\ UNCHANGED <<core, mainVars, capture, date, status, countVars,
                   fileVars, rx, dropped, late, clash>>

WriterTakesNone(w) ==
    /\ pc[w] = "take"
    /\ ring = << >>
    /\ Goto(w, "empty")
    /\ UNCHANGED <<core, mainVars, capture, date, status, countVars,
                   fileVars, packetVars, clash>>

(* The ring was empty: the capture goes on, or the writer ends it.          *)
WriterEmpty(w) ==
    /\ pc[w] = "empty"
    /\ status' = IF capture = "idle" THEN [status EXCEPT ![w] = "idle"]
                 ELSE status
    /\ Goto(w, IF capture = "idle" THEN "dec" ELSE "take")
    /\ UNCHANGED <<core, mainVars, capture, date, countVars, fileVars,
                   packetVars, clash>>

(* "if (info->compress_fp == NULL) return SPP_RET_OK": the packet is gone.  *)
FileFull(w) == IsOpen(w) /\ Len(file[w].data) >= FileLimit

WritePacket(w) ==
    /\ pc[w] = "write"
    /\ ~FileFull(w)
    /\ file' = IF IsOpen(w)
               THEN [file EXCEPT ![w].data = Append(@, Head(hand[w]))]
               ELSE file
    /\ hand' = [hand EXCEPT ![w] = Tail(@)]
    /\ Goto(w, IF Tail(hand[w]) = << >> THEN "take" ELSE "write")
    /\ UNCHANGED <<core, mainVars, capture, date, status, countVars, saved, left, ring, rx, dropped, late, clash>>

(* UPDATE_MODE: the next file takes over; its name has today's date.        *)
RollFile(w) ==
    /\ pc[w] = "write"
    /\ FileFull(w)
    /\ saved' = Renamed(file[w])
    /\ file' = [file EXCEPT ![w] = NextFile(w)]
    /\ left' = Without(left, file'[w])
    /\ UNCHANGED <<core, mainVars, capture, date, status, countVars, pc,
                   packetVars, clash>>

(* An error ends the thread for good; start_up_cnt still counts it.  The    *)
(* rest of its burst is freed.                                              *)
WriterDies(w) ==
    /\ status' = [status EXCEPT ![w] = "idle"]
    /\ file' = [file EXCEPT ![w] = NoFile]
    /\ hand' = [hand EXCEPT ![w] = << >>]
    /\ dropped' = dropped \cup {hand[w][k] : k \in 1 .. Len(hand[w])}
    /\ core' = [core EXCEPT ![w] = "stop"]
    /\ Goto(w, "failed")
    /\ UNCHANGED <<mainVars, capture, date, countVars, ring, rx, late, clash>>

(* A packet cannot be written: CLOSE_MODE saves what the file has.          *)
WriteFails(w) ==
    /\ w \in Faulty
    /\ pc[w] = "write"
    /\ IsOpen(w) /\ ~FileFull(w)
    /\ saved' = Renamed(file[w])
    /\ UNCHANGED left
    /\ WriterDies(w)

(* The old file cannot be ended and stays a .tmp, or the next one fails.    *)
RollFails(w) ==
    /\ w \in Faulty
    /\ pc[w] = "write"
    /\ FileFull(w)
    /\ \/ /\ left' = Without(left, file[w]) \cup {file[w]}
          /\ UNCHANGED saved
       \/ /\ saved' = Renamed(file[w])
          /\ left' \in Abandoned(NextFile(w))
    /\ WriterDies(w)

ReceiverStep == ReceiverTop \/ ReceiverStopsCapture \/ ReceiverStartsCapture
                  \/ ReceiverGoesOn \/ ReceiverGate \/ Receive

WriterStep(w) ==
    \/ WriterStarts(w)
    \/ WriterStartFails(w) \/ WriterTakes(w) \/ WriterTakesNone(w)
    \/ WriterEmpty(w) \/ WritePacket(w) \/ RollFile(w)
    \/ WriteFails(w) \/ RollFails(w)

ThreadStep(t) ==
    /\ mpc # "exited"
    /\ \/ ThreadStart(t) \/ ThreadStop(t)
       \/ CountLoad(t) \/ CountUp(t) \/ CountDown(t)
       \/ t = Receiver /\ ReceiverStep
       \/ t \in Writer /\ WriterStep(t)

-----------------------------------------------------------------------------
(* main().  parse_args accepts a command line whose mandatory options are   *)
(* there and whose options all convert.                                     *)

Option    == {"client-id", "server", "port", "out-dir", "fsize"}
Mandatory == {"client-id", "server", "port"}
CommandLine == [Option -> {"absent", "good", "bad"}]
ParseArgs(args) ==
    /\ \A o \in Option : args[o] # "bad"
    /\ \A o \in Mandatory : args[o] = "good"

(* The captured port must be there and the ring must be created.            *)
StartUp ==
    /\ mpc = "init"
    /\ \E args \in CommandLine, resources \in BOOLEAN :
         IF ParseArgs(args) /\ resources
         THEN /\ pc' = [t \in Thread |-> "launched"]
              /\ mainCore' = "idle"
              /\ mpc' = "wait_idle"
         ELSE mpc' = "exited" /\ UNCHANGED <<pc, mainCore>>
    /\ UNCHANGED <<core, request, ncmd, capture, date, status, countVars,
                   fileVars, packetVars, clash>>

AllCores(s)  == \A t \in Thread : core[t] = s
AllSetTo(s)  == core' = [t \in Thread |-> s]

(* check_core_status_wait gives up after a few seconds: here, when a thread *)
(* will never get there.  It may have been asked to stop before it was to   *)
(* be idle, the request may have been overwritten by an earlier status, or  *)
(* it may be the status of a thread that has ended.                         *)
Overtaken(t) == core[t] # "idle" /\ pc[t] # "launched"
WillStop(t)  == \/ core[t] = "stop"
                \/ core[t] = "stop_request" /\ pc[t] \notin Ended
                \/ pc[t] = "launched"

WaitIdle ==
    /\ mpc = "wait_idle"
    /\ \/ /\ AllCores("idle")
          /\ AllSetTo("forward")
          /\ mpc' = "loop"
          /\ UNCHANGED mainCore
       \/ /\ \E t \in Thread : Overtaken(t)
          /\ mainCore' = "stop"
          /\ mpc' = "wait_stop"
          /\ UNCHANGED core
    /\ UNCHANGED <<request, ncmd, capture, date, status, countVars, pc,
                   fileVars, packetVars, clash>>

LoopEnds ==
    /\ mpc = "loop"
    /\ mainCore = "stop_request"
    /\ mainCore' = "stop"
    /\ mpc' = "wait_stop"
    /\ UNCHANGED <<core, request, ncmd, capture, date, status, countVars, pc,
                   fileVars, packetVars, clash>>

(* One pass of the loop.  "interrupted": a signal came inside of it.        *)
InLoop == \/ mpc = "loop" /\ mainCore # "stop_request"
          \/ mpc = "interrupted"

(* A request is a sequence of words; each command consists of one.          *)
CommandList == {"_get_client_id", "status", "exit", "start", "stop"}
Request == {<<verb>> : verb \in CommandList \cup {"other"}}
             \cup {<<verb, "other">> : verb \in CommandList}
Decode(words) == IF Len(words) # 1 THEN "bad format"
                 ELSE IF words[1] \in CommandList THEN words[1]
                 ELSE "unknown command"

RequestFor == [start |-> "running", stop |-> "idle"]

StartOrStop(verb) ==
    /\ verb \in DOMAIN RequestFor
    /\ ncmd < MaxCommand
    /\ request # RequestFor[verb]     \* a repeated command changes nothing
    /\ request' = RequestFor[verb]
    /\ ncmd' = ncmd + 1
    /\ mpc' = "loop"
    /\ UNCHANGED <<core, mainCore>>

(* The exit command, or a connection error that cannot be retried.          *)
Exit(verb) ==
    /\ verb = "exit"
    /\ AllSetTo("stop_request")
    /\ mainCore' = "stop"
    /\ mpc' = "wait_stop"
    /\ UNCHANGED <<request, ncmd>>

(* Errors and questions change nothing but end the pass.                    *)
Answer(verb) ==
    /\ verb \notin {"start", "stop", "exit"}
    /\ mpc' = "loop"
    /\ UNCHANGED <<core, mainCore, request, ncmd>>

Command ==
    /\ InLoop
    /\ \E words \in Request : LET verb == Decode(words) IN
         StartOrStop(verb) \/ Exit(verb) \/ Answer(verb)
    /\ UNCHANGED <<capture, date, status, countVars, pc, fileVars,
                   packetVars, clash>>

(* No command has come.                                                     *)
Resume ==
    /\ mpc = "interrupted"
    /\ mpc' = "loop"
    /\ UNCHANGED <<core, mainCore, request, ncmd, capture, date, status,
                   countVars, pc, fileVars, packetVars, clash>>

(* The reply to "status": the receiver with its port, each writer with the  *)
(* file it has open.                                                        *)
CoreInfo(t) ==
    IF t = Receiver THEN [role |-> "receive", rx |-> {"cap_port"}]
    ELSE [role |-> "write", rx |-> {}, name |-> file[t].name]
CoreEntry(t) ==
    IF CoreInfo(t).rx # {}
    THEN [role |-> CoreInfo(t).role, rx_port |-> CoreInfo(t).rx]
    ELSE [role |-> CoreInfo(t).role, filename |-> CoreInfo(t).name]
StatusReply == [status |-> capture,
                core   |-> [t \in Thread |-> CoreEntry(t)]]

(* The ring is freed and the process ends whether or not all have stopped.  *)
WaitStop ==
    /\ mpc = "wait_stop"
    /\ AllCores("stop") \/ \E t \in Thread : ~WillStop(t)
    /\ mpc' = "exited"
    /\ UNCHANGED <<core, mainCore, request, ncmd, capture, date, status,
                   countVars, pc, fileVars, packetVars, clash>>

(* stop_process, the handler of SIGTERM and SIGINT.                         *)
Signal ==
    /\ Signals
    /\ ncmd < MaxCommand
    /\ ncmd' = ncmd + 1
    /\ mpc \in {"wait_idle", "loop", "wait_stop"}
    /\ mainCore # "stop_request"
    /\ mainCore' = "stop_request"
    /\ AllSetTo("stop_request")
    /\ mpc' \in {mpc} \cup (IF mpc = "loop" THEN {"interrupted"} ELSE {})
    /\ UNCHANGED <<request, capture, date, status, countVars, pc,
                   fileVars, packetVars, clash>>

Exited == mpc = "exited" /\ UNCHANGED vars

MainStep == StartUp \/ WaitIdle \/ LoopEnds \/ Resume \/ WaitStop

Next == \/ MainStep \/ Command \/ Signal \/ Exited
        \/ \E t \in Thread : ThreadStep(t)

Spec == Init /\ [][Next]_vars

(* Each thread has an lcore of its own, and main's waits end.  Nothing is   *)
(* assumed of commands, signals, packets and the clock.                     *)
FairSpec == /\ Spec
            /\ WF_vars(MainStep)
            /\ \A t \in Thread : WF_vars(ThreadStep(t))

-----------------------------------------------------------------------------
ReceiverPlace == {"look", "gate", "rx"}
WriterPlace   == {"take", "empty", "write"}
CountPlace    == {"inc", "inc_store", "dec", "dec_store"}

TypeOK ==
    /\ core \in [Thread -> CoreStatus]
    /\ mainCore \in {"stop", "idle", "stop_request"}
    /\ mpc \in {"init", "wait_idle", "loop", "interrupted", "wait_stop",
                "exited"}
    /\ request \in CaptureStatus
    /\ capture \in CaptureStatus
    /\ date \in Nat
    /\ status \in [Thread -> CaptureStatus]
    /\ cnt \in Nat
    /\ reg \in [Thread -> Nat]
    /\ pc \in [Thread -> {"none", "launched", "top"} \cup Ended
                \cup ReceiverPlace \cup WriterPlace \cup CountPlace]
    /\ \A w \in Writer : IsOpen(w) => /\ file[w].name.thread = w
                                      /\ file[w].name.no \in Nat \ {0}
                                      /\ file[w].name.date \in Nat \ {0}
    /\ ring \in Seq(Packet) /\ Len(ring) <= RingSize
    /\ hand \in [Writer -> Seq(Packet)]
    /\ rx \in 0 .. MaxPacket
    /\ ncmd \in 0 .. MaxCommand
    /\ dropped \subseteq 1 .. rx
    /\ raced \in BOOLEAN /\ clash \in BOOLEAN /\ late \in BOOLEAN

(* start_up_cnt counts the threads that take part in the capture, and the   *)
(* writers that died in one, unless two threads updated it at once.  It is  *)
(* what opens the receiver's gate: with a count that is too high packets    *)
(* come before the writers, with one too low none come at all.              *)
TakesPart(t) ==
    \/ status[t] = "running" /\ pc[t] \notin {"inc", "inc_store"}
    \/ pc[t] \in {"dec", "dec_store"}
    \/ pc[t] = "failed"

CountRight == ~raced => cnt = Cardinality({t \in Thread : TakesPart(t)})

(* Every packet received is in exactly one place: the ring, the hands of a  *)
(* writer or one file on disk, unless its loss was reported.  Only captures *)
(* that start in the same second may overwrite each other's files.          *)
Files == saved \cup left \cup {file[w] : w \in Writer}
Contains(data, p) == \E k \in 1 .. Len(data) : data[k] = p
PlacesOf(p) ==
    (IF Contains(ring, p) THEN {"ring"} ELSE {})
        \cup {w \in Writer : Contains(hand[w], p)}
        \cup {f.name : f \in {g \in Files : Contains(g.data, p)}}

Accounted ==
    ~clash => \A p \in 1 .. rx :
                 Cardinality(PlacesOf(p)) = IF p \in dropped THEN 0 ELSE 1

(* When a capture has ended, no packet of it stays in the ring for the next *)
(* one, unless a writer could miss it: one that had found the ring empty,   *)
(* or was still counted from the capture before or by mistake.              *)
AtRest == /\ capture = "idle"
          /\ \A t \in Thread : status[t] = "idle"
          /\ \E w \in Writer : pc[w] \notin Ended

Drained == AtRest /\ ~late => ring = << >>

(* Every packet is accounted for, and the ring is empty between captures.   *)
PacketsKept == Accounted /\ Drained

(* A requested capture gets all writers started and opens the gate, unless  *)
(* it is called off, a thread ended or the threads were miscounted.         *)
StartCompletes ==
    request = "running"
        ~> \/ AllStarted \/ request = "idle" \/ raced \/ mpc = "exited"
           \/ \E t \in Thread : pc[t] \in Ended

(* "After capturing is stopped, filename is returned to be empty again".    *)
StopCompletes ==
    mpc # "exited" /\ request = "idle"
        ~> \/ /\ \A w \in Writer : StatusReply.core[w].filename = NoFile.name
              /\ StatusReply.status = "idle"
           \/ request = "running" \/ mpc = "exited"

(* Both commands take effect.                                               *)
CaptureCompletes == StartCompletes /\ StopCompletes

(* Threads that are all asked to stop close their files and end, whatever   *)
(* the state of the capture; those that failed have ended.                  *)
AllEnded == \A t \in Thread : pc[t] \in Ended
AllAsked == \A t \in Thread : \/ core[t] = "stop_request" /\ pc[t] # "launched"
                              \/ pc[t] \in Ended

ExitCompletes ==
    mpc = "wait_stop" /\ AllAsked ~> mpc = "exited" \/ AllEnded
=============================================================================
