-------------------------------- MODULE Ctl --------------------------------
(***************************************************************************)
(* spp-ctl and the processes it controls: REST requests, served by green   *)
(* threads, are turned into one-line commands on the TCP connection of the *)
(* process; two more green threads accept connections, one for spp_primary *)
(* and one for the secondaries, which are asked for their client id.  A    *)
(* semaphore per process object serializes the commands.                   *)
(*                                                                         *)
(* Abstractions: a command is who sent it and whether it is "exit"; a      *)
(* reply is one piece, or two when TCP delivers it in parts; what a command *)
(* does in the process is in the other modules.  A green thread runs until *)
(* it waits, so that each step goes from one wait to the next.             *)
(***************************************************************************)
EXTENDS Naturals, Sequences, FiniteSets

CONSTANTS
    Secondary, Primary,  \* the processes, and the one that is spp_primary
    Blocking,            \* those with the client code of spp_nfv and
                         \* spp_primary; the others have spp_vf's
    IdOf,                \* each process's client id
    Request,             \* the REST requests that come, each once
    MaxFault,            \* bound: crashes, processes that stop answering,
                         \* restarts of spp-ctl and replies in two parts
    MaxConn              \* bound: connections made

Client == Secondary \cup {Primary}
Id     == {IdOf[p] : p \in Client}
Conn   == 1 .. MaxConn
Accept == {"pri", "sec"}              \* the two accepting threads
Caller == Request \cup Accept

ASSUME ClientAssumption == /\ Primary \notin Secondary
                           /\ Blocking \subseteq Client
                           /\ \A p \in Secondary : IdOf[p] # IdOf[Primary]
ASSUME CallerAssumption == Request \cap Accept = {}
ASSUME BoundAssumption == MaxConn \in Nat \ {0} /\ MaxFault \in Nat

VARIABLES
    conns,     \* the connections: both ends, the commands and the reply
               \* pieces on the way
    backlog,   \* connections to accept, per listening socket
    procs,     \* Controller.procs; an object has the number of its first
               \* connection, 0 is none
    connOf,    \* the connection an object uses now
    sem,       \* an object's semaphore: who holds it, and who waits
    apc, acur, \* where each accepting thread is, its connection, and the
    aold,      \* object whose connection that replaces
    rpc, robj, got,  \* where each request is, its object and its reply
    pst, psock,             \* each process: its state and its connection
    known,     \* connections that were accepted and identified
    left,      \* ... whose object an exit request took out of the table
    torn,      \* ... of which only a part of a reply was read
    faults     \* how many

ctlVars == <<procs, connOf, sem, apc, acur, aold>>
reqVars == <<rpc, robj, got>>
procVars == <<pst, psock>>
histVars == <<known, left, torn, faults>>
vars == <<conns, backlog, ctlVars, reqVars, procVars, histVars>>

PortOf(p) == IF p = Primary THEN "pri" ELSE "sec"

NewConn(p) == [who |-> p, ctl |-> TRUE, far |-> TRUE, reset |-> FALSE,
               cmds |-> << >>, wire |-> << >>, data |-> << >>]

Init ==
    /\ conns = << >>
    /\ backlog = [a \in Accept |-> << >>]
    /\ procs = [i \in Id |-> 0]
    /\ connOf = [o \in Conn |-> o]
    /\ sem = [o \in Conn |-> << >>]
    /\ apc = [a \in Accept |-> "accept"]
    /\ acur = [a \in Accept |-> 0]
    /\ aold = [a \in Accept |-> 0]
    /\ rpc = [r \in Request |-> "new"]
    /\ robj = [r \in Request |-> 0]
    /\ got = [r \in Request |-> [on |-> 0, data |-> << >>]]
    /\ pst = [p \in Client |-> "connecting"]
    /\ psock = [p \in Client |-> 0]
    /\ known = {} /\ left = {} /\ torn = {}
    /\ faults = 0

-----------------------------------------------------------------------------
(* The processes: do_connection, do_receive and do_send of spp_nfv and      *)
(* spp_primary, spp_command_proc_do with command_conn.c of the others.      *)

(* What a connection is once its far end is closed: a reset when there was  *)
(* something unread.                                                        *)
FarClosed(c) == [conns EXCEPT ![c].far = FALSE,
                              ![c].reset = @ \/ conns[c].cmds # << >>,
                              ![c].cmds = << >>]

Connect(p) ==
    /\ pst[p] = "connecting"
    /\ Len(conns) < MaxConn
    /\ conns' = Append(conns, NewConn(p))
    /\ psock' = [psock EXCEPT ![p] = Len(conns) + 1]
    /\ pst' = [pst EXCEPT ![p] = "up"]
    /\ backlog' = [backlog EXCEPT ![PortOf(p)] = Append(@, Len(conns) + 1)]
    /\ UNCHANGED <<ctlVars, reqVars, histVars>>

Piece(by, end) == [by |-> by, end |-> end]

(* Before the limit of faults: Fault takes one.                             *)
Fault == faults < MaxFault /\ faults' = faults + 1

(* The answer arrives in one piece, or a part of it later.                  *)
Reply(c, by) ==
    LET Sent(now, later) == [conns EXCEPT ![c].cmds = Tail(@),
                                          ![c].data = @ \o now,
                                          ![c].wire = @ \o later]
        whole == Sent(<<Piece(by, TRUE)>>, << >>)
        parts == Sent(<<Piece(by, FALSE)>>, <<Piece(by, TRUE)>>)
    IN  IF faults' = faults THEN whole ELSE parts

(* The command is done and answered; "exit" ends the process after that.    *)
Serve(p) ==
    LET c == psock[p] IN
    /\ pst[p] = "up"
    /\ conns[c].cmds # << >>
    /\ conns[c].ctl
    /\ Fault \/ UNCHANGED faults
    /\ LET cmd  == Head(conns[c].cmds)
           sent == Reply(c, cmd.by)
       IN
         IF cmd.kind = "exit"
         THEN /\ conns' = [sent EXCEPT ![c].far = FALSE]
              /\ pst' = [pst EXCEPT ![p] = "down"]
              /\ psock' = [psock EXCEPT ![p] = 0]
         ELSE conns' = sent /\ UNCHANGED procVars
    /\ UNCHANGED <<backlog, ctlVars, reqVars, known, left, torn>>

(* do_send forgets the connection and keeps the socket, on which connect    *)
(* fails from now on; or the signal of the failed send ends the process.    *)
AfterFailedSend(p) == IF p \in Blocking THEN {"stuck", "down"}
                      ELSE {"connecting"}

(* Nobody is there to read the answer.                                      *)
ServeClosed(p) ==
    LET c == psock[p] IN
    /\ pst[p] = "up"
    /\ conns[c].cmds # << >>
    /\ ~conns[c].ctl
    /\ LET cmd == Head(conns[c].cmds) IN
       IF cmd.kind = "exit"
       THEN /\ pst' = [pst EXCEPT ![p] = "down"]
            /\ psock' = [psock EXCEPT ![p] = 0]
            /\ conns' = FarClosed(c)
       ELSE IF conns[c].reset
       THEN /\ pst' \in {[pst EXCEPT ![p] = s] : s \in AfterFailedSend(p)}
            /\ psock' = [psock EXCEPT ![p] = 0]
            /\ conns' = FarClosed(c)
       ELSE /\ conns' = [conns EXCEPT ![c].cmds = Tail(@), ![c].reset = TRUE]
            /\ UNCHANGED procVars
    /\ UNCHANGED <<backlog, ctlVars, reqVars, histVars>>

(* recv returns 0 or fails: close the socket and connect again.             *)
SeeClose(p) ==
    /\ pst[p] = "up"
    /\ conns[psock[p]].cmds = << >>
    /\ ~conns[psock[p]].ctl
    /\ conns' = FarClosed(psock[p])
    /\ pst' = [pst EXCEPT ![p] = "connecting"]
    /\ psock' = [psock EXCEPT ![p] = 0]
    /\ UNCHANGED <<backlog, ctlVars, reqVars, histVars>>

(* A process dies, or stops answering (it spins, or was stopped), or is     *)
(* started again.                                                           *)
Crash(p) ==
    /\ Fault
    /\ pst[p] \in {"up", "silent"}
    /\ conns' = FarClosed(psock[p])
    /\ pst' = [pst EXCEPT ![p] = "down"]
    /\ psock' = [psock EXCEPT ![p] = 0]
    /\ UNCHANGED <<backlog, ctlVars, reqVars, known, left, torn>>

FallSilent(p) ==
    /\ Fault
    /\ pst[p] = "up"
    /\ pst' = [pst EXCEPT ![p] = "silent"]
    /\ UNCHANGED <<conns, backlog, ctlVars, reqVars, psock, known, left, torn>>

Launch(p) ==
    /\ pst[p] = "down"
    /\ pst' = [pst EXCEPT ![p] = "connecting"]
    /\ UNCHANGED <<conns, backlog, ctlVars, reqVars, psock, histVars>>

Deliver(c) ==
    /\ conns[c].wire # << >>
    /\ conns' = [conns EXCEPT ![c].wire = Tail(@),
                              ![c].data = Append(@, Head(conns[c].wire))]
    /\ UNCHANGED <<backlog, ctlVars, reqVars, procVars, histVars>>

-----------------------------------------------------------------------------
(* _send_command: sendall, then recv of what has arrived.                   *)

Ended(c)  == ~conns[c].far /\ conns[c].wire = << >> /\ conns[c].data = << >>
Whole(data) == Len(data) > 0 /\ data[Len(data)].end

SendTo(c, by, kind) ==
    IF conns[c].far
    THEN [conns EXCEPT ![c].cmds = Append(@, [by |-> by, kind |-> kind])]
    ELSE conns

Read(c) == [conns EXCEPT ![c].data = << >>]

(* A recv that gets a part leaves the rest for the next one.                *)
Tears(c) == conns[c].wire # << >> \/ ~Whole(conns[c].data)

CtlClosed(cs, c) ==
    [cs EXCEPT ![c].ctl = FALSE,
               ![c].reset = @ \/ cs[c].data # << >> \/ cs[c].wire # << >>,
               ![c].data = << >>, ![c].wire = << >>]

-----------------------------------------------------------------------------
(* The threads accept_primary and accept_secondary.                         *)

Back(a) == /\ apc' = [apc EXCEPT ![a] = "accept"]
           /\ acur' = [acur EXCEPT ![a] = 0]

(* Mutant: commands to one process are not serialized.                      *)
FreeAlways(o) == TRUE

Free(o) == sem[o] = << >>

(* Mutant: the connection that is replaced stays open.                      *)
ReplacedOpen(cs, old) == cs

Replaced(cs, old) == CtlClosed(cs, connOf[old])

Entry(p) == procs[IdOf[p]]

(* The process of connection c gets into the table, in the place of object  *)
(* old: the primary's object gets the new connection, that of a secondary   *)
(* is replaced.                                                             *)
Enter(a, c, old) ==
    LET p == conns[c].who IN
    /\ IF old # 0 /\ p = Primary
       THEN connOf' = [connOf EXCEPT ![old] = c] /\ UNCHANGED procs
       ELSE procs' = [procs EXCEPT ![IdOf[p]] = c] /\ UNCHANGED connOf
    /\ known' = known \cup {c}
    /\ Back(a)

(* The object that has this id must be free: the thread queues for a        *)
(* command that is under way.  cs is conns after what it read.              *)
Install(a, c, cs) ==
    LET old == Entry(conns[c].who) IN
    IF old # 0 /\ ~Free(old)
    THEN /\ conns' = cs
         /\ sem' = [sem EXCEPT ![old] = Append(@, a)]
         /\ apc' = [apc EXCEPT ![a] = "queued"]
         /\ acur' = [acur EXCEPT ![a] = c]
         /\ aold' = [aold EXCEPT ![a] = old]
         /\ UNCHANGED <<procs, connOf, known>>
    ELSE /\ conns' = IF old = 0 THEN cs ELSE Replaced(cs, old)
         /\ Enter(a, c, old)
         /\ UNCHANGED <<sem, aold>>

InstallLater(a) ==
    LET c == acur[a]  old == aold[a] IN
    /\ apc[a] = "queued"
    /\ Head(sem[old]) = a
    /\ sem' = [sem EXCEPT ![old] = Tail(@)]
    /\ conns' = Replaced(conns, old)
    /\ Enter(a, c, old)
    /\ aold' = [aold EXCEPT ![a] = 0]
    /\ UNCHANGED <<backlog, reqVars, procVars, left, torn, faults>>

AcceptPrimary ==
    /\ apc["pri"] = "accept"
    /\ backlog["pri"] # << >>
    /\ backlog' = [backlog EXCEPT !["pri"] = Tail(@)]
    /\ Install("pri", Head(backlog["pri"]), conns)
    /\ UNCHANGED <<reqVars, procVars, left, torn, faults>>

AcceptSecondary ==
    /\ apc["sec"] = "accept"
    /\ backlog["sec"] # << >>
    /\ LET c == Head(backlog["sec"]) IN
       /\ conns' = SendTo(c, "sec", "ask")
       /\ acur' = [acur EXCEPT !["sec"] = c]
    /\ apc' = [apc EXCEPT !["sec"] = "ident"]
    /\ backlog' = [backlog EXCEPT !["sec"] = Tail(@)]
    /\ UNCHANGED <<procs, connOf, sem, aold, reqVars, procVars, histVars>>

(* _get_proc: a part of the reply is not JSON, nothing is not even text:    *)
(* the connection is closed.                                                *)
Identify ==
    LET c == acur["sec"] IN
    /\ apc["sec"] = "ident"
    /\ conns[c].data # << >>
    /\ IF Tears(c)
       THEN /\ conns' = CtlClosed(conns, c)
            /\ Back("sec")
            /\ UNCHANGED <<procs, connOf, sem, aold, known>>
       ELSE Install("sec", c, Read(c))
    /\ UNCHANGED <<backlog, reqVars, procVars, left, torn, faults>>

(* Mutant: the missing id is not noticed.                                   *)
IdentifyFailsDead ==
    /\ apc["sec"] = "ident"
    /\ Ended(acur["sec"])
    /\ apc' = [apc EXCEPT !["sec"] = "lost"]
    /\ UNCHANGED <<conns, acur, aold, backlog, procs, connOf, sem, reqVars,
                   procVars, histVars>>

(* The connection is gone.  A reset is an exception that nobody catches: it *)
(* ends the thread, and no secondary is accepted any more.                  *)
IdentifyFails ==
    LET c == acur["sec"] IN
    /\ apc["sec"] = "ident"
    /\ Ended(c)
    /\ IF conns[c].reset
       THEN apc' = [apc EXCEPT !["sec"] = "dead"] /\ UNCHANGED <<conns, acur>>
       ELSE conns' = CtlClosed(conns, c) /\ Back("sec")
    /\ UNCHANGED <<aold, backlog, procs, connOf, sem, reqVars, procVars,
                   histVars>>

-----------------------------------------------------------------------------
(* The request handlers: check_sec_id, then a method under exec_command.  A *)
(* request for an id that is not there, or is of another type, is answered  *)
(* with 404 and changes nothing.                                            *)

Finish(r, place) == rpc' = [rpc EXCEPT ![r] = place]

(* The command goes out on what is the object's connection now; held are    *)
(* the semaphores with r at the head of this one.                           *)
Send(r, o, kind, held) ==
    IF conns[connOf[o]].ctl
    THEN /\ conns' = SendTo(connOf[o], r, kind)
         /\ sem' = held
         /\ Finish(r, "wait")
    ELSE /\ sem' = [held EXCEPT ![o] = Tail(@)]
         /\ Finish(r, "error")
         /\ UNCHANGED conns

(* do_exit takes the object out of the table before it sends the command.   *)
Removed(i, kind) == IF kind = "exit" THEN [procs EXCEPT ![i] = 0] ELSE procs

Lookup(r) ==
    /\ rpc[r] = "new"
    /\ \E i \in Id, kind \in {"ask", "exit"} :
         LET o == procs[i] IN
         /\ o # 0
         /\ robj' = [robj EXCEPT ![r] = o]
         /\ procs' = Removed(i, kind)
         /\ left' = IF kind = "exit" THEN left \cup {o} ELSE left
         /\ IF Free(o)
            THEN Send(r, o, kind, [sem EXCEPT ![o] = <<r>>])
            ELSE /\ sem' = [sem EXCEPT ![o] = Append(@, r)]
                 /\ Finish(r, IF kind = "exit" THEN "exit" ELSE "queued")
                 /\ UNCHANGED conns
    /\ UNCHANGED <<backlog, connOf, apc, acur, aold, got, procVars, known, torn,
                   faults>>

SendLater(r) ==
    LET o == robj[r] IN
    /\ rpc[r] \in {"queued", "exit"}
    /\ Head(sem[o]) = r
    /\ Send(r, o, IF rpc[r] = "exit" THEN "exit" ELSE "ask", sem)
    /\ UNCHANGED <<backlog, procs, connOf, apc, acur, aold, robj, got, procVars,
                   histVars>>

(* Mutant: the semaphore is only released when there is an answer.          *)
ReleasedIfAnswered(r) ==
    IF Ended(connOf[robj[r]]) THEN sem ELSE [sem EXCEPT ![robj[r]] = Tail(@)]

(* "with self.sem", on every way out.                                       *)
Released(r) == [sem EXCEPT ![robj[r]] = Tail(@)]

(* A part that fills MSG_SIZE is to be continued by _continue_recv, which   *)
(* the static method calls on a "self" it does not have: an exception.      *)
Receive(r) ==
    LET c == connOf[robj[r]] IN
    /\ rpc[r] = "wait"
    /\ conns[c].data # << >>
    /\ \/ /\ got' = [got EXCEPT ![r] = [on |-> c, data |-> conns[c].data]]
          /\ Finish(r, "done")
       \/ /\ Tears(c)
          /\ UNCHANGED got
          /\ Finish(r, "error")
    /\ torn' = IF Tears(c) THEN torn \cup {c} ELSE torn
    /\ conns' = Read(c)
    /\ sem' = Released(r)
    /\ UNCHANGED <<backlog, procs, connOf, apc, acur, aold, robj, procVars,
                   known, left, faults>>

(* The empty answer of a closed connection raises an exception, as a reset  *)
(* does; the object stays in the table.                                     *)
ReceiveNothing(r) ==
    /\ rpc[r] = "wait"
    /\ Ended(connOf[robj[r]])
    /\ sem' = Released(r)
    /\ Finish(r, "error")
    /\ UNCHANGED <<conns, backlog, procs, connOf, apc, acur, aold, robj, got,
                   procVars, histVars>>

(* spp-ctl is killed and started again: it knows nothing, the processes are *)
(* to connect again.                                                        *)
Restart ==
    /\ Fault
    /\ conns' = [c \in 1 .. Len(conns) |-> CtlClosed(conns, c)[c]]
    /\ backlog' = [a \in Accept |-> << >>]
    /\ procs' = [i \in Id |-> 0]
    /\ connOf' = [o \in Conn |-> o]
    /\ sem' = [o \in Conn |-> << >>]
    /\ apc' = [a \in Accept |-> "accept"]
    /\ acur' = [a \in Accept |-> 0]
    /\ aold' = [a \in Accept |-> 0]
    /\ rpc' = [r \in Request |-> IF rpc[r] \in {"queued", "exit", "wait"}
                                 THEN "error"
                                 ELSE rpc[r]]
    /\ UNCHANGED <<robj, got, procVars, known, left, torn>>

ClientStep(p) == Connect(p) \/ Serve(p) \/ ServeClosed(p) \/ SeeClose(p)
AcceptStep(a) ==
    \/ InstallLater(a)
    \/ a = "pri" /\ AcceptPrimary
    \/ a = "sec" /\ (AcceptSecondary \/ Identify \/ IdentifyFails)
RequestStep(r) == SendLater(r) \/ Receive(r) \/ ReceiveNothing(r)

Step == \/ \E p \in Client : ClientStep(p)
        \/ \E c \in 1 .. Len(conns) : Deliver(c)
        \/ \E a \in Accept : AcceptStep(a)
        \/ \E r \in Request : RequestStep(r)

Next ==
    \/ Step
    \/ \E p \in Client : Crash(p) \/ FallSilent(p) \/ Launch(p)
    \/ \E r \in Request : Lookup(r)
    \/ Restart

Spec == Init /\ [][Next]_vars

(* Threads and processes that can go on do, and TCP delivers.  Nothing is   *)
(* assumed of requests, failures and new launches.  Every behaviour has     *)
(* finitely many steps, as connections, requests and faults are bounded, so *)
(* that one condition for all of them is the same as one for each.          *)
FairSpec == Spec /\ WF_vars(Step)

-----------------------------------------------------------------------------
PieceType == [by : Caller, end : BOOLEAN]
CmdType   == [by : Caller, kind : {"ask", "exit"}]
ConnType  == [who : Client, ctl : BOOLEAN, far : BOOLEAN, reset : BOOLEAN,
              cmds : Seq(CmdType), wire : Seq(PieceType), data : Seq(PieceType)]

(* A process has one command at a time, unless the rest of a reply was      *)
(* taken for the next one.                                                  *)
TypeOK ==
    /\ conns \in Seq(ConnType) /\ Len(conns) <= MaxConn
    /\ \A c \in 1 .. Len(conns) : c \notin torn => Len(conns[c].cmds) <= 1
    /\ backlog \in [Accept -> Seq(Conn)]
    /\ procs \in [Id -> Conn \cup {0}]
    /\ connOf \in [Conn -> Conn]
    /\ sem \in [Conn -> Seq(Caller)]
    /\ apc \in [Accept -> {"accept", "ident", "queued", "dead"}]
    /\ acur \in [Accept -> Conn \cup {0}] /\ aold \in [Accept -> Conn \cup {0}]
    /\ rpc \in [Request -> {"new", "queued", "exit", "wait", "done",
                            "error"}]
    /\ robj \in [Request -> Conn \cup {0}]
    /\ got \in [Request -> [on : Conn \cup {0}, data : Seq(PieceType)]]
    /\ pst \in [Client -> {"down", "connecting", "up", "silent", "stuck"}]
    /\ psock \in [Client -> Conn \cup {0}]
    /\ {known, left, torn} \subseteq SUBSET Conn

(* "spp-ctl accepts multiple requests at the same time and serializes       *)
(* them": a request is answered with the reply to its own command, as long  *)
(* as no reply on this connection came in parts.                            *)
Matched ==
    \A r \in Request :
        got[r].on \notin torn \cup {0} =>
            /\ \A k \in 1 .. Len(got[r].data) : got[r].data[k].by = r
            /\ Whole(got[r].data)

(* Every identified connection that spp-ctl keeps open belongs to the       *)
(* object of its process's id, unless that was told to exit: no process     *)
(* hangs on a connection that no request can reach.                         *)
Reachable ==
    \A c \in known :
        conns[c].ctl =>
            \/ Entry(conns[c].who) # 0 /\ connOf[Entry(conns[c].who)] = c
            \/ \E o \in left : connOf[o] = c

(* Every request ends, unless a process is silent.                          *)
Silent == \E p \in Client : pst[p] = "silent"

Answered ==
    \A r \in Request :
        rpc[r] \in {"queued", "exit", "wait"}
            ~> rpc[r] \in {"done", "error"} \/ Silent

(* A process that connects gets into the table, also after spp-ctl has      *)
(* restarted, unless it ends, the accepting thread has ended, or a process  *)
(* is silent.  (Those with the client of spp_nfv may also be stuck.)        *)
Connects ==
    \A p \in Client :
        pst[p] = "connecting"
            ~> \/ Entry(p) # 0 /\ conns[connOf[Entry(p)]].who = p
               \/ pst[p] = "down"
               \/ p \in Blocking /\ pst[p] = "stuck"
               \/ pst[p] = "connecting" /\ Len(conns) = MaxConn
               \/ p # Primary /\ apc["sec"] = "dead"
               \/ Silent
=============================================================================
