------------------------------ MODULE Ctl_proofs ------------------------------
(***************************************************************************)
(* Proofs about spp-ctl, for any processes, client ids, requests, faults   *)
(* and connections: that the connections it keeps can be reached, and that *)
(* a request gets the reply to its own command.                            *)
(***************************************************************************)
EXTENDS Ctl, TLAPS

Conns == 1 .. Len(conns)
Mine(a, c) == PortOf(conns[c].who) = a
Active == {"queued", "exit", "wait"}

-----------------------------------------------------------------------------
(* A connection waits in one of the backlogs or with an accepting thread,   *)
(* open and unknown, or it is known.                                        *)
Waiting(a, c) == c \in Conns /\ c \notin known /\ Mine(a, c) /\ conns[c].ctl

Placed(a) ==
    /\ \A k \in 1 .. Len(backlog[a]) :
         Waiting(a, backlog[a][k]) /\ backlog[a][k] # acur[a]
    /\ \A j, k \in 1 .. Len(backlog[a]) : backlog[a][j] = backlog[a][k] => j = k
    /\ apc[a] # "accept" => Waiting(a, acur[a])
    /\ apc[a] = "accept" => acur[a] = 0

PlaceInv ==
    /\ known \subseteq Conns
    /\ \A a \in Accept : Placed(a)
    /\ apc["pri"] \in {"accept", "queued"}
    /\ \A p \in Client : pst[p] \in {"up", "silent"} => psock[p] \in Conns

(* The table names objects whose connections were identified, and a thread  *)
(* that waits to replace one finds it there, unless a request told it to    *)
(* exit in between.                                                         *)
TableInv ==
    /\ \A i \in Id : procs[i] # 0 => procs[i] \in known
    /\ \A o \in Conn : connOf[o] # o => o \in known /\ connOf[o] \in known
    /\ \A a \in Accept : apc[a] = "queued" =>
         /\ aold[a] \in known
         /\ \/ Entry(conns[acur[a]].who) = aold[a]
            \/ Entry(conns[acur[a]].who) = 0 /\ aold[a] \in left

(* Objects in use have connections of their own. *)
InUse(o) == sem[o] # << >> \/ \E i \in Id : procs[i] = o

OwnConnInv ==
    /\ \A o \in Conn : InUse(o) => o \in known
    /\ \A o \in Conn : connOf[o] # o => ~ \E u \in Conn : u = connOf[o] /\ InUse(u)
    /\ \A o, u \in Conn :
         connOf[o] # o /\ connOf[u] # u /\ connOf[o] = connOf[u] => o = u

(* The semaphores: in one are, once, those that wait for its object, and    *)
(* only its head may have sent a command.                                   *)
Waits(x, o) == \/ x \in Request /\ rpc[x] \in Active /\ robj[x] = o
               \/ x \in Accept /\ apc[x] = "queued" /\ aold[x] = o

Sent(x) == x \in Request /\ rpc[x] = "wait"

SemInv ==
    /\ \A o \in Conn, x \in Caller : \A k \in 1 .. Len(sem[o]) :
         sem[o][k] = x => Waits(x, o) /\ (k > 1 => ~Sent(x))
    /\ \A o \in Conn : \A j, k \in 1 .. Len(sem[o]) : sem[o][j] = sem[o][k] => j = k
    /\ \A x \in Caller, o \in Conn \cup {0} : Waits(x, o) =>
         o # 0 /\ \E k \in 1 .. Len(sem[o]) : sem[o][k] = x

(* What is on a connection: at most one command or its reply, of the one    *)
(* who waits for it.                                                        *)
Using(x, c) == \/ x = "sec" /\ apc["sec"] = "ident" /\ acur["sec"] = c
               \/ x \in Request /\ rpc[x] = "wait" /\ connOf[robj[x]] = c

Unused(c) == \A x : ~Using(x, c)

Tidy(c) ==
    /\ Len(conns[c].cmds) <= 1
    /\ ~conns[c].ctl => conns[c].wire = << >> /\ conns[c].data = << >>
    /\ ~conns[c].far => conns[c].cmds = << >>
    /\ conns[c].cmds # << >> => conns[c].wire = << >> /\ conns[c].data = << >>
    /\ conns[c].wire # << >> => Len(conns[c].wire) = 1 /\ conns[c].wire[1].end
    /\ conns[c].wire = << >> /\ conns[c].data # << >> => Whole(conns[c].data)
    /\ conns[c].ctl =>
         /\ conns[c].cmds # << >> => Using(conns[c].cmds[1].by, c)
         /\ conns[c].wire # << >> => Using(conns[c].wire[1].by, c)
         /\ \A k \in 1 .. Len(conns[c].data) : Using(conns[c].data[k].by, c)

MsgInv == \A c \in Conns : c \notin torn => Tidy(c)

(* The types of the state, without what the messages add to TypeOK.         *)
BaseType ==
    /\ conns \in Seq(ConnType) /\ Len(conns) <= MaxConn
    /\ backlog \in [Accept -> Seq(Conn)]
    /\ procs \in [Id -> Conn \cup {0}]
    /\ connOf \in [Conn -> Conn]
    /\ sem \in [Conn -> Seq(Caller)]
    /\ apc \in [Accept -> {"accept", "ident", "queued", "dead"}]
    /\ acur \in [Accept -> Conn \cup {0}] /\ aold \in [Accept -> Conn \cup {0}]
    /\ rpc \in [Request -> {"new", "queued", "exit", "wait", "done", "error"}]
    /\ robj \in [Request -> Conn \cup {0}]
    /\ got \in [Request -> [on : Conn \cup {0}, data : Seq(PieceType)]]
    /\ pst \in [Client -> {"down", "connecting", "up", "silent", "stuck"}]
    /\ psock \in [Client -> Conn \cup {0}]
    /\ known \subseteq Conn /\ left \subseteq Conn /\ torn \subseteq Conn

CtlInv == BaseType /\ PlaceInv /\ TableInv /\ OwnConnInv /\ SemInv /\ MsgInv

-----------------------------------------------------------------------------
(* What the operators on connections do: they touch one connection, and of  *)
(* that neither the process nor, but for CtlClosed, spp-ctl's end.          *)
ConnsType == conns \in Seq(ConnType) /\ Len(conns) <= MaxConn

Others(cs, ds, c) == /\ ds \in Seq(ConnType)
                     /\ Len(ds) = Len(cs)
                     /\ \A d \in 1 .. Len(cs) : d # c => ds[d] = cs[d]
                     /\ ds[c].who = cs[c].who

LEMMA ConnFields ==
    ASSUME NEW cs \in Seq(ConnType), NEW c \in 1 .. Len(cs)
    PROVE  /\ cs[c] \in ConnType
           /\ cs[c].who \in Client /\ cs[c].ctl \in BOOLEAN
           /\ cs[c].far \in BOOLEAN /\ cs[c].reset \in BOOLEAN
           /\ cs[c].cmds \in Seq(CmdType)
           /\ cs[c].wire \in Seq(PieceType) /\ cs[c].data \in Seq(PieceType)
<1>1. cs[c] \in ConnType
  OBVIOUS
<1> QED BY <1>1 DEF ConnType

LEMMA ConnMade ==
    ASSUME NEW cs \in Seq(ConnType), NEW c \in 1 .. Len(cs), NEW e \in ConnType,
           e.who = cs[c].who
    PROVE  /\ Others(cs, [cs EXCEPT ![c] = e], c)
           /\ [cs EXCEPT ![c] = e][c] = e
  BY DEF Others

LEMMA FarClosedIs ==
    ASSUME ConnsType, NEW c \in Conns
    PROVE  /\ Others(conns, FarClosed(c), c)
           /\ FarClosed(c)[c].ctl = conns[c].ctl /\ ~FarClosed(c)[c].far
           /\ FarClosed(c)[c].cmds = << >>
           /\ FarClosed(c)[c].wire = conns[c].wire
           /\ FarClosed(c)[c].data = conns[c].data
<1>1. PICK cs \in Seq(ConnType) : cs = conns /\ c \in 1 .. Len(cs)
  BY DEF ConnsType, Conns
<1>2. PICK b \in BOOLEAN : b = (cs[c].reset \/ cs[c].cmds # << >>)
  OBVIOUS
<1>3. PICK e : e = [cs[c] EXCEPT !.far = FALSE, !.reset = b, !.cmds = << >>]
  OBVIOUS
<1>4. /\ e \in ConnType /\ e.who = cs[c].who
      /\ e.ctl = cs[c].ctl /\ ~e.far /\ e.cmds = << >>
      /\ e.wire = cs[c].wire /\ e.data = cs[c].data
  <2>1. cs[c] \in ConnType /\ << >> \in Seq(CmdType)
    BY <1>1, ConnFields
  <2>2. cs[c] \in [who : Client, ctl : BOOLEAN, far : BOOLEAN, reset : BOOLEAN,
                  cmds : Seq(CmdType), wire : Seq(PieceType),
                  data : Seq(PieceType)]
    BY <2>1 DEF ConnType
  <2>3. e = [who |-> cs[c].who, ctl |-> cs[c].ctl, far |-> FALSE,
             reset |-> b, cmds |-> << >>, wire |-> cs[c].wire,
             data |-> cs[c].data]
    BY <1>3, <2>2
  <2>4. e \in ConnType
    BY <1>1, <1>2, <2>1, <2>3, ConnFields DEF ConnType
  <2> QED BY <2>3, <2>4
<1>5. PICK ds : ds = [cs EXCEPT ![c] = e]
  OBVIOUS
<1>6. FarClosed(c) = ds
  BY <1>1, <1>2, <1>3, <1>5 DEF FarClosed
<1>7. Others(cs, ds, c) /\ ds[c] = e
  BY <1>1, <1>4, <1>5, ConnMade
<1> QED BY <1>1, <1>4, <1>6, <1>7

(* The record of a connection, field by field. *)
LEMMA ConnOpened ==
    ASSUME NEW cs \in Seq(ConnType), NEW c \in 1 .. Len(cs)
    PROVE  cs[c] \in [who : Client, ctl : BOOLEAN, far : BOOLEAN, reset : BOOLEAN,
                      cmds : Seq(CmdType), wire : Seq(PieceType),
                      data : Seq(PieceType)]
  BY ConnFields DEF ConnType

LEMMA ConnRecord ==
    ASSUME NEW u \in Client, NEW t \in BOOLEAN, NEW f \in BOOLEAN,
           NEW b \in BOOLEAN, NEW m \in Seq(CmdType),
           NEW w \in Seq(PieceType), NEW d \in Seq(PieceType)
    PROVE  [who |-> u, ctl |-> t, far |-> f, reset |-> b, cmds |-> m,
            wire |-> w, data |-> d] \in ConnType
  BY DEF ConnType

LEMMA SendToIs ==
    ASSUME ConnsType, NEW c \in Conns, NEW by \in Caller,
           NEW kind \in {"ask", "exit"}
    PROVE  /\ Others(conns, SendTo(c, by, kind), c)
           /\ SendTo(c, by, kind)[c].ctl = conns[c].ctl
           /\ SendTo(c, by, kind)[c].far = conns[c].far
           /\ SendTo(c, by, kind)[c].wire = conns[c].wire
           /\ SendTo(c, by, kind)[c].data = conns[c].data
           /\ SendTo(c, by, kind)[c].cmds =
                IF conns[c].far
                THEN Append(conns[c].cmds, [by |-> by, kind |-> kind])
                ELSE conns[c].cmds
<1>1. PICK cs \in Seq(ConnType) : cs = conns /\ c \in 1 .. Len(cs)
  BY DEF ConnsType, Conns
<1>2. CASE ~cs[c].far
  <2>1. SendTo(c, by, kind) = cs
    BY <1>1, <1>2 DEF SendTo
  <2> QED BY <1>1, <1>2, <2>1 DEF Others
<1>3. CASE cs[c].far
  <2>0. cs[c].cmds \in Seq(CmdType) /\ [by |-> by, kind |-> kind] \in CmdType
    BY <1>1, ConnFields DEF CmdType
  <2>1. PICK m \in Seq(CmdType) :
           m = Append(cs[c].cmds, [by |-> by, kind |-> kind])
    <3>1. PICK k \in CmdType : k = [by |-> by, kind |-> kind]
      BY <2>0
    <3>2. PICK l \in Seq(CmdType) : l = cs[c].cmds
      BY <2>0
    <3>3. Append(l, k) \in Seq(CmdType)
      OBVIOUS
    <3> QED BY <3>1, <3>2, <3>3
  <2>2. PICK e : e = [cs[c] EXCEPT !.cmds = m]
    OBVIOUS
  <2>3. e = [who |-> cs[c].who, ctl |-> cs[c].ctl, far |-> cs[c].far,
             reset |-> cs[c].reset, cmds |-> m, wire |-> cs[c].wire,
             data |-> cs[c].data]
    <3>1. cs[c] \in [who : Client, ctl : BOOLEAN, far : BOOLEAN,
                     reset : BOOLEAN, cmds : Seq(CmdType),
                     wire : Seq(PieceType), data : Seq(PieceType)]
      BY <1>1, ConnOpened
    <3> QED BY <2>2, <3>1
  <2>4. /\ e \in ConnType /\ e.who = cs[c].who
        /\ e.ctl = cs[c].ctl /\ e.far = cs[c].far /\ e.cmds = m
        /\ e.wire = cs[c].wire /\ e.data = cs[c].data
    <3>1. e \in ConnType
      BY <1>1, <2>1, <2>3, ConnFields, ConnRecord
    <3> QED BY <2>3, <3>1
  <2>5. PICK ds : ds = [cs EXCEPT ![c] = e]
    OBVIOUS
  <2>6. SendTo(c, by, kind) = ds
    BY <1>1, <1>3, <2>1, <2>2, <2>5 DEF SendTo
  <2>7. Others(cs, ds, c) /\ ds[c] = e
    BY <1>1, <2>4, <2>5, ConnMade
  <2> QED BY <1>1, <1>3, <2>1, <2>4, <2>6, <2>7
<1> QED BY <1>2, <1>3

LEMMA ReadIs ==
    ASSUME ConnsType, NEW c \in Conns
    PROVE  /\ Others(conns, Read(c), c)
           /\ Read(c)[c].ctl = conns[c].ctl /\ Read(c)[c].far = conns[c].far
           /\ Read(c)[c].cmds = conns[c].cmds /\ Read(c)[c].wire = conns[c].wire
           /\ Read(c)[c].data = << >>
<1>1. PICK cs \in Seq(ConnType) : cs = conns /\ c \in 1 .. Len(cs)
  BY DEF ConnsType, Conns
<1>2. PICK e : e = [cs[c] EXCEPT !.data = << >>]
  OBVIOUS
<1>3. e = [who |-> cs[c].who, ctl |-> cs[c].ctl, far |-> cs[c].far,
           reset |-> cs[c].reset, cmds |-> cs[c].cmds, wire |-> cs[c].wire,
           data |-> << >>]
  <2>1. cs[c] \in [who : Client, ctl : BOOLEAN, far : BOOLEAN,
                   reset : BOOLEAN, cmds : Seq(CmdType),
                   wire : Seq(PieceType), data : Seq(PieceType)]
    BY <1>1, ConnOpened
  <2> QED BY <1>2, <2>1
<1>4. e \in ConnType
  <2>1. << >> \in Seq(PieceType)
    OBVIOUS
  <2> QED BY <1>1, <1>3, <2>1, ConnFields, ConnRecord
<1>5. /\ e \in ConnType /\ e.who = cs[c].who
      /\ e.ctl = cs[c].ctl /\ e.far = cs[c].far /\ e.cmds = cs[c].cmds
      /\ e.wire = cs[c].wire /\ e.data = << >>
  BY <1>3, <1>4
<1>6. PICK ds : ds = [cs EXCEPT ![c] = e]
  OBVIOUS
<1>7. Read(c) = ds
  BY <1>1, <1>2, <1>6 DEF Read
<1>8. Others(cs, ds, c) /\ ds[c] = e
  BY <1>1, <1>5, <1>6, ConnMade
<1> QED BY <1>1, <1>5, <1>7, <1>8

LEMMA CtlClosedIs ==
    ASSUME NEW cs \in Seq(ConnType), NEW c \in 1 .. Len(cs)
    PROVE  /\ Others(cs, CtlClosed(cs, c), c)
           /\ ~CtlClosed(cs, c)[c].ctl
           /\ CtlClosed(cs, c)[c].far = cs[c].far
           /\ CtlClosed(cs, c)[c].cmds = cs[c].cmds
           /\ CtlClosed(cs, c)[c].wire = << >>
           /\ CtlClosed(cs, c)[c].data = << >>
<1>1. cs[c] \in ConnType
  BY ConnFields
<1>2. PICK b \in BOOLEAN :
         b = (cs[c].reset \/ cs[c].data # << >> \/ cs[c].wire # << >>)
  OBVIOUS
<1>3. PICK e : e = [cs[c] EXCEPT !.ctl = FALSE, !.reset = b, !.data = << >>,
                                 !.wire = << >>]
  OBVIOUS
<1>4. e = [who |-> cs[c].who, ctl |-> FALSE, far |-> cs[c].far, reset |-> b,
           cmds |-> cs[c].cmds, wire |-> << >>, data |-> << >>]
  <2>1. cs[c] \in [who : Client, ctl : BOOLEAN, far : BOOLEAN,
                   reset : BOOLEAN, cmds : Seq(CmdType),
                   wire : Seq(PieceType), data : Seq(PieceType)]
    BY ConnOpened
  <2> QED BY <1>3, <2>1
<1>5. e \in ConnType
  <2>1. << >> \in Seq(PieceType)
    OBVIOUS
  <2>2. FALSE \in BOOLEAN
    OBVIOUS
  <2> QED BY <1>2, <1>4, <2>1, <2>2, ConnFields, ConnRecord
<1>6. /\ e \in ConnType /\ e.who = cs[c].who
      /\ ~e.ctl /\ e.far = cs[c].far /\ e.cmds = cs[c].cmds
      /\ e.wire = << >> /\ e.data = << >>
  BY <1>4, <1>5
<1>7. PICK ds : ds = [cs EXCEPT ![c] = e]
  OBVIOUS
<1>8. CtlClosed(cs, c) = ds
  BY <1>2, <1>3, <1>7 DEF CtlClosed
<1>9. Others(cs, ds, c) /\ ds[c] = e
  BY <1>6, <1>7, ConnMade
<1> QED BY <1>6, <1>8, <1>9

(* The rest: what a step of the process or of TCP makes of it. *)
Updated(cs, c, f, b, m, w, d) ==
    [cs EXCEPT ![c] = [cs[c] EXCEPT !.far = f, !.reset = b, !.cmds = m,
                                    !.wire = w, !.data = d]]

LEMMA ConnUpdated ==
    ASSUME NEW cs \in Seq(ConnType), NEW c \in 1 .. Len(cs),
           NEW f \in BOOLEAN, NEW b \in BOOLEAN, NEW m \in Seq(CmdType),
           NEW w \in Seq(PieceType), NEW d \in Seq(PieceType)
    PROVE  /\ Others(cs, Updated(cs, c, f, b, m, w, d), c)
           /\ Updated(cs, c, f, b, m, w, d)[c].ctl = cs[c].ctl
           /\ Updated(cs, c, f, b, m, w, d)[c].far = f
           /\ Updated(cs, c, f, b, m, w, d)[c].cmds = m
           /\ Updated(cs, c, f, b, m, w, d)[c].wire = w
           /\ Updated(cs, c, f, b, m, w, d)[c].data = d
<1>0. PICK ds : ds = Updated(cs, c, f, b, m, w, d)
  OBVIOUS
<1>1. PICK e : e = [cs[c] EXCEPT !.far = f, !.reset = b, !.cmds = m,
                                 !.wire = w, !.data = d]
  OBVIOUS
<1>2. e = [who |-> cs[c].who, ctl |-> cs[c].ctl, far |-> f, reset |-> b,
           cmds |-> m, wire |-> w, data |-> d]
  <2>1. cs[c] \in [who : Client, ctl : BOOLEAN, far : BOOLEAN,
                   reset : BOOLEAN, cmds : Seq(CmdType),
                   wire : Seq(PieceType), data : Seq(PieceType)]
    BY ConnOpened
  <2> QED BY <1>1, <2>1
<1>3. e \in ConnType
  BY <1>2, ConnFields, ConnRecord
<1>4. ds = [cs EXCEPT ![c] = e]
  BY <1>0, <1>1 DEF Updated
<1>5. Others(cs, ds, c) /\ ds[c] = e
  <2>1. e.who = cs[c].who
    BY <1>2
  <2>2. Others(cs, [cs EXCEPT ![c] = e], c) /\ [cs EXCEPT ![c] = e][c] = e
    BY <1>3, <2>1, ConnMade
  <2> QED BY <1>4, <2>2
<1> QED BY <1>0, <1>2, <1>5

LEMMA TailIs ==
    ASSUME NEW S, NEW s \in Seq(S), s # << >>
    PROVE  /\ Tail(s) \in Seq(S) /\ Len(s) \in Nat \ {0}
           /\ Len(Tail(s)) = Len(s) - 1 /\ s[1] = Head(s) /\ Head(s) \in S
           /\ \A k \in 1 .. Len(Tail(s)) : Tail(s)[k] = s[k + 1]
  OBVIOUS

LEMMA DeliverIs ==
    ASSUME ConnsType, NEW c \in Conns, Deliver(c)
    PROVE  /\ Others(conns, conns', c)
           /\ conns'[c].ctl = conns[c].ctl /\ conns'[c].far = conns[c].far
           /\ conns'[c].cmds = conns[c].cmds
           /\ conns'[c].wire = Tail(conns[c].wire)
           /\ conns'[c].data = Append(conns[c].data, Head(conns[c].wire))
<1>1. PICK cs \in Seq(ConnType) : cs = conns /\ c \in 1 .. Len(cs)
  BY DEF ConnsType, Conns
<1>2. cs[c].wire # << >> /\ cs[c].wire \in Seq(PieceType)
  BY <1>1, ConnFields DEF Deliver
<1>3. Tail(cs[c].wire) \in Seq(PieceType) /\ Head(cs[c].wire) \in PieceType
  BY <1>2, TailIs
<1>4. PICK w \in Seq(PieceType) : w = Tail(cs[c].wire)
  BY <1>3
<1>5. PICK h \in PieceType : h = Head(cs[c].wire)
  BY <1>3
<1>6. PICK d \in Seq(PieceType) : d = Append(cs[c].data, h)
  <2>1. PICK l \in Seq(PieceType) : l = cs[c].data
    BY <1>1, ConnFields
  <2>2. Append(l, h) \in Seq(PieceType)
    OBVIOUS
  <2> QED BY <2>1, <2>2
<1>7. PICK ds : ds = conns'
  OBVIOUS
<1>8. ds = [cs EXCEPT ![c] = [cs[c] EXCEPT !.wire = w, !.data = d]]
  <2>1. ds = [cs EXCEPT ![c].wire = w, ![c].data = Append(@, h)]
    BY <1>1, <1>4, <1>5, <1>7 DEF Deliver
  <2>2. cs[c] \in [who : Client, ctl : BOOLEAN, far : BOOLEAN,
                   reset : BOOLEAN, cmds : Seq(CmdType),
                   wire : Seq(PieceType), data : Seq(PieceType)]
    BY <1>1, ConnOpened
  <2> QED BY <1>1, <1>6, <2>1, <2>2
<1>9. PICK f \in BOOLEAN, b \in BOOLEAN, m \in Seq(CmdType) :
         f = cs[c].far /\ b = cs[c].reset /\ m = cs[c].cmds
  BY <1>1, ConnFields
<1>10. ds = Updated(cs, c, f, b, m, w, d)
  <2>1. cs[c] \in [who : Client, ctl : BOOLEAN, far : BOOLEAN,
                   reset : BOOLEAN, cmds : Seq(CmdType),
                   wire : Seq(PieceType), data : Seq(PieceType)]
    BY <1>1, ConnOpened
  <2>2. [cs[c] EXCEPT !.wire = w, !.data = d] =
          [cs[c] EXCEPT !.far = f, !.reset = b, !.cmds = m, !.wire = w,
                        !.data = d]
    BY <1>9, <2>1
  <2> QED BY <1>8, <2>2 DEF Updated
<1>11. /\ Others(cs, ds, c)
       /\ ds[c].ctl = cs[c].ctl /\ ds[c].far = f
       /\ ds[c].cmds = m /\ ds[c].wire = w /\ ds[c].data = d
  BY <1>1, <1>10, ConnUpdated
<1> QED BY <1>1, <1>4, <1>5, <1>6, <1>7, <1>9, <1>11

LEMMA JoinIs ==
    ASSUME NEW S, NEW s \in Seq(S), NEW t \in Seq(S)
    PROVE  s \o t \in Seq(S)
  OBVIOUS

LEMMA SingleIs ==
    ASSUME NEW S, NEW x \in S
    PROVE  <<x>> \in Seq(S)
  OBVIOUS

(* The answer: one piece, or a part of it now. *)
LEMMA ServeIs ==
    ASSUME ConnsType, NEW p \in Client, Serve(p), NEW c \in Conns, c = psock[p]
    PROVE  /\ Others(conns, conns', c)
           /\ conns'[c].ctl = conns[c].ctl
           /\ conns'[c].cmds = Tail(conns[c].cmds)
           /\ Head(conns[c].cmds) \in CmdType
           /\ \E now, later \in Seq(PieceType) :
                /\ conns'[c].data = conns[c].data \o now
                /\ conns'[c].wire = conns[c].wire \o later
                /\ \/ /\ now = <<Piece(Head(conns[c].cmds).by, TRUE)>>
                      /\ later = << >>
                   \/ /\ now = <<Piece(Head(conns[c].cmds).by, FALSE)>>
                      /\ later = <<Piece(Head(conns[c].cmds).by, TRUE)>>
<1>1. PICK cs \in Seq(ConnType) : cs = conns /\ c \in 1 .. Len(cs)
  BY DEF ConnsType, Conns
<1>2. cs[c].cmds # << >> /\ cs[c].cmds \in Seq(CmdType)
  BY <1>1, ConnFields DEF Serve
<1>3. Tail(cs[c].cmds) \in Seq(CmdType) /\ Head(cs[c].cmds) \in CmdType
  BY <1>2, TailIs
<1>4. PICK m \in Seq(CmdType) : m = Tail(cs[c].cmds)
  BY <1>3
<1>5. PICK cmd \in CmdType : cmd = Head(cs[c].cmds)
  BY <1>3
<1>6. PICK by \in Caller : by = cmd.by
  BY <1>5 DEF CmdType
<1>7. PICK q \in BOOLEAN : q = (faults' = faults)
  OBVIOUS
<1>8. /\ Piece(by, TRUE) \in PieceType /\ Piece(by, FALSE) \in PieceType
      /\ << >> \in Seq(PieceType)
  BY <1>6 DEF Piece, PieceType
<1>9. PICK now \in Seq(PieceType), later \in Seq(PieceType) :
        /\ now = <<Piece(by, q)>>
        /\ later = IF q THEN << >> ELSE <<Piece(by, TRUE)>>
  <2>1. PICK x \in PieceType : x = Piece(by, TRUE)
    BY <1>8
  <2>2. PICK y \in PieceType : y = Piece(by, q)
    BY <1>6, <1>7 DEF Piece, PieceType
  <2>3. <<x>> \in Seq(PieceType) /\ <<y>> \in Seq(PieceType)
    BY SingleIs
  <2> QED BY <1>7, <1>8, <2>1, <2>2, <2>3
<1>10. PICK w \in Seq(PieceType), d \in Seq(PieceType) :
         w = cs[c].wire \o later /\ d = cs[c].data \o now
  <2>1. PICK v \in Seq(PieceType), u \in Seq(PieceType) :
          v = cs[c].wire /\ u = cs[c].data
    BY <1>1, ConnFields
  <2>2. v \o later \in Seq(PieceType) /\ u \o now \in Seq(PieceType)
    BY JoinIs
  <2> QED BY <2>1, <2>2
<1>11. PICK b \in BOOLEAN : b = cs[c].reset
  BY <1>1, ConnFields
<1>12. cs[c] \in [who : Client, ctl : BOOLEAN, far : BOOLEAN,
                  reset : BOOLEAN, cmds : Seq(CmdType),
                  wire : Seq(PieceType), data : Seq(PieceType)]
  BY <1>1, ConnOpened
<1>13. PICK s : s = Reply(c, cmd.by)
  OBVIOUS
<1>14. s = [cs EXCEPT ![c].cmds = m, ![c].data = @ \o now, ![c].wire = @ \o later]
  <2>1. CASE q
    <3>1. q = TRUE
      BY <1>7, <2>1
    <3> QED BY <1>1, <1>4, <1>6, <1>7, <1>9, <1>13, <2>1, <3>1 DEF Reply
  <2>2. CASE ~q
    <3>1. q = FALSE
      BY <1>7, <2>2
    <3> QED BY <1>1, <1>4, <1>6, <1>7, <1>9, <1>13, <2>2, <3>1 DEF Reply
  <2> QED BY <2>1, <2>2
<1>15. s = [cs EXCEPT ![c] = [cs[c] EXCEPT !.cmds = m, !.wire = w, !.data = d]]
  BY <1>1, <1>10, <1>12, <1>14
<1>16. PICK g \in BOOLEAN :
         g = (cs[c].far /\ cmd.kind # "exit")
  OBVIOUS
<1>17. conns' = Updated(cs, c, g, b, m, w, d)
  <2>1. CASE cmd.kind = "exit"
    <3>1. conns' = [s EXCEPT ![c].far = FALSE] /\ g = FALSE
      BY <1>1, <1>5, <1>13, <1>16, <2>1 DEF Serve
    <3> QED BY <1>1, <1>11, <1>12, <1>15, <3>1 DEF Updated
  <2>2. CASE cmd.kind # "exit"
    <3>1. conns' = s
      BY <1>1, <1>5, <1>13, <2>2 DEF Serve
    <3>2. g = cs[c].far
      BY <1>12, <1>16, <2>2
    <3> QED BY <1>1, <1>11, <1>12, <1>15, <3>1, <3>2 DEF Updated
  <2> QED BY <2>1, <2>2
<1>18. PICK ds : ds = Updated(cs, c, g, b, m, w, d)
  OBVIOUS
<1>19. /\ Others(cs, ds, c)
       /\ ds[c].ctl = cs[c].ctl
       /\ ds[c].cmds = m /\ ds[c].wire = w /\ ds[c].data = d
  BY <1>1, <1>18, ConnUpdated
<1>20. \/ now = <<Piece(by, TRUE)>> /\ later = << >>
       \/ now = <<Piece(by, FALSE)>> /\ later = <<Piece(by, TRUE)>>
  BY <1>7, <1>9
<1> QED BY <1>1, <1>4, <1>5, <1>6, <1>10, <1>17, <1>18, <1>19, <1>20

(* The process is not heard: it may see that its connection is closed. *)
LEMMA ServeClosedIs ==
    ASSUME ConnsType, NEW p \in Client, ServeClosed(p), NEW c \in Conns,
           c = psock[p]
    PROVE  /\ Others(conns, conns', c)
           /\ conns'[c].ctl = conns[c].ctl
           /\ conns'[c].cmds \in {<< >>, Tail(conns[c].cmds)}
           /\ conns'[c].wire = conns[c].wire
           /\ conns'[c].data = conns[c].data
<1>1. PICK cs \in Seq(ConnType) : cs = conns /\ c \in 1 .. Len(cs)
  BY DEF ConnsType, Conns
<1>2. CASE conns' = FarClosed(c)
  <2>1. PICK ds : ds = FarClosed(c)
    OBVIOUS
  <2>2. /\ Others(conns, ds, c) /\ ds[c].ctl = conns[c].ctl
        /\ ds[c].cmds = << >> /\ ds[c].wire = conns[c].wire
        /\ ds[c].data = conns[c].data
    BY <2>1, FarClosedIs
  <2> QED BY <1>2, <2>1, <2>2
<1>3. CASE conns' = [conns EXCEPT ![c].cmds = Tail(@), ![c].reset = TRUE]
  <2>1. cs[c].cmds # << >> /\ cs[c].cmds \in Seq(CmdType)
    BY <1>1, ConnFields DEF ServeClosed
  <2>2. PICK m \in Seq(CmdType) : m = Tail(cs[c].cmds)
    BY <2>1, TailIs
  <2>3. PICK f \in BOOLEAN, w \in Seq(PieceType), d \in Seq(PieceType) :
          f = cs[c].far /\ w = cs[c].wire /\ d = cs[c].data
    BY <1>1, ConnFields
  <2>4. cs[c] \in [who : Client, ctl : BOOLEAN, far : BOOLEAN,
                   reset : BOOLEAN, cmds : Seq(CmdType),
                   wire : Seq(PieceType), data : Seq(PieceType)]
    BY <1>1, ConnOpened
  <2>8. PICK t \in BOOLEAN : t = TRUE
    OBVIOUS
  <2>5. conns' = Updated(cs, c, f, t, m, w, d)
    BY <1>1, <1>3, <2>2, <2>3, <2>4, <2>8 DEF Updated
  <2>6. PICK ds : ds = Updated(cs, c, f, t, m, w, d)
    OBVIOUS
  <2>7. /\ Others(cs, ds, c) /\ ds[c].ctl = cs[c].ctl
        /\ ds[c].cmds = m /\ ds[c].wire = w /\ ds[c].data = d
    BY <1>1, <2>6, ConnUpdated
  <2> QED BY <1>1, <2>2, <2>3, <2>5, <2>6, <2>7
<1> QED BY <1>2, <1>3 DEF ServeClosed

-----------------------------------------------------------------------------
(* What all steps do to the connections: none goes away or changes its      *)
(* process.  Most leave spp-ctl's ends as they are.                         *)
Grown == /\ conns' \in Seq(ConnType)
         /\ Len(conns) <= Len(conns') /\ Len(conns') <= MaxConn
         /\ \A d \in Conns : conns'[d].who = conns[d].who

Same == Grown /\ \A d \in Conns : conns'[d].ctl = conns[d].ctl

LEMMA ConnRange ==
    ASSUME BaseType
    PROVE  /\ ConnsType /\ Conns \subseteq Conn /\ Len(conns) \in Nat
           /\ \A c \in Conns : c \in Nat \ {0}
           /\ \A c \in Conn : c \in Nat \ {0}
  BY BoundAssumption DEF BaseType, ConnsType, Conns, Conn

LEMMA GrownConns ==
    ASSUME BaseType, Grown
    PROVE  Conns \subseteq Conns'
<1>1. PICK m \in Nat, n \in Nat : m = Len(conns) /\ n = Len(conns')
  BY DEF BaseType, Grown
<1>2. m <= n
  BY <1>1 DEF Grown
<1>3. 1 .. m \subseteq 1 .. n
  BY <1>2
<1> QED BY <1>1, <1>3 DEF Conns

LEMMA OthersGrown ==
    ASSUME BaseType, NEW c \in Conns, Others(conns, conns', c)
    PROVE  Grown
<1>1. Len(conns') = Len(conns) /\ Len(conns) \in Nat /\ Len(conns) <= MaxConn
  BY DEF Others, BaseType
<1>2. Len(conns) <= Len(conns') /\ Len(conns') <= MaxConn
  BY <1>1
<1> QED BY <1>2 DEF Grown, Others, Conns

LEMMA OthersSame ==
    ASSUME BaseType, NEW c \in Conns, Others(conns, conns', c),
           conns'[c].ctl = conns[c].ctl
    PROVE  Same
  BY OthersGrown DEF Same, Others, Conns

LEMMA UnchangedSame ==
    ASSUME BaseType, UNCHANGED conns
    PROVE  Same
<1>1. Len(conns) \in Nat
  BY DEF BaseType
<1> QED BY <1>1 DEF Same, Grown, BaseType

(* One connection more. *)
LEMMA ConnectIs ==
    ASSUME BaseType, NEW p \in Client, Connect(p)
    PROVE  /\ Same
           /\ \A d \in Conns : conns'[d] = conns[d]
           /\ Len(conns) + 1 \in Conns' /\ Len(conns) + 1 \notin Conns
           /\ Conns' = Conns \cup {Len(conns) + 1}
           /\ conns'[Len(conns) + 1] = NewConn(p)
<1>1. PICK cs \in Seq(ConnType) : cs = conns
  BY DEF BaseType
<1>2. PICK e \in ConnType : e = NewConn(p)
  <2>1. << >> \in Seq(CmdType) /\ << >> \in Seq(PieceType)
    OBVIOUS
  <2>2. TRUE \in BOOLEAN /\ FALSE \in BOOLEAN
    OBVIOUS
  <2>3. NewConn(p) \in ConnType
    BY <2>1, <2>2 DEF NewConn, ConnType
  <2> QED BY <2>3
<1>3. PICK n \in Nat : n = Len(cs)
  OBVIOUS
<1>4. PICK ds : ds = Append(cs, e)
  OBVIOUS
<1>5. ds \in Seq(ConnType) /\ Len(ds) = n + 1 /\ ds[n + 1] = e
      /\ \A d \in 1 .. n : ds[d] = cs[d]
  BY <1>3, <1>4
<1>6. conns' = ds
  BY <1>1, <1>2, <1>4 DEF Connect
<1>7. n < MaxConn
  BY <1>1, <1>3 DEF Connect
<1>8. n <= n + 1 /\ n + 1 <= MaxConn
  BY <1>7, BoundAssumption
<1>9. Conns = 1 .. n /\ Conns' = 1 .. n + 1
  BY <1>1, <1>3, <1>5, <1>6 DEF Conns
<1>10. n + 1 \in 1 .. n + 1 /\ n + 1 \notin 1 .. n
       /\ 1 .. n + 1 = 1 .. n \cup {n + 1}
  OBVIOUS
<1>11. Grown
  BY <1>1, <1>3, <1>5, <1>6, <1>8, <1>9 DEF Grown
<1> QED BY <1>1, <1>2, <1>3, <1>5, <1>6, <1>9, <1>10, <1>11 DEF Same

(* The steps of a process on its connection, and those beside it. *)
ProcessStep(p) ==
    \/ Serve(p) \/ ServeClosed(p) \/ SeeClose(p)
    \/ Crash(p) \/ FallSilent(p) \/ Launch(p)

LEMMA ProcessIs ==
    ASSUME CtlInv, NEW p \in Client, ProcessStep(p)
    PROVE  /\ Same
           /\ UNCHANGED <<backlog, ctlVars, reqVars, known, left, torn>>
<1> USE DEF CtlInv
<1>1. pst[p] \in {"up", "silent"} => psock[p] \in Conns
  BY DEF PlaceInv
<1>2. ConnsType
  BY ConnRange
<1>3. CASE Serve(p)
  <2>1. PICK c \in Conns : c = psock[p]
    BY <1>1, <1>3 DEF Serve
  <2>2. Others(conns, conns', c) /\ conns'[c].ctl = conns[c].ctl
    BY <1>2, <1>3, <2>1, ServeIs
  <2> QED BY <1>3, <2>2, OthersSame DEF Serve
<1>4. CASE ServeClosed(p)
  <2>1. PICK c \in Conns : c = psock[p]
    BY <1>1, <1>4 DEF ServeClosed
  <2>2. Others(conns, conns', c) /\ conns'[c].ctl = conns[c].ctl
    BY <1>2, <1>4, <2>1, ServeClosedIs
  <2> QED BY <1>4, <2>2, OthersSame DEF ServeClosed, histVars
<1>5. CASE SeeClose(p)
  <2>1. PICK c \in Conns : c = psock[p]
    BY <1>1, <1>5 DEF SeeClose
  <2>2. Others(conns, conns', c) /\ conns'[c].ctl = conns[c].ctl
    BY <1>2, <1>5, <2>1, FarClosedIs DEF SeeClose
  <2> QED BY <1>5, <2>2, OthersSame DEF SeeClose, histVars
<1>6. CASE Crash(p)
  <2>1. PICK c \in Conns : c = psock[p]
    BY <1>1, <1>6 DEF Crash
  <2>2. Others(conns, conns', c) /\ conns'[c].ctl = conns[c].ctl
    BY <1>2, <1>6, <2>1, FarClosedIs DEF Crash
  <2> QED BY <1>6, <2>2, OthersSame DEF Crash
<1>7. CASE FallSilent(p)
  BY <1>7, UnchangedSame DEF FallSilent
<1>8. CASE Launch(p)
  BY <1>8, UnchangedSame DEF Launch, histVars
<1> QED BY <1>3, <1>4, <1>5, <1>6, <1>7, <1>8 DEF ProcessStep

(* An object that is in the table or whose semaphore is taken has a known   *)
(* connection.                                                              *)
LEMMA InUseKnown ==
    ASSUME CtlInv, NEW o \in Conn, InUse(o)
    PROVE  /\ o \in known /\ connOf[o] \in known
           /\ o \in Conns /\ connOf[o] \in Conns /\ connOf[o] \in Conn
<1>1. o \in known
  BY DEF CtlInv, OwnConnInv
<1>2. connOf[o] \in known
  BY <1>1 DEF CtlInv, TableInv
<1>3. connOf[o] \in Conn
  BY DEF CtlInv, BaseType
<1> QED BY <1>1, <1>2, <1>3 DEF CtlInv, PlaceInv

LEMMA ActiveInUse ==
    ASSUME CtlInv, NEW r \in Request, rpc[r] \in Active
    PROVE  /\ robj[r] \in Conn /\ sem[robj[r]] \in Seq(Caller)
           /\ sem[robj[r]] # << >>
           /\ \E k \in 1 .. Len(sem[robj[r]]) : sem[robj[r]][k] = r
           /\ InUse(robj[r])
<1>1. robj[r] \in Conn /\ \E k \in 1 .. Len(sem[robj[r]]) : sem[robj[r]][k] = r
  <2>1. PICK o \in Conn \cup {0} : o = robj[r]
    BY DEF CtlInv, BaseType
  <2>2. Waits(r, o) /\ r \in Caller
    BY <2>1 DEF Waits, Caller
  <2> QED BY <2>1, <2>2 DEF CtlInv, SemInv
<1>2. sem[robj[r]] \in Seq(Caller)
  BY <1>1 DEF CtlInv, BaseType
<1>3. sem[robj[r]] # << >>
  BY <1>1, <1>2
<1> QED BY <1>1, <1>2, <1>3 DEF InUse

(* Who waits for a reply is the head of the semaphore. *)
LEMMA WaitsAtHead ==
    ASSUME CtlInv, NEW r \in Request, rpc[r] = "wait"
    PROVE  Head(sem[robj[r]]) = r
<1>1. rpc[r] \in Active
  BY DEF Active
<1>2. PICK o \in Conn : o = robj[r]
  BY <1>1, ActiveInUse
<1>3. PICK s \in Seq(Caller) : s = sem[o] /\ s # << >>
  BY <1>1, <1>2, ActiveInUse
<1>4. PICK k \in 1 .. Len(s) : s[k] = r
  BY <1>1, <1>2, <1>3, ActiveInUse
<1>5. ~(k > 1)
  <2>0. r \in Caller
    BY DEF Caller
  <2>1. k > 1 => ~Sent(r)
    BY <1>2, <1>3, <1>4, <2>0 DEF CtlInv, SemInv
  <2> QED BY <1>4, <2>1 DEF Sent
<1>6. k = 1
  BY <1>5
<1> QED BY <1>2, <1>3, <1>4, <1>6

LEMMA SendIs ==
    ASSUME CtlInv, NEW r \in Request, NEW o \in Conn, InUse(o),
           NEW kind \in {"ask", "exit"}, NEW held, Send(r, o, kind, held)
    PROVE  Same
<1>1. connOf[o] \in Conns
  BY InUseKnown
<1>2. CASE conns[connOf[o]].ctl
  <2>1. conns' = SendTo(connOf[o], r, kind)
    BY <1>2 DEF Send
  <2>2. PICK c \in Conns : c = connOf[o]
    BY <1>1
  <2>3. ConnsType /\ r \in Caller
    BY ConnRange DEF CtlInv, Caller
  <2>4. PICK ds : ds = SendTo(c, r, kind)
    OBVIOUS
  <2>5. Others(conns, ds, c) /\ ds[c].ctl = conns[c].ctl
    BY <2>3, <2>4, SendToIs
  <2>6. Others(conns, conns', c) /\ conns'[c].ctl = conns[c].ctl
    BY <2>1, <2>2, <2>4, <2>5
  <2> QED BY <2>6, OthersSame DEF CtlInv
<1>3. CASE ~conns[connOf[o]].ctl
  BY <1>3, UnchangedSame DEF Send, CtlInv
<1> QED BY <1>2, <1>3

(* The steps of the request handlers. *)
LEMMA LookupIs ==
    ASSUME CtlInv, NEW r \in Request, Lookup(r)
    PROVE  /\ Same /\ rpc[r] = "new"
           /\ UNCHANGED <<backlog, connOf, apc, acur, aold, got, procVars,
                          known, torn, faults>>
           /\ \E i \in Id, kind \in {"ask", "exit"}, o \in known :
                /\ o = procs[i] /\ o \in Conn /\ InUse(o)
                /\ robj' = [robj EXCEPT ![r] = o]
                /\ procs' = IF kind = "exit" THEN [procs EXCEPT ![i] = 0] ELSE procs
                /\ left' = IF kind = "exit" THEN left \cup {o} ELSE left
                /\ \/ Free(o) /\ Send(r, o, kind, [sem EXCEPT ![o] = <<r>>])
                   \/ /\ ~Free(o) /\ UNCHANGED conns
                      /\ sem' = [sem EXCEPT ![o] = Append(@, r)]
                      /\ rpc' = [rpc EXCEPT ![r] = IF kind = "exit" THEN "exit"
                                                   ELSE "queued"]
<1>1. PICK i \in Id, kind \in {"ask", "exit"} :
        /\ procs[i] # 0
        /\ robj' = [robj EXCEPT ![r] = procs[i]]
        /\ procs' = Removed(i, kind)
        /\ left' = IF kind = "exit" THEN left \cup {procs[i]} ELSE left
        /\ IF Free(procs[i])
           THEN Send(r, procs[i], kind, [sem EXCEPT ![procs[i]] = <<r>>])
           ELSE /\ sem' = [sem EXCEPT ![procs[i]] = Append(@, r)]
                /\ Finish(r, IF kind = "exit" THEN "exit" ELSE "queued")
                /\ UNCHANGED conns
  BY DEF Lookup
<1>2. PICK o \in known : o = procs[i]
  BY <1>1 DEF CtlInv, TableInv
<1>3. o \in Conn /\ InUse(o)
  BY <1>2 DEF CtlInv, BaseType, InUse
<1>4. \/ Free(o) /\ Send(r, o, kind, [sem EXCEPT ![o] = <<r>>])
      \/ /\ ~Free(o) /\ UNCHANGED conns
         /\ sem' = [sem EXCEPT ![o] = Append(@, r)]
         /\ rpc' = [rpc EXCEPT ![r] = IF kind = "exit" THEN "exit" ELSE "queued"]
  BY <1>1, <1>2 DEF Finish
<1>5. Same
  <2>1. CASE Send(r, o, kind, [sem EXCEPT ![o] = <<r>>])
    <3>1. PICK held : held = [sem EXCEPT ![o] = <<r>>]
      OBVIOUS
    <3>2. Send(r, o, kind, held)
      BY <2>1, <3>1
    <3> QED BY <1>3, <3>2, SendIs
  <2>2. CASE UNCHANGED conns
    BY <2>2, UnchangedSame DEF CtlInv
  <2> QED BY <1>4, <2>1, <2>2
<1>6. /\ rpc[r] = "new"
      /\ UNCHANGED <<backlog, connOf, apc, acur, aold, got, procVars, known,
                     torn, faults>>
  BY DEF Lookup
<1>7. /\ robj' = [robj EXCEPT ![r] = o]
      /\ procs' = IF kind = "exit" THEN [procs EXCEPT ![i] = 0] ELSE procs
      /\ left' = IF kind = "exit" THEN left \cup {o} ELSE left
  BY <1>1, <1>2 DEF Removed
<1> QED BY <1>2, <1>3, <1>4, <1>5, <1>6, <1>7

LEMMA SendLaterIs ==
    ASSUME CtlInv, NEW r \in Request, SendLater(r)
    PROVE  Same /\ UNCHANGED <<backlog, procs, connOf, apc, acur, aold, robj,
                               got, procVars, histVars>>
<1>1. rpc[r] \in Active
  BY DEF SendLater, Active
<1>2. PICK o \in Conn : o = robj[r] /\ InUse(o)
  BY <1>1, ActiveInUse
<1>3. PICK kind \in {"ask", "exit"} : Send(r, o, kind, sem)
  BY <1>2 DEF SendLater
<1>4. PICK held : held = sem
  OBVIOUS
<1>5. Same
  BY <1>2, <1>3, <1>4, SendIs
<1> QED BY <1>5 DEF SendLater

LEMMA ReceiveIs ==
    ASSUME CtlInv, NEW r \in Request, Receive(r)
    PROVE  Same /\ UNCHANGED <<backlog, procs, connOf, apc, acur, aold, robj,
                               procVars, known, left, faults>>
<1>1. rpc[r] \in Active
  BY DEF Receive, Active
<1>2. PICK o \in Conn : o = robj[r] /\ InUse(o)
  BY <1>1, ActiveInUse
<1>3. PICK c \in Conns : c = connOf[o]
  BY <1>2, InUseKnown
<1>4. ConnsType
  BY ConnRange DEF CtlInv
<1>5. PICK ds : ds = Read(c)
  OBVIOUS
<1>6. Others(conns, ds, c) /\ ds[c].ctl = conns[c].ctl
  BY <1>4, <1>5, ReadIs
<1>7. conns' = ds
  BY <1>2, <1>3, <1>5 DEF Receive
<1>8. Same
  BY <1>6, <1>7, OthersSame DEF CtlInv
<1> QED BY <1>8 DEF Receive

LEMMA NothingIs ==
    ASSUME CtlInv, NEW r \in Request, ReceiveNothing(r)
    PROVE  Same /\ UNCHANGED <<conns, backlog, procs, connOf, apc, acur, aold,
                               robj, got, procVars, histVars>>
  BY UnchangedSame DEF ReceiveNothing, CtlInv

(* What an accepting thread does when it has the process of connection c,   *)
(* and the object, if any, to replace: to the connections, and then to the  *)
(* table; or it queues.                                                     *)
Turned(c, old) ==
    /\ Grown /\ Conns' = Conns
    /\ \A d \in Conns :
         d # c /\ (old # 0 => d # connOf[old]) => conns'[d] = conns[d]
    /\ conns'[c].ctl = conns[c].ctl /\ conns'[c].far = conns[c].far
    /\ conns'[c].cmds = conns[c].cmds /\ conns'[c].wire = conns[c].wire
    /\ \/ conns'[c].data = conns[c].data /\ Unused(c)
       \/ ~Tears(c) /\ conns[c].data # << >> /\ conns'[c].data = << >>
    /\ old # 0 =>
         /\ connOf[old] # c
         /\ ~conns'[connOf[old]].ctl
         /\ conns'[connOf[old]].far = conns[connOf[old]].far
         /\ conns'[connOf[old]].cmds = conns[connOf[old]].cmds
         /\ conns'[connOf[old]].wire = << >>
         /\ conns'[connOf[old]].data = << >>

Entered(a, c, old) ==
    /\ Waiting(a, c)
    /\ Turned(c, old)
    /\ Enter(a, c, old)
    /\ old = 0 => Entry(conns[c].who) = 0
    /\ old # 0 => /\ old \in Conn /\ InUse(old)
                  /\ \/ Entry(conns[c].who) = old
                     \/ Entry(conns[c].who) = 0 /\ old \in left
    /\ \A r \in Request : rpc[r] = "wait" => robj[r] # old
    /\ UNCHANGED <<reqVars, procVars, left, torn, faults>>

Queued(a, c) ==
    /\ Waiting(a, c)
    /\ Turned(c, 0)
    /\ \E old \in known :
         /\ old \in Conn /\ InUse(old) /\ old = Entry(conns[c].who)
         /\ sem' = [sem EXCEPT ![old] = Append(@, a)]
         /\ aold' = [aold EXCEPT ![a] = old]
    /\ apc' = [apc EXCEPT ![a] = "queued"]
    /\ acur' = [acur EXCEPT ![a] = c]
    /\ UNCHANGED <<procs, connOf, known, reqVars, procVars, left, torn, faults>>

(* cs is what the thread has read from its connection so far. *)
ReadOf(cs, c) ==
    /\ Others(conns, cs, c)
    /\ cs[c].ctl = conns[c].ctl /\ cs[c].far = conns[c].far
    /\ cs[c].cmds = conns[c].cmds /\ cs[c].wire = conns[c].wire
    /\ \/ cs[c].data = conns[c].data /\ Unused(c)
       \/ ~Tears(c) /\ conns[c].data # << >> /\ cs[c].data = << >>

LEMMA ReadTurned ==
    ASSUME CtlInv, NEW c \in Conns, NEW cs, ReadOf(cs, c), conns' = cs
    PROVE  Turned(c, 0)
<1>1. Grown
  BY OthersGrown DEF CtlInv, ReadOf
<1>2. Conns' = Conns
  BY DEF ReadOf, Others, Conns
<1> QED BY <1>1, <1>2 DEF Turned, ReadOf, Others, Conns

LEMMA ReplacedTurned ==
    ASSUME CtlInv, NEW c \in Conns, c \notin known, NEW cs, ReadOf(cs, c),
           NEW old \in Conn, InUse(old), conns' = Replaced(cs, old)
    PROVE  Turned(c, old)
<1>1. PICK e \in Conns : e = connOf[old] /\ e \in known
  BY InUseKnown
<1>2. e # c
  BY <1>1
<1>3. PICK ss \in Seq(ConnType) : ss = cs
  BY DEF ReadOf, Others
<1>4. e \in 1 .. Len(ss) /\ Len(ss) = Len(conns)
  BY <1>1, <1>3 DEF Conns, ReadOf, Others
<1>5. PICK ds : ds = CtlClosed(ss, e)
  OBVIOUS
<1>6. /\ Others(ss, ds, e) /\ ~ds[e].ctl /\ ds[e].far = ss[e].far
      /\ ds[e].cmds = ss[e].cmds /\ ds[e].wire = << >> /\ ds[e].data = << >>
  BY <1>4, <1>5, CtlClosedIs
<1>7. conns' = ds
  BY <1>1, <1>3, <1>5 DEF Replaced
<1>8. ss[e] = conns[e]
  BY <1>1, <1>2, <1>3 DEF ReadOf, Others, Conns
<1>9. ds[c] = ss[c]
  BY <1>2, <1>4, <1>6 DEF Others, Conns
<1>10. \A d \in Conns : d # c /\ d # e => ds[d] = conns[d]
  BY <1>3, <1>4, <1>6 DEF Others, Conns, ReadOf
<1>11. Grown
  <2>1. ds \in Seq(ConnType) /\ Len(ds) = Len(conns)
    BY <1>4, <1>6 DEF Others
  <2>2. Len(conns) <= Len(conns') /\ Len(conns') <= MaxConn
    BY <1>7, <2>1 DEF CtlInv, BaseType
  <2>3. \A d \in Conns : ds[d].who = conns[d].who
    BY <1>3, <1>4, <1>6, <1>8, <1>9, <1>10 DEF Others, Conns, ReadOf
  <2> QED BY <1>7, <2>1, <2>2, <2>3 DEF Grown
<1>16. Conns' = Conns
  BY <1>4, <1>6, <1>7 DEF Others, Conns
<1>12. old # 0
  BY BoundAssumption DEF Conn
<1>13. \A d \in Conns :
         d # c /\ (old # 0 => d # connOf[old]) => conns'[d] = conns[d]
  BY <1>1, <1>7, <1>10, <1>12
<1>14. /\ conns'[c].ctl = conns[c].ctl /\ conns'[c].far = conns[c].far
       /\ conns'[c].cmds = conns[c].cmds /\ conns'[c].wire = conns[c].wire
       /\ \/ conns'[c].data = conns[c].data /\ Unused(c)
          \/ ~Tears(c) /\ conns[c].data # << >> /\ conns'[c].data = << >>
  BY <1>3, <1>7, <1>9 DEF ReadOf
<1>15. /\ connOf[old] # c
       /\ ~conns'[connOf[old]].ctl
       /\ conns'[connOf[old]].far = conns[connOf[old]].far
       /\ conns'[connOf[old]].cmds = conns[connOf[old]].cmds
       /\ conns'[connOf[old]].wire = << >>
       /\ conns'[connOf[old]].data = << >>
  BY <1>1, <1>2, <1>6, <1>7, <1>8
<1> QED BY <1>11, <1>13, <1>14, <1>15, <1>16 DEF Turned

LEMMA InstallIs ==
    ASSUME CtlInv, NEW a \in Accept, NEW c \in Conns, Waiting(a, c),
           NEW cs, ReadOf(cs, c), Install(a, c, cs),
           UNCHANGED <<reqVars, procVars, left, torn, faults>>
    PROVE  \/ UNCHANGED <<sem, aold>> /\ \E old : Entered(a, c, old)
           \/ Queued(a, c)
<1>1. conns[c].who \in Client /\ conns[c].who = cs[c].who
  BY ConnFields DEF CtlInv, BaseType, Conns, ReadOf, Others
<1>2. PICK i \in Id : i = IdOf[conns[c].who]
  BY <1>1 DEF Id
<1>3. PICK old \in Conn \cup {0} : old = Entry(conns[c].who) /\ old = procs[i]
  BY <1>2 DEF CtlInv, BaseType, Entry
<1>4. old # 0 => old \in known /\ old \in Conn /\ InUse(old)
  BY <1>3 DEF CtlInv, TableInv, InUse
<1>5. CASE old # 0 /\ ~Free(old)
  <2>1. /\ conns' = cs
        /\ sem' = [sem EXCEPT ![old] = Append(@, a)]
        /\ apc' = [apc EXCEPT ![a] = "queued"]
        /\ acur' = [acur EXCEPT ![a] = c]
        /\ aold' = [aold EXCEPT ![a] = old]
        /\ UNCHANGED <<procs, connOf, known>>
    BY <1>3, <1>5 DEF Install
  <2>2. Turned(c, 0)
    BY <2>1, ReadTurned
  <2> QED BY <1>3, <1>4, <1>5, <2>1, <2>2 DEF Queued
<1>6. CASE ~(old # 0 /\ ~Free(old))
  <2>1. /\ conns' = IF old = 0 THEN cs ELSE Replaced(cs, old)
        /\ Enter(a, c, old)
        /\ UNCHANGED <<sem, aold>>
    BY <1>3, <1>6 DEF Install
  <2>2. Turned(c, old)
    <3>1. CASE old = 0
      BY <2>1, <3>1, ReadTurned
    <3>2. CASE old # 0
      <4>1. conns' = Replaced(cs, old) /\ c \notin known /\ old \in Conn
            /\ InUse(old)
        BY <1>4, <2>1, <3>2 DEF Waiting
      <4> QED BY <4>1, ReplacedTurned
    <3> QED BY <3>1, <3>2
  <2>3. ASSUME NEW r \in Request, rpc[r] = "wait"
        PROVE  robj[r] # old
    <3>1. robj[r] \in Conn /\ sem[robj[r]] # << >>
      BY <2>3, ActiveInUse DEF Active
    <3>2. robj[r] # 0
      BY <3>1, BoundAssumption DEF Conn
    <3> QED BY <1>6, <3>1, <3>2 DEF Free
  <2>4. /\ old = 0 => Entry(conns[c].who) = 0
        /\ old # 0 => /\ old \in Conn /\ InUse(old)
                      /\ \/ Entry(conns[c].who) = old
                         \/ Entry(conns[c].who) = 0 /\ old \in left
    BY <1>3, <1>4
  <2>5. Entered(a, c, old)
    BY <2>1, <2>2, <2>3, <2>4 DEF Entered
  <2> QED BY <2>1, <2>5
<1> QED BY <1>5, <1>6

LEMMA RequestUses ==
    ASSUME CtlInv, NEW r \in Request, NEW c, rpc[r] = "wait",
           connOf[robj[r]] = c
    PROVE  /\ robj[r] \in Conn /\ InUse(robj[r]) /\ c \in known
           /\ sem[robj[r]] # << >> /\ Head(sem[robj[r]]) = r
<1>1. rpc[r] \in Active
  BY DEF Active
<1>2. PICK o \in Conn : o = robj[r] /\ InUse(o) /\ sem[o] # << >>
  BY <1>1, ActiveInUse
<1>3. connOf[o] \in known
  BY <1>2, InUseKnown
<1> QED BY <1>2, <1>3, WaitsAtHead

LEMMA IdentUses ==
    ASSUME CtlInv, apc["sec"] = "ident"
    PROVE  acur["sec"] \in Conns /\ acur["sec"] \notin known
<1>1. "sec" \in Accept
  BY DEF Accept
<1> QED BY <1>1 DEF CtlInv, PlaceInv, Placed, Waiting

LEMMA WaitingUnused ==
    ASSUME CtlInv, NEW a \in Accept, NEW c, Waiting(a, c),
           a = "sec" => apc["sec"] # "ident"
    PROVE  Unused(c)
<1>1. c \notin known /\ Mine(a, c)
  BY DEF Waiting
<1>2. ASSUME NEW r \in Request, rpc[r] = "wait", connOf[robj[r]] = c
      PROVE  FALSE
  BY <1>1, <1>2, RequestUses
<1>3. ASSUME apc["sec"] = "ident", acur["sec"] = c
      PROVE  FALSE
  <2>1. "sec" \in Accept
    BY DEF Accept
  <2>2. Mine("sec", c)
    BY <1>3, <2>1 DEF CtlInv, PlaceInv, Placed, Waiting
  <2> QED BY <1>1, <1>3, <2>2 DEF Mine
<1> QED BY <1>2, <1>3 DEF Unused, Using

LEMMA ConnsReadOf ==
    ASSUME CtlInv, NEW c \in Conns, Unused(c)
    PROVE  ReadOf(conns, c)
  BY DEF ReadOf, Others, CtlInv, BaseType

LEMMA InstallLaterIs ==
    ASSUME CtlInv, NEW a \in Accept, InstallLater(a)
    PROVE  /\ Entered(a, acur[a], aold[a])
           /\ aold[a] \in Conn /\ sem[aold[a]] # << >> /\ Head(sem[aold[a]]) = a
           /\ sem' = [sem EXCEPT ![aold[a]] = Tail(@)]
           /\ aold' = [aold EXCEPT ![a] = 0]
           /\ UNCHANGED backlog /\ apc[a] = "queued"
<1>1. apc[a] = "queued" /\ Head(sem[aold[a]]) = a /\ conns' = Replaced(conns, aold[a])
      /\ Enter(a, acur[a], aold[a]) /\ UNCHANGED <<reqVars, procVars, left, torn, faults>>
  BY DEF InstallLater
<1>2. PICK c \in Conns : c = acur[a] /\ Waiting(a, c)
  BY <1>1 DEF CtlInv, PlaceInv, Placed, Waiting
<1>3. PICK old \in Conn : old = aold[a] /\ sem[old] # << >>
  <2>0. PICK o \in Conn \cup {0} : o = aold[a]
    BY DEF CtlInv, BaseType
  <2>5. Waits(a, o) /\ a \in Caller
    BY <1>1, <2>0 DEF Waits, Caller
  <2>1. aold[a] \in Conn /\ \E k \in 1 .. Len(sem[aold[a]]) : sem[aold[a]][k] = a
    BY <2>0, <2>5 DEF CtlInv, SemInv
  <2>2. aold[a] \in Conn
    BY <2>1
  <2>3. sem[aold[a]] \in Seq(Caller)
    BY <2>2 DEF CtlInv, BaseType
  <2>4. sem[aold[a]] # << >>
    BY <2>1, <2>3
  <2> QED BY <2>2, <2>4
<1>4. InUse(old)
  BY <1>3 DEF InUse
<1>5. Turned(c, old)
  <2>1. ReadOf(conns, c) /\ c \notin known /\ conns' = Replaced(conns, old)
    <3>1. Unused(c)
      BY <1>1, <1>2, WaitingUnused
    <3> QED BY <1>1, <1>2, <1>3, <3>1, ConnsReadOf DEF Waiting
  <2>2. PICK cs : cs = conns
    OBVIOUS
  <2> QED BY <1>4, <2>1, <2>2, ReplacedTurned
<1>6. ASSUME NEW r \in Request, rpc[r] = "wait"
      PROVE  robj[r] # old
  <2>1. Head(sem[robj[r]]) = r
    BY <1>6, WaitsAtHead
  <2> QED BY <1>1, <1>3, <2>1, CallerAssumption
<1>7. \/ Entry(conns[c].who) = old
      \/ Entry(conns[c].who) = 0 /\ old \in left
  BY <1>1, <1>2, <1>3 DEF CtlInv, TableInv
<1>8. old # 0
  BY BoundAssumption DEF Conn
<1>9. Entered(a, c, old)
  BY <1>1, <1>2, <1>3, <1>4, <1>5, <1>6, <1>7, <1>8 DEF Entered
<1> QED BY <1>1, <1>2, <1>3, <1>9 DEF InstallLater

-----------------------------------------------------------------------------
(* The connections that wait.                                               *)
LEMMA PlacedKept ==
    ASSUME NEW a \in Accept, Placed(a), backlog'[a] = backlog[a],
           acur'[a] = acur[a], apc'[a] = apc[a],
           \A d : Waiting(a, d) => Waiting(a, d)'
    PROVE  Placed(a)'
  BY DEF Placed

(* When the thread takes connection c, from its backlog or as the one that  *)
(* it has, the others still wait.                                           *)
OthersWait(a, c) ==
    \E s \in Seq(Conn) :
      /\ s = backlog'[a]
      /\ \A k \in 1 .. Len(s) : Waiting(a, s[k]) /\ s[k] # c
      /\ \A j, k \in 1 .. Len(s) : s[j] = s[k] => j = k

LEMMA HeadWaits ==
    ASSUME CtlInv, NEW a \in Accept, backlog[a] # << >>
    PROVE  Waiting(a, Head(backlog[a])) /\ Head(backlog[a]) \in Conns
<1>1. PICK s \in Seq(Conn) : s = backlog[a]
  BY DEF CtlInv, BaseType
<1>2. 1 \in 1 .. Len(s) /\ s[1] = Head(s)
  BY <1>1
<1>3. Waiting(a, s[1])
  BY <1>1, <1>2 DEF CtlInv, PlaceInv, Placed
<1> QED BY <1>1, <1>2, <1>3 DEF Waiting

LEMMA OthersWaitHead ==
    ASSUME CtlInv, NEW a \in Accept, backlog[a] # << >>,
           backlog' = [backlog EXCEPT ![a] = Tail(@)]
    PROVE  OthersWait(a, Head(backlog[a]))
<1>1. PICK s \in Seq(Conn) : s = backlog[a] /\ s # << >>
  BY DEF CtlInv, BaseType
<1>2. PICK t \in Seq(Conn) : t = Tail(s)
  BY <1>1, TailIs
<1>3. backlog'[a] = t
  BY <1>1, <1>2 DEF CtlInv, BaseType
<1>4. Len(t) = Len(s) - 1 /\ Len(s) \in Nat \ {0} /\ s[1] = Head(s)
      /\ \A k \in 1 .. Len(t) : t[k] = s[k + 1]
  BY <1>1, <1>2, TailIs
<1>5. /\ \A k \in 1 .. Len(s) : Waiting(a, s[k])
      /\ \A j, k \in 1 .. Len(s) : s[j] = s[k] => j = k
  BY <1>1 DEF CtlInv, PlaceInv, Placed
<1>6. PICK n \in Nat : n = Len(t) /\ Len(s) = n + 1
  BY <1>4
<1>7. \A k \in 1 .. n : k + 1 \in 1 .. n + 1 /\ 1 \in 1 .. n + 1 /\ k + 1 # 1
  OBVIOUS
<1>8. ASSUME NEW k \in 1 .. Len(t)
      PROVE  Waiting(a, t[k]) /\ t[k] # Head(s)
  BY <1>4, <1>5, <1>6, <1>7
<1>9. ASSUME NEW j \in 1 .. Len(t), NEW k \in 1 .. Len(t), t[j] = t[k]
      PROVE  j = k
  <2>1. s[j + 1] = s[k + 1]
    BY <1>4, <1>9
  <2>2. j + 1 = k + 1
    BY <1>5, <1>6, <1>7, <2>1
  <2> QED BY <2>2
<1>10. \A k \in 1 .. Len(t) : Waiting(a, t[k]) /\ t[k] # Head(backlog[a])
  BY <1>1, <1>8
<1>11. \A j, k \in 1 .. Len(t) : t[j] = t[k] => j = k
  BY <1>9
<1> QED BY <1>3, <1>10, <1>11 DEF OthersWait

LEMMA OthersWaitCurrent ==
    ASSUME CtlInv, NEW a \in Accept, UNCHANGED backlog
    PROVE  OthersWait(a, acur[a])
<1>1. backlog[a] \in Seq(Conn) /\ backlog'[a] = backlog[a]
  BY DEF CtlInv, BaseType
<1>2. Placed(a)
  BY DEF CtlInv, PlaceInv
<1> QED BY <1>1, <1>2 DEF Placed, OthersWait

LEMMA AcceptPrimaryIs ==
    ASSUME CtlInv, AcceptPrimary
    PROVE  \E c \in Conns :
             /\ Waiting("pri", c) /\ OthersWait("pri", c) /\ apc["pri"] = "accept"
             /\ backlog' = [backlog EXCEPT !["pri"] = Tail(@)]
             /\ \/ UNCHANGED <<sem, aold>> /\ \E old : Entered("pri", c, old)
                \/ Queued("pri", c)
<1>1. "pri" \in Accept
  BY DEF Accept
<1>2. /\ apc["pri"] = "accept" /\ backlog["pri"] # << >>
      /\ backlog' = [backlog EXCEPT !["pri"] = Tail(@)]
      /\ Install("pri", Head(backlog["pri"]), conns)
      /\ UNCHANGED <<reqVars, procVars, left, torn, faults>>
  BY DEF AcceptPrimary
<1>3. PICK c \in Conns : c = Head(backlog["pri"]) /\ Waiting("pri", c)
  BY <1>1, <1>2, HeadWaits
<1>4. OthersWait("pri", c)
  BY <1>1, <1>2, <1>3, OthersWaitHead
<1>5. PICK cs : cs = conns
  OBVIOUS
<1>6. ReadOf(cs, c) /\ Install("pri", c, cs)
  <2>1. Unused(c)
    BY <1>1, <1>3, WaitingUnused
  <2> QED BY <1>2, <1>3, <1>5, <2>1, ConnsReadOf
<1>7. \/ UNCHANGED <<sem, aold>> /\ \E old : Entered("pri", c, old)
      \/ Queued("pri", c)
  BY <1>1, <1>2, <1>3, <1>6, InstallIs
<1> QED BY <1>2, <1>3, <1>4, <1>7

LEMMA AcceptSecondaryIs ==
    ASSUME CtlInv, AcceptSecondary
    PROVE  \E c \in Conns :
             /\ Waiting("sec", c) /\ OthersWait("sec", c) /\ apc["sec"] = "accept"
             /\ Same /\ conns' = SendTo(c, "sec", "ask")
             /\ acur' = [acur EXCEPT !["sec"] = c]
             /\ apc' = [apc EXCEPT !["sec"] = "ident"]
             /\ backlog' = [backlog EXCEPT !["sec"] = Tail(@)]
             /\ UNCHANGED <<procs, connOf, sem, aold, reqVars, procVars, histVars>>
<1>1. "sec" \in Accept /\ "sec" \in Caller
  BY DEF Accept, Caller
<1>2. PICK c \in Conns : c = Head(backlog["sec"]) /\ Waiting("sec", c)
  BY <1>1, HeadWaits DEF AcceptSecondary
<1>3. /\ apc["sec"] = "accept" /\ backlog["sec"] # << >>
      /\ conns' = SendTo(c, "sec", "ask")
      /\ acur' = [acur EXCEPT !["sec"] = c]
      /\ apc' = [apc EXCEPT !["sec"] = "ident"]
      /\ backlog' = [backlog EXCEPT !["sec"] = Tail(@)]
      /\ UNCHANGED <<procs, connOf, sem, aold, reqVars, procVars, histVars>>
  BY <1>2 DEF AcceptSecondary
<1>4. OthersWait("sec", c)
  BY <1>1, <1>2, <1>3, OthersWaitHead
<1>5. PICK kind \in {"ask", "exit"} : kind = "ask"
  OBVIOUS
<1>6. PICK ds : ds = SendTo(c, "sec", kind)
  OBVIOUS
<1>7. ConnsType
  BY ConnRange DEF CtlInv
<1>8. Others(conns, ds, c) /\ ds[c].ctl = conns[c].ctl
  BY <1>1, <1>6, <1>7, SendToIs
<1>9. conns' = ds
  BY <1>3, <1>5, <1>6
<1>10. Same
  BY <1>8, <1>9, OthersSame DEF CtlInv
<1> QED BY <1>2, <1>3, <1>4, <1>10

(* spp-ctl gives up a connection that it could not identify. *)
Dropped(c) ==
    /\ Grown /\ Others(conns, conns', c)
    /\ ~conns'[c].ctl /\ conns'[c].far = conns[c].far
    /\ conns'[c].cmds = conns[c].cmds
    /\ conns'[c].wire = << >> /\ conns'[c].data = << >>
    /\ Back("sec")
    /\ UNCHANGED <<procs, connOf, sem, aold, known, backlog, reqVars, procVars,
                   left, torn, faults>>

LEMMA DroppedIs ==
    ASSUME CtlInv, NEW c \in Conns, conns' = CtlClosed(conns, c), Back("sec"),
           UNCHANGED <<procs, connOf, sem, aold, known, backlog, reqVars,
                       procVars, left, torn, faults>>
    PROVE  Dropped(c)
<1>1. PICK cs \in Seq(ConnType) : cs = conns /\ c \in 1 .. Len(cs)
  BY DEF CtlInv, BaseType, Conns
<1>2. PICK ds : ds = CtlClosed(cs, c)
  OBVIOUS
<1>3. /\ Others(cs, ds, c) /\ ~ds[c].ctl /\ ds[c].far = cs[c].far
      /\ ds[c].cmds = cs[c].cmds /\ ds[c].wire = << >> /\ ds[c].data = << >>
  BY <1>1, <1>2, CtlClosedIs
<1>4. conns' = ds
  BY <1>1, <1>2
<1>5. Grown
  BY <1>1, <1>3, <1>4, OthersGrown DEF CtlInv
<1> QED BY <1>1, <1>3, <1>4, <1>5 DEF Dropped

LEMMA IdentifyIs ==
    ASSUME CtlInv, Identify
    PROVE  \E c \in Conns :
             /\ c = acur["sec"] /\ Waiting("sec", c) /\ apc["sec"] = "ident"
             /\ OthersWait("sec", c) /\ conns[c].data # << >> /\ UNCHANGED backlog
             /\ \/ Dropped(c)
                \/ UNCHANGED <<sem, aold>> /\ \E old : Entered("sec", c, old)
                \/ Queued("sec", c)
<1>1. "sec" \in Accept
  BY DEF Accept
<1>2. apc["sec"] = "ident" /\ UNCHANGED <<backlog, reqVars, procVars, left, torn, faults>>
  BY DEF Identify
<1>3. PICK c \in Conns : c = acur["sec"] /\ Waiting("sec", c)
  BY <1>1, <1>2 DEF CtlInv, PlaceInv, Placed, Waiting
<1>4. OthersWait("sec", c) /\ conns[c].data # << >>
  BY <1>1, <1>2, <1>3, OthersWaitCurrent DEF Identify
<1>5. CASE Tears(c)
  <2>1. /\ conns' = CtlClosed(conns, c) /\ Back("sec")
        /\ UNCHANGED <<procs, connOf, sem, aold, known>>
    BY <1>3, <1>5 DEF Identify
  <2>2. Dropped(c)
    BY <1>2, <2>1, DroppedIs
  <2> QED BY <1>2, <1>3, <1>4, <2>2
<1>6. CASE ~Tears(c)
  <2>1. Install("sec", c, Read(c))
    BY <1>3, <1>6 DEF Identify
  <2>2. PICK cs : cs = Read(c)
    OBVIOUS
  <2>3. ReadOf(cs, c)
    BY <1>4, <1>6, <2>2, ReadIs, ConnRange DEF ReadOf, CtlInv
  <2>4. \/ UNCHANGED <<sem, aold>> /\ \E old : Entered("sec", c, old)
        \/ Queued("sec", c)
    BY <1>1, <1>2, <1>3, <2>1, <2>2, <2>3, InstallIs
  <2> QED BY <1>2, <1>3, <1>4, <2>4
<1> QED BY <1>5, <1>6

LEMMA IdentifyFailsIs ==
    ASSUME CtlInv, IdentifyFails
    PROVE  \E c \in Conns :
             /\ c = acur["sec"] /\ Waiting("sec", c) /\ apc["sec"] = "ident"
             /\ OthersWait("sec", c) /\ Ended(c) /\ UNCHANGED backlog
             /\ \/ Dropped(c)
                \/ /\ apc' = [apc EXCEPT !["sec"] = "dead"]
                   /\ Same /\ UNCHANGED <<conns, acur, procs, connOf, sem, aold,
                                  reqVars, procVars, histVars>>
<1>1. "sec" \in Accept
  BY DEF Accept
<1>2. apc["sec"] = "ident" /\ UNCHANGED <<aold, backlog, procs, connOf, sem,
                                           reqVars, procVars, histVars>>
  BY DEF IdentifyFails
<1>3. PICK c \in Conns : c = acur["sec"] /\ Waiting("sec", c)
  BY <1>1, <1>2 DEF CtlInv, PlaceInv, Placed, Waiting
<1>4. OthersWait("sec", c) /\ Ended(c)
  BY <1>1, <1>2, <1>3, OthersWaitCurrent DEF IdentifyFails
<1>5. CASE conns[c].reset
  <2>1. apc' = [apc EXCEPT !["sec"] = "dead"] /\ UNCHANGED <<conns, acur>>
    BY <1>3, <1>5 DEF IdentifyFails
  <2> QED BY <1>2, <1>3, <1>4, <2>1, UnchangedSame DEF CtlInv
<1>6. CASE ~conns[c].reset
  <2>1. conns' = CtlClosed(conns, c) /\ Back("sec")
    BY <1>3, <1>6 DEF IdentifyFails
  <2>2. Dropped(c)
    BY <1>2, <2>1, DroppedIs DEF histVars
  <2> QED BY <1>2, <1>3, <1>4, <2>2
<1> QED BY <1>5, <1>6

LEMMA PlaceQuiet ==
    ASSUME CtlInv, Same, UNCHANGED <<backlog, apc, acur, known>>,
           \A p \in Client : pst'[p] \in {"up", "silent"} => psock'[p] \in Conns
    PROVE  PlaceInv'
<1>1. Conns \subseteq Conns'
  BY GrownConns DEF CtlInv, Same
<1>2. known' \subseteq Conns'
  BY <1>1 DEF CtlInv, PlaceInv
<1>3. ASSUME NEW a \in Accept PROVE Placed(a)'
  <2>1. ASSUME NEW d, Waiting(a, d) PROVE Waiting(a, d)'
    BY <1>1, <2>1 DEF Waiting, Mine, Same, Grown
  <2>2. Placed(a)
    BY DEF CtlInv, PlaceInv
  <2> QED BY <2>1, <2>2, PlacedKept
<1>4. apc'["pri"] \in {"accept", "queued"}
  BY DEF CtlInv, PlaceInv
<1> QED BY <1>1, <1>2, <1>3, <1>4 DEF PlaceInv

LEMMA ProcessPlace ==
    ASSUME CtlInv, NEW p \in Client, ProcessStep(p)
    PROVE  PlaceInv'
<1>1. Same /\ UNCHANGED <<backlog, ctlVars, reqVars, known, left, torn>>
  BY ProcessIs
<1>2. /\ psock \in [Client -> Conn \cup {0}]
      /\ pst \in [Client -> {"down", "connecting", "up", "silent", "stuck"}]
  BY DEF CtlInv, BaseType
<1>3. \A q \in Client : pst[q] \in {"up", "silent"} => psock[q] \in Conns
  BY DEF CtlInv, PlaceInv
<1>4. CASE UNCHANGED procVars
  BY <1>1, <1>3, <1>4, PlaceQuiet DEF procVars, ctlVars
<1>5. CASE /\ psock' = [psock EXCEPT ![p] = 0]
           /\ \E s \in {"down", "stuck", "connecting"} : pst' = [pst EXCEPT ![p] = s]
  <2>1. \A q \in Client : pst'[q] \in {"up", "silent"} => psock'[q] \in Conns
    BY <1>2, <1>3, <1>5
  <2> QED BY <1>1, <2>1, PlaceQuiet DEF ctlVars
<1>6. CASE /\ UNCHANGED psock
           /\ \/ pst[p] = "up" /\ pst' = [pst EXCEPT ![p] = "silent"]
              \/ pst' = [pst EXCEPT ![p] = "connecting"]
  <2>1. \A q \in Client : pst'[q] \in {"up", "silent"} => psock'[q] \in Conns
    BY <1>2, <1>3, <1>6
  <2> QED BY <1>1, <2>1, PlaceQuiet DEF ctlVars
<1>7. CASE Serve(p)
  BY <1>4, <1>5, <1>7 DEF Serve
<1>8. CASE ServeClosed(p)
  BY <1>4, <1>5, <1>8 DEF ServeClosed, AfterFailedSend
<1>9. CASE SeeClose(p)
  BY <1>5, <1>9 DEF SeeClose
<1>10. CASE Crash(p)
  BY <1>5, <1>10 DEF Crash
<1>11. CASE FallSilent(p)
  BY <1>6, <1>11 DEF FallSilent
<1>12. CASE Launch(p)
  BY <1>6, <1>12 DEF Launch
<1> QED BY <1>7, <1>8, <1>9, <1>10, <1>11, <1>12 DEF ProcessStep

(* The new connection is the last of one backlog. *)
LEMMA ConnectPlace ==
    ASSUME CtlInv, NEW p \in Client, Connect(p)
    PROVE  PlaceInv'
<1>1. PICK n \in Nat : n = Len(conns) + 1
  BY DEF CtlInv, BaseType
<1>2. /\ Same /\ n \in Conns' /\ n \notin Conns /\ Conns' = Conns \cup {n}
      /\ conns'[n] = NewConn(p)
  BY <1>1, ConnectIs DEF CtlInv
<1>3. UNCHANGED <<apc, acur, known>>
  BY DEF Connect, ctlVars, histVars
<1>4. \A a, d : Waiting(a, d) => Waiting(a, d)'
  BY <1>2, <1>3 DEF Waiting, Mine, Same, Grown
<1>5. backlog' = [backlog EXCEPT ![PortOf(p)] = Append(@, n)]
  BY <1>1 DEF Connect
<1>6. ASSUME NEW a \in Accept, a # PortOf(p) PROVE Placed(a)'
  <2>1. backlog'[a] = backlog[a]
    BY <1>5, <1>6 DEF CtlInv, BaseType
  <2>2. Placed(a)
    BY DEF CtlInv, PlaceInv
  <2> QED BY <1>3, <1>4, <2>1, <2>2, PlacedKept
<1>7. ASSUME NEW a \in Accept, a = PortOf(p) PROVE Placed(a)'
  <2>1. PICK s \in Seq(Conn) : s = backlog[a]
    BY DEF CtlInv, BaseType
  <2>2. PICK t : t = Append(s, n)
    OBVIOUS
  <2>3. backlog'[a] = t
    BY <1>5, <1>7, <2>1, <2>2 DEF CtlInv, BaseType
  <2>4. PICK m \in Nat : m = Len(s)
    OBVIOUS
  <2>5. Len(t) = m + 1 /\ t[m + 1] = n /\ \A k \in 1 .. m : t[k] = s[k]
    BY <2>2, <2>4
  <2>6. Waiting(a, n)'
    <3>1. n \notin known
      BY <1>2 DEF CtlInv, PlaceInv
    <3> QED BY <1>2, <1>3, <1>7, <3>1 DEF Waiting, Mine, NewConn
  <2>7. /\ \A k \in 1 .. m : Waiting(a, s[k]) /\ s[k] # acur[a] /\ s[k] # n
        /\ \A j, k \in 1 .. m : s[j] = s[k] => j = k
    BY <1>2, <2>1, <2>4 DEF CtlInv, PlaceInv, Placed, Waiting
  <2>8. n # acur[a]
    <3>1. acur[a] = 0 \/ acur[a] \in Conns
      BY DEF CtlInv, PlaceInv, Placed, Waiting
    <3>2. n # 0
      BY <1>1 DEF CtlInv, BaseType
    <3> QED BY <1>2, <3>1, <3>2
  <2>9. \A k \in 1 .. m + 1 : k \in 1 .. m \/ k = m + 1
    BY <2>4
  <2>10. \A k \in 1 .. m + 1 : Waiting(a, t[k])' /\ t[k] # acur[a]
    BY <1>4, <2>5, <2>6, <2>7, <2>8, <2>9
  <2>11. \A j, k \in 1 .. m + 1 : t[j] = t[k] => j = k
    BY <2>5, <2>7, <2>9
  <2>12. /\ apc[a] # "accept" => Waiting(a, acur[a])'
         /\ apc[a] = "accept" => acur[a] = 0
    BY <1>3, <1>4 DEF CtlInv, PlaceInv, Placed, Waiting, Mine
  <2> QED BY <1>3, <2>3, <2>5, <2>10, <2>11, <2>12 DEF Placed
<1>8. known' \subseteq Conns'
  BY <1>2, <1>3 DEF CtlInv, PlaceInv
<1>9. \A q \in Client : pst'[q] \in {"up", "silent"} => psock'[q] \in Conns'
  <2>1. pst' = [pst EXCEPT ![p] = "up"] /\ psock' = [psock EXCEPT ![p] = n]
    BY <1>1 DEF Connect
  <2> QED BY <1>2, <2>1 DEF CtlInv, BaseType, PlaceInv
<1>10. apc'["pri"] \in {"accept", "queued"}
  BY <1>3 DEF CtlInv, PlaceInv
<1> QED BY <1>6, <1>7, <1>8, <1>9, <1>10 DEF PlaceInv

(* An accepting thread takes the next connection, or goes on with its own.  *)
Taken(a, c) ==
    /\ Waiting(a, c) /\ OthersWait(a, c) /\ Grown
    /\ \A d \in Conns : d \notin known /\ d # c => conns'[d].ctl = conns[d].ctl
    /\ known' \in {known, known \cup {c}}
    /\ UNCHANGED procVars
    /\ \A b \in Accept : b # a =>
         backlog'[b] = backlog[b] /\ apc'[b] = apc[b] /\ acur'[b] = acur[b]
    /\ \/ apc'[a] = "accept" /\ acur'[a] = 0
       \/ /\ apc'[a] # "accept" /\ acur'[a] = c
          /\ known' = known /\ conns'[c].ctl
    /\ apc'[a] \in {"accept", "queued"} \/ a = "sec"

LEMMA TakenPlace ==
    ASSUME CtlInv, NEW a \in Accept, NEW c, Taken(a, c)
    PROVE  PlaceInv'
<1>1. Conns \subseteq Conns' /\ c \in Conns
  BY GrownConns DEF CtlInv, Taken, Waiting
<1>2. known' \subseteq Conns'
  BY <1>1 DEF CtlInv, PlaceInv, Taken
<1>3. ASSUME NEW b \in Accept, NEW d, Waiting(b, d), b # a \/ d # c
      PROVE  Waiting(b, d)'
  <2>1. d # c
    BY <1>3 DEF Waiting, Mine, Taken
  <2> QED BY <1>1, <1>3, <2>1 DEF Waiting, Mine, Taken, Grown
<1>4. ASSUME NEW b \in Accept, b # a PROVE Placed(b)'
  <2>1. Placed(b)
    BY DEF CtlInv, PlaceInv
  <2> QED BY <1>3, <1>4, <2>1, PlacedKept DEF Taken
<1>5. Placed(a)'
  <2>1. PICK s \in Seq(Conn) :
          /\ s = backlog'[a]
          /\ \A k \in 1 .. Len(s) : Waiting(a, s[k]) /\ s[k] # c
          /\ \A j, k \in 1 .. Len(s) : s[j] = s[k] => j = k
    BY DEF Taken, OthersWait
  <2>2. \A k \in 1 .. Len(s) : Waiting(a, s[k])' /\ s[k] # c /\ s[k] \in Conns
    BY <1>3, <2>1 DEF Waiting
  <2>3. \A k \in 1 .. Len(s) : s[k] # 0
    BY <2>2, ConnRange DEF CtlInv
  <2>4. CASE apc'[a] = "accept" /\ acur'[a] = 0
    BY <2>1, <2>2, <2>3, <2>4 DEF Placed
  <2>5. CASE apc'[a] # "accept" /\ acur'[a] = c /\ known' = known /\ conns'[c].ctl
    <3>1. Waiting(a, c)'
      BY <1>1, <2>5 DEF Taken, Waiting, Mine, Grown
    <3> QED BY <2>1, <2>2, <2>5, <3>1 DEF Placed
  <2> QED BY <2>4, <2>5 DEF Taken
<1>6. apc'["pri"] \in {"accept", "queued"}
  BY DEF CtlInv, PlaceInv, Taken, Accept
<1>7. \A p \in Client : pst'[p] \in {"up", "silent"} => psock'[p] \in Conns'
  BY <1>1 DEF CtlInv, PlaceInv, Taken, procVars
<1> QED BY <1>2, <1>4, <1>5, <1>6, <1>7 DEF PlaceInv

LEMMA RestartIs ==
    ASSUME CtlInv, Restart
    PROVE  /\ Grown /\ Conns' = Conns
           /\ \A d \in Conns : /\ ~conns'[d].ctl
                               /\ conns'[d].far = conns[d].far
                               /\ conns'[d].cmds = conns[d].cmds
                               /\ conns'[d].wire = << >>
                               /\ conns'[d].data = << >>
<1>1. PICK cs \in Seq(ConnType) : cs = conns
  BY DEF CtlInv, BaseType
<1>2. PICK n \in Nat : n = Len(cs)
  OBVIOUS
<1>3. PICK ds : ds = [d \in 1 .. n |-> CtlClosed(cs, d)[d]]
  OBVIOUS
<1>4. ASSUME NEW d \in 1 .. n
      PROVE  /\ ds[d] \in ConnType /\ ds[d].who = cs[d].who /\ ~ds[d].ctl
             /\ ds[d].far = cs[d].far /\ ds[d].cmds = cs[d].cmds
             /\ ds[d].wire = << >> /\ ds[d].data = << >>
  <2>1. PICK x : x = CtlClosed(cs, d)
    OBVIOUS
  <2>2. /\ Others(cs, x, d) /\ ~x[d].ctl /\ x[d].far = cs[d].far
        /\ x[d].cmds = cs[d].cmds /\ x[d].wire = << >> /\ x[d].data = << >>
    BY <1>2, <2>1, CtlClosedIs
  <2>3. x[d] \in ConnType /\ x[d].who = cs[d].who
    BY <1>2, <2>2, ConnFields DEF Others
  <2> QED BY <1>3, <2>1, <2>2, <2>3
<1>5. ds \in Seq(ConnType) /\ Len(ds) = n
  BY <1>2, <1>3, <1>4
<1>6. conns' = ds
  BY <1>1, <1>2, <1>3 DEF Restart
<1>7. n <= n /\ n <= MaxConn
  BY <1>1, <1>2 DEF CtlInv, BaseType
<1> QED BY <1>1, <1>2, <1>4, <1>5, <1>6, <1>7 DEF Grown, Conns

LEMMA RestartPlace ==
    ASSUME CtlInv, Restart
    PROVE  PlaceInv'
<1>1. Conns' = Conns
  BY RestartIs
<1>2. /\ backlog' = [a \in Accept |-> << >>]
      /\ apc' = [a \in Accept |-> "accept"]
      /\ acur' = [a \in Accept |-> 0]
      /\ UNCHANGED <<procVars, known>>
  BY DEF Restart
<1>3. \A a \in Accept : Placed(a)'
  BY <1>2 DEF Placed
<1>4. "pri" \in Accept
  BY DEF Accept
<1> QED BY <1>1, <1>2, <1>3, <1>4 DEF CtlInv, PlaceInv, procVars

-----------------------------------------------------------------------------
(* What Enter does to the table.                                            *)
LEMMA EnterIs ==
    ASSUME CtlInv, NEW a \in Accept, NEW c, NEW old, Entered(a, c, old)
    PROVE  /\ c \in Conns /\ c \in Conn /\ c \notin known
           /\ connOf[c] = c /\ ~InUse(c)
           /\ \A o \in Conn : connOf[o] = c => o = c
           /\ conns[c].who \in Client /\ IdOf[conns[c].who] \in Id
           /\ old = 0 \/ (old \in Conn /\ old \in known)
           /\ known' = known \cup {c}
           /\ apc' = [apc EXCEPT ![a] = "accept"]
           /\ acur' = [acur EXCEPT ![a] = 0]
           /\ \/ /\ old # 0 /\ conns[c].who = Primary /\ procs' = procs
                 /\ connOf' = [connOf EXCEPT ![old] = c]
              \/ /\ procs' = [procs EXCEPT ![IdOf[conns[c].who]] = c]
                 /\ connOf' = connOf
<1>1. c \in Conns /\ c \in Conn /\ c \notin known
  BY ConnRange DEF Entered, Waiting, CtlInv
<1>2. \A o \in Conn : connOf[o] # o => connOf[o] \in known /\ o \in known
  BY DEF CtlInv, TableInv
<1>3. connOf[c] = c /\ \A o \in Conn : connOf[o] = c => o = c
  BY <1>1, <1>2
<1>4. ~InUse(c)
  BY <1>1, InUseKnown
<1>5. conns[c].who \in Client
  BY <1>1, ConnFields DEF CtlInv, BaseType, Conns
<1>6. IdOf[conns[c].who] \in Id
  BY <1>5 DEF Id
<1>7. old = 0 \/ (old \in Conn /\ old \in known)
  <2>1. CASE old = 0
    BY <2>1
  <2>2. CASE old # 0
    <3>1. old \in Conn /\ InUse(old)
      BY <2>2 DEF Entered
    <3> QED BY <3>1, InUseKnown
  <2> QED BY <2>1, <2>2
<1>8. Enter(a, c, old)
  BY DEF Entered
<1> QED BY <1>1, <1>3, <1>4, <1>5, <1>6, <1>7, <1>8 DEF Enter, Back

LEMMA EnteredTaken ==
    ASSUME CtlInv, NEW a \in Accept, NEW c, NEW old, Entered(a, c, old),
           OthersWait(a, c), \A b \in Accept : b # a => backlog'[b] = backlog[b]
    PROVE  Taken(a, c)
<1>1. /\ c \in Conns
      /\ old = 0 \/ (old \in Conn /\ old \in known)
      /\ known' = known \cup {c}
      /\ apc' = [apc EXCEPT ![a] = "accept"]
      /\ acur' = [acur EXCEPT ![a] = 0]
  BY EnterIs
<1>2. /\ apc'[a] = "accept" /\ acur'[a] = 0
      /\ \A b \in Accept : b # a => apc'[b] = apc[b] /\ acur'[b] = acur[b]
  BY <1>1 DEF CtlInv, BaseType
<1>3. old # 0 => connOf[old] \in known
  BY InUseKnown DEF Entered
<1>4. Waiting(a, c) /\ Turned(c, old) /\ UNCHANGED procVars
  BY DEF Entered
<1>5. \A d \in Conns : d \notin known /\ d # c => conns'[d].ctl = conns[d].ctl
  <2>1. SUFFICES ASSUME NEW d \in Conns, d \notin known, d # c
                 PROVE  conns'[d] = conns[d]
    OBVIOUS
  <2> QED BY <1>3, <1>4, <2>1 DEF Turned
<1> QED BY <1>1, <1>2, <1>4, <1>5 DEF Taken, Turned

LEMMA TurnedSame ==
    ASSUME CtlInv, NEW c \in Conns, Turned(c, 0)
    PROVE  Same
  BY DEF Turned, Same

LEMMA QueuedTaken ==
    ASSUME CtlInv, NEW a \in Accept, NEW c, Queued(a, c), OthersWait(a, c),
           \A b \in Accept : b # a => backlog'[b] = backlog[b]
    PROVE  Taken(a, c)
<1>1. c \in Conns /\ Waiting(a, c) /\ Turned(c, 0)
  BY DEF Queued, Waiting
<1>2. Same
  BY <1>1, TurnedSame
<1>3. /\ apc'[a] = "queued" /\ acur'[a] = c
      /\ \A b \in Accept : b # a => apc'[b] = apc[b] /\ acur'[b] = acur[b]
      /\ known' = known /\ UNCHANGED procVars
  BY DEF Queued, CtlInv, BaseType
<1>4. conns'[c].ctl
  BY <1>1, <1>2 DEF Same, Waiting
<1> QED BY <1>1, <1>2, <1>3, <1>4 DEF Taken, Same

LEMMA DroppedTaken ==
    ASSUME CtlInv, NEW c, Waiting("sec", c), Dropped(c), OthersWait("sec", c)
    PROVE  Taken("sec", c)
<1>1. "sec" \in Accept
  BY DEF Accept
<1>2. /\ apc'["sec"] = "accept" /\ acur'["sec"] = 0
      /\ \A b \in Accept : b # "sec" => apc'[b] = apc[b] /\ acur'[b] = acur[b]
      /\ known' = known /\ UNCHANGED <<procVars, backlog>>
  BY <1>1 DEF Dropped, Back, CtlInv, BaseType
<1>3. \A d \in Conns : d # c => conns'[d] = conns[d]
  BY DEF Dropped, Others, Conns
<1> QED BY <1>1, <1>2, <1>3 DEF Taken, Dropped

(* So PlaceInv is kept. *)
LEMMA AcceptPrimaryPlace ==
    ASSUME CtlInv, AcceptPrimary
    PROVE  PlaceInv'
<1>1. "pri" \in Accept
  BY DEF Accept
<1>2. PICK c \in Conns :
        /\ Waiting("pri", c) /\ OthersWait("pri", c)
        /\ backlog' = [backlog EXCEPT !["pri"] = Tail(@)]
        /\ \/ UNCHANGED <<sem, aold>> /\ \E old : Entered("pri", c, old)
           \/ Queued("pri", c)
  BY AcceptPrimaryIs
<1>3. \A b \in Accept : b # "pri" => backlog'[b] = backlog[b]
  BY <1>1, <1>2 DEF CtlInv, BaseType
<1>4. Taken("pri", c)
  BY <1>1, <1>2, <1>3, EnteredTaken, QueuedTaken
<1> QED BY <1>1, <1>4, TakenPlace

LEMMA AcceptSecondaryPlace ==
    ASSUME CtlInv, AcceptSecondary
    PROVE  PlaceInv'
<1>1. "sec" \in Accept
  BY DEF Accept
<1>2. PICK c \in Conns :
        /\ Waiting("sec", c) /\ OthersWait("sec", c)
        /\ Same
        /\ acur' = [acur EXCEPT !["sec"] = c]
        /\ apc' = [apc EXCEPT !["sec"] = "ident"]
        /\ backlog' = [backlog EXCEPT !["sec"] = Tail(@)]
        /\ UNCHANGED <<procs, connOf, sem, aold, reqVars, procVars, histVars>>
  BY AcceptSecondaryIs
<1>3. /\ apc'["sec"] = "ident" /\ acur'["sec"] = c
      /\ \A b \in Accept : b # "sec" =>
           backlog'[b] = backlog[b] /\ apc'[b] = apc[b] /\ acur'[b] = acur[b]
      /\ known' = known /\ UNCHANGED procVars
  BY <1>1, <1>2 DEF CtlInv, BaseType, histVars
<1>4. conns'[c].ctl
  BY <1>2 DEF Same, Waiting
<1>5. Taken("sec", c)
  BY <1>2, <1>3, <1>4 DEF Taken, Same
<1> QED BY <1>1, <1>5, TakenPlace

LEMMA IdentifyPlace ==
    ASSUME CtlInv, Identify
    PROVE  PlaceInv'
<1>1. "sec" \in Accept
  BY DEF Accept
<1>2. PICK c \in Conns :
        /\ Waiting("sec", c) /\ OthersWait("sec", c) /\ UNCHANGED backlog
        /\ \/ Dropped(c)
           \/ UNCHANGED <<sem, aold>> /\ \E old : Entered("sec", c, old)
           \/ Queued("sec", c)
  BY IdentifyIs
<1>3. Taken("sec", c)
  BY <1>1, <1>2, EnteredTaken, QueuedTaken, DroppedTaken
<1> QED BY <1>1, <1>3, TakenPlace

LEMMA IdentifyFailsPlace ==
    ASSUME CtlInv, IdentifyFails
    PROVE  PlaceInv'
<1>1. "sec" \in Accept
  BY DEF Accept
<1>2. PICK c \in Conns :
        /\ c = acur["sec"] /\ Waiting("sec", c) /\ OthersWait("sec", c)
        /\ UNCHANGED backlog
        /\ \/ Dropped(c)
           \/ /\ apc' = [apc EXCEPT !["sec"] = "dead"]
              /\ Same /\ UNCHANGED <<conns, acur, procs, connOf, sem, aold,
                             reqVars, procVars, histVars>>
  BY IdentifyFailsIs
<1>3. CASE Dropped(c)
  BY <1>1, <1>2, <1>3, DroppedTaken, TakenPlace
<1>4. CASE /\ apc' = [apc EXCEPT !["sec"] = "dead"]
           /\ Same /\ UNCHANGED <<conns, acur, procs, connOf, sem, aold,
                          reqVars, procVars, histVars>>
  <2>1. /\ apc'["sec"] = "dead" /\ acur'["sec"] = c
        /\ \A b \in Accept : b # "sec" =>
             backlog'[b] = backlog[b] /\ apc'[b] = apc[b] /\ acur'[b] = acur[b]
        /\ known' = known /\ UNCHANGED procVars
    BY <1>1, <1>2, <1>4 DEF CtlInv, BaseType, histVars
  <2>2. conns'[c].ctl
    BY <1>2, <1>4 DEF Same, Waiting
  <2>3. Taken("sec", c)
    BY <1>2, <1>4, <2>1, <2>2 DEF Taken, Same
  <2> QED BY <1>1, <2>3, TakenPlace
<1> QED BY <1>2, <1>3, <1>4

LEMMA InstallLaterPlace ==
    ASSUME CtlInv, NEW a \in Accept, InstallLater(a)
    PROVE  PlaceInv'
<1>1. Entered(a, acur[a], aold[a]) /\ UNCHANGED backlog
  BY InstallLaterIs
<1>2. OthersWait(a, acur[a])
  BY <1>1, OthersWaitCurrent
<1>3. Taken(a, acur[a])
  BY <1>1, <1>2, EnteredTaken
<1> QED BY <1>3, TakenPlace

LEMMA RequestPlace ==
    ASSUME CtlInv, NEW r \in Request, RequestStep(r) \/ Lookup(r)
    PROVE  PlaceInv'
<1>1. Same /\ UNCHANGED <<backlog, apc, acur, known, procVars>>
  <2>1. CASE Lookup(r)
    BY <2>1, LookupIs
  <2>2. CASE SendLater(r)
    BY <2>2, SendLaterIs DEF histVars
  <2>3. CASE Receive(r)
    BY <2>3, ReceiveIs
  <2>4. CASE ReceiveNothing(r)
    BY <2>4, NothingIs DEF histVars
  <2> QED BY <2>1, <2>2, <2>3, <2>4 DEF RequestStep
<1>2. \A p \in Client : pst'[p] \in {"up", "silent"} => psock'[p] \in Conns
  BY <1>1 DEF procVars, CtlInv, PlaceInv
<1> QED BY <1>1, <1>2, PlaceQuiet

LEMMA DeliverSame ==
    ASSUME CtlInv, NEW c \in Conns, Deliver(c)
    PROVE  Same /\ UNCHANGED <<backlog, ctlVars, reqVars, procVars, histVars>>
<1>1. Others(conns, conns', c) /\ conns'[c].ctl = conns[c].ctl
  BY ConnRange, DeliverIs DEF CtlInv
<1> QED BY <1>1, OthersSame DEF CtlInv, Deliver

LEMMA DeliverPlace ==
    ASSUME CtlInv, NEW c \in Conns, Deliver(c)
    PROVE  PlaceInv'
<1>1. Same /\ UNCHANGED <<backlog, ctlVars, reqVars, procVars, histVars>>
  BY DeliverSame
<1>2. \A p \in Client : pst'[p] \in {"up", "silent"} => psock'[p] \in Conns
  BY <1>1 DEF procVars, CtlInv, PlaceInv
<1> QED BY <1>1, <1>2, PlaceQuiet DEF ctlVars, histVars

-----------------------------------------------------------------------------
(* The table and the objects' connections.                                  *)
LEMMA TableQuiet ==
    ASSUME CtlInv, Grown, UNCHANGED <<procs, connOf, known>>, left \subseteq left',
           \A a \in Accept : apc'[a] = "queued" =>
             apc[a] = "queued" /\ acur'[a] = acur[a] /\ aold'[a] = aold[a]
    PROVE  TableInv'
<1>1. ASSUME NEW a \in Accept, apc'[a] = "queued"
      PROVE  /\ aold'[a] \in known'
             /\ \/ procs'[IdOf[conns'[acur'[a]].who]] = aold'[a]
                \/ procs'[IdOf[conns'[acur'[a]].who]] = 0 /\ aold'[a] \in left'
  <2>1. apc[a] = "queued" /\ acur'[a] = acur[a] /\ aold'[a] = aold[a]
    BY <1>1
  <2>2. acur[a] \in Conns
    BY <2>1 DEF CtlInv, PlaceInv, Placed, Waiting
  <2>3. conns'[acur[a]].who = conns[acur[a]].who
    BY <2>2 DEF Grown
  <2>4. /\ aold[a] \in known
        /\ \/ Entry(conns[acur[a]].who) = aold[a]
           \/ Entry(conns[acur[a]].who) = 0 /\ aold[a] \in left
    BY <2>1 DEF CtlInv, TableInv
  <2> QED BY <2>1, <2>3, <2>4 DEF Entry
<1>2. \A i \in Id : procs'[i] # 0 => procs'[i] \in known'
  BY DEF CtlInv, TableInv
<1>3. \A o \in Conn : connOf'[o] # o => o \in known' /\ connOf'[o] \in known'
  BY DEF CtlInv, TableInv
<1> QED BY <1>1, <1>2, <1>3 DEF TableInv, Entry

(* "exit" takes the object out of the table; one that is to replace it      *)
(* finds it among those that left.                                          *)
LEMMA LookupTable ==
    ASSUME CtlInv, NEW r \in Request, Lookup(r)
    PROVE  TableInv'
<1>1. Same /\ UNCHANGED <<connOf, apc, acur, aold, known>>
  BY LookupIs
<1>2. PICK i \in Id, kind \in {"ask", "exit"}, o \in known :
        /\ o = procs[i] /\ o \in Conn
        /\ procs' = IF kind = "exit" THEN [procs EXCEPT ![i] = 0] ELSE procs
        /\ left' = IF kind = "exit" THEN left \cup {o} ELSE left
  BY LookupIs
<1>3. CASE kind # "exit"
  BY <1>1, <1>2, <1>3, TableQuiet DEF Same
<1>4. CASE kind = "exit"
  <2>1. procs' = [procs EXCEPT ![i] = 0] /\ left' = left \cup {o}
    BY <1>2, <1>4
  <2>2. \A j \in Id : procs'[j] = IF j = i THEN 0 ELSE procs[j]
    BY <2>1 DEF CtlInv, BaseType
  <2>3. \A j \in Id : procs'[j] # 0 => procs'[j] \in known'
    BY <1>1, <2>2 DEF CtlInv, TableInv
  <2>4. \A u \in Conn : connOf'[u] # u => u \in known' /\ connOf'[u] \in known'
    BY <1>1 DEF CtlInv, TableInv
  <2>5. ASSUME NEW a \in Accept, apc'[a] = "queued"
        PROVE  /\ aold'[a] \in known'
               /\ \/ procs'[IdOf[conns'[acur'[a]].who]] = aold'[a]
                  \/ procs'[IdOf[conns'[acur'[a]].who]] = 0 /\ aold'[a] \in left'
    <3>1. apc[a] = "queued" /\ acur'[a] = acur[a] /\ aold'[a] = aold[a]
      BY <1>1, <2>5
    <3>2. acur[a] \in Conns
      BY <3>1 DEF CtlInv, PlaceInv, Placed, Waiting
    <3>3. conns'[acur[a]].who = conns[acur[a]].who /\ conns[acur[a]].who \in Client
      BY <1>1, <3>2, ConnFields DEF Same, Grown, CtlInv, BaseType, Conns
    <3>4. PICK j \in Id : j = IdOf[conns[acur[a]].who]
      BY <3>3 DEF Id
    <3>5. /\ aold[a] \in known
          /\ procs[j] = aold[a] \/ (procs[j] = 0 /\ aold[a] \in left)
      BY <3>1, <3>4 DEF CtlInv, TableInv, Entry
    <3>6. procs'[j] = aold[a] \/ (procs'[j] = 0 /\ aold[a] \in left')
      BY <1>2, <2>1, <2>2, <3>5
    <3> QED BY <1>1, <3>1, <3>3, <3>4, <3>5, <3>6 DEF Entry
  <2> QED BY <2>3, <2>4, <2>5 DEF TableInv, Entry
<1> QED BY <1>3, <1>4

(* Two threads never replace the same object: theirs are the primary's and  *)
(* those of the secondaries.                                                *)
LEMMA EnteredTable ==
    ASSUME CtlInv, NEW a \in Accept, NEW c, NEW old, Entered(a, c, old),
           \A b \in Accept : b # a => aold'[b] = aold[b]
    PROVE  TableInv'
<1>1. /\ c \in Conns /\ c \in Conn /\ c \notin known
      /\ conns[c].who \in Client /\ IdOf[conns[c].who] \in Id
      /\ old = 0 \/ (old \in Conn /\ old \in known)
      /\ known' = known \cup {c}
      /\ apc' = [apc EXCEPT ![a] = "accept"]
      /\ acur' = [acur EXCEPT ![a] = 0]
      /\ \/ /\ old # 0 /\ conns[c].who = Primary /\ procs' = procs
            /\ connOf' = [connOf EXCEPT ![old] = c]
         \/ /\ procs' = [procs EXCEPT ![IdOf[conns[c].who]] = c]
            /\ connOf' = connOf
  BY EnterIs
<1>2. Grown /\ UNCHANGED left /\ Mine(a, c)
  BY DEF Entered, Turned, Waiting
<1>3. PICK i \in Id : i = IdOf[conns[c].who]
  BY <1>1
<1>4. \A j \in Id : procs'[j] = procs[j] \/ (j = i /\ procs'[j] = c)
  BY <1>1, <1>3 DEF CtlInv, BaseType
<1>5. \A j \in Id : procs'[j] # 0 => procs'[j] \in known'
  BY <1>1, <1>4 DEF CtlInv, TableInv
<1>6. \A u \in Conn : connOf'[u] = connOf[u] \/ (u = old /\ connOf'[u] = c)
  BY <1>1 DEF CtlInv, BaseType
<1>7. \A u \in Conn : connOf'[u] # u => u \in known' /\ connOf'[u] \in known'
  <2>1. ASSUME NEW u \in Conn, connOf'[u] # u
        PROVE  u \in known' /\ connOf'[u] \in known'
    <3>1. CASE connOf'[u] = connOf[u]
      BY <1>1, <2>1, <3>1 DEF CtlInv, TableInv
    <3>2. CASE u = old /\ connOf'[u] = c
      <4>1. old # 0
        BY <3>2, BoundAssumption DEF Conn
      <4> QED BY <1>1, <3>2, <4>1
    <3> QED BY <1>6, <3>1, <3>2
  <2> QED BY <2>1
<1>8. ASSUME NEW b \in Accept, apc'[b] = "queued"
      PROVE  /\ aold'[b] \in known'
             /\ \/ procs'[IdOf[conns'[acur'[b]].who]] = aold'[b]
                \/ procs'[IdOf[conns'[acur'[b]].who]] = 0 /\ aold'[b] \in left'
  <2>1. b # a
    BY <1>1, <1>8 DEF CtlInv, BaseType
  <2>2. apc[b] = "queued" /\ acur'[b] = acur[b] /\ aold'[b] = aold[b]
    BY <1>1, <1>8, <2>1 DEF CtlInv, BaseType
  <2>3. acur[b] \in Conns /\ Mine(b, acur[b])
    BY <2>2 DEF CtlInv, PlaceInv, Placed, Waiting
  <2>4. conns'[acur[b]].who = conns[acur[b]].who /\ conns[acur[b]].who \in Client
    BY <1>2, <2>3, ConnFields DEF Grown, CtlInv, BaseType, Conns
  <2>5. PICK j \in Id : j = IdOf[conns[acur[b]].who]
    BY <2>4 DEF Id
  <2>6. j # i
    <3>1. (conns[c].who = Primary) # (conns[acur[b]].who = Primary)
      BY <1>2, <2>1, <2>3 DEF Mine, PortOf, Accept
    <3> QED BY <1>1, <1>3, <2>4, <2>5, <3>1, ClientAssumption DEF Client
  <2>7. /\ aold[b] \in known
        /\ procs[j] = aold[b] \/ (procs[j] = 0 /\ aold[b] \in left)
    BY <2>2, <2>5 DEF CtlInv, TableInv, Entry
  <2>8. procs'[j] = procs[j]
    BY <1>4, <2>6
  <2> QED BY <1>1, <1>2, <2>2, <2>4, <2>5, <2>7, <2>8 DEF Entry
<1> QED BY <1>5, <1>7, <1>8 DEF TableInv, Entry

LEMMA QueuedTable ==
    ASSUME CtlInv, NEW a \in Accept, NEW c, Queued(a, c)
    PROVE  TableInv'
<1>1. Grown /\ c \in Conns
  BY DEF Queued, Turned, Waiting
<1>2. PICK old \in known : /\ old = Entry(conns[c].who)
                           /\ aold' = [aold EXCEPT ![a] = old]
  BY DEF Queued
<1>3. /\ apc' = [apc EXCEPT ![a] = "queued"]
      /\ acur' = [acur EXCEPT ![a] = c]
      /\ UNCHANGED <<procs, connOf, known, left>>
  BY DEF Queued
<1>4. ASSUME NEW b \in Accept, apc'[b] = "queued"
      PROVE  /\ aold'[b] \in known'
             /\ \/ procs'[IdOf[conns'[acur'[b]].who]] = aold'[b]
                \/ procs'[IdOf[conns'[acur'[b]].who]] = 0 /\ aold'[b] \in left'
  <2>1. CASE b = a
    <3>1. aold'[b] = old /\ acur'[b] = c
      BY <1>2, <1>3, <2>1 DEF CtlInv, BaseType
    <3>2. conns'[c].who = conns[c].who
      BY <1>1 DEF Grown
    <3> QED BY <1>2, <1>3, <3>1, <3>2 DEF Entry
  <2>2. CASE b # a
    <3>1. apc[b] = "queued" /\ acur'[b] = acur[b] /\ aold'[b] = aold[b]
      BY <1>2, <1>3, <1>4, <2>2 DEF CtlInv, BaseType
    <3>2. acur[b] \in Conns
      BY <3>1 DEF CtlInv, PlaceInv, Placed, Waiting
    <3>3. conns'[acur[b]].who = conns[acur[b]].who
      BY <1>1, <3>2 DEF Grown
    <3>4. /\ aold[b] \in known
          /\ \/ Entry(conns[acur[b]].who) = aold[b]
             \/ Entry(conns[acur[b]].who) = 0 /\ aold[b] \in left
      BY <3>1 DEF CtlInv, TableInv
    <3> QED BY <1>3, <3>1, <3>3, <3>4 DEF Entry
  <2> QED BY <2>1, <2>2
<1>5. \A i \in Id : procs'[i] # 0 => procs'[i] \in known'
  BY <1>3 DEF CtlInv, TableInv
<1>6. \A o \in Conn : connOf'[o] # o => o \in known' /\ connOf'[o] \in known'
  BY <1>3 DEF CtlInv, TableInv
<1> QED BY <1>4, <1>5, <1>6 DEF TableInv, Entry

LEMMA RestartTable ==
    ASSUME CtlInv, Restart
    PROVE  TableInv'
  BY DEF Restart, TableInv

(* Objects in use have connections of their own.                            *)
LEMMA OwnQuiet ==
    ASSUME CtlInv, UNCHANGED <<connOf, known>>,
           \A o \in Conn : InUse(o)' => InUse(o)
    PROVE  OwnConnInv'
<1>1. \A o \in Conn : InUse(o)' => o \in known'
  BY DEF CtlInv, OwnConnInv
<1>2. \A o \in Conn : connOf'[o] # o =>
         ~ \E u \in Conn : u = connOf'[o] /\ InUse(u)'
  BY DEF CtlInv, OwnConnInv
<1>3. \A o, u \in Conn :
         connOf'[o] # o /\ connOf'[u] # u /\ connOf'[o] = connOf'[u] => o = u
  BY DEF CtlInv, OwnConnInv
<1> QED BY <1>1, <1>2, <1>3 DEF OwnConnInv

LEMMA EnteredOwn ==
    ASSUME CtlInv, NEW a \in Accept, NEW c, NEW old, Entered(a, c, old),
           \A o \in Conn : sem'[o] # << >> => sem[o] # << >>
    PROVE  OwnConnInv'
<1>1. /\ c \in Conn /\ c \notin known /\ ~InUse(c)
      /\ \A o \in Conn : connOf[o] = c => o = c
      /\ IdOf[conns[c].who] \in Id
      /\ old = 0 \/ (old \in Conn /\ old \in known)
      /\ known' = known \cup {c}
      /\ \/ /\ old # 0 /\ conns[c].who = Primary /\ procs' = procs
            /\ connOf' = [connOf EXCEPT ![old] = c]
         \/ /\ procs' = [procs EXCEPT ![IdOf[conns[c].who]] = c]
            /\ connOf' = connOf
  BY EnterIs
<1>2. /\ \A o \in Conn : InUse(o) => o \in known
      /\ \A o \in Conn : connOf[o] # o => ~ \E u \in Conn : u = connOf[o] /\ InUse(u)
      /\ \A o, u \in Conn :
           connOf[o] # o /\ connOf[u] # u /\ connOf[o] = connOf[u] => o = u
  BY DEF CtlInv, OwnConnInv
<1>3. connOf \in [Conn -> Conn]
  BY DEF CtlInv, BaseType
<1>4. CASE /\ old # 0 /\ procs' = procs
           /\ connOf' = [connOf EXCEPT ![old] = c]
  <2>1. \A o \in Conn : InUse(o)' => InUse(o)
    BY <1>4 DEF InUse
  <2>2. \A o \in Conn : connOf'[o] = IF o = old THEN c ELSE connOf[o]
    BY <1>3, <1>4
  <2>3. \A o \in Conn : InUse(o)' => o \in known'
    BY <1>1, <1>2, <2>1
  <2>4. ASSUME NEW o \in Conn, connOf'[o] # o, NEW u \in Conn, u = connOf'[o], InUse(u)'
        PROVE  FALSE
    BY <1>1, <1>2, <2>1, <2>2, <2>4
  <2>5. ASSUME NEW o \in Conn, NEW u \in Conn, connOf'[o] # o, connOf'[u] # u,
               connOf'[o] = connOf'[u]
        PROVE  o = u
    <3>1. \A v \in Conn : v # old => connOf'[v] = connOf[v]
      BY <2>2
    <3>2. ASSUME NEW v \in Conn, connOf'[v] = c, connOf'[v] # v PROVE v = old
      BY <1>1, <3>1, <3>2
    <3>3. CASE o = old
      <4>1. connOf'[u] = c
        BY <2>2, <2>5, <3>3
      <4> QED BY <2>5, <3>2, <3>3, <4>1
    <3>4. CASE u = old
      <4>1. connOf'[o] = c
        BY <2>2, <2>5, <3>4
      <4> QED BY <2>5, <3>2, <3>4, <4>1
    <3>5. CASE o # old /\ u # old
      BY <1>2, <2>5, <3>1, <3>5
    <3> QED BY <3>3, <3>4, <3>5
  <2> QED BY <2>3, <2>4, <2>5 DEF OwnConnInv
<1>5. CASE /\ procs' = [procs EXCEPT ![IdOf[conns[c].who]] = c]
           /\ connOf' = connOf
  <2>0. \A j \in Id : procs'[j] = procs[j] \/ procs'[j] = c
    BY <1>1, <1>5 DEF CtlInv, BaseType
  <2>1. \A o \in Conn : InUse(o)' => InUse(o) \/ o = c
    BY <2>0 DEF InUse
  <2>2. \A o \in Conn : InUse(o)' => o \in known'
    BY <1>1, <1>2, <2>1
  <2>3. ASSUME NEW o \in Conn, connOf'[o] # o, NEW u \in Conn, u = connOf'[o], InUse(u)'
        PROVE  FALSE
    BY <1>1, <1>2, <1>5, <2>1, <2>3
  <2>4. \A o, u \in Conn :
           connOf'[o] # o /\ connOf'[u] # u /\ connOf'[o] = connOf'[u] => o = u
    BY <1>2, <1>5
  <2> QED BY <2>2, <2>3, <2>4 DEF OwnConnInv
<1> QED BY <1>1, <1>4, <1>5

LEMMA RestartOwn ==
    ASSUME CtlInv, Restart
    PROVE  OwnConnInv'
<1>1. /\ procs' = [i \in Id |-> 0]
      /\ connOf' = [o \in Conn |-> o]
      /\ sem' = [o \in Conn |-> << >>]
  BY DEF Restart
<1>2. \A o \in Conn : ~InUse(o)'
  <2>1. ASSUME NEW o \in Conn PROVE ~InUse(o)'
    <3>1. sem'[o] = << >> /\ o # 0
      BY <1>1, BoundAssumption DEF Conn
    <3> QED BY <1>1, <3>1 DEF InUse
  <2> QED BY <2>1
<1>3. \A o \in Conn : connOf'[o] = o
  BY <1>1
<1> QED BY <1>2, <1>3 DEF OwnConnInv

-----------------------------------------------------------------------------
(* The semaphores.                                                          *)
LEMMA WaitsOnce ==
    ASSUME NEW x \in Caller, NEW o, NEW u, Waits(x, o), Waits(x, u)
    PROVE  o = u
  BY CallerAssumption DEF Waits, Caller

LEMMA SemFacts ==
    ASSUME CtlInv, NEW o \in Conn
    PROVE  /\ sem[o] \in Seq(Caller)
           /\ \A k \in 1 .. Len(sem[o]) :
                /\ sem[o][k] \in Caller /\ Waits(sem[o][k], o)
                /\ k > 1 => ~Sent(sem[o][k])
           /\ \A j, k \in 1 .. Len(sem[o]) : sem[o][j] = sem[o][k] => j = k
           /\ sem[o] # << >> =>
                Head(sem[o]) \in Caller /\ Waits(Head(sem[o]), o)
<1>1. PICK s \in Seq(Caller) : s = sem[o]
  BY DEF CtlInv, BaseType
<1>2. /\ \A k \in 1 .. Len(s) : s[k] \in Caller /\ Waits(s[k], o)
                                 /\ (k > 1 => ~Sent(s[k]))
      /\ \A j, k \in 1 .. Len(s) : s[j] = s[k] => j = k
  BY <1>1 DEF CtlInv, SemInv
<1>3. s # << >> => 1 \in 1 .. Len(s) /\ Head(s) = s[1]
  OBVIOUS
<1>4. s # << >> => Head(s) \in Caller /\ Waits(Head(s), o)
  BY <1>2, <1>3
<1> QED BY <1>1, <1>2, <1>4

(* Nobody comes or goes; the head of a semaphore may have sent a command.   *)
LEMMA SemSame ==
    ASSUME CtlInv, UNCHANGED sem,
           \A x \in Caller, o \in Conn \cup {0} : Waits(x, o)' <=> Waits(x, o),
           \A x \in Caller : Sent(x)' =>
             \/ Sent(x)
             \/ \E o \in Conn : sem[o] # << >> /\ x = Head(sem[o])
    PROVE  SemInv'
<1>1. ASSUME NEW o \in Conn, NEW x \in Caller, NEW k \in 1 .. Len(sem[o]),
             sem[o][k] = x, k > 1, Sent(x)'
      PROVE  FALSE
  <2>1. PICK s \in Seq(Caller) : s = sem[o]
    BY SemFacts
  <2>2. x = s[k] /\ Waits(x, o) /\ ~Sent(x)
    BY <1>1, <2>1, SemFacts
  <2>3. Sent(x)'
    BY <1>1
  <2>4. PICK u \in Conn : sem[u] # << >> /\ x = Head(sem[u])
    BY <2>2, <2>3
  <2>5. Waits(x, u)
    BY <2>4, SemFacts
  <2>6. u = o
    BY <2>2, <2>5, WaitsOnce
  <2>7. s # << >> /\ x = s[1] /\ 1 \in 1 .. Len(s)
    BY <2>1, <2>4, <2>6
  <2>8. k = 1
    BY <1>1, <2>1, <2>2, <2>7, SemFacts
  <2> QED BY <1>1, <2>8
<1>2. ASSUME NEW o \in Conn, NEW x \in Caller, NEW k \in 1 .. Len(sem'[o]),
             sem'[o][k] = x
      PROVE  Waits(x, o)' /\ (k > 1 => ~Sent(x)')
  <2>1. sem[o][k] = x /\ k \in 1 .. Len(sem[o])
    BY <1>2
  <2>2. Waits(x, o)
    BY <2>1, SemFacts
  <2>3. Waits(x, o)'
    BY <2>2
  <2> QED BY <1>1, <2>1, <2>3
<1>3. \A o \in Conn : \A j, k \in 1 .. Len(sem'[o]) :
         sem'[o][j] = sem'[o][k] => j = k
  BY SemFacts
<1>4. ASSUME NEW x \in Caller, NEW o \in Conn \cup {0}, Waits(x, o)'
      PROVE  o # 0 /\ \E k \in 1 .. Len(sem'[o]) : sem'[o][k] = x
  BY <1>4 DEF CtlInv, SemInv
<1> QED BY <1>2, <1>3, <1>4 DEF SemInv

(* One more waits. *)
LEMMA SemJoined ==
    ASSUME CtlInv, NEW y \in Caller, NEW o \in Conn,
           \A u \in Conn \cup {0} : ~Waits(y, u) /\ (Waits(y, u)' <=> u = o),
           sem' = [sem EXCEPT ![o] = Append(@, y)],
           \A x \in Caller, u \in Conn \cup {0} :
             x # y => (Waits(x, u)' <=> Waits(x, u)),
           \A x \in Caller : Sent(x)' => Sent(x) \/ (x = y /\ sem[o] = << >>)
    PROVE  SemInv'
<1>1. PICK s \in Seq(Caller) : s = sem[o]
  BY SemFacts
<1>2. PICK t : t = Append(s, y)
  OBVIOUS
<1>3. PICK n \in Nat : n = Len(s)
  OBVIOUS
<1>4. /\ Len(t) = n + 1 /\ t[n + 1] = y /\ \A k \in 1 .. n : t[k] = s[k]
      /\ sem'[o] = t /\ \A u \in Conn : u # o => sem'[u] = sem[u]
      /\ n > 0 <=> s # << >>
  BY <1>1, <1>2, <1>3 DEF CtlInv, BaseType
<1>5. \A k \in 1 .. n + 1 : k \in 1 .. n \/ k = n + 1
  BY <1>3
<1>6. \A k \in 1 .. n : /\ s[k] \in Caller /\ Waits(s[k], o)
                        /\ k > 1 => ~Sent(s[k])
  BY <1>1, <1>3, SemFacts
<1>7. \A k \in 1 .. n : s[k] # y
  BY <1>6
<1>8. ASSUME NEW u \in Conn, NEW x \in Caller, NEW k \in 1 .. Len(sem'[u]),
             sem'[u][k] = x
      PROVE  Waits(x, u)' /\ (k > 1 => ~Sent(x)')
  <2>1. CASE u # o
    <3>1. sem[u][k] = x /\ k \in 1 .. Len(sem[u])
      BY <1>4, <1>8, <2>1
    <3>2. Waits(x, u) /\ (k > 1 => ~Sent(x))
      BY <3>1, SemFacts
    <3>3. x # y
      BY <3>2
    <3> QED BY <3>2, <3>3
  <2>2. CASE u = o /\ k \in 1 .. n
    <3>1. s[k] = x
      BY <1>4, <1>8, <2>2
    <3> QED BY <1>6, <1>7, <2>2, <3>1
  <2>3. CASE u = o /\ k = n + 1
    <3>1. Waits(y, o)'
      OBVIOUS
    <3>2. k > 1 => ~Sent(y)'
      <4>1. ~Sent(y)
        BY DEF Sent, Waits, Active, CtlInv, BaseType
      <4> QED BY <1>1, <1>3, <1>4, <2>3, <4>1
    <3>3. x = y
      BY <1>4, <1>8, <2>3
    <3> QED BY <2>3, <3>1, <3>2, <3>3
  <2> QED BY <1>4, <1>5, <1>8, <2>1, <2>2, <2>3
<1>9. ASSUME NEW u \in Conn, NEW j \in 1 .. Len(sem'[u]),
             NEW k \in 1 .. Len(sem'[u]), sem'[u][j] = sem'[u][k]
      PROVE  j = k
  <2>1. CASE u # o
    BY <1>4, <1>9, <2>1, SemFacts
  <2>2. CASE u = o
    <3>1. j \in 1 .. n + 1 /\ k \in 1 .. n + 1 /\ t[j] = t[k]
      BY <1>4, <1>9, <2>2
    <3>2. CASE j \in 1 .. n /\ k \in 1 .. n
      BY <1>1, <1>3, <1>4, <3>1, <3>2, SemFacts
    <3> QED BY <1>4, <1>5, <1>7, <3>1, <3>2
  <2> QED BY <2>1, <2>2
<1>10. ASSUME NEW x \in Caller, NEW u \in Conn \cup {0}, Waits(x, u)'
       PROVE  u # 0 /\ \E k \in 1 .. Len(sem'[u]) : sem'[u][k] = x
  <2>1. CASE x = y
    <3>1. u = o /\ o # 0
      BY <1>10, <2>1, BoundAssumption DEF Conn
    <3>2. n + 1 \in 1 .. n + 1
      BY <1>3
    <3> QED BY <1>4, <2>1, <3>1, <3>2
  <2>2. CASE x # y
    <3>1. Waits(x, u)
      BY <1>10, <2>2
    <3>2. u # 0 /\ \E k \in 1 .. Len(sem[u]) : sem[u][k] = x
      BY <3>1 DEF CtlInv, SemInv
    <3>3. CASE u = o
      <4>1. PICK k \in 1 .. n : s[k] = x
        BY <1>1, <1>3, <3>2, <3>3
      <4>2. k \in 1 .. n + 1
        BY <1>3
      <4> QED BY <1>4, <3>2, <3>3, <4>1, <4>2
    <3>4. CASE u # o
      BY <1>4, <3>2, <3>4
    <3> QED BY <3>3, <3>4
  <2> QED BY <2>1, <2>2
<1> QED BY <1>8, <1>9, <1>10 DEF SemInv

(* The head leaves. *)
LEMMA SemLeft ==
    ASSUME CtlInv, NEW y \in Caller, NEW o \in Conn, sem[o] # << >>,
           y = Head(sem[o]), \A u \in Conn \cup {0} : ~Waits(y, u)',
           sem' = [sem EXCEPT ![o] = Tail(@)],
           \A x \in Caller, u \in Conn \cup {0} :
             x # y => (Waits(x, u)' <=> Waits(x, u)),
           \A x \in Caller : Sent(x)' => Sent(x)
    PROVE  SemInv'
<1>1. PICK s \in Seq(Caller) : s = sem[o] /\ s # << >>
  BY SemFacts
<1>2. PICK t : t = Tail(s)
  OBVIOUS
<1>3. PICK n \in Nat : n = Len(t) /\ Len(s) = n + 1
  <2>1. PICK m \in Nat \ {0} : m = Len(s)
    BY <1>1, TailIs
  <2>2. PICK j \in Nat : m = j + 1
    BY <2>1
  <2>3. Len(t) = m - 1
    BY <1>1, <1>2, <2>1, TailIs
  <2> QED BY <2>1, <2>2, <2>3
<1>4. /\ \A k \in 1 .. n : t[k] = s[k + 1]
      /\ s[1] = y
      /\ sem'[o] = t /\ \A u \in Conn : u # o => sem'[u] = sem[u]
  BY <1>1, <1>2, <1>3, TailIs DEF CtlInv, BaseType
<1>5. /\ \A k \in 1 .. n + 1 : /\ s[k] \in Caller /\ Waits(s[k], o)
                               /\ k > 1 => ~Sent(s[k])
      /\ \A j, k \in 1 .. n + 1 : s[j] = s[k] => j = k
  BY <1>1, <1>3, SemFacts
<1>6. \A k \in 1 .. n : /\ k + 1 \in 1 .. n + 1 /\ k + 1 > 1 /\ k + 1 # 1
                        /\ 1 \in 1 .. n + 1
  BY <1>3
<1>7. \A k \in 1 .. n : s[k + 1] # y
  BY <1>4, <1>5, <1>6
<1>8. Waits(y, o)
  BY SemFacts
<1>9. ASSUME NEW u \in Conn, NEW x \in Caller, NEW k \in 1 .. Len(sem'[u]),
             sem'[u][k] = x
      PROVE  Waits(x, u)' /\ (k > 1 => ~Sent(x)')
  <2>1. CASE u # o
    <3>1. sem[u][k] = x /\ k \in 1 .. Len(sem[u])
      BY <1>4, <1>9, <2>1
    <3>2. Waits(x, u) /\ (k > 1 => ~Sent(x))
      BY <3>1, SemFacts
    <3>3. x # y
      BY <1>8, <2>1, <3>2, WaitsOnce
    <3> QED BY <3>2, <3>3
  <2>2. CASE u = o
    <3>1. k \in 1 .. n
      BY <1>3, <1>4, <1>9, <2>2
    <3>4. x = s[k + 1] /\ k + 1 \in 1 .. n + 1 /\ k + 1 > 1
      BY <1>4, <1>6, <1>9, <2>2, <3>1
    <3>2. Waits(x, o) /\ ~Sent(x) /\ x # y
      BY <1>5, <1>7, <3>1, <3>4
    <3>3. Waits(x, o)' /\ ~Sent(x)'
      BY <3>2
    <3> QED BY <2>2, <3>3
  <2> QED BY <2>1, <2>2
<1>10. ASSUME NEW u \in Conn, NEW j \in 1 .. Len(sem'[u]),
              NEW k \in 1 .. Len(sem'[u]), sem'[u][j] = sem'[u][k]
       PROVE  j = k
  <2>1. CASE u # o
    BY <1>4, <1>10, <2>1, SemFacts
  <2>2. CASE u = o
    <3>1. j \in 1 .. n /\ k \in 1 .. n /\ s[j + 1] = s[k + 1]
      BY <1>3, <1>4, <1>10, <2>2
    <3>2. j + 1 = k + 1
      BY <1>5, <1>6, <3>1
    <3> QED BY <3>1, <3>2
  <2> QED BY <2>1, <2>2
<1>11. ASSUME NEW x \in Caller, NEW u \in Conn \cup {0}, Waits(x, u)'
       PROVE  u # 0 /\ \E k \in 1 .. Len(sem'[u]) : sem'[u][k] = x
  <2>1. x # y
    BY <1>11
  <2>2. Waits(x, u)
    BY <1>11, <2>1
  <2>3. u # 0 /\ \E k \in 1 .. Len(sem[u]) : sem[u][k] = x
    BY <2>2 DEF CtlInv, SemInv
  <2>4. CASE u = o
    <3>1. PICK k \in 1 .. n + 1 : s[k] = x
      BY <1>1, <1>3, <2>3, <2>4
    <3>2. k # 1
      BY <1>4, <2>1, <3>1
    <3>3. PICK j \in 1 .. n : k = j + 1
      BY <1>3, <3>1, <3>2
    <3>4. t[j] = x
      BY <1>4, <3>1, <3>3
    <3> QED BY <1>3, <1>4, <2>3, <2>4, <3>4
  <2>5. CASE u # o
    BY <1>4, <2>3, <2>5
  <2> QED BY <2>4, <2>5
<1> QED BY <1>9, <1>10, <1>11 DEF SemInv

LEMMA SemQuiet ==
    ASSUME CtlInv, UNCHANGED <<sem, rpc, robj>>,
           \A a \in Accept : /\ apc'[a] = "queued" <=> apc[a] = "queued"
                             /\ apc[a] = "queued" => aold'[a] = aold[a]
    PROVE  SemInv'
<1>1. \A x \in Caller, o \in Conn \cup {0} : Waits(x, o)' <=> Waits(x, o)
  BY DEF Waits
<1>2. \A x \in Caller : Sent(x)' => Sent(x)
  BY DEF Sent
<1> QED BY <1>1, <1>2, SemSame

LEMMA QueuedSem ==
    ASSUME CtlInv, NEW a \in Accept, NEW c, Queued(a, c), apc[a] # "queued"
    PROVE  SemInv'
<1>1. PICK o \in Conn : /\ sem' = [sem EXCEPT ![o] = Append(@, a)]
                        /\ aold' = [aold EXCEPT ![a] = o]
  BY DEF Queued
<1>2. apc' = [apc EXCEPT ![a] = "queued"] /\ UNCHANGED <<rpc, robj>>
  BY DEF Queued, reqVars
<1>3. a \in Caller /\ a \notin Request
  BY CallerAssumption DEF Caller
<1>4. /\ apc'[a] = "queued" /\ aold'[a] = o
      /\ \A b \in Accept : b # a => apc'[b] = apc[b] /\ aold'[b] = aold[b]
  BY <1>1, <1>2 DEF CtlInv, BaseType
<1>5. \A u \in Conn \cup {0} : ~Waits(a, u) /\ (Waits(a, u)' <=> u = o)
  BY <1>3, <1>4 DEF Waits
<1>6. \A x \in Caller, u \in Conn \cup {0} :
         x # a => (Waits(x, u)' <=> Waits(x, u))
  BY <1>2, <1>4 DEF Waits
<1>7. \A x \in Caller : Sent(x)' => Sent(x)
  BY <1>2 DEF Sent
<1> QED BY <1>1, <1>3, <1>5, <1>6, <1>7, SemJoined

LEMMA InstallLaterSem ==
    ASSUME CtlInv, NEW a \in Accept, InstallLater(a)
    PROVE  SemInv'
<1>1. PICK o \in Conn : o = aold[a] /\ sem[o] # << >> /\ a = Head(sem[o])
                        /\ sem' = [sem EXCEPT ![o] = Tail(@)]
  BY InstallLaterIs
<1>2. Entered(a, acur[a], aold[a]) /\ aold' = [aold EXCEPT ![a] = 0]
  BY InstallLaterIs
<1>3. apc' = [apc EXCEPT ![a] = "accept"]
  BY <1>2, EnterIs
<1>4. UNCHANGED <<rpc, robj>>
  BY <1>2 DEF Entered, reqVars
<1>5. a \in Caller /\ a \notin Request
  BY CallerAssumption DEF Caller
<1>6. /\ apc'[a] = "accept"
      /\ \A b \in Accept : b # a => apc'[b] = apc[b] /\ aold'[b] = aold[b]
  BY <1>2, <1>3 DEF CtlInv, BaseType
<1>7. \A u \in Conn \cup {0} : ~Waits(a, u)'
  BY <1>5, <1>6 DEF Waits
<1>8. \A x \in Caller, u \in Conn \cup {0} :
         x # a => (Waits(x, u)' <=> Waits(x, u))
  BY <1>4, <1>6 DEF Waits
<1>9. \A x \in Caller : Sent(x)' => Sent(x)
  BY <1>4 DEF Sent
<1> QED BY <1>1, <1>5, <1>7, <1>8, <1>9, SemLeft

(* The parts of Waits and Sent that a step of request r changes.            *)
LEMMA RequestWaits ==
    ASSUME CtlInv, NEW r \in Request, UNCHANGED <<apc, aold>>,
           NEW place \in {"queued", "exit", "wait", "done", "error"},
           rpc' = [rpc EXCEPT ![r] = place],
           \A q \in Request : q # r => robj'[q] = robj[q]
    PROVE  /\ r \in Caller
           /\ \A x \in Caller, u \in Conn \cup {0} :
                x # r => (Waits(x, u)' <=> Waits(x, u))
           /\ \A u \in Conn \cup {0} :
                Waits(r, u)' <=> place \in Active /\ robj'[r] = u
           /\ \A x \in Caller : Sent(x)' => Sent(x) \/ (x = r /\ place = "wait")
           /\ Sent(r)' <=> place = "wait"
<1>1. r \in Caller /\ r \notin Accept
  BY CallerAssumption DEF Caller
<1>2. rpc'[r] = place /\ \A q \in Request : q # r => rpc'[q] = rpc[q]
  BY DEF CtlInv, BaseType
<1>3. \A x \in Caller, u \in Conn \cup {0} :
         x # r => (Waits(x, u)' <=> Waits(x, u))
  BY <1>2 DEF Waits
<1>4. \A u \in Conn \cup {0} : Waits(r, u)' <=> place \in Active /\ robj'[r] = u
  BY <1>1, <1>2 DEF Waits
<1>5. \A x \in Caller : Sent(x)' => Sent(x) \/ (x = r /\ place = "wait")
  BY <1>2 DEF Sent
<1>6. Sent(r)' <=> place = "wait"
  BY <1>2 DEF Sent
<1> QED BY <1>1, <1>3, <1>4, <1>5, <1>6

LEMMA LookupSem ==
    ASSUME CtlInv, NEW r \in Request, Lookup(r)
    PROVE  SemInv'
<1>1. rpc[r] = "new" /\ UNCHANGED <<apc, aold>>
  BY LookupIs
<1>2. PICK kind \in {"ask", "exit"}, o \in known :
        /\ o \in Conn /\ robj' = [robj EXCEPT ![r] = o]
        /\ \/ Free(o) /\ Send(r, o, kind, [sem EXCEPT ![o] = <<r>>])
           \/ /\ ~Free(o)
              /\ sem' = [sem EXCEPT ![o] = Append(@, r)]
              /\ rpc' = [rpc EXCEPT ![r] = IF kind = "exit" THEN "exit"
                                           ELSE "queued"]
  BY LookupIs
<1>3. robj'[r] = o /\ \A q \in Request : q # r => robj'[q] = robj[q]
  BY <1>2 DEF CtlInv, BaseType
<1>4. \A u \in Conn \cup {0} : ~Waits(r, u)
  BY <1>1, CallerAssumption DEF Waits, Active
<1>5. sem \in [Conn -> Seq(Caller)]
  BY DEF CtlInv, BaseType
<1>6. CASE /\ ~Free(o)
           /\ sem' = [sem EXCEPT ![o] = Append(@, r)]
           /\ rpc' = [rpc EXCEPT ![r] = IF kind = "exit" THEN "exit"
                                        ELSE "queued"]
  <2>1. PICK place \in {"queued", "exit", "wait", "done", "error"} :
          /\ place \in {"queued", "exit"}
          /\ rpc' = [rpc EXCEPT ![r] = place]
    BY <1>6
  <2>2. /\ r \in Caller
        /\ \A x \in Caller, u \in Conn \cup {0} :
             x # r => (Waits(x, u)' <=> Waits(x, u))
        /\ \A u \in Conn \cup {0} :
             Waits(r, u)' <=> place \in Active /\ robj'[r] = u
        /\ \A x \in Caller : Sent(x)' => Sent(x) \/ (x = r /\ place = "wait")
    BY <1>1, <1>3, <2>1, RequestWaits
  <2>3. \A u \in Conn \cup {0} : Waits(r, u)' <=> u = o
    BY <1>3, <2>1, <2>2 DEF Active
  <2>4. \A x \in Caller : Sent(x)' => Sent(x)
    BY <2>1, <2>2
  <2> QED BY <1>2, <1>4, <1>6, <2>2, <2>3, <2>4, SemJoined
<1>7. CASE Free(o) /\ Send(r, o, kind, [sem EXCEPT ![o] = <<r>>])
  <2>1. sem[o] = << >>
    BY <1>7 DEF Free
  <2>2. CASE conns[connOf[o]].ctl
    <3>1. sem' = [sem EXCEPT ![o] = <<r>>] /\ rpc' = [rpc EXCEPT ![r] = "wait"]
      BY <1>7, <2>2 DEF Send, Finish
    <3>2. Append(sem[o], r) = <<r>>
      BY <2>1
    <3>3. sem' = [sem EXCEPT ![o] = Append(@, r)]
      BY <3>1, <3>2
    <3>4. PICK place \in {"queued", "exit", "wait", "done", "error"} :
            /\ place = "wait"
            /\ rpc' = [rpc EXCEPT ![r] = place]
      BY <3>1
    <3>5. /\ r \in Caller
          /\ \A x \in Caller, u \in Conn \cup {0} :
               x # r => (Waits(x, u)' <=> Waits(x, u))
          /\ \A u \in Conn \cup {0} :
               Waits(r, u)' <=> place \in Active /\ robj'[r] = u
          /\ \A x \in Caller : Sent(x)' => Sent(x) \/ (x = r /\ place = "wait")
      BY <1>1, <1>3, <3>4, RequestWaits
    <3>6. \A u \in Conn \cup {0} : Waits(r, u)' <=> u = o
      BY <1>3, <3>4, <3>5 DEF Active
    <3>7. \A x \in Caller : Sent(x)' => Sent(x) \/ (x = r /\ sem[o] = << >>)
      BY <2>1, <3>5
    <3> QED BY <1>2, <1>4, <3>3, <3>5, <3>6, <3>7, SemJoined
  <2>3. CASE ~conns[connOf[o]].ctl
    <3>1. PICK h : h = [sem EXCEPT ![o] = <<r>>]
      OBVIOUS
    <3>2. sem' = [h EXCEPT ![o] = Tail(@)] /\ rpc' = [rpc EXCEPT ![r] = "error"]
      BY <1>7, <2>3, <3>1 DEF Send, Finish
    <3>3. Tail(<<r>>) = << >>
      OBVIOUS
    <3>4. sem' = sem
      <4>1. h[o] = <<r>>
        BY <1>2, <1>5, <3>1
      <4>2. sem' = [h EXCEPT ![o] = << >>]
        BY <3>2, <3>3, <4>1
      <4> QED BY <1>2, <1>5, <2>1, <3>1, <4>2
    <3>5. PICK place \in {"error"} : rpc' = [rpc EXCEPT ![r] = place]
      BY <3>2
    <3>6. /\ r \in Caller
          /\ \A x \in Caller, u \in Conn \cup {0} :
               x # r => (Waits(x, u)' <=> Waits(x, u))
          /\ \A u \in Conn \cup {0} :
               Waits(r, u)' <=> place \in Active /\ robj'[r] = u
          /\ \A x \in Caller : Sent(x)' => Sent(x) \/ (x = r /\ place = "wait")
      BY <1>1, <1>3, <3>5, RequestWaits
    <3>7. \A x \in Caller, u \in Conn \cup {0} : Waits(x, u)' <=> Waits(x, u)
      BY <1>4, <3>6 DEF Active
    <3>8. \A x \in Caller : Sent(x)' => Sent(x)
      BY <3>6
    <3> QED BY <3>4, <3>7, <3>8, SemSame
  <2> QED BY <2>2, <2>3
<1> QED BY <1>2, <1>6, <1>7

LEMMA ReleasedSem ==
    ASSUME CtlInv, NEW r \in Request, NEW o \in Conn, o = robj[r],
           sem[o] # << >>, r = Head(sem[o]), UNCHANGED <<apc, aold, robj>>,
           NEW place \in {"done", "error"},
           rpc' = [rpc EXCEPT ![r] = place],
           sem' = [sem EXCEPT ![o] = Tail(@)]
    PROVE  SemInv'
<1>1. /\ r \in Caller
      /\ \A x \in Caller, u \in Conn \cup {0} :
           x # r => (Waits(x, u)' <=> Waits(x, u))
      /\ \A u \in Conn \cup {0} :
           Waits(r, u)' <=> place \in Active /\ robj'[r] = u
      /\ \A x \in Caller : Sent(x)' => Sent(x) \/ (x = r /\ place = "wait")
  BY RequestWaits
<1>2. \A u \in Conn \cup {0} : ~Waits(r, u)'
  BY <1>1 DEF Active
<1>3. \A x \in Caller : Sent(x)' => Sent(x)
  BY <1>1
<1> QED BY <1>1, <1>2, <1>3, SemLeft

LEMMA SendLaterSem ==
    ASSUME CtlInv, NEW r \in Request, SendLater(r)
    PROVE  SemInv'
<1>1. rpc[r] \in {"queued", "exit"} /\ rpc[r] \in Active
  BY DEF SendLater, Active
<1>2. PICK o \in Conn : o = robj[r] /\ sem[o] # << >>
  BY <1>1, ActiveInUse
<1>3. r = Head(sem[o]) /\ UNCHANGED <<apc, aold, robj>>
  BY <1>2 DEF SendLater
<1>4. PICK kind \in {"ask", "exit"} : Send(r, o, kind, sem)
  BY <1>2 DEF SendLater
<1>5. CASE conns[connOf[o]].ctl
  <2>1. sem' = sem /\ rpc' = [rpc EXCEPT ![r] = "wait"]
    BY <1>4, <1>5 DEF Send, Finish
  <2>2. PICK place \in {"queued", "exit", "wait", "done", "error"} :
          /\ place = "wait"
          /\ rpc' = [rpc EXCEPT ![r] = place]
    BY <2>1
  <2>3. /\ r \in Caller
        /\ \A x \in Caller, u \in Conn \cup {0} :
             x # r => (Waits(x, u)' <=> Waits(x, u))
        /\ \A u \in Conn \cup {0} :
             Waits(r, u)' <=> place \in Active /\ robj'[r] = u
        /\ \A x \in Caller : Sent(x)' => Sent(x) \/ (x = r /\ place = "wait")
    BY <1>3, <2>2, RequestWaits
  <2>4. \A u \in Conn \cup {0} : Waits(r, u)' <=> Waits(r, u)
    BY <1>1, <1>3, <2>2, <2>3, CallerAssumption DEF Waits, Active
  <2>5. \A x \in Caller, u \in Conn \cup {0} : Waits(x, u)' <=> Waits(x, u)
    BY <2>3, <2>4
  <2>6. \A x \in Caller : Sent(x)' =>
          \/ Sent(x)
          \/ \E u \in Conn : sem[u] # << >> /\ x = Head(sem[u])
    BY <1>2, <1>3, <2>3
  <2> QED BY <2>1, <2>5, <2>6, SemSame
<1>6. CASE ~conns[connOf[o]].ctl
  <2>1. sem' = [sem EXCEPT ![o] = Tail(@)] /\ rpc' = [rpc EXCEPT ![r] = "error"]
    BY <1>4, <1>6 DEF Send, Finish
  <2>2. PICK place \in {"done", "error"} : rpc' = [rpc EXCEPT ![r] = place]
    BY <2>1
  <2> QED BY <1>2, <1>3, <2>1, <2>2, ReleasedSem
<1> QED BY <1>5, <1>6

LEMMA ReceiveSem ==
    ASSUME CtlInv, NEW r \in Request, Receive(r) \/ ReceiveNothing(r)
    PROVE  SemInv'
<1>1. rpc[r] = "wait" /\ rpc[r] \in Active
  BY DEF Receive, ReceiveNothing, Active
<1>2. PICK o \in Conn : o = robj[r] /\ sem[o] # << >>
  BY <1>1, ActiveInUse
<1>3. r = Head(sem[o])
  BY <1>1, <1>2, WaitsAtHead
<1>4. sem' = [sem EXCEPT ![o] = Tail(@)] /\ UNCHANGED <<apc, aold, robj>>
  BY <1>2 DEF Receive, ReceiveNothing, Released
<1>5. PICK place \in {"done", "error"} : rpc' = [rpc EXCEPT ![r] = place]
  BY DEF Receive, ReceiveNothing, Finish
<1> QED BY <1>2, <1>3, <1>4, <1>5, ReleasedSem

LEMMA RestartSem ==
    ASSUME CtlInv, Restart
    PROVE  SemInv'
<1>1. /\ sem' = [o \in Conn |-> << >>]
      /\ apc' = [a \in Accept |-> "accept"]
      /\ rpc' = [r \in Request |-> IF rpc[r] \in {"queued", "exit", "wait"}
                                   THEN "error" ELSE rpc[r]]
  BY DEF Restart
<1>2. \A r \in Request : rpc'[r] \notin Active
  BY <1>1 DEF Active
<1>3. \A a \in Accept : apc'[a] # "queued"
  BY <1>1
<1>4. \A x, o : ~Waits(x, o)'
  BY <1>2, <1>3 DEF Waits
<1>5. \A o \in Conn : sem'[o] = << >>
  BY <1>1
<1> QED BY <1>4, <1>5 DEF SemInv

-----------------------------------------------------------------------------
(* Commands and replies.                                                    *)
(* Only one waits for a reply on a connection: the thread that asks for an  *)
(* id has one that is not known, a request that of the object whose         *)
(* semaphore it heads.                                                      *)
LEMMA SameConnSameObject ==
    ASSUME CtlInv, NEW o \in Conn, NEW u \in Conn, InUse(o), InUse(u),
           connOf[o] = connOf[u]
    PROVE  o = u
<1>1. connOf[o] \in Conn
  BY DEF CtlInv, BaseType
<1>2. /\ \A v \in Conn : connOf[v] # v => ~ \E w \in Conn : w = connOf[v] /\ InUse(w)
      /\ \A v, w \in Conn :
           connOf[v] # v /\ connOf[w] # w /\ connOf[v] = connOf[w] => v = w
  BY DEF CtlInv, OwnConnInv
<1>3. CASE connOf[o] = o
  BY <1>2, <1>3
<1>4. CASE connOf[u] = u
  BY <1>2, <1>4
<1>5. CASE connOf[o] # o /\ connOf[u] # u
  BY <1>2, <1>5
<1> QED BY <1>3, <1>4, <1>5

LEMMA OneUser ==
    ASSUME CtlInv, NEW c, NEW x, NEW y, Using(x, c), Using(y, c)
    PROVE  x = y
<1>1. CASE x = "sec" /\ apc["sec"] = "ident" /\ acur["sec"] = c
  <2>1. c \notin known
    BY <1>1, IdentUses
  <2>2. ~(y \in Request /\ rpc[y] = "wait" /\ connOf[robj[y]] = c)
    BY <2>1, RequestUses
  <2> QED BY <1>1, <2>2 DEF Using
<1>2. CASE y = "sec" /\ apc["sec"] = "ident" /\ acur["sec"] = c
  <2>1. c \notin known
    BY <1>2, IdentUses
  <2>2. ~(x \in Request /\ rpc[x] = "wait" /\ connOf[robj[x]] = c)
    BY <2>1, RequestUses
  <2> QED BY <1>2, <2>2 DEF Using
<1>3. CASE /\ x \in Request /\ rpc[x] = "wait" /\ connOf[robj[x]] = c
           /\ y \in Request /\ rpc[y] = "wait" /\ connOf[robj[y]] = c
  <2>1. /\ robj[x] \in Conn /\ InUse(robj[x]) /\ Head(sem[robj[x]]) = x
        /\ robj[y] \in Conn /\ InUse(robj[y]) /\ Head(sem[robj[y]]) = y
    BY <1>3, RequestUses
  <2>2. robj[x] = robj[y]
    BY <1>3, <2>1, SameConnSameObject
  <2> QED BY <2>1, <2>2
<1> QED BY <1>1, <1>2, <1>3 DEF Using

LEMMA UsingSame ==
    ASSUME UNCHANGED <<apc, acur, rpc, robj, connOf>>
    PROVE  \A x, c : Using(x, c) <=> Using(x, c)'
  BY DEF Using

(* What becomes of a tidy connection. *)
LEMMA TidyKept ==
    ASSUME NEW d, Tidy(d), \A x : Using(x, d) => Using(x, d)',
           conns'[d] = conns[d]
    PROVE  Tidy(d)'
  BY DEF Tidy, Whole

LEMMA TidyEmpty ==
    ASSUME NEW d, conns'[d].cmds = << >>, conns'[d].wire = << >>,
           conns'[d].data = << >>
    PROVE  Tidy(d)'
  BY DEF Tidy

LEMMA TidyData ==
    ASSUME NEW d, conns'[d].cmds = << >>, conns'[d].wire = << >>,
           Whole(conns'[d].data),
           ~conns'[d].ctl => conns'[d].data = << >>,
           \A k \in 1 .. Len(conns'[d].data) : Using(conns[d].data[k].by, d)'
    PROVE  Tidy(d)'
  BY DEF Tidy, Whole

LEMMA TidyWire ==
    ASSUME NEW d, conns'[d].cmds = << >>, conns'[d].ctl,
           Len(conns'[d].wire) = 1, conns'[d].wire[1].end,
           Using(conns[d].wire[1].by, d)',
           \A k \in 1 .. Len(conns'[d].data) : Using(conns[d].data[k].by, d)'
    PROVE  Tidy(d)'
  BY DEF Tidy, Whole

LEMMA TidyClosed ==
    ASSUME NEW d, Tidy(d), ~conns'[d].ctl, conns'[d].far = conns[d].far,
           conns'[d].cmds = conns[d].cmds, conns'[d].wire = << >>,
           conns'[d].data = << >>
    PROVE  Tidy(d)'
  BY DEF Tidy

LEMMA ConnSeqs ==
    ASSUME CtlInv, NEW c \in Conns
    PROVE  /\ conns[c].cmds \in Seq(CmdType) /\ conns[c].wire \in Seq(PieceType)
           /\ conns[c].data \in Seq(PieceType)
           /\ conns[c].ctl \in BOOLEAN /\ conns[c].far \in BOOLEAN
  BY ConnFields DEF CtlInv, BaseType, Conns

LEMMA OneIs ==
    ASSUME NEW S, NEW s \in Seq(S), s # << >>, Len(s) <= 1
    PROVE  Len(s) = 1 /\ Tail(s) = << >> /\ Head(s) = s[1] /\ s[1] \in S
<1>1. PICK t \in Seq(S) : t = Tail(s) /\ s[1] = Head(s) /\ Head(s) \in S
  BY TailIs
<1>2. PICK n \in Nat \ {0} : n = Len(s) /\ Len(t) = n - 1
  BY <1>1, TailIs
<1>3. n = 1
  BY <1>2
<1>4. Len(t) = 0
  BY <1>2, <1>3
<1>5. t = << >>
  BY <1>4
<1> QED BY <1>1, <1>2, <1>3, <1>5

LEMMA OneCommand ==
    ASSUME CtlInv, NEW c \in Conns, Tidy(c), conns[c].cmds # << >>
    PROVE  /\ Tail(conns[c].cmds) = << >> /\ conns[c].cmds[1] = Head(conns[c].cmds)
           /\ conns[c].wire = << >> /\ conns[c].data = << >>
<1>1. PICK m \in Seq(CmdType) : m = conns[c].cmds
  BY ConnSeqs
<1>2. m # << >> /\ Len(m) <= 1
  BY <1>1 DEF Tidy
<1>4. Tail(m) = << >> /\ m[1] = Head(m)
  BY <1>2, OneIs
<1> QED BY <1>1, <1>4 DEF Tidy

LEMMA ServeTidy ==
    ASSUME CtlInv, NEW p \in Client, Serve(p), NEW c \in Conns, c = psock[p],
           Tidy(c), \A x : Using(x, c) => Using(x, c)'
    PROVE  Tidy(c)'
<1>1. conns[c].cmds # << >>
  BY DEF Serve
<1>2. /\ Tail(conns[c].cmds) = << >> /\ conns[c].cmds[1] = Head(conns[c].cmds)
      /\ conns[c].wire = << >> /\ conns[c].data = << >>
  BY <1>1, OneCommand
<1>3. conns[c].ctl
  BY DEF Serve
<1>4. PICK by : by = Head(conns[c].cmds).by
  OBVIOUS
<1>5. Using(by, c)'
  BY <1>1, <1>2, <1>3, <1>4 DEF Tidy
<1>6. conns'[c].ctl = conns[c].ctl /\ conns'[c].cmds = << >>
  BY <1>2, ServeIs, ConnRange DEF CtlInv
<1>7. PICK now \in Seq(PieceType), later \in Seq(PieceType) :
        /\ conns'[c].data = conns[c].data \o now
        /\ conns'[c].wire = conns[c].wire \o later
        /\ \/ now = <<Piece(by, TRUE)>> /\ later = << >>
           \/ now = <<Piece(by, FALSE)>> /\ later = <<Piece(by, TRUE)>>
  BY <1>4, ServeIs, ConnRange DEF CtlInv
<1>8. << >> \o now = now /\ << >> \o later = later
  OBVIOUS
<1>9. conns'[c].data = now /\ conns'[c].wire = later
  BY <1>2, <1>7, <1>8
<1>10. CASE now = <<Piece(by, TRUE)>> /\ later = << >>
  <2>1. Len(now) = 1 /\ now[1] = Piece(by, TRUE)
    BY <1>10
  <2>2. /\ Len(now) > 0
        /\ now[Len(now)].end
        /\ \A k \in 1 .. Len(now) : now[k].by = by
    BY <2>1 DEF Piece
  <2>3. Whole(now)
    BY <2>2 DEF Whole
  <2>4. \A k \in 1 .. Len(now) : Using(now[k].by, c)'
    BY <1>5, <2>2
  <2> QED BY <1>3, <1>6, <1>9, <1>10, <2>3, <2>4, TidyData
<1>11. CASE now = <<Piece(by, FALSE)>> /\ later = <<Piece(by, TRUE)>>
  <2>1. Len(now) = 1 /\ now[1] = Piece(by, FALSE)
    BY <1>11
  <2>2. \A k \in 1 .. Len(now) : now[k].by = by
    BY <2>1 DEF Piece
  <2>3. Len(later) = 1 /\ later[1] = Piece(by, TRUE)
    BY <1>11
  <2>4. later[1].end /\ later[1].by = by /\ later # << >>
    BY <2>3, <1>11 DEF Piece
  <2>5. \A k \in 1 .. Len(now) : Using(now[k].by, c)'
    BY <1>5, <2>2
  <2>6. Using(later[1].by, c)'
    BY <1>5, <2>4
  <2> QED BY <1>3, <1>6, <1>9, <2>3, <2>4, <2>5, <2>6, TidyWire
<1> QED BY <1>7, <1>10, <1>11

LEMMA DeliverTidy ==
    ASSUME CtlInv, NEW c \in Conns, Deliver(c), Tidy(c),
           \A x : Using(x, c) => Using(x, c)'
    PROVE  Tidy(c)'
<1>1. PICK w \in Seq(PieceType), d \in Seq(PieceType) :
        w = conns[c].wire /\ d = conns[c].data
  BY ConnSeqs
<1>2. w # << >> /\ Len(w) = 1 /\ w[1].end
  BY <1>1 DEF Deliver, Tidy
<1>3. Tail(w) = << >> /\ Head(w) = w[1] /\ w[1] \in PieceType
  <2>1. Len(w) <= 1
    BY <1>2
  <2> QED BY <1>2, <2>1, OneIs
<1>4. conns[c].cmds = << >>
  BY <1>1, <1>2 DEF Tidy
<1>5. PICK h \in PieceType : h = w[1]
  BY <1>3
<1>6. PICK e : e = Append(d, h)
  OBVIOUS
<1>7. /\ conns'[c].ctl = conns[c].ctl
      /\ conns'[c].cmds = << >> /\ conns'[c].wire = << >> /\ conns'[c].data = e
  BY <1>1, <1>3, <1>4, <1>5, <1>6, DeliverIs, ConnRange DEF CtlInv
<1>8. PICK n \in Nat : n = Len(d)
  OBVIOUS
<1>9. Len(e) = n + 1 /\ e[n + 1] = h /\ \A k \in 1 .. n : e[k] = d[k]
  BY <1>6, <1>8
<1>10. Whole(e)
  BY <1>2, <1>5, <1>8, <1>9 DEF Whole
<1>11. ASSUME conns[c].ctl, NEW k \in 1 .. n + 1
       PROVE  Using(e[k].by, c)'
  <2>1. CASE k \in 1 .. n
    BY <1>1, <1>8, <1>9, <1>11, <2>1 DEF Tidy
  <2>2. CASE k = n + 1
    BY <1>1, <1>2, <1>5, <1>9, <1>11, <2>2 DEF Tidy
  <2> QED BY <1>8, <2>1, <2>2
<1>12. conns[c].ctl
  BY <1>1, <1>2 DEF Tidy
<1> QED BY <1>7, <1>9, <1>10, <1>11, <1>12 DEF Tidy

(* A connection that nobody waits on, and that spp-ctl keeps, is empty;     *)
(* then a command goes out on it.                                           *)
LEMMA UnusedEmpty ==
    ASSUME CtlInv, NEW c \in Conns, Tidy(c), conns[c].ctl,
           Unused(c)
    PROVE  /\ conns[c].cmds = << >> /\ conns[c].wire = << >>
           /\ conns[c].data = << >>
<1>1. conns[c].cmds = << >> /\ conns[c].wire = << >>
  BY DEF Tidy, Unused
<1>2. PICK d \in Seq(PieceType) : d = conns[c].data
  BY ConnSeqs
<1>3. \A k \in 1 .. Len(d) : FALSE
  BY <1>2 DEF Tidy, Unused
<1>4. d = << >>
  <2>1. PICK n \in Nat : n = Len(d)
    OBVIOUS
  <2>2. n = 0
    <3>1. n # 0 => 1 \in 1 .. n
      OBVIOUS
    <3> QED BY <1>3, <2>1, <3>1
  <2>3. Len(d) = 0
    BY <2>1, <2>2
  <2> QED BY <2>3
<1> QED BY <1>1, <1>2, <1>4

LEMMA SentTidy ==
    ASSUME CtlInv, NEW c \in Conns, Tidy(c), conns[c].ctl,
           Unused(c), NEW by \in Caller, NEW kind \in {"ask", "exit"},
           conns' = SendTo(c, by, kind), Using(by, c)'
    PROVE  Tidy(c)'
<1>1. /\ conns[c].cmds = << >> /\ conns[c].wire = << >>
      /\ conns[c].data = << >>
  BY UnusedEmpty
<1>2. PICK m : m = <<[by |-> by, kind |-> kind]>>
  OBVIOUS
<1>3. Len(m) = 1 /\ m[1].by = by /\ m # << >>
  BY <1>2
<1>4. Append(<< >>, [by |-> by, kind |-> kind]) = m
  BY <1>2
<1>5. PICK ds : ds = SendTo(c, by, kind)
  OBVIOUS
<1>6. /\ ds[c].ctl = conns[c].ctl
      /\ ds[c].far = conns[c].far
      /\ ds[c].wire = << >>
      /\ ds[c].data = << >>
      /\ ds[c].cmds = IF conns[c].far THEN m ELSE << >>
  <2>1. ConnsType
    BY ConnRange DEF CtlInv
  <2>2. /\ ds[c].ctl = conns[c].ctl
        /\ ds[c].far = conns[c].far
        /\ ds[c].wire = conns[c].wire
        /\ ds[c].data = conns[c].data
        /\ ds[c].cmds = IF conns[c].far
                        THEN Append(conns[c].cmds, [by |-> by, kind |-> kind])
                        ELSE conns[c].cmds
    BY <1>5, <2>1, SendToIs
  <2>3. Append(conns[c].cmds, [by |-> by, kind |-> kind]) = m
    BY <1>1, <1>4
  <2> QED BY <1>1, <2>2, <2>3
<1>7. conns' = ds
  BY <1>5
<1>8. CASE conns[c].far
  <2>1. /\ conns'[c].ctl /\ conns'[c].far /\ conns'[c].wire = << >>
        /\ conns'[c].data = << >> /\ conns'[c].cmds = m
    BY <1>6, <1>7, <1>8
  <2>2. Len(m) <= 1
    BY <1>3
  <2>3. Using(conns[c].cmds[1].by, c)'
    BY <1>3, <2>1
  <2> QED BY <2>1, <2>2, <2>3 DEF Tidy
<1>9. CASE ~conns[c].far
  BY <1>6, <1>7, <1>9, TidyEmpty
<1> QED BY <1>8, <1>9

(* What an accepting thread leaves of a connection.                         *)
LEMMA TurnedTidy ==
    ASSUME CtlInv, NEW c \in Conns, NEW old, Turned(c, old), Tidy(c),
           conns[c].ctl
    PROVE  Tidy(c)'
<1>1. /\ conns'[c].cmds = conns[c].cmds /\ conns'[c].wire = conns[c].wire
      /\ \/ conns'[c].data = conns[c].data /\ Unused(c)
         \/ ~Tears(c) /\ conns[c].data # << >> /\ conns'[c].data = << >>
  BY DEF Turned
<1>2. CASE ~Tears(c) /\ conns[c].data # << >> /\ conns'[c].data = << >>
  <2>1. conns[c].cmds = << >> /\ conns[c].wire = << >>
    BY <1>2 DEF Tidy, Tears
  <2> QED BY <1>1, <1>2, <2>1, TidyEmpty
<1>3. CASE conns'[c].data = conns[c].data /\ Unused(c)
  <2>1. /\ conns[c].cmds = << >> /\ conns[c].wire = << >>
        /\ conns[c].data = << >>
    BY <1>3, UnusedEmpty
  <2> QED BY <1>1, <1>3, <2>1, TidyEmpty
<1> QED BY <1>1, <1>2, <1>3

LEMMA MsgKept ==
    ASSUME CtlInv, Conns' = Conns, torn \subseteq torn',
           \A d \in Conns : d \notin torn' /\ Tidy(d) => Tidy(d)'
    PROVE  MsgInv'
<1>1. \A d \in Conns' : d \notin torn' => Tidy(d)'
  BY DEF CtlInv, MsgInv
<1> QED BY <1>1 DEF MsgInv

LEMMA MsgOne ==
    ASSUME CtlInv, NEW c \in Conns, Others(conns, conns', c),
           torn \subseteq torn',
           \A x, d : d # c /\ Using(x, d) => Using(x, d)',
           c \notin torn' /\ Tidy(c) => Tidy(c)'
    PROVE  MsgInv'
<1>1. Conns' = Conns
  BY DEF Others, Conns
<1>2. ASSUME NEW d \in Conns, d \notin torn', Tidy(d) PROVE Tidy(d)'
  <2>1. CASE d = c
    BY <1>2, <2>1
  <2>2. CASE d # c
    <3>1. conns'[d] = conns[d]
      BY <2>2 DEF Others, Conns
    <3>2. \A x : Using(x, d) => Using(x, d)'
      BY <2>2
    <3> QED BY <1>2, <3>1, <3>2, TidyKept
  <2> QED BY <2>1, <2>2
<1> QED BY <1>1, <1>2, MsgKept

LEMMA MsgSame ==
    ASSUME CtlInv, UNCHANGED <<conns, torn>>,
           \A x, d : Using(x, d) => Using(x, d)'
    PROVE  MsgInv'
<1>1. Conns' = Conns
  BY DEF Conns
<1>2. \A d \in Conns : Tidy(d) => Tidy(d)'
  BY TidyKept
<1> QED BY <1>1, <1>2, MsgKept

LEMMA ProcessMsg ==
    ASSUME CtlInv, NEW p \in Client, ProcessStep(p)
    PROVE  MsgInv'
<1>1. UNCHANGED <<backlog, ctlVars, reqVars, known, left, torn>>
  BY ProcessIs
<1>2. \A x, d : Using(x, d) => Using(x, d)'
  BY <1>1, UsingSame DEF ctlVars, reqVars
<1>3. pst[p] \in {"up", "silent"} => psock[p] \in Conns
  BY DEF CtlInv, PlaceInv
<1>4. ConnsType
  BY ConnRange DEF CtlInv
<1>5. ASSUME NEW c \in Conns, conns' = FarClosed(c), Tidy(c)
      PROVE  Others(conns, conns', c) /\ Tidy(c)'
  <2>1. PICK ds : ds = FarClosed(c)
    OBVIOUS
  <2>2. /\ Others(conns, ds, c)
        /\ ds[c].ctl = conns[c].ctl /\ ds[c].cmds = << >>
        /\ ds[c].wire = conns[c].wire /\ ds[c].data = conns[c].data
    BY <1>4, <2>1, FarClosedIs
  <2>3. conns' = ds
    BY <1>5, <2>1
  <2>4. Tidy(c)'
    <3>1. /\ conns'[c].ctl = conns[c].ctl /\ conns'[c].cmds = << >>
          /\ conns'[c].wire = conns[c].wire /\ conns'[c].data = conns[c].data
      BY <2>2, <2>3
    <3> QED BY <1>2, <1>5, <3>1 DEF Tidy, Whole
  <2> QED BY <2>2, <2>3, <2>4
<1>6. ASSUME NEW c \in Conns, conns' = FarClosed(c)
      PROVE  MsgInv'
  <2>1. Others(conns, conns', c)
    BY <1>4, <1>6, FarClosedIs
  <2>2. Tidy(c) => Tidy(c)'
    BY <1>5, <1>6
  <2> QED BY <1>1, <1>2, <2>1, <2>2, MsgOne
<1>7. CASE Serve(p)
  <2>1. PICK c \in Conns : c = psock[p]
    BY <1>3, <1>7 DEF Serve
  <2>2. Others(conns, conns', c)
    BY <1>4, <1>7, <2>1, ServeIs
  <2>3. Tidy(c) => Tidy(c)'
    BY <1>2, <1>7, <2>1, ServeTidy
  <2> QED BY <1>1, <1>2, <2>2, <2>3, MsgOne
<1>8. CASE ServeClosed(p)
  <2>1. PICK c \in Conns : c = psock[p]
    BY <1>3, <1>8 DEF ServeClosed
  <2>2. /\ Others(conns, conns', c)
        /\ conns'[c].cmds \in {<< >>, Tail(conns[c].cmds)}
        /\ conns'[c].wire = conns[c].wire
        /\ conns'[c].data = conns[c].data
    BY <1>4, <1>8, <2>1, ServeClosedIs
  <2>3. ~conns[c].ctl /\ conns[c].cmds # << >>
    BY <1>8, <2>1 DEF ServeClosed
  <2>4. ASSUME Tidy(c) PROVE Tidy(c)'
    <3>1. Tail(conns[c].cmds) = << >>
      BY <2>3, <2>4, OneCommand
    <3>2. conns[c].wire = << >> /\ conns[c].data = << >>
      BY <2>3, <2>4 DEF Tidy
    <3> QED BY <2>2, <3>1, <3>2, TidyEmpty
  <2> QED BY <1>1, <1>2, <2>2, <2>4, MsgOne
<1>9. CASE SeeClose(p)
  BY <1>3, <1>6, <1>9 DEF SeeClose
<1>10. CASE Crash(p)
  BY <1>3, <1>6, <1>10 DEF Crash
<1>11. CASE FallSilent(p) \/ Launch(p)
  BY <1>1, <1>2, <1>11, MsgSame DEF FallSilent, Launch
<1> QED BY <1>7, <1>8, <1>9, <1>10, <1>11 DEF ProcessStep

LEMMA ConnectMsg ==
    ASSUME CtlInv, NEW p \in Client, Connect(p)
    PROVE  MsgInv'
<1>1. PICK n : n = Len(conns) + 1
  OBVIOUS
<1>2. /\ \A d \in Conns : conns'[d] = conns[d]
      /\ Conns' = Conns \cup {n} /\ conns'[n] = NewConn(p)
  BY <1>1, ConnectIs DEF CtlInv
<1>3. \A x, d : Using(x, d) => Using(x, d)'
  BY UsingSame DEF Connect, ctlVars, reqVars
<1>4. torn' = torn
  BY DEF Connect, histVars
<1>5. Tidy(n)'
  BY <1>2, TidyEmpty DEF NewConn
<1>6. \A d \in Conns : Tidy(d) => Tidy(d)'
  BY <1>2, <1>3, TidyKept
<1>7. \A d \in Conns' : d \notin torn' => Tidy(d)'
  BY <1>2, <1>4, <1>5, <1>6 DEF CtlInv, MsgInv
<1> QED BY <1>7 DEF MsgInv

LEMMA DeliverMsg ==
    ASSUME CtlInv, NEW c \in Conns, Deliver(c)
    PROVE  MsgInv'
<1>1. Others(conns, conns', c)
  BY DeliverIs, ConnRange DEF CtlInv
<1>2. \A x, d : Using(x, d) => Using(x, d)'
  BY UsingSame DEF Deliver, ctlVars, reqVars
<1>3. torn' = torn
  BY DEF Deliver, histVars
<1>4. Tidy(c) => Tidy(c)'
  BY <1>2, DeliverTidy
<1> QED BY <1>1, <1>2, <1>3, <1>4, MsgOne

LEMMA SendMsg ==
    ASSUME CtlInv, NEW r \in Request, NEW o \in Conn, InUse(o),
           NEW kind \in {"ask", "exit"}, NEW held, Send(r, o, kind, held),
           rpc[r] # "wait",
           \A q \in Request : rpc[q] = "wait" => robj[q] # o,
           robj'[r] = o, \A q \in Request : q # r => robj'[q] = robj[q],
           UNCHANGED <<connOf, apc, acur, torn>>
    PROVE  MsgInv'
<1>1. PICK c \in Conns : c = connOf[o] /\ c \in known
  BY InUseKnown
<1>2. \A q \in Request : q # r => rpc'[q] = rpc[q]
  BY DEF Send, Finish, CtlInv, BaseType
<1>3. \A x, d : Using(x, d) => Using(x, d)'
  BY <1>2 DEF Using
<1>4. Unused(c)
  <2>1. ASSUME NEW q \in Request, rpc[q] = "wait", connOf[robj[q]] = c
        PROVE  FALSE
    <3>1. robj[q] \in Conn /\ InUse(robj[q])
      BY <2>1, RequestUses
    <3>2. robj[q] = o
      BY <1>1, <2>1, <3>1, SameConnSameObject
    <3> QED BY <2>1, <3>2
  <2>2. ~(apc["sec"] = "ident" /\ acur["sec"] = c)
    BY <1>1, IdentUses
  <2> QED BY <2>1, <2>2 DEF Unused, Using
<1>5. CASE conns[connOf[o]].ctl
  <2>1. conns' = SendTo(c, r, kind) /\ rpc' = [rpc EXCEPT ![r] = "wait"]
    BY <1>1, <1>5 DEF Send, Finish
  <2>2. Using(r, c)'
    <3>1. rpc'[r] = "wait"
      BY <2>1 DEF CtlInv, BaseType
    <3> QED BY <1>1, <3>1 DEF Using
  <2>3. r \in Caller /\ conns[c].ctl /\ ConnsType
    BY <1>1, <1>5, ConnRange DEF Caller, CtlInv
  <2>4. Tidy(c) => Tidy(c)'
    BY <1>4, <2>1, <2>2, <2>3, SentTidy
  <2>5. Others(conns, conns', c)
    BY <2>1, <2>3, SendToIs
  <2> QED BY <1>3, <2>4, <2>5, MsgOne
<1>6. CASE ~conns[connOf[o]].ctl
  <2>1. conns' = conns
    BY <1>6 DEF Send
  <2> QED BY <1>3, <2>1, MsgSame
<1> QED BY <1>5, <1>6

LEMMA LookupMsg ==
    ASSUME CtlInv, NEW r \in Request, Lookup(r)
    PROVE  MsgInv'
<1>1. rpc[r] = "new" /\ UNCHANGED <<connOf, apc, acur, torn>>
  BY LookupIs
<1>2. PICK kind \in {"ask", "exit"}, o \in known :
        /\ o \in Conn /\ InUse(o) /\ robj' = [robj EXCEPT ![r] = o]
        /\ \/ Free(o) /\ Send(r, o, kind, [sem EXCEPT ![o] = <<r>>])
           \/ /\ UNCHANGED conns
              /\ rpc' = [rpc EXCEPT ![r] = IF kind = "exit" THEN "exit"
                                           ELSE "queued"]
  BY LookupIs
<1>3. robj'[r] = o /\ \A q \in Request : q # r => robj'[q] = robj[q]
  BY <1>2 DEF CtlInv, BaseType
<1>4. CASE Free(o) /\ Send(r, o, kind, [sem EXCEPT ![o] = <<r>>])
  <2>1. PICK held : held = [sem EXCEPT ![o] = <<r>>]
    OBVIOUS
  <2>2. ASSUME NEW q \in Request, rpc[q] = "wait" PROVE robj[q] # o
    <3>1. sem[robj[q]] # << >>
      BY <2>2, RequestUses
    <3> QED BY <1>4, <3>1 DEF Free
  <2>3. Send(r, o, kind, held) /\ rpc[r] # "wait"
    BY <1>1, <1>4, <2>1
  <2> QED BY <1>1, <1>2, <1>3, <2>2, <2>3, SendMsg
<1>5. CASE /\ UNCHANGED conns
           /\ rpc' = [rpc EXCEPT ![r] = IF kind = "exit" THEN "exit"
                                        ELSE "queued"]
  <2>1. \A q \in Request : q # r => rpc'[q] = rpc[q]
    BY <1>5 DEF CtlInv, BaseType
  <2>2. \A x, d : Using(x, d) => Using(x, d)'
    BY <1>1, <1>3, <2>1 DEF Using
  <2> QED BY <1>1, <1>5, <2>2, MsgSame
<1> QED BY <1>2, <1>4, <1>5

LEMMA SendLaterMsg ==
    ASSUME CtlInv, NEW r \in Request, SendLater(r)
    PROVE  MsgInv'
<1>1. rpc[r] \in {"queued", "exit"} /\ rpc[r] \in Active
  BY DEF SendLater, Active
<1>2. PICK o \in Conn : o = robj[r] /\ InUse(o)
  BY <1>1, ActiveInUse
<1>3. r = Head(sem[o]) /\ UNCHANGED <<connOf, apc, acur, robj, torn>>
  BY <1>2 DEF SendLater, histVars
<1>4. PICK kind \in {"ask", "exit"} : Send(r, o, kind, sem)
  BY <1>2 DEF SendLater
<1>5. PICK held : held = sem
  OBVIOUS
<1>6. ASSUME NEW q \in Request, rpc[q] = "wait" PROVE robj[q] # o
  <2>1. Head(sem[robj[q]]) = q
    BY <1>6, RequestUses
  <2> QED BY <1>1, <1>3, <1>6, <2>1
<1>7. Send(r, o, kind, held) /\ rpc[r] # "wait"
  BY <1>1, <1>4, <1>5
<1> QED BY <1>2, <1>3, <1>6, <1>7, SendMsg

LEMMA ReceiveMsg ==
    ASSUME CtlInv, NEW r \in Request, Receive(r)
    PROVE  MsgInv'
<1>1. rpc[r] = "wait"
  BY DEF Receive
<1>2. PICK o \in Conn : o = robj[r] /\ InUse(o)
  BY <1>1, RequestUses
<1>3. PICK c \in Conns : c = connOf[o]
  BY <1>2, InUseKnown
<1>4. /\ conns[c].data # << >> /\ conns' = Read(c)
      /\ torn' = IF Tears(c) THEN torn \cup {c} ELSE torn
      /\ UNCHANGED <<connOf, apc, acur, robj>>
      /\ \E place \in {"done", "error"} : rpc' = [rpc EXCEPT ![r] = place]
  BY <1>2, <1>3 DEF Receive, Finish
<1>5. PICK ds : ds = Read(c)
  OBVIOUS
<1>6. /\ Others(conns, ds, c)
      /\ ds[c].cmds = conns[c].cmds /\ ds[c].wire = conns[c].wire
      /\ ds[c].data = << >>
  BY <1>5, ReadIs, ConnRange DEF CtlInv
<1>7. conns' = ds
  BY <1>4, <1>5
<1>8. ASSUME c \notin torn', Tidy(c) PROVE Tidy(c)'
  <2>1. conns[c].wire = << >>
    BY <1>4, <1>8 DEF Tears
  <2>2. conns[c].cmds = << >>
    BY <1>4, <1>8 DEF Tidy
  <2> QED BY <1>6, <1>7, <2>1, <2>2, TidyEmpty
<1>9. ASSUME NEW x, NEW d, d # c, Using(x, d) PROVE Using(x, d)'
  <2>1. x # r
    BY <1>2, <1>3, <1>9, CallerAssumption DEF Using, Accept
  <2>2. \A q \in Request : q # r => rpc'[q] = rpc[q]
    BY <1>4 DEF CtlInv, BaseType
  <2> QED BY <1>4, <1>9, <2>1, <2>2 DEF Using
<1>10. Others(conns, conns', c) /\ torn \subseteq torn'
  BY <1>4, <1>6, <1>7
<1> QED BY <1>8, <1>9, <1>10, MsgOne

LEMMA EndedTidy ==
    ASSUME CtlInv, NEW c \in Conns, Ended(c), UNCHANGED conns, Tidy(c)
    PROVE  Tidy(c)'
  BY TidyEmpty DEF Ended, Tidy

LEMMA NothingMsg ==
    ASSUME CtlInv, NEW r \in Request, ReceiveNothing(r)
    PROVE  MsgInv'
<1>1. rpc[r] = "wait"
  BY DEF ReceiveNothing
<1>2. PICK o \in Conn : o = robj[r] /\ InUse(o)
  BY <1>1, RequestUses
<1>3. PICK c \in Conns : c = connOf[o]
  BY <1>2, InUseKnown
<1>4. /\ Ended(c) /\ rpc' = [rpc EXCEPT ![r] = "error"]
      /\ UNCHANGED <<conns, connOf, apc, acur, robj, torn>>
  BY <1>2, <1>3 DEF ReceiveNothing, Finish, histVars
<1>5. ASSUME NEW x, NEW d, d # c, Using(x, d) PROVE Using(x, d)'
  <2>1. x # r
    BY <1>2, <1>3, <1>5, CallerAssumption DEF Using, Accept
  <2>2. \A q \in Request : q # r => rpc'[q] = rpc[q]
    BY <1>4 DEF CtlInv, BaseType
  <2> QED BY <1>4, <1>5, <2>1, <2>2 DEF Using
<1>6. Others(conns, conns', c)
  BY <1>4 DEF Others, CtlInv, BaseType
<1>7. Tidy(c) => Tidy(c)'
  BY <1>4, EndedTidy
<1> QED BY <1>4, <1>5, <1>6, <1>7, MsgOne

LEMMA AcceptSecondaryMsg ==
    ASSUME CtlInv, AcceptSecondary
    PROVE  MsgInv'
<1>1. "sec" \in Accept /\ "sec" \in Caller
  BY DEF Accept, Caller
<1>2. PICK c \in Conns :
        /\ Waiting("sec", c) /\ apc["sec"] = "accept"
        /\ conns' = SendTo(c, "sec", "ask")
        /\ acur' = [acur EXCEPT !["sec"] = c]
        /\ apc' = [apc EXCEPT !["sec"] = "ident"]
        /\ UNCHANGED <<procs, connOf, sem, aold, reqVars, procVars, histVars>>
  BY AcceptSecondaryIs
<1>3. Unused(c) /\ conns[c].ctl
  BY <1>1, <1>2, WaitingUnused DEF Waiting
<1>4. apc'["sec"] = "ident" /\ acur'["sec"] = c
  BY <1>1, <1>2 DEF CtlInv, BaseType
<1>5. Using("sec", c)'
  BY <1>4 DEF Using
<1>6. PICK kind \in {"ask", "exit"} : kind = "ask"
  OBVIOUS
<1>7. conns' = SendTo(c, "sec", kind)
  BY <1>2, <1>6
<1>8. Tidy(c) => Tidy(c)'
  BY <1>1, <1>3, <1>5, <1>7, SentTidy
<1>9. Others(conns, conns', c)
  BY <1>1, <1>7, SendToIs, ConnRange DEF CtlInv
<1>10. UNCHANGED <<connOf, rpc, robj, torn>>
  BY <1>2 DEF reqVars, histVars
<1>11. \A x, d : Using(x, d) => Using(x, d)'
  BY <1>2, <1>10 DEF Using
<1> QED BY <1>8, <1>9, <1>10, <1>11, MsgOne

LEMMA DroppedMsg ==
    ASSUME CtlInv, NEW c \in Conns, c = acur["sec"], Dropped(c)
    PROVE  MsgInv'
<1>1. Tidy(c) => Tidy(c)'
  BY TidyClosed DEF Dropped
<1>2. UNCHANGED <<connOf, rpc, robj, torn>> /\ Others(conns, conns', c)
  BY DEF Dropped, reqVars
<1>3. \A x, d : d # c /\ Using(x, d) => Using(x, d)'
  BY <1>2 DEF Using
<1> QED BY <1>1, <1>2, <1>3, MsgOne

LEMMA IdentifyFailsMsg ==
    ASSUME CtlInv, IdentifyFails
    PROVE  MsgInv'
<1>1. PICK c \in Conns :
        /\ c = acur["sec"] /\ Ended(c)
        /\ \/ Dropped(c)
           \/ /\ apc' = [apc EXCEPT !["sec"] = "dead"]
              /\ Same /\ UNCHANGED <<conns, acur, procs, connOf, sem, aold,
                             reqVars, procVars, histVars>>
  BY IdentifyFailsIs
<1>2. CASE Dropped(c)
  BY <1>1, <1>2, DroppedMsg
<1>3. CASE UNCHANGED <<conns, acur, procs, connOf, sem, aold, reqVars, procVars,
                       histVars>>
  <2>1. UNCHANGED <<conns, connOf, rpc, robj, torn>>
    BY <1>3 DEF reqVars, histVars
  <2>2. \A x, d : d # c /\ Using(x, d) => Using(x, d)'
    BY <1>1, <2>1 DEF Using
  <2>3. Others(conns, conns', c)
    BY <2>1 DEF Others, CtlInv, BaseType
  <2>4. Tidy(c) => Tidy(c)'
    BY <1>1, <2>1, EndedTidy
  <2> QED BY <2>1, <2>2, <2>3, <2>4, MsgOne
<1> QED BY <1>1, <1>2, <1>3

LEMMA EnteredMsg ==
    ASSUME CtlInv, NEW a \in Accept, NEW c, NEW old, Entered(a, c, old),
           a = "sec" /\ apc["sec"] = "ident" => acur["sec"] = c
    PROVE  MsgInv'
<1>1. /\ c \in Conns /\ conns[c].ctl /\ Turned(c, old)
      /\ UNCHANGED <<rpc, robj, torn>>
      /\ \A r \in Request : rpc[r] = "wait" => robj[r] # old
  BY DEF Entered, Waiting, reqVars
<1>2. /\ c \notin known
      /\ old = 0 \/ (old \in Conn /\ old \in known)
      /\ apc' = [apc EXCEPT ![a] = "accept"]
      /\ acur' = [acur EXCEPT ![a] = 0]
      /\ connOf' = connOf \/ (old # 0 /\ connOf' = [connOf EXCEPT ![old] = c])
  BY EnterIs
<1>3. ASSUME NEW x, NEW d, d # c, Using(x, d) PROVE Using(x, d)'
  <2>1. CASE x = "sec" /\ apc["sec"] = "ident" /\ acur["sec"] = d
    <3>1. a # "sec"
      BY <1>3, <2>1
    <3>2. apc'["sec"] = apc["sec"] /\ acur'["sec"] = acur["sec"]
      BY <1>2, <3>1
    <3> QED BY <2>1, <3>2 DEF Using
  <2>2. CASE x \in Request /\ rpc[x] = "wait" /\ connOf[robj[x]] = d
    <3>1. robj[x] # old
      BY <1>1, <2>2
    <3>3. robj[x] \in Conn
      BY <2>2, RequestUses
    <3>2. connOf'[robj[x]] = connOf[robj[x]]
      BY <1>2, <3>1, <3>3 DEF CtlInv, BaseType
    <3> QED BY <1>1, <2>2, <3>2 DEF Using
  <2> QED BY <1>3, <2>1, <2>2 DEF Using
<1>4. ASSUME NEW d \in Conns, Tidy(d) PROVE Tidy(d)'
  <2>1. CASE d = c
    BY <1>1, <1>4, <2>1, TurnedTidy
  <2>2. CASE d # c /\ old # 0 /\ d = connOf[old]
    BY <1>1, <1>4, <2>2, TidyClosed DEF Turned
  <2>3. CASE d # c /\ (old # 0 => d # connOf[old])
    <3>1. conns'[d] = conns[d]
      BY <1>1, <2>3 DEF Turned
    <3>2. \A x : Using(x, d) => Using(x, d)'
      BY <1>3, <2>3
    <3> QED BY <1>4, <3>1, <3>2, TidyKept
  <2> QED BY <2>1, <2>2, <2>3
<1> QED BY <1>1, <1>4, MsgKept DEF Turned

LEMMA QueuedMsg ==
    ASSUME CtlInv, NEW a \in Accept, NEW c, Queued(a, c),
           a = "sec" /\ apc["sec"] = "ident" => acur["sec"] = c
    PROVE  MsgInv'
<1>1. /\ c \in Conns /\ conns[c].ctl /\ Turned(c, 0)
      /\ UNCHANGED <<connOf, rpc, robj, torn>>
      /\ apc' = [apc EXCEPT ![a] = "queued"]
      /\ acur' = [acur EXCEPT ![a] = c]
  BY DEF Queued, Waiting, reqVars
<1>2. ASSUME NEW x, NEW d, d # c, Using(x, d) PROVE Using(x, d)'
  <2>1. CASE x = "sec" /\ apc["sec"] = "ident" /\ acur["sec"] = d
    <3>1. a # "sec"
      BY <1>2, <2>1
    <3>2. apc'["sec"] = apc["sec"] /\ acur'["sec"] = acur["sec"]
      BY <1>1, <3>1
    <3> QED BY <2>1, <3>2 DEF Using
  <2>2. CASE x \in Request /\ rpc[x] = "wait" /\ connOf[robj[x]] = d
    BY <1>1, <2>2 DEF Using
  <2> QED BY <1>2, <2>1, <2>2 DEF Using
<1>3. ASSUME NEW d \in Conns, Tidy(d) PROVE Tidy(d)'
  <2>1. CASE d = c
    BY <1>1, <1>3, <2>1, TurnedTidy
  <2>2. CASE d # c
    <3>1. conns'[d] = conns[d]
      BY <1>1, <2>2 DEF Turned
    <3>2. \A x : Using(x, d) => Using(x, d)'
      BY <1>2, <2>2
    <3> QED BY <1>3, <3>1, <3>2, TidyKept
  <2> QED BY <2>1, <2>2
<1> QED BY <1>1, <1>3, MsgKept DEF Turned

LEMMA RestartMsg ==
    ASSUME CtlInv, Restart
    PROVE  MsgInv'
<1>1. /\ Conns' = Conns
      /\ \A d \in Conns : /\ ~conns'[d].ctl
                          /\ conns'[d].far = conns[d].far
                          /\ conns'[d].cmds = conns[d].cmds
                          /\ conns'[d].wire = << >>
                          /\ conns'[d].data = << >>
  BY RestartIs
<1>2. torn' = torn
  BY DEF Restart
<1>3. \A d \in Conns : Tidy(d) => Tidy(d)'
  BY <1>1, TidyClosed
<1> QED BY <1>1, <1>2, <1>3, MsgKept

-----------------------------------------------------------------------------
(* The types.                                                               *)
LEMMA GrownType ==
    ASSUME CtlInv, Grown
    PROVE  /\ conns' \in Seq(ConnType) /\ Len(conns') <= MaxConn
           /\ Conns' \subseteq Conn
<1>1. PICK n \in Nat : n = Len(conns') /\ n <= MaxConn
  BY DEF Grown
<1>2. 1 .. n \subseteq 1 .. MaxConn
  BY <1>1, BoundAssumption
<1> QED BY <1>1, <1>2 DEF Grown, Conns, Conn

LEMMA AppendIs ==
    ASSUME NEW S, NEW s \in Seq(S), NEW x \in S
    PROVE  Append(s, x) \in Seq(S)
  OBVIOUS

LEMMA SemTypes ==
    ASSUME CtlInv, NEW o \in Conn
    PROVE  /\ \A x \in Caller : [sem EXCEPT ![o] = Append(@, x)] \in [Conn -> Seq(Caller)]
           /\ \A x \in Caller : [sem EXCEPT ![o] = <<x>>] \in [Conn -> Seq(Caller)]
           /\ sem[o] # << >> => [sem EXCEPT ![o] = Tail(@)] \in [Conn -> Seq(Caller)]
<1>1. sem \in [Conn -> Seq(Caller)]
  BY DEF CtlInv, BaseType
<1>2. PICK s \in Seq(Caller) : s = sem[o]
  BY <1>1
<1>3. ASSUME NEW x \in Caller
      PROVE  /\ [sem EXCEPT ![o] = Append(@, x)] \in [Conn -> Seq(Caller)]
             /\ [sem EXCEPT ![o] = <<x>>] \in [Conn -> Seq(Caller)]
  <2>1. PICK t \in Seq(Caller) : t = Append(s, x)
    BY AppendIs
  <2>2. PICK u \in Seq(Caller) : u = <<x>>
    BY SingleIs
  <2>3. /\ [sem EXCEPT ![o] = t] \in [Conn -> Seq(Caller)]
        /\ [sem EXCEPT ![o] = u] \in [Conn -> Seq(Caller)]
    BY <1>1
  <2> QED BY <1>2, <2>1, <2>2, <2>3
<1>4. ASSUME s # << >>
      PROVE  [sem EXCEPT ![o] = Tail(@)] \in [Conn -> Seq(Caller)]
  <2>1. PICK t \in Seq(Caller) : t = Tail(s)
    BY <1>4, TailIs
  <2>2. [sem EXCEPT ![o] = t] \in [Conn -> Seq(Caller)]
    BY <1>1
  <2> QED BY <1>2, <2>1, <2>2
<1> QED BY <1>2, <1>3, <1>4

LEMMA ProcessBase ==
    ASSUME CtlInv, NEW p \in Client, ProcessStep(p)
    PROVE  BaseType'
<1>1. Same /\ UNCHANGED <<backlog, ctlVars, reqVars, known, left, torn>>
  BY ProcessIs
<1>2. conns' \in Seq(ConnType) /\ Len(conns') <= MaxConn
  BY <1>1, GrownType DEF Same
<1>3. /\ psock \in [Client -> Conn \cup {0}]
      /\ pst \in [Client -> {"down", "connecting", "up", "silent", "stuck"}]
  BY DEF CtlInv, BaseType
<1>4. \/ UNCHANGED psock
      \/ psock' = [psock EXCEPT ![p] = 0]
  BY DEF ProcessStep, Serve, ServeClosed, SeeClose, Crash, FallSilent, Launch, procVars
<1>5. \/ UNCHANGED pst
      \/ \E s \in {"down", "connecting", "silent", "stuck"} :
           pst' = [pst EXCEPT ![p] = s]
  <2>1. CASE Serve(p)
    BY <2>1 DEF Serve, procVars
  <2>2. CASE ServeClosed(p)
    BY <2>2 DEF ServeClosed, procVars, AfterFailedSend
  <2>3. CASE SeeClose(p) \/ Crash(p) \/ FallSilent(p) \/ Launch(p)
    BY <2>3 DEF SeeClose, Crash, FallSilent, Launch
  <2> QED BY <2>1, <2>2, <2>3 DEF ProcessStep
<1>6. psock' \in [Client -> Conn \cup {0}]
  BY <1>3, <1>4
<1>7. pst' \in [Client -> {"down", "connecting", "up", "silent", "stuck"}]
  BY <1>3, <1>5
<1> QED BY <1>1, <1>2, <1>6, <1>7 DEF CtlInv, BaseType, ctlVars, reqVars

LEMMA ConnectBase ==
    ASSUME CtlInv, NEW p \in Client, Connect(p)
    PROVE  BaseType'
<1>1. PICK n : n = Len(conns) + 1
  OBVIOUS
<1>2. Same /\ n \in Conns'
  BY <1>1, ConnectIs DEF CtlInv
<1>3. conns' \in Seq(ConnType) /\ Len(conns') <= MaxConn /\ n \in Conn
  BY <1>2, GrownType DEF Same
<1>4. /\ psock' = [psock EXCEPT ![p] = n]
      /\ pst' = [pst EXCEPT ![p] = "up"]
      /\ backlog' = [backlog EXCEPT ![PortOf(p)] = Append(@, n)]
      /\ UNCHANGED <<ctlVars, reqVars, histVars>>
  BY <1>1 DEF Connect
<1>5. psock' \in [Client -> Conn \cup {0}]
  BY <1>3, <1>4 DEF CtlInv, BaseType
<1>6. pst' \in [Client -> {"down", "connecting", "up", "silent", "stuck"}]
  BY <1>4 DEF CtlInv, BaseType
<1>7. backlog' \in [Accept -> Seq(Conn)]
  <2>1. PICK a \in Accept : a = PortOf(p)
    BY DEF PortOf, Accept
  <2>2. PICK s \in Seq(Conn) : s = backlog[a]
    BY DEF CtlInv, BaseType
  <2>3. PICK t \in Seq(Conn) : t = Append(s, n)
    <3>1. PICK m \in Conn : m = n
      BY <1>3
    <3> QED BY <3>1, AppendIs
  <2>4. backlog' = [backlog EXCEPT ![a] = t]
    BY <1>4, <2>1, <2>2, <2>3
  <2> QED BY <2>4 DEF CtlInv, BaseType
<1> QED BY <1>3, <1>4, <1>5, <1>6, <1>7 DEF CtlInv, BaseType, ctlVars, reqVars, histVars

LEMMA DeliverBase ==
    ASSUME CtlInv, NEW c \in Conns, Deliver(c)
    PROVE  BaseType'
<1>1. Same /\ UNCHANGED <<backlog, ctlVars, reqVars, procVars, histVars>>
  BY DeliverSame
<1>2. conns' \in Seq(ConnType) /\ Len(conns') <= MaxConn
  BY <1>1, GrownType DEF Same
<1> QED BY <1>1, <1>2 DEF CtlInv, BaseType, ctlVars, reqVars, procVars, histVars

LEMMA RequestBase ==
    ASSUME CtlInv, NEW r \in Request, Same,
           UNCHANGED <<backlog, connOf, apc, acur, aold, procVars, known>>,
           NEW place \in {"queued", "exit", "wait", "done", "error"},
           rpc' = [rpc EXCEPT ![r] = place],
           sem' \in [Conn -> Seq(Caller)],
           procs' \in [Id -> Conn \cup {0}],
           robj' \in [Request -> Conn \cup {0}],
           got' \in [Request -> [on : Conn \cup {0}, data : Seq(PieceType)]],
           left' \subseteq Conn, torn' \subseteq Conn
    PROVE  BaseType'
<1>1. conns' \in Seq(ConnType) /\ Len(conns') <= MaxConn
  BY GrownType DEF Same
<1>2. rpc' \in [Request -> {"new", "queued", "exit", "wait", "done", "error"}]
  BY DEF CtlInv, BaseType
<1> QED BY <1>1, <1>2 DEF CtlInv, BaseType, procVars

LEMMA LookupBase ==
    ASSUME CtlInv, NEW r \in Request, Lookup(r)
    PROVE  BaseType'
<1>1. Same /\ UNCHANGED <<backlog, connOf, apc, acur, aold, got, procVars,
                          known, torn, faults>>
  BY LookupIs
<1>2. PICK i \in Id, kind \in {"ask", "exit"}, o \in known :
        /\ o = procs[i] /\ o \in Conn /\ InUse(o)
        /\ robj' = [robj EXCEPT ![r] = o]
        /\ procs' = IF kind = "exit" THEN [procs EXCEPT ![i] = 0] ELSE procs
        /\ left' = IF kind = "exit" THEN left \cup {o} ELSE left
        /\ \/ Free(o) /\ Send(r, o, kind, [sem EXCEPT ![o] = <<r>>])
           \/ /\ ~Free(o) /\ UNCHANGED conns
              /\ sem' = [sem EXCEPT ![o] = Append(@, r)]
              /\ rpc' = [rpc EXCEPT ![r] = IF kind = "exit" THEN "exit"
                                           ELSE "queued"]
  BY LookupIs
<1>3. r \in Caller
  BY DEF Caller
<1>4. sem' \in [Conn -> Seq(Caller)] /\ \E place \in {"queued", "exit", "wait", "error"} :
                                            rpc' = [rpc EXCEPT ![r] = place]
  <2>1. CASE Send(r, o, kind, [sem EXCEPT ![o] = <<r>>])
    <3>1. PICK h \in [Conn -> Seq(Caller)] : h = [sem EXCEPT ![o] = <<r>>]
      BY <1>2, <1>3, SemTypes
    <3>2. h[o] = <<r>>
      BY <1>2, <3>1 DEF CtlInv, BaseType
    <3>3. Tail(<<r>>) = << >> /\ << >> \in Seq(Caller)
      OBVIOUS
    <3>4. [h EXCEPT ![o] = Tail(@)] = [h EXCEPT ![o] = << >>]
      BY <3>2, <3>3
    <3>5. [h EXCEPT ![o] = << >>] \in [Conn -> Seq(Caller)]
      BY <3>3
    <3>6. sem' = h \/ sem' = [h EXCEPT ![o] = Tail(@)]
      BY <2>1, <3>1 DEF Send
    <3>7. rpc' = [rpc EXCEPT ![r] = "wait"] \/ rpc' = [rpc EXCEPT ![r] = "error"]
      BY <2>1 DEF Send, Finish
    <3> QED BY <3>4, <3>5, <3>6, <3>7
  <2>2. CASE /\ sem' = [sem EXCEPT ![o] = Append(@, r)]
             /\ rpc' = [rpc EXCEPT ![r] = IF kind = "exit" THEN "exit"
                                          ELSE "queued"]
    <3>1. sem' \in [Conn -> Seq(Caller)]
      BY <1>2, <1>3, <2>2, SemTypes
    <3> QED BY <2>2, <3>1
  <2> QED BY <1>2, <2>1, <2>2
<1>5. PICK place \in {"queued", "exit", "wait", "done", "error"} :
        rpc' = [rpc EXCEPT ![r] = place]
  BY <1>4
<1>6. procs' \in [Id -> Conn \cup {0}] /\ robj' \in [Request -> Conn \cup {0}]
  BY <1>2 DEF CtlInv, BaseType
<1>7. left' \subseteq Conn /\ torn' \subseteq Conn
  BY <1>1, <1>2 DEF CtlInv, BaseType
<1>8. got' \in [Request -> [on : Conn \cup {0}, data : Seq(PieceType)]]
  BY <1>1 DEF CtlInv, BaseType
<1> QED BY <1>1, <1>4, <1>5, <1>6, <1>7, <1>8, RequestBase

LEMMA SendLaterBase ==
    ASSUME CtlInv, NEW r \in Request, SendLater(r)
    PROVE  BaseType'
<1>1. Same /\ UNCHANGED <<backlog, procs, connOf, apc, acur, aold, robj, got,
                          procVars, histVars>>
  BY SendLaterIs
<1>2. rpc[r] \in Active
  BY DEF SendLater, Active
<1>3. PICK o \in Conn : o = robj[r] /\ sem[o] # << >>
  BY <1>2, ActiveInUse
<1>4. PICK kind \in {"ask", "exit"} : Send(r, o, kind, sem)
  BY <1>3 DEF SendLater
<1>5. sem' = sem \/ sem' = [sem EXCEPT ![o] = Tail(@)]
  BY <1>4 DEF Send
<1>6. sem' \in [Conn -> Seq(Caller)]
  <2>1. sem \in [Conn -> Seq(Caller)]
    BY DEF CtlInv, BaseType
  <2>2. [sem EXCEPT ![o] = Tail(@)] \in [Conn -> Seq(Caller)]
    BY <1>3, SemTypes
  <2> QED BY <1>5, <2>1, <2>2
<1>7. PICK place \in {"queued", "exit", "wait", "done", "error"} :
        rpc' = [rpc EXCEPT ![r] = place]
  <2>1. rpc' = [rpc EXCEPT ![r] = "wait"] \/ rpc' = [rpc EXCEPT ![r] = "error"]
    BY <1>4 DEF Send, Finish
  <2> QED BY <2>1
<1>8. /\ procs' \in [Id -> Conn \cup {0}] /\ robj' \in [Request -> Conn \cup {0}]
      /\ got' \in [Request -> [on : Conn \cup {0}, data : Seq(PieceType)]]
      /\ left' \subseteq Conn /\ torn' \subseteq Conn
      /\ UNCHANGED <<backlog, connOf, apc, acur, aold, procVars, known>>
  BY <1>1 DEF CtlInv, BaseType, histVars
<1> QED BY <1>1, <1>6, <1>7, <1>8, RequestBase

LEMMA ReceiveBase ==
    ASSUME CtlInv, NEW r \in Request, Receive(r) \/ ReceiveNothing(r)
    PROVE  BaseType'
<1>1. rpc[r] = "wait" /\ rpc[r] \in Active
  BY DEF Receive, ReceiveNothing, Active
<1>2. PICK o \in Conn : o = robj[r] /\ sem[o] # << >> /\ InUse(o)
  BY <1>1, ActiveInUse
<1>3. PICK c \in Conns : c = connOf[o] /\ c \in Conn
  BY <1>2, InUseKnown
<1>4. sem' = [sem EXCEPT ![o] = Tail(@)]
  BY <1>2 DEF Receive, ReceiveNothing, Released
<1>5. sem' \in [Conn -> Seq(Caller)]
  BY <1>2, <1>4, SemTypes
<1>6. PICK place \in {"queued", "exit", "wait", "done", "error"} :
        rpc' = [rpc EXCEPT ![r] = place]
  BY DEF Receive, ReceiveNothing, Finish
<1>7. Same /\ UNCHANGED <<backlog, procs, connOf, apc, acur, aold, robj,
                          procVars, known, left>>
  BY ReceiveIs, NothingIs DEF histVars
<1>8. got' \in [Request -> [on : Conn \cup {0}, data : Seq(PieceType)]]
  <2>1. PICK d \in Seq(PieceType) : d = conns[c].data
    BY ConnSeqs
  <2>2. got' = got \/ got' = [got EXCEPT ![r] = [on |-> c, data |-> d]]
    BY <1>2, <1>3, <2>1 DEF Receive, ReceiveNothing
  <2>3. PICK g \in [on : Conn \cup {0}, data : Seq(PieceType)] :
          g = [on |-> c, data |-> d]
    BY <1>3
  <2>4. got' = got \/ got' = [got EXCEPT ![r] = g]
    BY <2>2, <2>3
  <2> QED BY <2>4 DEF CtlInv, BaseType
<1>9. torn' \subseteq Conn
  <2>1. torn' = torn \/ torn' = torn \cup {c}
    BY <1>2, <1>3 DEF Receive, ReceiveNothing, histVars
  <2> QED BY <1>3, <2>1 DEF CtlInv, BaseType
<1>10. /\ procs' \in [Id -> Conn \cup {0}] /\ robj' \in [Request -> Conn \cup {0}]
       /\ left' \subseteq Conn
       /\ UNCHANGED <<backlog, connOf, apc, acur, aold, procVars, known>>
  BY <1>7 DEF CtlInv, BaseType
<1> QED BY <1>5, <1>6, <1>7, <1>8, <1>9, <1>10, RequestBase

LEMMA EnteredBase ==
    ASSUME CtlInv, NEW a \in Accept, NEW c, NEW old, Entered(a, c, old),
           backlog' \in [Accept -> Seq(Conn)], sem' \in [Conn -> Seq(Caller)],
           aold' \in [Accept -> Conn \cup {0}]
    PROVE  BaseType'
<1>1. /\ c \in Conn /\ conns[c].who \in Client /\ IdOf[conns[c].who] \in Id
      /\ known' = known \cup {c}
      /\ apc' = [apc EXCEPT ![a] = "accept"]
      /\ acur' = [acur EXCEPT ![a] = 0]
      /\ \/ /\ old # 0 /\ conns[c].who = Primary /\ procs' = procs
            /\ connOf' = [connOf EXCEPT ![old] = c]
         \/ /\ procs' = [procs EXCEPT ![IdOf[conns[c].who]] = c]
            /\ connOf' = connOf
  BY EnterIs
<1>2. Grown /\ UNCHANGED <<reqVars, procVars, left, torn>>
  BY DEF Entered, Turned
<1>3. conns' \in Seq(ConnType) /\ Len(conns') <= MaxConn
  BY <1>2, GrownType
<1>4. /\ procs \in [Id -> Conn \cup {0}] /\ connOf \in [Conn -> Conn]
      /\ apc \in [Accept -> {"accept", "ident", "queued", "dead"}]
      /\ acur \in [Accept -> Conn \cup {0}] /\ known \subseteq Conn
  BY DEF CtlInv, BaseType
<1>5. procs' \in [Id -> Conn \cup {0}] /\ connOf' \in [Conn -> Conn]
  BY <1>1, <1>4
<1>6. /\ apc' \in [Accept -> {"accept", "ident", "queued", "dead"}]
      /\ acur' \in [Accept -> Conn \cup {0}] /\ known' \subseteq Conn
  BY <1>1, <1>4
<1> QED BY <1>2, <1>3, <1>5, <1>6 DEF CtlInv, BaseType, reqVars, procVars

LEMMA QueuedBase ==
    ASSUME CtlInv, NEW a \in Accept, NEW c, Queued(a, c),
           backlog' \in [Accept -> Seq(Conn)]
    PROVE  BaseType'
<1>1. /\ Grown /\ c \in Conns
      /\ apc' = [apc EXCEPT ![a] = "queued"]
      /\ acur' = [acur EXCEPT ![a] = c]
      /\ UNCHANGED <<procs, connOf, known, reqVars, procVars, left, torn>>
  BY DEF Queued, Turned, Waiting
<1>2. c \in Conn
  BY <1>1, ConnRange DEF CtlInv
<1>3. PICK old \in Conn : /\ sem' = [sem EXCEPT ![old] = Append(@, a)]
                          /\ aold' = [aold EXCEPT ![a] = old]
  BY DEF Queued
<1>4. a \in Caller
  BY DEF Caller
<1>5. sem' \in [Conn -> Seq(Caller)]
  BY <1>3, <1>4, SemTypes
<1>6. aold' \in [Accept -> Conn \cup {0}] /\ acur' \in [Accept -> Conn \cup {0}]
  BY <1>1, <1>2, <1>3 DEF CtlInv, BaseType
<1>7. apc' \in [Accept -> {"accept", "ident", "queued", "dead"}]
  BY <1>1 DEF CtlInv, BaseType
<1>8. conns' \in Seq(ConnType) /\ Len(conns') <= MaxConn
  BY <1>1, GrownType
<1> QED BY <1>1, <1>5, <1>6, <1>7, <1>8 DEF CtlInv, BaseType, reqVars, procVars

LEMMA DroppedBase ==
    ASSUME CtlInv, NEW c \in Conns, Dropped(c)
    PROVE  BaseType'
<1>1. /\ Grown
      /\ apc' = [apc EXCEPT !["sec"] = "accept"]
      /\ acur' = [acur EXCEPT !["sec"] = 0]
      /\ UNCHANGED <<procs, connOf, sem, aold, known, backlog, reqVars,
                     procVars, left, torn>>
  BY DEF Dropped, Back
<1>2. /\ apc' \in [Accept -> {"accept", "ident", "queued", "dead"}]
      /\ acur' \in [Accept -> Conn \cup {0}]
  BY <1>1 DEF CtlInv, BaseType
<1>3. conns' \in Seq(ConnType) /\ Len(conns') <= MaxConn
  BY <1>1, GrownType
<1> QED BY <1>1, <1>2, <1>3 DEF CtlInv, BaseType, reqVars, procVars

LEMMA BacklogTail ==
    ASSUME CtlInv, NEW a \in Accept, backlog[a] # << >>
    PROVE  [backlog EXCEPT ![a] = Tail(@)] \in [Accept -> Seq(Conn)]
<1>1. backlog \in [Accept -> Seq(Conn)]
  BY DEF CtlInv, BaseType
<1>2. PICK s \in Seq(Conn) : s = backlog[a]
  BY <1>1
<1>3. PICK t \in Seq(Conn) : t = Tail(s)
  BY <1>2, TailIs
<1>4. [backlog EXCEPT ![a] = t] \in [Accept -> Seq(Conn)]
  BY <1>1
<1> QED BY <1>2, <1>3, <1>4

LEMMA AcceptPrimaryBase ==
    ASSUME CtlInv, AcceptPrimary
    PROVE  BaseType'
<1>1. "pri" \in Accept /\ backlog["pri"] # << >>
  BY DEF Accept, AcceptPrimary
<1>2. PICK c \in Conns :
        /\ backlog' = [backlog EXCEPT !["pri"] = Tail(@)]
        /\ \/ UNCHANGED <<sem, aold>> /\ \E old : Entered("pri", c, old)
           \/ Queued("pri", c)
  BY AcceptPrimaryIs
<1>3. backlog' \in [Accept -> Seq(Conn)]
  BY <1>1, <1>2, BacklogTail
<1>4. CASE UNCHANGED <<sem, aold>> /\ \E old : Entered("pri", c, old)
  <2>1. sem' \in [Conn -> Seq(Caller)] /\ aold' \in [Accept -> Conn \cup {0}]
    BY <1>4 DEF CtlInv, BaseType
  <2>2. PICK old : Entered("pri", c, old)
    BY <1>4
  <2> QED BY <1>1, <1>3, <2>1, <2>2, EnteredBase
<1>5. CASE Queued("pri", c)
  BY <1>1, <1>3, <1>5, QueuedBase
<1> QED BY <1>2, <1>4, <1>5

LEMMA AcceptSecondaryBase ==
    ASSUME CtlInv, AcceptSecondary
    PROVE  BaseType'
<1>1. "sec" \in Accept /\ backlog["sec"] # << >>
  BY DEF Accept, AcceptSecondary
<1>2. PICK c \in Conns :
        /\ Same
        /\ acur' = [acur EXCEPT !["sec"] = c]
        /\ apc' = [apc EXCEPT !["sec"] = "ident"]
        /\ backlog' = [backlog EXCEPT !["sec"] = Tail(@)]
        /\ UNCHANGED <<procs, connOf, sem, aold, reqVars, procVars, histVars>>
  <2>1. PICK c \in Conns :
          /\ Waiting("sec", c) /\ OthersWait("sec", c) /\ apc["sec"] = "accept"
          /\ Same /\ conns' = SendTo(c, "sec", "ask")
          /\ acur' = [acur EXCEPT !["sec"] = c]
          /\ apc' = [apc EXCEPT !["sec"] = "ident"]
          /\ backlog' = [backlog EXCEPT !["sec"] = Tail(@)]
          /\ UNCHANGED <<procs, connOf, sem, aold, reqVars, procVars, histVars>>
    BY AcceptSecondaryIs
  <2> QED BY <2>1
<1>3. backlog' \in [Accept -> Seq(Conn)]
  BY <1>1, <1>2, BacklogTail
<1>4. c \in Conn
  BY <1>2, ConnRange DEF CtlInv
<1>5. /\ apc' \in [Accept -> {"accept", "ident", "queued", "dead"}]
      /\ acur' \in [Accept -> Conn \cup {0}]
  BY <1>2, <1>4 DEF CtlInv, BaseType
<1>6. conns' \in Seq(ConnType) /\ Len(conns') <= MaxConn
  BY <1>2, GrownType DEF Same
<1> QED BY <1>2, <1>3, <1>5, <1>6 DEF CtlInv, BaseType, reqVars, procVars, histVars

LEMMA IdentifyBase ==
    ASSUME CtlInv, Identify
    PROVE  BaseType'
<1>1. "sec" \in Accept
  BY DEF Accept
<1>2. PICK c \in Conns :
        /\ UNCHANGED backlog
        /\ \/ Dropped(c)
           \/ UNCHANGED <<sem, aold>> /\ \E old : Entered("sec", c, old)
           \/ Queued("sec", c)
  <2>1. PICK c \in Conns :
          /\ c = acur["sec"] /\ Waiting("sec", c) /\ apc["sec"] = "ident"
          /\ OthersWait("sec", c) /\ conns[c].data # << >> /\ UNCHANGED backlog
          /\ \/ Dropped(c)
             \/ UNCHANGED <<sem, aold>> /\ \E old : Entered("sec", c, old)
             \/ Queued("sec", c)
    BY IdentifyIs
  <2> QED BY <2>1
<1>3. backlog' \in [Accept -> Seq(Conn)]
  BY <1>2 DEF CtlInv, BaseType
<1>4. CASE UNCHANGED <<sem, aold>> /\ \E old : Entered("sec", c, old)
  <2>1. sem' \in [Conn -> Seq(Caller)] /\ aold' \in [Accept -> Conn \cup {0}]
    BY <1>4 DEF CtlInv, BaseType
  <2>2. PICK old : Entered("sec", c, old)
    BY <1>4
  <2> QED BY <1>1, <1>3, <2>1, <2>2, EnteredBase
<1>5. CASE Queued("sec", c)
  BY <1>1, <1>3, <1>5, QueuedBase
<1>6. CASE Dropped(c)
  BY <1>6, DroppedBase
<1> QED BY <1>2, <1>4, <1>5, <1>6

LEMMA IdentifyFailsBase ==
    ASSUME CtlInv, IdentifyFails
    PROVE  BaseType'
<1>1. PICK c \in Conns :
        /\ c = acur["sec"] /\ Waiting("sec", c) /\ apc["sec"] = "ident"
        /\ OthersWait("sec", c) /\ Ended(c) /\ UNCHANGED backlog
        /\ \/ Dropped(c)
           \/ /\ apc' = [apc EXCEPT !["sec"] = "dead"]
              /\ Same /\ UNCHANGED <<conns, acur, procs, connOf, sem, aold,
                             reqVars, procVars, histVars>>
  BY IdentifyFailsIs
<1>2. CASE Dropped(c)
  BY <1>2, DroppedBase
<1>3. CASE /\ apc' = [apc EXCEPT !["sec"] = "dead"]
           /\ UNCHANGED <<conns, acur, procs, connOf, sem, aold, reqVars,
                          procVars, histVars>>
  <2>1. apc' \in [Accept -> {"accept", "ident", "queued", "dead"}]
    BY <1>3 DEF CtlInv, BaseType
  <2> QED BY <1>1, <1>3, <2>1 DEF CtlInv, BaseType, reqVars, procVars, histVars
<1> QED BY <1>1, <1>2, <1>3

LEMMA InstallLaterBase ==
    ASSUME CtlInv, NEW a \in Accept, InstallLater(a)
    PROVE  BaseType'
<1>1. /\ Entered(a, acur[a], aold[a])
      /\ aold[a] \in Conn /\ sem[aold[a]] # << >>
      /\ sem' = [sem EXCEPT ![aold[a]] = Tail(@)]
      /\ aold' = [aold EXCEPT ![a] = 0]
      /\ UNCHANGED backlog
  BY InstallLaterIs
<1>2. sem' \in [Conn -> Seq(Caller)]
  BY <1>1, SemTypes
<1>3. backlog' \in [Accept -> Seq(Conn)] /\ aold' \in [Accept -> Conn \cup {0}]
  BY <1>1 DEF CtlInv, BaseType
<1> QED BY <1>1, <1>2, <1>3, EnteredBase

LEMMA RestartBase ==
    ASSUME CtlInv, Restart
    PROVE  BaseType'
<1>1. Grown
  BY RestartIs
<1>2. conns' \in Seq(ConnType) /\ Len(conns') <= MaxConn
  BY <1>1, GrownType
<1>3. /\ backlog' = [a \in Accept |-> << >>]
      /\ procs' = [i \in Id |-> 0]
      /\ connOf' = [o \in Conn |-> o]
      /\ sem' = [o \in Conn |-> << >>]
      /\ apc' = [a \in Accept |-> "accept"]
      /\ acur' = [a \in Accept |-> 0]
      /\ aold' = [a \in Accept |-> 0]
      /\ UNCHANGED <<robj, got, procVars, known, left, torn>>
  BY DEF Restart
<1>4. rpc' \in [Request -> {"new", "queued", "exit", "wait", "done", "error"}]
  BY DEF Restart, CtlInv, BaseType
<1>5. << >> \in Seq(Conn) /\ << >> \in Seq(Caller)
  OBVIOUS
<1>6. /\ backlog' \in [Accept -> Seq(Conn)] /\ sem' \in [Conn -> Seq(Caller)]
  BY <1>3, <1>5
<1>7. /\ procs' \in [Id -> Conn \cup {0}] /\ connOf' \in [Conn -> Conn]
      /\ apc' \in [Accept -> {"accept", "ident", "queued", "dead"}]
      /\ acur' \in [Accept -> Conn \cup {0}] /\ aold' \in [Accept -> Conn \cup {0}]
  BY <1>3
<1> QED BY <1>2, <1>3, <1>4, <1>6, <1>7 DEF CtlInv, BaseType, procVars

-----------------------------------------------------------------------------
(* All of the invariant, action by action.                                  *)
LEMMA QuietInv ==
    ASSUME CtlInv, Same,
           UNCHANGED <<procs, connOf, sem, aold, rpc, robj, known>>,
           left \subseteq left',
           \A a \in Accept : \/ apc'[a] = apc[a] /\ acur'[a] = acur[a]
                             \/ apc[a] # "queued" /\ apc'[a] # "queued"
    PROVE  TableInv' /\ OwnConnInv' /\ SemInv'
<1>1. TableInv'
  BY TableQuiet DEF Same
<1>2. \A o \in Conn : InUse(o)' => InUse(o)
  BY DEF InUse
<1>3. OwnConnInv'
  BY <1>2, OwnQuiet
<1>4. \A a \in Accept : /\ apc'[a] = "queued" <=> apc[a] = "queued"
                        /\ apc[a] = "queued" => aold'[a] = aold[a]
  OBVIOUS
<1> QED BY <1>1, <1>3, <1>4, SemQuiet

LEMMA ProcessInv ==
    ASSUME CtlInv, NEW p \in Client, ProcessStep(p)
    PROVE  CtlInv'
<1>1. Same /\ UNCHANGED <<backlog, ctlVars, reqVars, known, left, torn>>
  BY ProcessIs
<1>2. TableInv' /\ OwnConnInv' /\ SemInv'
  BY <1>1, QuietInv DEF ctlVars, reqVars
<1> QED BY <1>2, ProcessBase, ProcessPlace, ProcessMsg DEF CtlInv

LEMMA ConnectInv ==
    ASSUME CtlInv, NEW p \in Client, Connect(p)
    PROVE  CtlInv'
<1>1. Same
  BY ConnectIs DEF CtlInv
<1>2. UNCHANGED <<ctlVars, reqVars, histVars>>
  BY DEF Connect
<1>3. TableInv' /\ OwnConnInv' /\ SemInv'
  BY <1>1, <1>2, QuietInv DEF ctlVars, reqVars, histVars
<1> QED BY <1>3, ConnectBase, ConnectPlace, ConnectMsg DEF CtlInv

LEMMA DeliverInv ==
    ASSUME CtlInv, NEW c \in Conns, Deliver(c)
    PROVE  CtlInv'
<1>1. Same /\ UNCHANGED <<backlog, ctlVars, reqVars, procVars, histVars>>
  BY DeliverSame
<1>2. TableInv' /\ OwnConnInv' /\ SemInv'
  BY <1>1, QuietInv DEF ctlVars, reqVars, histVars
<1> QED BY <1>2, DeliverBase, DeliverPlace, DeliverMsg DEF CtlInv

(* No object gets into use that was not. *)
LEMMA UsedBefore ==
    ASSUME CtlInv, NEW o \in Conn, InUse(o),
           \A u \in Conn : u # o => sem'[u] = sem[u],
           \A i \in Id : procs'[i] = procs[i] \/ procs'[i] = 0
    PROVE  \A u \in Conn : InUse(u)' => InUse(u)
<1>1. ASSUME NEW u \in Conn, InUse(u)', u # o
      PROVE  InUse(u)
  <2>1. u # 0
    BY BoundAssumption DEF Conn
  <2> QED BY <1>1, <2>1 DEF InUse
<1> QED BY <1>1

LEMMA LookupInv ==
    ASSUME CtlInv, NEW r \in Request, Lookup(r)
    PROVE  CtlInv'
<1>1. Same /\ UNCHANGED <<connOf, known>>
  BY LookupIs
<1>2. PICK i \in Id, kind \in {"ask", "exit"}, o \in known :
        /\ o = procs[i] /\ o \in Conn /\ InUse(o)
        /\ robj' = [robj EXCEPT ![r] = o]
        /\ procs' = IF kind = "exit" THEN [procs EXCEPT ![i] = 0] ELSE procs
        /\ left' = IF kind = "exit" THEN left \cup {o} ELSE left
        /\ \/ Free(o) /\ Send(r, o, kind, [sem EXCEPT ![o] = <<r>>])
           \/ /\ ~Free(o) /\ UNCHANGED conns
              /\ sem' = [sem EXCEPT ![o] = Append(@, r)]
              /\ rpc' = [rpc EXCEPT ![r] = IF kind = "exit" THEN "exit"
                                           ELSE "queued"]
  BY LookupIs
<1>3. \A u \in Conn : u # o => sem'[u] = sem[u]
  <2>1. sem \in [Conn -> Seq(Caller)]
    BY DEF CtlInv, BaseType
  <2>2. CASE Send(r, o, kind, [sem EXCEPT ![o] = <<r>>])
    BY <1>2, <2>1, <2>2 DEF Send
  <2>3. CASE sem' = [sem EXCEPT ![o] = Append(@, r)]
    BY <1>2, <2>1, <2>3
  <2> QED BY <1>2, <2>2, <2>3
<1>4. \A j \in Id : procs'[j] = procs[j] \/ procs'[j] = 0
  BY <1>2 DEF CtlInv, BaseType
<1>5. \A u \in Conn : InUse(u)' => InUse(u)
  BY <1>2, <1>3, <1>4, UsedBefore
<1>6. OwnConnInv'
  BY <1>1, <1>5, OwnQuiet
<1> QED BY <1>6, LookupBase, RequestPlace, LookupTable, LookupSem, LookupMsg
        DEF CtlInv

LEMMA RequestInv ==
    ASSUME CtlInv, NEW r \in Request, RequestStep(r)
    PROVE  CtlInv'
<1>1. /\ Same
      /\ UNCHANGED <<backlog, procs, connOf, apc, acur, aold, robj, known, left>>
  <2>1. CASE SendLater(r)
    BY <2>1, SendLaterIs DEF histVars
  <2>2. CASE Receive(r)
    BY <2>2, ReceiveIs
  <2>3. CASE ReceiveNothing(r)
    BY <2>3, NothingIs DEF histVars
  <2> QED BY <2>1, <2>2, <2>3 DEF RequestStep
<1>2. rpc[r] \in Active
  BY DEF RequestStep, SendLater, Receive, ReceiveNothing, Active
<1>3. PICK o \in Conn : o = robj[r] /\ InUse(o)
  BY <1>2, ActiveInUse
<1>4. \A u \in Conn : u # o => sem'[u] = sem[u]
  <2>1. sem \in [Conn -> Seq(Caller)]
    BY DEF CtlInv, BaseType
  <2>2. sem' = sem \/ sem' = [sem EXCEPT ![o] = Tail(@)]
    BY <1>3 DEF RequestStep, SendLater, Send, Receive, ReceiveNothing, Released
  <2> QED BY <2>1, <2>2
<1>5. \A u \in Conn : InUse(u)' => InUse(u)
  BY <1>1, <1>3, <1>4, UsedBefore
<1>6. OwnConnInv'
  BY <1>1, <1>5, OwnQuiet
<1>7. TableInv'
  BY <1>1, TableQuiet DEF Same
<1>8. BaseType'
  BY SendLaterBase, ReceiveBase DEF RequestStep
<1>9. SemInv'
  BY SendLaterSem, ReceiveSem DEF RequestStep
<1>10. MsgInv'
  BY SendLaterMsg, ReceiveMsg, NothingMsg DEF RequestStep
<1> QED BY <1>6, <1>7, <1>8, <1>9, <1>10, RequestPlace DEF CtlInv

(* An accepting thread that has its process at once, or queues. *)
LEMMA EnteredInv ==
    ASSUME CtlInv, NEW a \in Accept, NEW c, NEW old, Entered(a, c, old),
           UNCHANGED <<sem, aold>>, apc[a] # "queued",
           a = "sec" /\ apc["sec"] = "ident" => acur["sec"] = c
    PROVE  TableInv' /\ OwnConnInv' /\ SemInv' /\ MsgInv'
<1>1. TableInv' /\ OwnConnInv'
  BY EnteredTable, EnteredOwn
<1>2. apc' = [apc EXCEPT ![a] = "accept"]
  BY DEF Entered, Enter, Back
<1>3. \A b \in Accept : apc'[b] = "queued" <=> apc[b] = "queued"
  BY <1>2 DEF CtlInv, BaseType
<1>4. SemInv'
  BY <1>3, SemQuiet DEF Entered, reqVars
<1> QED BY <1>1, <1>4, EnteredMsg

LEMMA QueuedInv ==
    ASSUME CtlInv, NEW a \in Accept, NEW c, Queued(a, c), apc[a] # "queued",
           a = "sec" /\ apc["sec"] = "ident" => acur["sec"] = c
    PROVE  TableInv' /\ OwnConnInv' /\ SemInv' /\ MsgInv'
<1>1. PICK old \in Conn : InUse(old) /\ sem' = [sem EXCEPT ![old] = Append(@, a)]
  BY DEF Queued
<1>2. UNCHANGED <<procs, connOf, known>>
  BY DEF Queued
<1>3. \A u \in Conn : u # old => sem'[u] = sem[u]
  BY <1>1 DEF CtlInv, BaseType
<1>4. \A u \in Conn : InUse(u)' => InUse(u)
  BY <1>1, <1>2, <1>3, UsedBefore
<1>5. OwnConnInv'
  BY <1>2, <1>4, OwnQuiet
<1> QED BY <1>5, QueuedTable, QueuedSem, QueuedMsg

LEMMA DroppedInv ==
    ASSUME CtlInv, NEW c \in Conns, c = acur["sec"], Dropped(c),
           apc["sec"] = "ident"
    PROVE  TableInv' /\ OwnConnInv' /\ SemInv' /\ MsgInv'
<1>1. /\ apc' = [apc EXCEPT !["sec"] = "accept"]
      /\ acur' = [acur EXCEPT !["sec"] = 0]
      /\ Grown
      /\ UNCHANGED <<procs, connOf, sem, aold, known, reqVars, left>>
  BY DEF Dropped, Back
<1>2. \A a \in Accept : \/ apc'[a] = apc[a] /\ acur'[a] = acur[a]
                        \/ apc[a] # "queued" /\ apc'[a] # "queued"
  BY <1>1 DEF CtlInv, BaseType
<1>3. TableInv'
  BY <1>1, <1>2, TableQuiet
<1>4. \A o \in Conn : InUse(o)' => InUse(o)
  BY <1>1 DEF InUse
<1>5. OwnConnInv'
  BY <1>1, <1>4, OwnQuiet
<1>6. SemInv'
  <2>1. \A a \in Accept : /\ apc'[a] = "queued" <=> apc[a] = "queued"
                          /\ apc[a] = "queued" => aold'[a] = aold[a]
    BY <1>1, <1>2
  <2> QED BY <1>1, <2>1, SemQuiet DEF reqVars
<1> QED BY <1>3, <1>5, <1>6, DroppedMsg

LEMMA AcceptPrimaryInv ==
    ASSUME CtlInv, AcceptPrimary
    PROVE  CtlInv'
<1>1. "pri" \in Accept
  BY DEF Accept
<1>2. PICK c \in Conns :
        /\ apc["pri"] = "accept"
        /\ \/ UNCHANGED <<sem, aold>> /\ \E old : Entered("pri", c, old)
           \/ Queued("pri", c)
  BY AcceptPrimaryIs
<1>3. apc["pri"] # "queued"
  BY <1>2
<1>4. CASE UNCHANGED <<sem, aold>> /\ \E old : Entered("pri", c, old)
  <2>1. PICK old : Entered("pri", c, old)
    BY <1>4
  <2>2. TableInv' /\ OwnConnInv' /\ SemInv' /\ MsgInv'
    BY <1>1, <1>3, <1>4, <2>1, EnteredInv
  <2> QED BY <2>2, AcceptPrimaryBase, AcceptPrimaryPlace DEF CtlInv
<1>5. CASE Queued("pri", c)
  <2>1. TableInv' /\ OwnConnInv' /\ SemInv' /\ MsgInv'
    BY <1>1, <1>3, <1>5, QueuedInv
  <2> QED BY <2>1, AcceptPrimaryBase, AcceptPrimaryPlace DEF CtlInv
<1> QED BY <1>2, <1>4, <1>5

LEMMA AcceptSecondaryInv ==
    ASSUME CtlInv, AcceptSecondary
    PROVE  CtlInv'
<1>1. PICK c \in Conns :
        /\ Waiting("sec", c) /\ OthersWait("sec", c) /\ apc["sec"] = "accept"
        /\ Same /\ conns' = SendTo(c, "sec", "ask")
        /\ acur' = [acur EXCEPT !["sec"] = c]
        /\ apc' = [apc EXCEPT !["sec"] = "ident"]
        /\ backlog' = [backlog EXCEPT !["sec"] = Tail(@)]
        /\ UNCHANGED <<procs, connOf, sem, aold, reqVars, procVars, histVars>>
  BY AcceptSecondaryIs
<1>2. \A a \in Accept : \/ apc'[a] = apc[a] /\ acur'[a] = acur[a]
                        \/ apc[a] # "queued" /\ apc'[a] # "queued"
  BY <1>1 DEF CtlInv, BaseType
<1>3. TableInv' /\ OwnConnInv' /\ SemInv'
  BY <1>1, <1>2, QuietInv DEF reqVars, histVars
<1> QED BY <1>3, AcceptSecondaryBase, AcceptSecondaryPlace, AcceptSecondaryMsg
        DEF CtlInv

LEMMA IdentifyInv ==
    ASSUME CtlInv, Identify
    PROVE  CtlInv'
<1>1. "sec" \in Accept
  BY DEF Accept
<1>2. PICK c \in Conns :
        /\ c = acur["sec"] /\ Waiting("sec", c) /\ apc["sec"] = "ident"
        /\ OthersWait("sec", c) /\ conns[c].data # << >> /\ UNCHANGED backlog
        /\ \/ Dropped(c)
           \/ UNCHANGED <<sem, aold>> /\ \E old : Entered("sec", c, old)
           \/ Queued("sec", c)
  BY IdentifyIs
<1>3. apc["sec"] # "queued"
  BY <1>2
<1>4. TableInv' /\ OwnConnInv' /\ SemInv' /\ MsgInv'
  <2>1. CASE UNCHANGED <<sem, aold>> /\ \E old : Entered("sec", c, old)
    <3>1. PICK old : Entered("sec", c, old)
      BY <2>1
    <3> QED BY <1>1, <1>2, <1>3, <2>1, <3>1, EnteredInv
  <2>2. CASE Queued("sec", c)
    BY <1>1, <1>2, <1>3, <2>2, QueuedInv
  <2>3. CASE Dropped(c)
    BY <1>2, <2>3, DroppedInv
  <2> QED BY <1>2, <2>1, <2>2, <2>3
<1> QED BY <1>4, IdentifyBase, IdentifyPlace DEF CtlInv

LEMMA IdentifyFailsInv ==
    ASSUME CtlInv, IdentifyFails
    PROVE  CtlInv'
<1>1. PICK c \in Conns :
        /\ c = acur["sec"] /\ Waiting("sec", c) /\ apc["sec"] = "ident"
        /\ OthersWait("sec", c) /\ Ended(c) /\ UNCHANGED backlog
        /\ \/ Dropped(c)
           \/ /\ apc' = [apc EXCEPT !["sec"] = "dead"]
              /\ Same /\ UNCHANGED <<conns, acur, procs, connOf, sem, aold,
                             reqVars, procVars, histVars>>
  BY IdentifyFailsIs
<1>2. TableInv' /\ OwnConnInv' /\ SemInv'
  <2>1. CASE Dropped(c)
    BY <1>1, <2>1, DroppedInv
  <2>2. CASE /\ apc' = [apc EXCEPT !["sec"] = "dead"]
             /\ Same /\ UNCHANGED <<conns, acur, procs, connOf, sem, aold,
                                    reqVars, procVars, histVars>>
    <3>1. \A a \in Accept : \/ apc'[a] = apc[a] /\ acur'[a] = acur[a]
                            \/ apc[a] # "queued" /\ apc'[a] # "queued"
      BY <1>1, <2>2 DEF CtlInv, BaseType
    <3> QED BY <2>2, <3>1, QuietInv DEF reqVars, histVars
  <2> QED BY <1>1, <2>1, <2>2
<1> QED BY <1>2, IdentifyFailsBase, IdentifyFailsPlace, IdentifyFailsMsg DEF CtlInv

LEMMA InstallLaterInv ==
    ASSUME CtlInv, NEW a \in Accept, InstallLater(a)
    PROVE  CtlInv'
<1>1. /\ Entered(a, acur[a], aold[a])
      /\ aold[a] \in Conn /\ sem[aold[a]] # << >>
      /\ sem' = [sem EXCEPT ![aold[a]] = Tail(@)]
      /\ aold' = [aold EXCEPT ![a] = 0]
      /\ apc[a] = "queued"
  BY InstallLaterIs
<1>2. \A b \in Accept : b # a => aold'[b] = aold[b]
  BY <1>1 DEF CtlInv, BaseType
<1>3. \A o \in Conn : sem'[o] # << >> => sem[o] # << >>
  BY <1>1 DEF CtlInv, BaseType
<1>4. a = "sec" /\ apc["sec"] = "ident" => acur["sec"] = acur[a]
  BY <1>1
<1>5. TableInv' /\ OwnConnInv' /\ MsgInv'
  BY <1>1, <1>2, <1>3, <1>4, EnteredTable, EnteredOwn, EnteredMsg
<1> QED BY <1>5, InstallLaterBase, InstallLaterPlace, InstallLaterSem DEF CtlInv

LEMMA RestartInv ==
    ASSUME CtlInv, Restart
    PROVE  CtlInv'
  BY RestartBase, RestartPlace, RestartTable, RestartOwn, RestartSem, RestartMsg
  DEF CtlInv

LEMMA IdleInv ==
    ASSUME CtlInv, UNCHANGED vars
    PROVE  CtlInv'
<1>1. UNCHANGED <<conns, backlog, ctlVars, reqVars, procVars, histVars>>
  BY DEF vars
<1>2. Same
  BY <1>1, UnchangedSame DEF CtlInv
<1>3. TableInv' /\ OwnConnInv' /\ SemInv'
  BY <1>1, <1>2, QuietInv DEF ctlVars, reqVars, histVars
<1>4. PlaceInv'
  <2>1. \A p \in Client : pst'[p] \in {"up", "silent"} => psock'[p] \in Conns
    BY <1>1 DEF CtlInv, PlaceInv, procVars
  <2> QED BY <1>1, <1>2, <2>1, PlaceQuiet DEF ctlVars, histVars
<1>5. MsgInv'
  BY <1>1, UsingSame, MsgSame DEF ctlVars, reqVars, histVars
<1>6. BaseType'
  BY <1>1 DEF CtlInv, BaseType, ctlVars, reqVars, procVars, histVars
<1> QED BY <1>3, <1>4, <1>5, <1>6 DEF CtlInv

LEMMA InitInv ==
    ASSUME Init
    PROVE  CtlInv
<1>1. conns = << >> /\ Conns = {}
  BY DEF Init, Conns
<1>2. BaseType
  <2>1. << >> \in Seq(ConnType) /\ Len(<< >>) = 0
    OBVIOUS
  <2>2. << >> \in Seq(Conn) /\ << >> \in Seq(Caller) /\ << >> \in Seq(PieceType)
    OBVIOUS
  <2>3. /\ backlog \in [Accept -> Seq(Conn)] /\ sem \in [Conn -> Seq(Caller)]
        /\ got \in [Request -> [on : Conn \cup {0}, data : Seq(PieceType)]]
    BY <2>2 DEF Init
  <2>4. conns \in Seq(ConnType) /\ Len(conns) <= MaxConn
    BY <1>1, <2>1, BoundAssumption
  <2> QED BY <2>3, <2>4 DEF Init, BaseType
<1>3. /\ backlog = [a \in Accept |-> << >>] /\ procs = [i \in Id |-> 0]
      /\ connOf = [o \in Conn |-> o] /\ sem = [o \in Conn |-> << >>]
      /\ apc = [a \in Accept |-> "accept"] /\ acur = [a \in Accept |-> 0]
      /\ rpc = [r \in Request |-> "new"] /\ pst = [p \in Client |-> "connecting"]
      /\ known = {}
  BY DEF Init
<1>4. PlaceInv
  <2>1. \A a \in Accept : Placed(a)
    BY <1>3 DEF Placed
  <2> QED BY <1>3, <2>1 DEF PlaceInv, Accept
<1>5. TableInv
  BY <1>3 DEF TableInv
<1>6. \A o \in Conn : ~InUse(o)
  <2>1. ASSUME NEW o \in Conn PROVE ~InUse(o)
    <3>1. sem[o] = << >> /\ o # 0
      BY <1>3, BoundAssumption DEF Conn
    <3> QED BY <1>3, <3>1 DEF InUse
  <2> QED BY <2>1
<1>7. OwnConnInv
  BY <1>3, <1>6 DEF OwnConnInv
<1>8. SemInv
  <2>1. \A x \in Caller, o \in Conn \cup {0} : ~Waits(x, o)
    BY <1>3 DEF Waits, Active
  <2>2. \A o \in Conn : Len(sem[o]) = 0
    BY <1>3
  <2> QED BY <2>1, <2>2 DEF SemInv
<1>9. MsgInv
  BY <1>1 DEF MsgInv
<1> QED BY <1>2, <1>4, <1>5, <1>7, <1>8, <1>9 DEF CtlInv

LEMMA NextInv ==
    ASSUME CtlInv, [Next]_vars
    PROVE  CtlInv'
<1>1. ASSUME NEW p \in Client, ClientStep(p)
      PROVE  CtlInv'
  BY <1>1, ConnectInv, ProcessInv DEF ClientStep, ProcessStep
<1>2. ASSUME NEW c \in 1 .. Len(conns), Deliver(c)
      PROVE  CtlInv'
  BY <1>2, DeliverInv DEF Conns
<1>3. ASSUME NEW a \in Accept, AcceptStep(a)
      PROVE  CtlInv'
  BY <1>3, InstallLaterInv, AcceptPrimaryInv, AcceptSecondaryInv, IdentifyInv,
     IdentifyFailsInv DEF AcceptStep
<1>4. ASSUME NEW r \in Request, RequestStep(r) \/ Lookup(r)
      PROVE  CtlInv'
  BY <1>4, RequestInv, LookupInv
<1>5. ASSUME NEW p \in Client, Crash(p) \/ FallSilent(p) \/ Launch(p)
      PROVE  CtlInv'
  BY <1>5, ProcessInv DEF ProcessStep
<1> QED BY <1>1, <1>2, <1>3, <1>4, <1>5, RestartInv, IdleInv DEF Next, Step

(* The invariant the other theorems rest on: it holds in every state.       *)
THEOREM CtlInvariant == Spec => []CtlInv
<1>1. Init => CtlInv
  BY InitInv
<1>2. CtlInv /\ [Next]_vars => CtlInv'
  BY NextInv
<1> QED BY <1>1, <1>2, PTL DEF Spec

-----------------------------------------------------------------------------
(* The variables keep their types, and a process has one command at a time  *)
(* as long as no part of a reply was taken for the whole.                   *)
THEOREM TypeCorrect == Spec => []TypeOK
<1>1. ASSUME CtlInv
      PROVE  TypeOK
  <2>1. BaseType /\ MsgInv
    BY <1>1 DEF CtlInv
  <2>2. ASSUME NEW c \in 1 .. Len(conns), c \notin torn
        PROVE  Len(conns[c].cmds) <= 1
    BY <2>1, <2>2 DEF MsgInv, Tidy, Conns
  <2> QED BY <2>1, <2>2 DEF TypeOK, BaseType
<1> QED BY <1>1, CtlInvariant, PTL

-----------------------------------------------------------------------------
(* What changes neither the table nor which connections were identified.    *)
LEMMA ReachQuiet ==
    ASSUME CtlInv, Reachable, Grown, UNCHANGED <<procs, connOf, known>>,
           left \subseteq left',
           \A d \in Conns : conns'[d].ctl => conns[d].ctl
    PROVE  Reachable'
<1>1. \A d \in known : /\ d \in Conns /\ conns'[d].who = conns[d].who
                       /\ conns'[d].ctl => conns[d].ctl
  BY DEF CtlInv, PlaceInv, Grown
<1> QED BY <1>1 DEF Reachable, Entry

LEMMA SameReach ==
    ASSUME CtlInv, Reachable, Same, UNCHANGED <<procs, connOf, known>>,
           left \subseteq left'
    PROVE  Reachable'
  BY ReachQuiet DEF Same

LEMMA LookupReach ==
    ASSUME CtlInv, Reachable, NEW r \in Request, Lookup(r)
    PROVE  Reachable'
<1>1. Same /\ UNCHANGED <<connOf, known>>
  BY LookupIs
<1>2. PICK i \in Id, kind \in {"ask", "exit"}, o \in known :
        /\ o = procs[i]
        /\ procs' = IF kind = "exit" THEN [procs EXCEPT ![i] = 0] ELSE procs
        /\ left' = IF kind = "exit" THEN left \cup {o} ELSE left
  BY LookupIs
<1>3. ASSUME NEW d \in known, conns'[d].ctl
      PROVE  \/ Entry(conns[d].who)' # 0 /\ connOf[Entry(conns[d].who)'] = d
             \/ \E u \in left' : connOf[u] = d
  <2>1. d \in Conns /\ conns[d].ctl /\ conns'[d].who = conns[d].who
    BY <1>1, <1>3 DEF CtlInv, PlaceInv, Same, Grown
  <2>2. conns[d].who \in Client
    BY <2>1, ConnFields DEF CtlInv, BaseType, Conns
  <2>3. PICK j \in Id : j = IdOf[conns[d].who]
    BY <2>2 DEF Id
  <2>4. \/ procs[j] # 0 /\ connOf[procs[j]] = d
        \/ \E u \in left : connOf[u] = d
    BY <2>1, <2>3 DEF Reachable, Entry
  <2>5. procs'[j] = procs[j] \/ (procs[j] = o /\ o \in left')
    BY <1>2 DEF CtlInv, BaseType
  <2>6. Entry(conns[d].who)' = procs'[j]
    BY <2>1, <2>3 DEF Entry
  <2>7. left \subseteq left'
    BY <1>2
  <2> QED BY <2>4, <2>5, <2>6, <2>7
<1> QED BY <1>1, <1>3 DEF Reachable

(* The connection that is replaced is closed; the others keep their object, *)
(* and the new one gets one.                                                *)
LEMMA EnteredReach ==
    ASSUME CtlInv, Reachable, NEW a \in Accept, NEW c, NEW old,
           Entered(a, c, old)
    PROVE  Reachable'
<1>1. /\ c \in Conns /\ c \notin known /\ connOf[c] = c
      /\ conns[c].who \in Client /\ IdOf[conns[c].who] \in Id
      /\ old = 0 \/ old \in Conn
      /\ known' = known \cup {c}
      /\ \/ /\ old # 0 /\ procs' = procs
            /\ connOf' = [connOf EXCEPT ![old] = c]
         \/ /\ procs' = [procs EXCEPT ![IdOf[conns[c].who]] = c]
            /\ connOf' = connOf
  BY EnterIs
<1>2. /\ old = 0 => Entry(conns[c].who) = 0
      /\ old # 0 => \/ Entry(conns[c].who) = old
                    \/ Entry(conns[c].who) = 0 /\ old \in left
      /\ left' = left /\ Turned(c, old)
  BY DEF Entered
<1>3. PICK i \in Id : i = IdOf[conns[c].who] /\ Entry(conns[c].who) = procs[i]
  BY <1>1 DEF Entry
<1>4. /\ procs \in [Id -> Conn \cup {0}] /\ connOf \in [Conn -> Conn]
      /\ left \subseteq Conn /\ 0 \notin Conn /\ c # 0 /\ known \subseteq Conns
  BY <1>1, ConnRange, BoundAssumption DEF CtlInv, BaseType, PlaceInv, Conn
<1>5. ASSUME NEW d \in known, conns'[d].ctl
      PROVE  \/ Entry(conns[d].who)' # 0 /\ connOf'[Entry(conns[d].who)'] = d
             \/ \E u \in left' : connOf'[u] = d
  <2>1. d \in Conns /\ d # c /\ (old # 0 => d # connOf[old])
    BY <1>1, <1>2, <1>4, <1>5 DEF Turned
  <2>2. conns'[d] = conns[d]
    BY <1>2, <2>1 DEF Turned
  <2>3. conns[d].who \in Client
    BY <2>1, ConnFields DEF CtlInv, BaseType, Conns
  <2>4. PICK j \in Id : j = IdOf[conns[d].who]
    BY <2>3 DEF Id
  <2>5. \/ procs[j] # 0 /\ connOf[procs[j]] = d
        \/ \E u \in left : connOf[u] = d
    BY <1>5, <2>2, <2>4 DEF Reachable, Entry
  <2>6. Entry(conns[d].who)' = procs'[j]
    BY <2>2, <2>4 DEF Entry
  <2>7. \A u \in Conn : connOf[u] = d => connOf'[u] = d
    BY <1>1, <1>4, <2>1
  <2>8. procs[j] # 0 /\ connOf[procs[j]] = d => procs'[j] = procs[j]
    BY <1>1, <1>2, <1>3, <1>4, <2>1
  <2> QED BY <1>2, <1>4, <2>5, <2>6, <2>7, <2>8
<1>6. \/ Entry(conns[c].who)' # 0 /\ connOf'[Entry(conns[c].who)'] = c
      \/ \E u \in left' : connOf'[u] = c
  <2>1. Entry(conns[c].who)' = procs'[i]
    BY <1>1, <1>2, <1>3 DEF Entry, Turned, Grown
  <2>2. CASE old # 0 /\ procs' = procs /\ connOf' = [connOf EXCEPT ![old] = c]
    <3>1. connOf'[old] = c
      BY <1>1, <1>4, <2>2
    <3> QED BY <1>2, <1>3, <2>1, <2>2, <3>1
  <2>3. CASE procs' = [procs EXCEPT ![IdOf[conns[c].who]] = c] /\ connOf' = connOf
    BY <1>1, <1>3, <1>4, <2>1, <2>3
  <2> QED BY <1>1, <2>2, <2>3
<1> QED BY <1>1, <1>5, <1>6 DEF Reachable

LEMMA QueuedReach ==
    ASSUME CtlInv, Reachable, NEW a \in Accept, NEW c, Queued(a, c)
    PROVE  Reachable'
<1>1. /\ Turned(c, 0) /\ UNCHANGED <<procs, connOf, known, left>>
  BY DEF Queued
<1>2. Grown /\ \A d \in Conns : conns'[d].ctl => conns[d].ctl
  BY <1>1 DEF Turned
<1> QED BY <1>1, <1>2, ReachQuiet

LEMMA DroppedReach ==
    ASSUME CtlInv, Reachable, NEW c \in Conns, Dropped(c)
    PROVE  Reachable'
<1>1. Grown /\ UNCHANGED <<procs, connOf, known, left>>
  BY DEF Dropped
<1>2. \A d \in Conns : conns'[d].ctl => conns[d].ctl
  BY DEF Dropped, Others, Conns
<1> QED BY <1>1, <1>2, ReachQuiet

LEMMA AcceptReach ==
    ASSUME CtlInv, Reachable, NEW a \in Accept, AcceptStep(a)
    PROVE  Reachable'
<1>0. "pri" \in Accept /\ "sec" \in Accept
  BY DEF Accept
<1>1. CASE InstallLater(a)
  BY <1>1, InstallLaterIs, EnteredReach
<1>2. CASE AcceptPrimary
  BY <1>0, <1>2, AcceptPrimaryIs, EnteredReach, QueuedReach
<1>3. CASE AcceptSecondary
  BY <1>3, AcceptSecondaryIs, SameReach DEF histVars
<1>4. CASE Identify
  BY <1>0, <1>4, IdentifyIs, DroppedReach, EnteredReach, QueuedReach
<1>5. CASE IdentifyFails
  BY <1>5, IdentifyFailsIs, DroppedReach, SameReach DEF histVars
<1> QED BY <1>1, <1>2, <1>3, <1>4, <1>5 DEF AcceptStep

LEMMA RestartReach ==
    ASSUME CtlInv, Restart
    PROVE  Reachable'
<1>1. \A d \in Conns : ~conns'[d].ctl
  BY RestartIs
<1>2. known' = known
  BY DEF Restart
<1> QED BY <1>1, <1>2 DEF CtlInv, PlaceInv, Reachable

LEMMA NextReach ==
    ASSUME CtlInv, Reachable, [Next]_vars
    PROVE  Reachable'
<1>1. ASSUME NEW p \in Client, ClientStep(p)
      PROVE  Reachable'
  <2>1. CASE Connect(p)
    <3>1. Same
      BY <2>1, ConnectIs DEF CtlInv
    <3>2. UNCHANGED <<procs, connOf, known, left>>
      BY <2>1 DEF Connect, ctlVars, histVars
    <3> QED BY <3>1, <3>2, SameReach
  <2>2. CASE ProcessStep(p)
    BY <2>2, ProcessIs, SameReach DEF ctlVars
  <2> QED BY <1>1, <2>1, <2>2 DEF ClientStep, ProcessStep
<1>2. ASSUME NEW c \in 1 .. Len(conns), Deliver(c)
      PROVE  Reachable'
  BY <1>2, DeliverSame, SameReach DEF Conns, ctlVars, histVars
<1>3. ASSUME NEW r \in Request, RequestStep(r)
      PROVE  Reachable'
  BY <1>3, SendLaterIs, ReceiveIs, NothingIs, SameReach DEF RequestStep, histVars
<1>4. ASSUME NEW p \in Client, Crash(p) \/ FallSilent(p) \/ Launch(p)
      PROVE  Reachable'
  BY <1>4, ProcessIs, SameReach DEF ProcessStep, ctlVars
<1>5. CASE UNCHANGED vars
  <2>1. UNCHANGED <<procs, connOf, known, left, conns>>
    BY <1>5 DEF vars, ctlVars, histVars
  <2>2. Same
    BY <2>1, UnchangedSame DEF CtlInv
  <2> QED BY <2>1, <2>2, SameReach
<1> QED BY <1>1, <1>2, <1>3, <1>4, <1>5, AcceptReach, LookupReach, RestartReach
        DEF Next, Step

(* Every connection that spp-ctl identified and keeps open is the one its   *)
(* process's object uses now, unless a request told that object to exit.    *)
THEOREM AllReachable == Spec => []Reachable
<1>1. Init => Reachable
  BY DEF Init, Reachable
<1>2. CtlInv /\ Reachable /\ [Next]_vars => Reachable'
  BY NextReach
<1> QED BY <1>1, <1>2, CtlInvariant, PTL DEF Spec

-----------------------------------------------------------------------------
LEMMA MatchedKept ==
    ASSUME Matched, UNCHANGED got, torn \subseteq torn'
    PROVE  Matched'
  BY DEF Matched, Whole

(* What is on an intact connection when a request reads it is the reply to  *)
(* its command: nobody else uses the connection.                            *)
LEMMA ReceiveMatched ==
    ASSUME CtlInv, Matched, NEW r \in Request, Receive(r)
    PROVE  Matched'
<1>1. rpc[r] = "wait" /\ rpc[r] \in Active
  BY DEF Receive, Active
<1>2. PICK c \in Conns : c = connOf[robj[r]] /\ c \in Conn
  BY <1>1, ActiveInUse, InUseKnown
<1>3. PICK d \in Seq(PieceType) : d = conns[c].data
  BY ConnSeqs
<1>4. /\ d # << >>
      /\ \/ got' = [got EXCEPT ![r] = [on |-> c, data |-> d]]
         \/ UNCHANGED got
      /\ torn' = IF Tears(c) THEN torn \cup {c} ELSE torn
  BY <1>2, <1>3 DEF Receive
<1>5. CASE UNCHANGED got
  BY <1>4, <1>5, MatchedKept
<1>6. CASE got' = [got EXCEPT ![r] = [on |-> c, data |-> d]]
  <2>1. \A q \in Request : q # r => got'[q] = got[q]
    BY <1>6 DEF CtlInv, BaseType
  <2>2. got'[r].on = c /\ got'[r].data = d
    BY <1>6 DEF CtlInv, BaseType
  <2>3. ASSUME c \notin torn'
        PROVE  Whole(d) /\ \A k \in 1 .. Len(d) : d[k].by = r
    <3>1. ~Tears(c) /\ c \notin torn
      BY <1>4, <2>3
    <3>2. Tidy(c) /\ Whole(d)
      BY <1>2, <1>3, <3>1 DEF CtlInv, MsgInv, Tears
    <3>3. conns[c].ctl
      BY <1>3, <1>4, <3>2, ConnSeqs DEF Tidy
    <3>4. ASSUME NEW k \in 1 .. Len(d)
          PROVE  d[k].by = r
      <4>1. Using(d[k].by, c)
        BY <1>3, <3>2, <3>3 DEF Tidy
      <4>2. Using(r, c)
        BY <1>1, <1>2 DEF Using
      <4> QED BY <4>1, <4>2, OneUser
    <3> QED BY <3>2, <3>4
  <2>4. torn \subseteq torn'
    BY <1>4
  <2> QED BY <2>1, <2>2, <2>3, <2>4 DEF Matched, Whole
<1> QED BY <1>4, <1>5, <1>6

LEMMA NextMatched ==
    ASSUME CtlInv, Matched, [Next]_vars
    PROVE  Matched'
<1>1. ASSUME ~ \E r \in Request : Receive(r)
      PROVE  UNCHANGED got /\ torn \subseteq torn'
  <2>1. ASSUME NEW p \in Client, ClientStep(p)
        PROVE  UNCHANGED <<got, torn>>
    BY <2>1 DEF ClientStep, Connect, Serve, ServeClosed, SeeClose, reqVars, histVars
  <2>2. ASSUME NEW c \in 1 .. Len(conns), Deliver(c)
        PROVE  UNCHANGED <<got, torn>>
    BY <2>2 DEF Deliver, reqVars, histVars
  <2>3. ASSUME NEW a \in Accept, AcceptStep(a)
        PROVE  UNCHANGED <<got, torn>>
    BY <2>3 DEF AcceptStep, InstallLater, AcceptPrimary, AcceptSecondary, Identify,
                IdentifyFails, reqVars, histVars
  <2>4. ASSUME NEW r \in Request, RequestStep(r) \/ Lookup(r)
        PROVE  UNCHANGED <<got, torn>>
    BY <1>1, <2>4 DEF RequestStep, SendLater, ReceiveNothing, Lookup, histVars
  <2>5. ASSUME NEW p \in Client, Crash(p) \/ FallSilent(p) \/ Launch(p)
        PROVE  UNCHANGED <<got, torn>>
    BY <2>5 DEF Crash, FallSilent, Launch, reqVars, histVars
  <2>6. CASE Restart
    BY <2>6 DEF Restart
  <2>7. CASE UNCHANGED vars
    BY <2>7 DEF vars, reqVars, histVars
  <2> QED BY <2>1, <2>2, <2>3, <2>4, <2>5, <2>6, <2>7 DEF Next, Step
<1>2. CASE \E r \in Request : Receive(r)
  BY <1>2, ReceiveMatched
<1> QED BY <1>1, <1>2, MatchedKept

(* A request that is answered has the whole reply to its own command, and   *)
(* nothing else, unless a reply on its connection was read in parts.        *)
THEOREM RepliesMatched == Spec => []Matched
<1>1. Init => Matched
  BY DEF Init, Matched
<1>2. CtlInv /\ Matched /\ [Next]_vars => Matched'
  BY NextMatched
<1> QED BY <1>1, <1>2, CtlInvariant, PTL DEF Spec
=============================================================================
