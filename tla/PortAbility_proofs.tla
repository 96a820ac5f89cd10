------------------------- MODULE PortAbility_proofs -------------------------
(***************************************************************************)
(* Proofs about PortAbility, for any number of components and ports, any   *)
(* number of operations and commands, and with devices that fail to open:  *)
(* where no slot has its first classifier, whose switch is lost, and       *)
(* clients do not name ports another component uses.                       *)
(***************************************************************************)
EXTENDS PortAbility, FiniteSetTheorems, SequenceTheorems, WellFoundedInduction,
        TLAPS

Orderly == Fresh = {} /\ Foreign = FALSE

-----------------------------------------------------------------------------
(* Components are flushed in the order of their ids.                        *)

LEMMA LowestIn ==
    ASSUME NEW S \in SUBSET Comp, S # {}
    PROVE  Lowest(S) \in S
<1>1. S \subseteq Nat
  BY CompAssumption
<1>2. PICK i \in S : \A j \in S : ~ (<<j, i>> \in OpToRel(<, Nat))
  BY <1>1, WFMin, NatLessThanWellFounded, Zenon
<1>3. \A j \in S : ~ (j < i)
  BY <1>1, <1>2 DEF OpToRel
<1>4. \A j \in S : i <= j
  BY <1>1, <1>3
<1> QED
  BY <1>4 DEF Lowest

(* Two different slots of a set are not the same in its order.              *)
LEMMA RankInjective ==
    ASSUME NEW S \in SUBSET Slots
    PROVE  /\ IsFiniteSet(S) /\ Cardinality(S) \in Nat
           /\ [s \in S |-> Cardinality({r \in S : r <= s})]
                 \in Injection(S, 1 .. Cardinality(S))
<1> DEFINE Upto(s) == {r \in S : r <= s}
           rank == [s \in S |-> Cardinality(Upto(s))]
<1>0. S \subseteq Int
  BY AbilityBoundAssumption DEF Slots
<1>1. IsFiniteSet(S) /\ Cardinality(S) \in Nat
  <2>1. IsFiniteSet(Slots)
    BY AbilityBoundAssumption, FS_Interval DEF Slots
  <2> QED
    BY <2>1, FS_Subset, FS_CardinalityType
<1>2. ASSUME NEW s \in S
      PROVE  rank[s] \in 1 .. Cardinality(S) /\ IsFiniteSet(Upto(s))
  <2>1. Upto(s) \in SUBSET S /\ s \in Upto(s)
    BY <1>0
  <2>2. IsFiniteSet(Upto(s)) /\ Cardinality(Upto(s)) <= Cardinality(S)
    BY <1>1, <2>1, FS_Subset
  <2>3. Cardinality(Upto(s)) \in Nat /\ Cardinality(Upto(s)) # 0
    BY <2>1, <2>2, FS_CardinalityType, FS_EmptySet
  <2> QED
    BY <1>1, <2>2, <2>3
<1>3. ASSUME NEW s \in S, NEW t \in S, s < t
      PROVE  rank[s] # rank[t]
  <2>1. Upto(s) \in SUBSET Upto(t) /\ t \in Upto(t) /\ t \notin Upto(s)
    <3>1. s \in Int /\ t \in Int /\ s < t /\ ~ (t <= s) /\ t <= t
      BY <1>0, <1>3
    <3>2. \A r \in S : r \in Int /\ (r <= s => r <= t)
      BY <1>0, <3>1
    <3> QED
      BY <3>1, <3>2, Zenon
  <2>2. Upto(s) # Upto(t)
    BY <2>1
  <2>3. IsFiniteSet(Upto(t)) /\ rank[s] = Cardinality(Upto(s))
        /\ rank[t] = Cardinality(Upto(t))
    BY <1>2
  <2> HIDE DEF Upto, rank
  <2>4. Cardinality(Upto(t)) = Cardinality(Upto(s)) => Upto(t) = Upto(s)
    BY <2>1, <2>3, FS_Subset
  <2> QED
    BY <2>2, <2>3, <2>4
<1>4. \A s, t \in S : rank[s] = rank[t] => s = t
  <2> HIDE DEF rank
  <2> QED
    BY <1>0, <1>3
<1> HIDE DEF Upto
<1>5. rank \in [S -> 1 .. Cardinality(S)]
  BY <1>2
<1>6. rank \in Injection(S, 1 .. Cardinality(S))
  BY <1>4, <1>5 DEF Injection, IsInjective
<1> QED
  BY <1>1, <1>6 DEF Upto

(* So each of the numbers up to the size of the set belongs to a slot.      *)
LEMMA NthSlotIn ==
    ASSUME NEW S \in SUBSET Slots
    PROVE  /\ \A n \in 1 .. Cardinality(S) : NthSlot(S, n) \in S
           /\ \A s \in S : \E n \in 1 .. Cardinality(S) : NthSlot(S, n) = s
<1> DEFINE rank == [s \in S |-> Cardinality({r \in S : r <= s})]
<1>1. IsFiniteSet(S) /\ Cardinality(S) \in Nat
      /\ rank \in Injection(S, 1 .. Cardinality(S))
  BY RankInjective
<1>2. Cardinality(1 .. Cardinality(S)) = Cardinality(S)
      /\ IsFiniteSet(1 .. Cardinality(S))
  BY <1>1, FS_Interval
<1>3. rank \in Surjection(S, 1 .. Cardinality(S))
  <2> HIDE DEF rank
  <2> QED
    BY <1>1, <1>2, FS_Injection
<1>4. \A n \in 1 .. Cardinality(S) : \E s \in S : rank[s] = n
  <2> HIDE DEF rank
  <2> QED
    BY <1>3 DEF Surjection
<1>5. \A n \in 1 .. Cardinality(S) :
          NthSlot(S, n) \in S /\ rank[NthSlot(S, n)] = n
  BY <1>4 DEF NthSlot
<1>6. \A s, t \in S : rank[s] = rank[t] => s = t
  <2> HIDE DEF rank
  <2> QED
    BY <1>1 DEF Injection, IsInjective
<1>7. \A s \in S : rank[s] \in 1 .. Cardinality(S)
  <2> HIDE DEF rank
  <2> QED
    BY <1>1 DEF Injection
<1> HIDE DEF rank
<1> QED
  BY <1>5, <1>6, <1>7

(* A list of operations, as an area of a port holds it.                     *)
AbilityList == {a \in Seq(Ability) : Len(a) <= MaxAbility}

(* What a worker finds: the operations of the direction, each once.         *)
LEMMA OperationsRight ==
    ASSUME NEW a \in [Slots -> Ability], NEW d \in Dir
    PROVE  /\ Operations(a, d) \in AbilityList
           /\ ToSet(Operations(a, d)) = {x \in ToSet(a) : x.rxtx = d}
           /\ Len(Operations(a, d)) = Cardinality({s \in Slots : a[s].rxtx = d})
<1> DEFINE S == SlotsOf(a, d)
           n == Cardinality(S)
           op == Operations(a, d)
<1>1. S \in SUBSET Slots
  BY DEF SlotsOf
<1>2. n \in Nat /\ n <= MaxAbility
  <2>1. IsFiniteSet(Slots) /\ Cardinality(Slots) = MaxAbility
    BY AbilityBoundAssumption, FS_Interval DEF Slots
  <2>2. IsFiniteSet(S) /\ Cardinality(S) \in Nat
    BY <1>1, RankInjective
  <2> HIDE DEF S
  <2> QED
    BY <1>1, <2>1, <2>2, FS_Subset
<1>3. /\ \A k \in 1 .. n : NthSlot(S, k) \in S
      /\ \A s \in S : \E k \in 1 .. n : NthSlot(S, k) = s
  <2> HIDE DEF S
  <2> QED
    BY <1>1, NthSlotIn
<1>4. op = [k \in 1 .. n |-> a[NthSlot(S, k)]]
  BY DEF Operations
<1>5. \A k \in 1 .. n : a[NthSlot(S, k)] \in Ability
  BY <1>1, <1>3
<1>6. op \in Seq(Ability) /\ Len(op) = n
  <2> HIDE DEF S, n, op
  <2> QED
    BY <1>2, <1>4, <1>5, IsASeq
<1>7. ToSet(op) = {x \in ToSet(a) : x.rxtx = d}
  <2>1. ASSUME NEW x \in ToSet(op)
        PROVE  x \in ToSet(a) /\ x.rxtx = d
    <3>1. PICK k \in 1 .. n : x = a[NthSlot(S, k)]
      BY <1>4 DEF ToSet
    <3> QED
      BY <1>1, <1>3, <3>1 DEF ToSet, SlotsOf
  <2>2. ASSUME NEW s \in Slots, a[s].rxtx = d
        PROVE  a[s] \in ToSet(op)
    <3>1. s \in S
      BY <2>2 DEF SlotsOf
    <3>2. PICK k \in 1 .. n : NthSlot(S, k) = s
      BY <1>3, <3>1
    <3>3. op[k] = a[s] /\ k \in DOMAIN op
      BY <1>4, <3>2
    <3> QED
      BY <3>3 DEF ToSet
  <2>3. \A x \in ToSet(a) : \E s \in Slots : x = a[s]
    BY DEF ToSet
  <2> HIDE DEF op
  <2> QED
    BY <2>1, <2>2, <2>3
<1> QED
  BY <1>2, <1>6, <1>7 DEF AbilityList, SlotsOf

(* It depends on nothing but the slots of the direction.                    *)
LEMMA OperationsSame ==
    ASSUME NEW a \in [Slots -> Ability], NEW b \in [Slots -> Ability], NEW d,
           \A s \in Slots : a[s].rxtx = d \/ b[s].rxtx = d => a[s] = b[s]
    PROVE  Operations(a, d) = Operations(b, d)
<1>1. SlotsOf(a, d) = SlotsOf(b, d)
  BY DEF SlotsOf
<1>2. SlotsOf(a, d) \in SUBSET Slots
  BY DEF SlotsOf
<1>3. \A n \in 1 .. Cardinality(SlotsOf(a, d)) :
          NthSlot(SlotsOf(a, d), n) \in SlotsOf(a, d)
  BY <1>2, NthSlotIn
<1>4. \A s \in SlotsOf(a, d) : a[s] = b[s]
  BY DEF SlotsOf
<1> QED
  BY <1>1, <1>3, <1>4 DEF Operations

-----------------------------------------------------------------------------
(* Sequences of sides: what is in them, each once.                          *)

Held(s, x)  == \E n \in 1 .. Len(s) : s[n] = x
Distinct(s) == \A j, k \in 1 .. Len(s) : s[j] = s[k] => j = k

LEMMA SetToSeqRight ==
    ASSUME NEW S, IsFiniteSet(S)
    PROVE  /\ SetToSeq(S) \in Seq(S)
           /\ Distinct(SetToSeq(S))
           /\ \A x : Held(SetToSeq(S), x) <=> x \in S
<1> DEFINE n == Cardinality(S)
           s == SetToSeq(S)
<1>1. n \in Nat /\ \E f : f \in Bijection(1 .. n, S)
  BY FS_CardinalityType DEF ExistsBijection
<1>2. \E f \in [1 .. n -> S] : IsInjective(f)
  BY <1>1 DEF Bijection, Injection
<1>3. s \in [1 .. n -> S] /\ IsInjective(s)
  BY <1>2 DEF SetToSeq
<1>4. s \in Injection(1 .. n, S)
  BY <1>3 DEF Injection
<1>5. IsFiniteSet(1 .. n) /\ Cardinality(1 .. n) = n
  BY <1>1, FS_Interval
<1> HIDE DEF s
<1>6. s \in Surjection(1 .. n, S)
  BY <1>4, <1>5, FS_Injection
<1>7. s \in Seq(S) /\ Len(s) = n /\ DOMAIN s = 1 .. n
  BY <1>1, <1>3
<1>8. \A x \in S : \E k \in 1 .. n : s[k] = x
  BY <1>6 DEF Surjection
<1> QED
  BY <1>3, <1>7, <1>8 DEF IsInjective, Held, Distinct, s

LEMMA ConcatDistinct ==
    ASSUME NEW S, NEW s \in Seq(S), NEW t \in Seq(S), Distinct(s), Distinct(t),
           \A x : ~ (Held(s, x) /\ Held(t, x))
    PROVE  /\ s \o t \in Seq(S)
           /\ Distinct(s \o t)
           /\ \A x : Held(s \o t, x) <=> Held(s, x) \/ Held(t, x)
<1>0. Len(s) \in Nat /\ Len(t) \in Nat
  OBVIOUS
<1>1. /\ s \o t \in Seq(S)
      /\ Len(s \o t) = Len(s) + Len(t)
      /\ \A k \in 1 .. Len(s) + Len(t) :
            (s \o t)[k] = IF k <= Len(s) THEN s[k] ELSE t[k - Len(s)]
  BY ConcatProperties
<1>2. PICK w \in Seq(S) : w = s \o t
  BY <1>1
<1>3. Len(w) = Len(s) + Len(t)
  BY <1>1, <1>2
<1>4. \A k \in 1 .. Len(w) :
          \/ k \in 1 .. Len(s) /\ w[k] = s[k]
          \/ k - Len(s) \in 1 .. Len(t) /\ w[k] = t[k - Len(s)]
  BY <1>0, <1>1, <1>2, <1>3
<1>5. \A k \in 1 .. Len(s) : k \in 1 .. Len(w) /\ w[k] = s[k]
  BY <1>0, <1>1, <1>2, <1>3
<1>6. \A k \in 1 .. Len(t) :
          k + Len(s) \in 1 .. Len(w) /\ w[k + Len(s)] = t[k]
  BY <1>0, <1>1, <1>2, <1>3
<1>7. \A x : Held(w, x) <=> Held(s, x) \/ Held(t, x)
  BY <1>4, <1>5, <1>6 DEF Held
<1>8. ASSUME NEW j \in 1 .. Len(w), NEW k \in 1 .. Len(w), w[j] = w[k]
      PROVE  j = k
  <2>1. CASE j \in 1 .. Len(s) /\ w[j] = s[j]
    <3>1. Held(s, w[k])
      BY <1>8, <2>1 DEF Held
    <3>2. ~ Held(t, w[k])
      BY <3>1
    <3>3. k \in 1 .. Len(s) /\ w[k] = s[k]
      BY <1>4, <3>2 DEF Held
    <3> QED
      BY <1>8, <2>1, <3>3 DEF Distinct
  <2>2. CASE j - Len(s) \in 1 .. Len(t) /\ w[j] = t[j - Len(s)]
    <3>1. Held(t, w[k])
      BY <1>8, <2>2 DEF Held
    <3>2. ~ Held(s, w[k])
      BY <3>1
    <3>3. k - Len(s) \in 1 .. Len(t) /\ w[k] = t[k - Len(s)]
      BY <1>4, <3>2 DEF Held
    <3>4. j - Len(s) = k - Len(s)
      BY <1>8, <2>2, <3>3 DEF Distinct
    <3> QED
      BY <1>0, <3>4
  <2> QED
    BY <1>4, <2>1, <2>2
<1>9. Distinct(w)
  BY <1>8 DEF Distinct
<1> QED
  BY <1>2, <1>7, <1>9

(* What is left when the first has been taken off.                          *)
LEMMA TailDistinct ==
    ASSUME NEW S, NEW s \in Seq(S), s # <<>>, Distinct(s)
    PROVE  /\ Tail(s) \in Seq(S) /\ Head(s) \in S /\ Held(s, Head(s))
           /\ Distinct(Tail(s))
           /\ \A x : Held(Tail(s), x) <=> Held(s, x) /\ x # Head(s)
<1>0. Len(s) \in Nat /\ Len(s) # 0
  BY EmptySeq
<1>1. /\ Head(s) = s[1] /\ Head(s) \in S /\ Tail(s) \in Seq(S)
      /\ Len(Tail(s)) = Len(s) - 1
      /\ \A k \in 1 .. Len(s) - 1 : Tail(s)[k] = s[k + 1]
  BY <1>0, HeadTailProperties
<1>2. PICK t \in Seq(S) : t = Tail(s)
  BY <1>1
<1>3. Len(t) = Len(s) - 1
  BY <1>1, <1>2
<1>4. \A k \in 1 .. Len(t) : k + 1 \in 1 .. Len(s) /\ t[k] = s[k + 1]
  BY <1>0, <1>1, <1>2, <1>3
<1>5. \A k \in 1 .. Len(s) :
          k = 1 \/ (k - 1 \in 1 .. Len(t) /\ t[k - 1] = s[k])
  BY <1>0, <1>1, <1>2, <1>3
<1>6. 1 \in 1 .. Len(s)
  BY <1>0
<1>7. Distinct(t)
  <2> SUFFICES ASSUME NEW j \in 1 .. Len(t), NEW k \in 1 .. Len(t), t[j] = t[k]
               PROVE  j = k
    BY DEF Distinct
  <2>1. j + 1 = k + 1
    BY <1>4 DEF Distinct
  <2> QED
    BY <1>3, <2>1
<1>8. ASSUME NEW x
      PROVE  Held(t, x) <=> Held(s, x) /\ x # s[1]
  <2>1. ASSUME Held(t, x)
        PROVE  Held(s, x) /\ x # s[1]
    <3>1. PICK k \in 1 .. Len(t) : t[k] = x
      BY <2>1 DEF Held
    <3>2. k + 1 \in 1 .. Len(s) /\ s[k + 1] = x
      BY <1>4, <3>1
    <3>3. s[k + 1] = s[1] => k + 1 = 1
      BY <1>6, <3>2 DEF Distinct
    <3> QED
      BY <3>2, <3>3 DEF Held
  <2>2. ASSUME Held(s, x), x # s[1]
        PROVE  Held(t, x)
    BY <1>5, <2>2 DEF Held
  <2> QED
    BY <2>1, <2>2
<1>9. Held(s, s[1])
  BY <1>6 DEF Held
<1> QED
  BY <1>1, <1>2, <1>7, <1>8, <1>9
-----------------------------------------------------------------------------
(* The inductive invariant.  First the types of all variables.              *)

Side == Dir \X Port

TypeInv ==
    /\ TypeOK
    /\ area \in [Port -> [Dir -> [Area -> AbilityList]]]
    /\ path \in [Comp -> [Area -> [Dir -> SUBSET Port]]]
    /\ ncmd \in Nat /\ mnum \in Nat
    /\ mports \in Seq(Side)
    /\ wcnt \in [Comp -> Nat]
    /\ wleft \in [Comp -> SUBSET Port]
    /\ wuse \in [Comp -> SUBSET (Port \X Dir \X Area)]

(* What is registered: a port belongs to one component in a direction, and  *)
(* a slot without an operation has no direction.                            *)
OwnerInv ==
    /\ flagged \subseteq started
    /\ \A c \in Comp \ started : ports[c] = NoPorts
    /\ \A b, c \in Comp, d \in Dir, p \in Port :
          p \in ports[b][d] /\ p \in ports[c][d] => b = c
    /\ \A p \in Port, s \in Slots :
          ability[p][s].ope = "none" => ability[p][s].rxtx = "none"

(* Main: the components it has still to update are flagged, and the sides   *)
(* it has still to handle are among those of the first of them.             *)
Busy     == {"ability", "mark", "append", "wait"}
Flushing == mpc = "component" \/ mpc \in Busy
Current  == Lowest(mcomp)
ToFill(d, p) == Held(mports, <<d, p>>)

MainInv ==
    /\ ~Flushing => mcomp = {}
    /\ Flushing => mcomp \subseteq flagged /\ running = started
    /\ mpc \in Busy => mcomp # {}
    /\ mpc \in {"mark", "append"} => mports # <<>>
    /\ mpc \notin {"ability", "mark", "append"} => mports = <<>>
    /\ Distinct(mports)
    /\ \A d \in Dir, p \in Port : ToFill(d, p) => p \in ports[Current][d]
    /\ mpc = "append" => mnum = num[Head(mports)[1]]

(* Workers: at most one has a switch to make, the one main waits for, and   *)
(* it goes through no abilities while it walks the lists.                   *)
Asked == mpc = "wait" /\ cref[Current] = cupd[Current]

WorkerInv ==
    \A c \in Comp :
        /\ cref[c] = cupd[c] => Asked /\ c = Current
        /\ wpc[c] \in Dir \cup {"empty", "flip"} => cref[c] = cupd[c]
        /\ wpc[c] \in Dir => wcnt[c] <= num[wpc[c]]
        /\ wpc[c] \in Dir \cup {"empty", "look"} => wuse[c] = {}
        /\ c \notin running => wpc[c] = "look"

(* The entries of a list that its walk has not passed are those still to be *)
(* switched.                                                                *)
Passed(d) ==
    IF mpc # "wait" \/ wpc[Current] \notin Dir \cup {"empty"} THEN 0
    ELSE IF wpc[Current] = d THEN wcnt[Current]
    ELSE IF wpc[Current] = "empty" \/ d = "rx" THEN num[d] ELSE 0

Live(d) == Passed(d) .. num[d] - 1
Pending(d, p) == \E n \in Live(d) : list[d][n] = p

(* The lists are empty but while one component is updated, and then hold    *)
(* ports of this component, each once.  The two indices of a port are equal *)
(* exactly while it waits in a list, or is about to.                        *)
ListInv ==
    /\ mpc \in {"command", "flush", "core", "component"} \/ (mpc = "wait" /\ ~Asked)
          => \A d \in Dir : num[d] = 0
    /\ Asked /\ wpc[Current] = "flip" => \A d \in Dir : num[d] = 0
    /\ \A d \in Dir : \A m, n \in Live(d) : list[d][m] = list[d][n] => m = n
    /\ \A d \in Dir, p \in Port :
          Pending(d, p) => p \in ports[Current][d] /\ ~ToFill(d, p)
    /\ \A d \in Dir, p \in Port :
          aupd[p][d] = aref[p][d] <=>
             (mpc = "append" /\ Head(mports) = <<d, p>>) \/ Pending(d, p)

(* The area that is in force, or will be when the port has been switched,   *)
(* holds what is registered, but for components that are still to be        *)
(* updated.                                                                 *)
Done(c) == c \notin flagged \/ (Flushing /\ c \notin mcomp)

Filled(c, d, p) ==
    \/ Done(c)
    \/ mpc \in Busy /\ c = Current /\ ~ToFill(d, p)
    \/ mpc = "append" /\ Head(mports) = <<d, p>>

ContentInv ==
    /\ \A c \in started, d \in Dir : \A p \in ports[c][d] :
          Filled(c, d, p) => area[p][d][1 - aupd[p][d]] = Selected(p, d)
    /\ \A d \in Dir, p \in Port :
          mpc = "mark" /\ Head(mports) = <<d, p>>
             => area[p][d][aupd[p][d]] = Selected(p, d)

(* So it is with the path of a component, and what a worker has still to    *)
(* poll belongs to the path it has switched to.                             *)
PathInv ==
    /\ \A c \in started :
          Done(c) \/ (mpc = "wait" /\ c = Current /\ ~Asked)
             => path[c][cref[c]] = ports[c]
    /\ Asked => path[Current][1 - cupd[Current]] = ports[Current]
    /\ \A c \in Comp :
          wpc[c] \in {"burst", "received", "send", "sent"}
             => wleft[c] \subseteq path[c][cref[c]]["rx"]

(* A worker goes through the area in force of a port of its path.  If it    *)
(* does not, another component has taken the port over, and its own is      *)
(* still to be updated.                                                     *)
TakenOver(c, d, p) ==
    /\ Flushing /\ c \in mcomp
    /\ mpc = "wait" /\ c = Current => Asked
    /\ \E b \in started \ {c} :
          /\ p \in ports[b][d]
          /\ b \notin mcomp \/ (mpc \in Busy /\ b = Current /\ ~ToFill(d, p))

UseInv ==
    \A c \in Comp : \A u \in wuse[c] :
        \E p \in Port, d \in Dir, k \in Area :
            /\ u = <<p, d, k>>
            /\ p \in path[c][cref[c]][d]
            /\ k = aref[p][d] \/ TakenOver(c, d, p)

AbilityInv ==
    /\ TypeInv /\ OwnerInv /\ MainInv /\ WorkerInv /\ ListInv
    /\ ContentInv /\ PathInv /\ UseInv

(* The main thread's place in a flush: the component it updates.            *)
LEMMA Turn ==
    ASSUME TypeInv, MainInv, mpc \in Busy
    PROVE  /\ Current \in mcomp /\ Current \in flagged /\ Current \in Comp
           /\ mcomp \subseteq flagged /\ running = started
<1>1. mcomp \in SUBSET Comp /\ mcomp # {} /\ mcomp \subseteq flagged
      /\ running = started
  BY DEF TypeInv, TypeOK, MainInv, Flushing
<1> QED
  BY <1>1, LowestIn DEF Current

(* The side whose turn it is.                                               *)
LEMMA HeadSide ==
    ASSUME TypeInv, mports # <<>>
    PROVE  \E d \in Dir, p \in Port : Head(mports) = <<d, p>>
<1>1. Head(mports) \in Side
  BY HeadTailProperties DEF TypeInv
<1> QED
  BY <1>1 DEF Side

LEMMA SidesRight ==
    ASSUME TypeInv, NEW c \in Comp
    PROVE  /\ Sides(c) \in Seq(Side)
           /\ Distinct(Sides(c))
           /\ \A d \in Dir, p \in Port :
                 Held(Sides(c), <<d, p>>) <=> p \in ports[c][d]
<1> DEFINE R == {<<"rx", p>> : p \in ports[c]["rx"]}
           T == {<<"tx", p>> : p \in ports[c]["tx"]}
<1>0. "rx" \in Dir /\ "tx" \in Dir
  BY DEF Dir
<1>1. ports[c]["rx"] \in SUBSET Port /\ ports[c]["tx"] \in SUBSET Port
  BY <1>0 DEF TypeInv, TypeOK
<1>2. R \subseteq Side /\ T \subseteq Side /\ R \cap T = {}
  BY <1>0, <1>1 DEF Side
<1>3. IsFiniteSet(R) /\ IsFiniteSet(T)
  <2>1. IsFiniteSet(ports[c]["rx"]) /\ IsFiniteSet(ports[c]["tx"])
    BY <1>1, PortAssumption, FS_Subset
  <2>2. [p \in ports[c]["rx"] |-> <<"rx", p>>] \in Surjection(ports[c]["rx"], R)
    BY DEF Surjection
  <2>3. [p \in ports[c]["tx"] |-> <<"tx", p>>] \in Surjection(ports[c]["tx"], T)
    BY DEF Surjection
  <2> HIDE DEF R, T
  <2> QED
    BY <2>1, <2>2, <2>3, FS_Surjection
<1>4. \A d \in Dir, p \in Port :
          (<<d, p>> \in R \/ <<d, p>> \in T) <=> p \in ports[c][d]
  BY DEF Dir
<1> HIDE DEF R, T
<1>5. /\ SetToSeq(R) \in Seq(R) /\ Distinct(SetToSeq(R))
      /\ \A x : Held(SetToSeq(R), x) <=> x \in R
  BY <1>3, SetToSeqRight
<1>6. /\ SetToSeq(T) \in Seq(T) /\ Distinct(SetToSeq(T))
      /\ \A x : Held(SetToSeq(T), x) <=> x \in T
  BY <1>3, SetToSeqRight
<1>7. SetToSeq(R) \in Seq(Side) /\ SetToSeq(T) \in Seq(Side)
  BY <1>2, <1>5, <1>6
<1>8. \A x : ~ (Held(SetToSeq(R), x) /\ Held(SetToSeq(T), x))
  BY <1>2, <1>5, <1>6
<1>9. Sides(c) = SetToSeq(R) \o SetToSeq(T)
  BY DEF Sides, R, T
<1>10. /\ Sides(c) \in Seq(Side) /\ Distinct(Sides(c))
       /\ \A x : Held(Sides(c), x) <=> Held(SetToSeq(R), x)
                                       \/ Held(SetToSeq(T), x)
  BY <1>5, <1>6, <1>7, <1>8, <1>9, ConcatDistinct
<1> QED
  BY <1>4, <1>5, <1>6, <1>10

LEMMA OperationType ==
    ASSUME NEW o \in Ope, NEW d \in Dir, NEW v \in Vid
    PROVE  /\ Operation(o, d, v) \in Ability
           /\ Operation(o, d, v).ope = o /\ Operation(o, d, v).rxtx = d
BY DEF Operation, Ability

LEMMA NoAbilityType ==
    NoAbility \in Ability /\ NoAbility.ope = "none" /\ NoAbility.rxtx = "none"
BY DEF NoAbility, Ability, Ope

LEMMA SlotFound ==
    ASSUME NEW p
    PROVE  /\ \A s \in FreeSlot(p) : s \in Slots /\ ability[p][s].ope = "none"
           /\ \A s \in TagSlot(p) :
                 s \in Slots /\ ability[p][s].ope = "add_vlantag"
BY DEF FreeSlot, TagSlot, FirstSlot

LEMMA SelectedType ==
    ASSUME TypeInv, NEW p \in Port, NEW d \in Dir
    PROVE  Selected(p, d) \in AbilityList
BY OperationsRight DEF TypeInv, TypeOK, Selected

-----------------------------------------------------------------------------
(* Type correctness.                                                        *)

RegTypes ==
    /\ ports \in [Comp -> [Dir -> SUBSET Port]]
    /\ ability \in [Port -> [Slots -> Ability]]
    /\ started \subseteq Comp /\ flagged \subseteq Comp
    /\ toOpen \subseteq Port /\ opened \subseteq Port

AblTypes ==
    /\ aref \in [Port -> [Dir -> Area]]
    /\ aupd \in [Port -> [Dir -> Area]]
    /\ area \in [Port -> [Dir -> [Area -> AbilityList]]]
    /\ num \in [Dir -> 0 .. MaxList]
    /\ list \in [Dir -> [0 .. MaxList - 1 -> Port]]

CmpTypes ==
    /\ cref \in [Comp -> Area] /\ cupd \in [Comp -> Area]
    /\ path \in [Comp -> [Area -> [Dir -> SUBSET Port]]]
    /\ running \subseteq Comp

MainTypes ==
    /\ mpc \in {"command", "flush", "core", "component", "ability", "mark",
                "append", "wait"}
    /\ mcomp \subseteq Comp
    /\ ncmd \in Nat /\ mnum \in Nat
    /\ mports \in Seq(Side)

WorkerTypes ==
    /\ wpc \in [Comp -> Dir \cup {"look", "empty", "flip", "burst",
                                 "received", "send", "sent"}]
    /\ wcnt \in [Comp -> Nat]
    /\ wleft \in [Comp -> SUBSET Port]
    /\ wuse \in [Comp -> SUBSET (Port \X Dir \X Area)]

LEMMA TypeParts ==
    TypeInv <=> RegTypes /\ AblTypes /\ CmpTypes /\ MainTypes /\ WorkerTypes
<1>1. ASSUME area \in [Port -> [Dir -> [Area -> AbilityList]]]
      PROVE  \A p \in Port, d \in Dir, k \in Area :
                area[p][d][k] \in Seq(Ability) /\ Len(area[p][d][k]) <= MaxAbility
  BY <1>1 DEF AbilityList
<1> QED
  BY <1>1 DEF TypeInv, TypeOK, RegTypes, AblTypes, CmpTypes, MainTypes,
              WorkerTypes

LEMMA TypePartsNext ==
    ASSUME RegTypes', AblTypes', CmpTypes', MainTypes', WorkerTypes'
    PROVE  TypeInv'
<1>1. \A p \in Port, d \in Dir, k \in Area :
         area'[p][d][k] \in Seq(Ability) /\ Len(area'[p][d][k]) <= MaxAbility
  BY DEF AblTypes, AbilityList
<1> QED
  BY <1>1 DEF TypeInv, TypeOK, RegTypes, AblTypes, CmpTypes, MainTypes,
              WorkerTypes

LEMMA TypeInit == Init => TypeInv
<1> SUFFICES ASSUME Init
             PROVE  TypeInv
  OBVIOUS
<1>1. RegTypes
  BY NameAssumption, NoAbilityType DEF Init, RegTypes, NoPorts
<1>2. AblTypes
  <2>1. <<>> \in AbilityList
    BY EmptySeq, AbilityBoundAssumption DEF AbilityList
  <2> QED
    BY <2>1, NameAssumption, AbilityBoundAssumption DEF Init, AblTypes, Area
<1>3. CmpTypes
  BY DEF Init, CmpTypes, NoPorts, Area
<1>4. MainTypes
  BY EmptySeq DEF Init, MainTypes
<1>5. WorkerTypes
  BY DEF Init, WorkerTypes
<1> QED
  BY <1>1, <1>2, <1>3, <1>4, <1>5, TypeParts

(* A command changes what is registered, and main's place.                  *)
LEMMA CommandFrame ==
    ASSUME Command
    PROVE  /\ mpc = "command" /\ mpc' = "flush" /\ ncmd' = ncmd + 1
           /\ UNCHANGED <<ablVars, cmpVars, mcomp, mports, mnum, wrkVars, opened>>
BY DEF Command, Start, Stop, PortAdd, PortRetag, PortDel, TakeCommand, Accepted

LEMMA TypeCommand ==
    ASSUME TypeInv, Command
    PROVE  TypeInv'
<1>0. RegTypes /\ AblTypes /\ CmpTypes /\ MainTypes /\ WorkerTypes
  BY TypeParts
<1>1. AblTypes' /\ CmpTypes' /\ MainTypes' /\ WorkerTypes'
  BY <1>0, CommandFrame
     DEF AblTypes, CmpTypes, MainTypes, WorkerTypes, ablVars, cmpVars, wrkVars
<1>2. PICK c \in Comp :
          \/ Start(c)
          \/ Stop(c)
          \/ \E p \in Port, d \in Dir :
                \/ \E o \in Forms, v \in Vid : PortAdd(c, p, d, o, v)
                \/ \E v \in Vid : PortRetag(c, p, d, v)
                \/ PortDel(c, p, d)
  BY DEF Command
<1>3. CASE Start(c)
  <2>1. RegTypes'
    BY <1>0, <1>3 DEF RegTypes, Start
  <2> QED
    BY <1>1, <2>1, TypePartsNext
<1>4. CASE Stop(c)
  <2>1. RegTypes'
    BY <1>0, <1>4 DEF RegTypes, Stop, NoPorts
  <2> QED
    BY <1>1, <2>1, TypePartsNext
<1>5. ASSUME NEW p \in Port, NEW d \in Dir, NEW o \in Forms, NEW v \in Vid,
             PortAdd(c, p, d, o, v)
      PROVE  TypeInv'
  <2>0. o \in Ope
    BY FormsAssumption
  <2>1. ability' \in [Port -> [Slots -> Ability]]
    <3>1. CASE o = "none"
      BY <1>0, <1>5, <3>1 DEF RegTypes, PortAdd
    <3>2. CASE o # "none"
      <4>1. PICK s \in FreeSlot(p) :
                ability' = [ability EXCEPT ![p][s] = Operation(o, d, v)]
        BY <1>5, <3>2 DEF PortAdd
      <4> QED
        BY <1>0, <2>0, <4>1, OperationType, SlotFound DEF RegTypes
    <3> QED
      BY <3>1, <3>2
  <2>2. RegTypes'
    BY <1>0, <1>5, <2>1 DEF RegTypes, PortAdd
  <2> QED
    BY <1>1, <2>2, TypePartsNext
<1>6. ASSUME NEW p \in Port, NEW d \in Dir, NEW v \in Vid, PortRetag(c, p, d, v)
      PROVE  TypeInv'
  <2>1. ability' \in [Port -> [Slots -> Ability]]
    BY <1>0, <1>6, OperationType, SlotFound DEF RegTypes, PortRetag, Ope
  <2>2. RegTypes'
    BY <1>0, <1>6, <2>1 DEF RegTypes, PortRetag
  <2> QED
    BY <1>1, <2>2, TypePartsNext
<1>7. ASSUME NEW p \in Port, NEW d \in Dir, PortDel(c, p, d)
      PROVE  TypeInv'
  <2>1. WithoutDir(p, d) \in [Slots -> Ability]
    BY <1>0, NoAbilityType DEF RegTypes, WithoutDir
  <2>2. RegTypes'
    BY <1>0, <1>7, <2>1 DEF RegTypes, PortDel
  <2> QED
    BY <1>1, <2>2, TypePartsNext
<1> QED
  BY <1>2, <1>3, <1>4, <1>5, <1>6, <1>7

(* An assignment to one cell of a table.                                    *)
LEMMA Except2 ==
    ASSUME NEW A, NEW B, NEW V, NEW f \in [A -> [B -> V]],
           NEW a \in A, NEW b \in B, NEW v \in V,
           NEW g, g = [f EXCEPT ![a][b] = v]
    PROVE  /\ g \in [A -> [B -> V]]
           /\ \A x \in A, y \in B :
                 g[x][y] = IF x = a /\ y = b THEN v ELSE f[x][y]
<1>1. [f[a] EXCEPT ![b] = v] \in [B -> V]
  OBVIOUS
<1>2. [f EXCEPT ![a][b] = v] = [f EXCEPT ![a] = [f[a] EXCEPT ![b] = v]]
  OBVIOUS
<1> QED
  BY <1>1, <1>2

LEMMA Except3 ==
    ASSUME NEW A, NEW B, NEW C, NEW V, NEW f \in [A -> [B -> [C -> V]]],
           NEW a \in A, NEW b \in B, NEW c \in C, NEW v \in V,
           NEW g, g = [f EXCEPT ![a][b][c] = v]
    PROVE  /\ g \in [A -> [B -> [C -> V]]]
           /\ \A x \in A, y \in B, z \in C :
                 g[x][y][z] = IF x = a /\ y = b /\ z = c THEN v
                              ELSE f[x][y][z]
<1>1. PICK h : h = [f[a] EXCEPT ![b][c] = v]
  OBVIOUS
<1>2. h \in [B -> [C -> V]]
      /\ \A y \in B, z \in C : h[y][z] = IF y = b /\ z = c THEN v ELSE f[a][y][z]
  BY <1>1, Except2
<1>3. [f EXCEPT ![a][b][c] = v] = [f EXCEPT ![a] = [f[a] EXCEPT ![b][c] = v]]
  OBVIOUS
<1>4. g = [f EXCEPT ![a] = h]
  BY <1>1, <1>3
<1>5. g \in [A -> [B -> [C -> V]]] /\ \A x \in A : g[x] = IF x = a THEN h ELSE f[x]
  BY <1>2, <1>4
<1> QED
  BY <1>2, <1>5

(* What a step on the side at the head does, cell by cell.                  *)
LEMMA WriteEffect ==
    ASSUME TypeInv, AbilityWrite
    PROVE  \E d \in Dir, p \in Port :
              /\ Head(mports) = <<d, p>>
              /\ area' \in [Port -> [Dir -> [Area -> AbilityList]]]
              /\ \A q \in Port, e \in Dir, k \in Area :
                    area'[q][e][k] = IF q = p /\ e = d /\ k = aupd[p][d]
                                     THEN Selected(p, d) ELSE area[q][e][k]
<1>1. PICK d \in Dir, p \in Port : Head(mports) = <<d, p>>
  BY HeadSide DEF AbilityWrite
<1>2. Head(mports)[1] = d /\ Head(mports)[2] = p
  BY <1>1
<1>3. area' = [area EXCEPT ![p][d][aupd[p][d]] = Selected(p, d)]
  BY <1>2 DEF AbilityWrite, AreaToFill
<1>4. aupd[p][d] \in Area /\ Selected(p, d) \in AbilityList
      /\ area \in [Port -> [Dir -> [Area -> AbilityList]]]
  BY SelectedType DEF TypeInv, TypeOK
<1>5. area' \in [Port -> [Dir -> [Area -> AbilityList]]]
  BY <1>3, <1>4, Except3
<1>6. \A q \in Port, e \in Dir, k \in Area :
         area'[q][e][k] = IF q = p /\ e = d /\ k = aupd[p][d]
                          THEN Selected(p, d) ELSE area[q][e][k]
  <2>1. PICK v \in AbilityList, j \in Area : v = Selected(p, d) /\ j = aupd[p][d]
    BY <1>4
  <2>2. PICK f \in [Port -> [Dir -> [Area -> AbilityList]]] : f = area
    BY <1>4
  <2>3. PICK g : g = [f EXCEPT ![p][d][j] = v] /\ g = area'
    BY <1>3, <2>1, <2>2
  <2>4. \A q \in Port, e \in Dir, k \in Area :
           g[q][e][k] = IF q = p /\ e = d /\ k = j THEN v ELSE f[q][e][k]
    BY <2>3, Except3
  <2> QED
    BY <2>1, <2>2, <2>3, <2>4
<1> QED
  BY <1>1, <1>5, <1>6

LEMMA MarkEffect ==
    ASSUME TypeInv, MainInv, AbilityMark
    PROVE  \E d \in Dir, p \in Port :
              /\ Head(mports) = <<d, p>>
              /\ mnum' = num[d]
              /\ aupd' \in [Port -> [Dir -> Area]]
              /\ \A q \in Port, e \in Dir :
                    aupd'[q][e] = IF q = p /\ e = d THEN aref[p][d]
                                  ELSE aupd[q][e]
<1>1. PICK d \in Dir, p \in Port : Head(mports) = <<d, p>>
  BY HeadSide DEF AbilityMark, MainInv
<1>2. Head(mports)[1] = d /\ Head(mports)[2] = p
  BY <1>1
<1>3. aupd' = [aupd EXCEPT ![p][d] = aref[p][d]] /\ mnum' = num[d]
  BY <1>2 DEF AbilityMark
<1>4. aupd \in [Port -> [Dir -> Area]] /\ aref[p][d] \in Area
  BY DEF TypeInv, TypeOK
<1>5. aupd' \in [Port -> [Dir -> Area]]
  BY <1>3, <1>4, Except2
<1>6. \A q \in Port, e \in Dir :
         aupd'[q][e] = IF q = p /\ e = d THEN aref[p][d] ELSE aupd[q][e]
  BY <1>3, <1>4, Except2
<1> QED
  BY <1>1, <1>3, <1>5, <1>6

LEMMA AppendEffect ==
    ASSUME TypeInv, MainInv, AbilityAppend, mnum < MaxList
    PROVE  \E d \in Dir, p \in Port :
              /\ Head(mports) = <<d, p>> /\ mnum = num[d]
              /\ num' \in [Dir -> 0 .. MaxList]
              /\ \A e \in Dir : num'[e] = IF e = d THEN num[d] + 1 ELSE num[e]
              /\ list' \in [Dir -> [0 .. MaxList - 1 -> Port]]
              /\ \A e \in Dir, n \in 0 .. MaxList - 1 :
                    list'[e][n] = IF e = d /\ n = num[d] THEN p ELSE list[e][n]
<1>1. PICK d \in Dir, p \in Port : Head(mports) = <<d, p>>
  BY HeadSide DEF AbilityAppend, MainInv
<1>2. Head(mports)[1] = d /\ Head(mports)[2] = p /\ mnum = num[d]
  BY <1>1 DEF MainInv, AbilityAppend
<1>3. list' = [list EXCEPT ![d][mnum] = p]
      /\ num' = [num EXCEPT ![d] = mnum + 1]
  BY <1>2 DEF AbilityAppend
<1>4. list \in [Dir -> [0 .. MaxList - 1 -> Port]]
      /\ num \in [Dir -> 0 .. MaxList] /\ mnum \in Nat /\ MaxList \in Nat
  BY AbilityBoundAssumption DEF TypeInv, TypeOK
<1>5. mnum \in 0 .. MaxList - 1 /\ mnum + 1 \in 0 .. MaxList
  BY <1>4
<1>6. list' \in [Dir -> [0 .. MaxList - 1 -> Port]]
      /\ \A e \in Dir, n \in 0 .. MaxList - 1 :
            list'[e][n] = IF e = d /\ n = mnum THEN p ELSE list[e][n]
  BY <1>3, <1>4, <1>5, Except2
<1>7. num' \in [Dir -> 0 .. MaxList]
      /\ \A e \in Dir : num'[e] = IF e = d THEN num[d] + 1 ELSE num[e]
  BY <1>2, <1>3, <1>4, <1>5
<1> QED
  BY <1>1, <1>2, <1>6, <1>7

LEMMA RequestEffect ==
    ASSUME TypeInv, MainInv, PathRequest
    PROVE  /\ Current \in Comp
           /\ path' \in [Comp -> [Area -> [Dir -> SUBSET Port]]]
           /\ \A c \in Comp, k \in Area :
                 path'[c][k] = IF c = Current /\ k = cupd[c] THEN ports[c]
                               ELSE path[c][k]
           /\ cupd' \in [Comp -> Area]
           /\ \A c \in Comp : cupd'[c] = IF c = Current THEN cref[c] ELSE cupd[c]
<1>1. Current \in Comp
  BY Turn DEF PathRequest, Busy
<1>2. path' = [path EXCEPT ![Current][cupd[Current]] = ports[Current]]
      /\ cupd' = [cupd EXCEPT ![Current] = cref[Current]]
  BY DEF PathRequest, Current
<1>3. /\ path \in [Comp -> [Area -> [Dir -> SUBSET Port]]]
      /\ ports[Current] \in [Dir -> SUBSET Port] /\ cupd[Current] \in Area
      /\ cupd \in [Comp -> Area] /\ cref[Current] \in Area
  BY <1>1 DEF TypeInv, TypeOK
<1>4. path' \in [Comp -> [Area -> [Dir -> SUBSET Port]]]
  BY <1>1, <1>2, <1>3, Except2
<1>5. \A c \in Comp, k \in Area :
         path'[c][k] = IF c = Current /\ k = cupd[Current] THEN ports[Current]
                       ELSE path[c][k]
  BY <1>1, <1>2, <1>3, Except2
<1>6. cupd' \in [Comp -> Area]
      /\ \A c \in Comp : cupd'[c] = IF c = Current THEN cref[c] ELSE cupd[c]
  BY <1>1, <1>2, <1>3
<1> QED
  BY <1>1, <1>4, <1>5, <1>6

LEMMA SwitchEffect ==
    ASSUME TypeInv, NEW c \in Comp, SwitchPort(c)
    PROVE  \E d \in Dir, p \in Port :
              /\ wpc[c] = d /\ wcnt[c] < num[d] /\ wcnt[c] \in Nat
              /\ wcnt[c] \in 0 .. MaxList - 1 /\ p = list[d][wcnt[c]]
              /\ list' \in [Dir -> [0 .. MaxList - 1 -> Port]]
              /\ \A e \in Dir, n \in 0 .. MaxList - 1 :
                    list'[e][n] = IF e = d /\ n = wcnt[c] THEN PortZero
                                  ELSE list[e][n]
              /\ aref' \in [Port -> [Dir -> Area]]
              /\ \A q \in Port, e \in Dir :
                    aref'[q][e] = IF q = p /\ e = d THEN 1 - aupd[p][d]
                                  ELSE aref[q][e]
<1>1. wpc[c] \in Dir /\ wcnt[c] \in Nat /\ wcnt[c] < num[wpc[c]]
      /\ num[wpc[c]] \in 0 .. MaxList /\ MaxList \in Nat
      /\ list \in [Dir -> [0 .. MaxList - 1 -> Port]]
      /\ aref \in [Port -> [Dir -> Area]]
  BY AbilityBoundAssumption DEF SwitchPort, TypeInv, TypeOK
<1>2. wcnt[c] \in 0 .. MaxList - 1
  BY <1>1
<1>3. PICK d \in Dir : d = wpc[c]
  BY <1>1
<1>4. PICK p \in Port : p = list[d][wcnt[c]]
  BY <1>1, <1>2
<1>5. aref' = [aref EXCEPT ![p][d] = 1 - aupd[p][d]]
      /\ list' = [list EXCEPT ![d][wcnt[c]] = PortZero]
  BY <1>3, <1>4 DEF SwitchPort
<1>6. 1 - aupd[p][d] \in Area
  <2>1. aupd[p][d] \in 0 .. 1
    BY DEF TypeInv, TypeOK, Area
  <2>2. aupd[p][d] = 0 \/ aupd[p][d] = 1
    BY <2>1
  <2> QED
    BY <2>2 DEF Area
<1>7. list' \in [Dir -> [0 .. MaxList - 1 -> Port]]
      /\ \A e \in Dir, n \in 0 .. MaxList - 1 :
            list'[e][n] = IF e = d /\ n = wcnt[c] THEN PortZero ELSE list[e][n]
  <2>0. PICK I : I = 0 .. MaxList - 1
    OBVIOUS
  <2>1. PICK j \in I, z \in Port : j = wcnt[c] /\ z = PortZero
    BY <1>2, <2>0, NameAssumption
  <2>2. PICK f \in [Dir -> [I -> Port]] : f = list
    BY <1>1, <2>0
  <2>3. PICK g : g = [f EXCEPT ![d][j] = z] /\ g = list'
    BY <1>5, <2>1, <2>2
  <2>4. /\ g \in [Dir -> [I -> Port]]
        /\ \A e \in Dir, n \in I :
              g[e][n] = IF e = d /\ n = j THEN z ELSE f[e][n]
    BY <2>3, Except2
  <2>5. list' \in [Dir -> [I -> Port]]
    BY <2>3, <2>4
  <2>6. \A e \in Dir, n \in I :
           list'[e][n] = IF e = d /\ n = wcnt[c] THEN PortZero ELSE list[e][n]
    <3> SUFFICES ASSUME NEW e \in Dir, NEW n \in I
                 PROVE  list'[e][n] = IF e = d /\ n = wcnt[c] THEN PortZero
                                      ELSE list[e][n]
      OBVIOUS
    <3>1. g[e][n] = IF e = d /\ n = j THEN z ELSE f[e][n]
      BY <2>4
    <3> QED
      BY <2>1, <2>2, <2>3, <3>1, Zenon
  <2> QED
    BY <2>0, <2>5, <2>6
<1>8. aref' \in [Port -> [Dir -> Area]]
      /\ \A q \in Port, e \in Dir :
            aref'[q][e] = IF q = p /\ e = d THEN 1 - aupd[p][d] ELSE aref[q][e]
  <2>1. PICK v \in Area : v = 1 - aupd[p][d]
    BY <1>6
  <2>2. PICK f \in [Port -> [Dir -> Area]] : f = aref
    BY <1>1
  <2>3. PICK g : g = [f EXCEPT ![p][d] = v] /\ g = aref'
    BY <1>5, <2>1, <2>2
  <2>4. /\ g \in [Port -> [Dir -> Area]]
        /\ \A q \in Port, e \in Dir :
              g[q][e] = IF q = p /\ e = d THEN v ELSE f[q][e]
    BY <2>3, Except2
  <2>5. aref' \in [Port -> [Dir -> Area]]
    BY <2>3, <2>4
  <2>6. \A q \in Port, e \in Dir :
           aref'[q][e] = IF q = p /\ e = d THEN 1 - aupd[p][d] ELSE aref[q][e]
    <3> SUFFICES ASSUME NEW q \in Port, NEW e \in Dir
                 PROVE  aref'[q][e] = IF q = p /\ e = d THEN 1 - aupd[p][d]
                                      ELSE aref[q][e]
      OBVIOUS
    <3>1. g[q][e] = IF q = p /\ e = d THEN v ELSE f[q][e]
      BY <2>4
    <3> QED
      BY <2>1, <2>2, <2>3, <3>1, Zenon
  <2> QED
    BY <2>5, <2>6
<1> QED
  BY <1>1, <1>2, <1>3, <1>4, <1>7, <1>8

LEMMA TypeFlush ==
    ASSUME TypeInv, MainInv, Flush, mpc = "append" => mnum < MaxList
    PROVE  TypeInv'
<1>0. RegTypes /\ AblTypes /\ CmpTypes /\ MainTypes /\ WorkerTypes
  BY TypeParts
<1> USE DEF ablVars, cmpVars, regVars, wrkVars
<1>1. CASE FlushPort
  BY <1>0, <1>1, TypePartsNext
     DEF FlushPort, RegTypes, AblTypes, CmpTypes, MainTypes, WorkerTypes
<1>2. CASE FlushPortFail
  BY <1>0, <1>2, TypePartsNext
     DEF FlushPortFail, RegTypes, AblTypes, CmpTypes, MainTypes, WorkerTypes
<1>3. CASE FlushCore
  BY <1>0, <1>3, TypePartsNext
     DEF FlushCore, RegTypes, AblTypes, CmpTypes, MainTypes, WorkerTypes
<1>4. CASE NextComponent
  <2>1. mports' \in Seq(Side)
    <3>1. CASE mcomp = {}
      BY <1>0, <1>4, <3>1 DEF NextComponent, MainTypes
    <3>2. CASE mcomp # {}
      <4>1. Lowest(mcomp) \in Comp
        BY <1>0, <3>2, LowestIn DEF MainTypes
      <4> QED
        BY <1>4, <3>2, <4>1, SidesRight DEF NextComponent
    <3> QED
      BY <3>1, <3>2
  <2> QED
    BY <1>0, <1>4, <2>1, TypePartsNext
       DEF NextComponent, RegTypes, AblTypes, CmpTypes, MainTypes, WorkerTypes
<1>5. CASE AbilityWrite
  <2>1. AblTypes'
    BY <1>0, <1>5, WriteEffect DEF AblTypes, AbilityWrite
  <2> QED
    BY <1>0, <1>5, <2>1, TypePartsNext
       DEF AbilityWrite, RegTypes, CmpTypes, MainTypes, WorkerTypes
<1>6. CASE AbilityMark
  <2>1. PICK d \in Dir : mnum' = num[d]
    BY <1>6, MarkEffect
  <2>2. AblTypes' /\ mnum' \in Nat
    BY <1>0, <1>6, <2>1, MarkEffect DEF AblTypes, AbilityMark
  <2> QED
    BY <1>0, <1>6, <2>2, TypePartsNext
       DEF AbilityMark, RegTypes, CmpTypes, MainTypes, WorkerTypes
<1>7. CASE AbilityAppend
  <2>0. mpc = "append" /\ mports # <<>>
    BY <1>7 DEF AbilityAppend, MainInv
  <2>1. AblTypes'
    BY <1>0, <1>7, <2>0, AppendEffect DEF AblTypes, AbilityAppend
  <2>2. mports' \in Seq(Side)
    BY <1>0, <1>7, <2>0, HeadTailProperties DEF MainTypes, AbilityAppend
  <2> QED
    BY <1>0, <1>7, <2>1, <2>2, TypePartsNext
       DEF AbilityAppend, RegTypes, CmpTypes, MainTypes, WorkerTypes
<1>8. CASE PathRequest
  <2>1. CmpTypes'
    BY <1>0, <1>8, RequestEffect DEF CmpTypes, PathRequest
  <2> QED
    BY <1>0, <1>8, <2>1, TypePartsNext
       DEF PathRequest, RegTypes, AblTypes, MainTypes, WorkerTypes
<1>9. CASE PathSwitched
  BY <1>0, <1>9, TypePartsNext
     DEF PathSwitched, RegTypes, AblTypes, CmpTypes, MainTypes, WorkerTypes
<1> QED
  BY <1>1, <1>2, <1>3, <1>4, <1>5, <1>6, <1>7, <1>8, <1>9 DEF Flush

LEMMA GoesThroughType ==
    ASSUME TypeInv, NEW c \in Comp, NEW p \in Port, NEW d \in Dir,
           GoesThrough(c, p, d)
    PROVE  wuse' \in [Comp -> SUBSET (Port \X Dir \X Area)]
<1>1. aref[p][d] \in Area
  BY DEF TypeInv, TypeOK
<1>2. {<<p, d, aref[p][d]>>} \in SUBSET (Port \X Dir \X Area)
  BY <1>1
<1> QED
  BY <1>2 DEF GoesThrough, TypeInv

(* A worker changes the indices it switches, and its own place.             *)
LEMMA TypeWorker ==
    ASSUME TypeInv, NEW c \in Comp, Worker(c)
    PROVE  TypeInv'
<1>0. RegTypes /\ AblTypes /\ CmpTypes /\ MainTypes /\ WorkerTypes
  BY TypeParts
<1>a. RegTypes' /\ MainTypes'
  BY <1>0 DEF Worker, Look, SwitchPort, EndOfList, EmptyLists, Flip, Drain,
              ReceiveBurst, Received, SendBurst, Sent, regVars, mainVars,
              RegTypes, MainTypes
<1> USE DEF ablVars, cmpVars
<1>1. CASE Look(c)
  <2>1. wcnt' \in [Comp -> Nat]
        /\ wpc' \in [Comp -> Dir \cup {"look", "empty", "flip", "burst",
                                      "received", "send", "sent"}]
    BY <1>0, <1>1 DEF Look, WorkerTypes, Dir
  <2>2. path[c][cref[c]]["rx"] \subseteq Port
    BY <1>0 DEF CmpTypes, Dir
  <2>3. wleft' \in [Comp -> SUBSET Port]
    BY <1>0, <1>1, <2>2 DEF Look, WorkerTypes
  <2>4. WorkerTypes'
    BY <1>0, <1>1, <2>1, <2>3 DEF Look, WorkerTypes
  <2> QED
    BY <1>0, <1>a, <1>1, <2>4, TypePartsNext DEF Look, AblTypes, CmpTypes
<1>2. CASE SwitchPort(c)
  <2>1. AblTypes'
    BY <1>0, <1>2, SwitchEffect DEF AblTypes, SwitchPort
  <2>2. WorkerTypes'
    BY <1>0, <1>2 DEF WorkerTypes, SwitchPort
  <2> QED
    BY <1>0, <1>a, <1>2, <2>1, <2>2, TypePartsNext DEF SwitchPort, CmpTypes
<1>3. CASE EndOfList(c)
  <2>1. WorkerTypes'
    BY <1>0, <1>3 DEF EndOfList, WorkerTypes, Dir
  <2> QED
    BY <1>0, <1>a, <1>3, <2>1, TypePartsNext DEF EndOfList, AblTypes, CmpTypes
<1>4. CASE EmptyLists(c)
  <2>1. WorkerTypes'
    BY <1>0, <1>4 DEF EmptyLists, WorkerTypes
  <2>2. AblTypes'
    BY <1>0, <1>4, AbilityBoundAssumption DEF EmptyLists, AblTypes, Emptied
  <2> QED
    BY <1>0, <1>a, <1>4, <2>1, <2>2, TypePartsNext DEF EmptyLists, CmpTypes
<1>5. CASE Flip(c)
  <2>0. 1 - cupd[c] \in Area
    BY <1>0 DEF CmpTypes, Area
  <2>1. CmpTypes'
    BY <1>0, <1>5, <2>0 DEF Flip, CmpTypes
  <2>2. path[c][1 - cupd[c]]["rx"] \subseteq Port
    BY <1>0, <2>0 DEF CmpTypes, Dir
  <2>3. wcnt' \in [Comp -> Nat]
        /\ wpc' \in [Comp -> Dir \cup {"look", "empty", "flip", "burst",
                                      "received", "send", "sent"}]
    BY <1>0, <1>5 DEF Flip, WorkerTypes
  <2>4. wleft' \in [Comp -> SUBSET Port]
    BY <1>0, <1>5, <2>2 DEF Flip, WorkerTypes
  <2>5. wuse' \in [Comp -> SUBSET (Port \X Dir \X Area)]
    BY <1>0, <1>5 DEF Flip, WorkerTypes
  <2>6. WorkerTypes'
    BY <2>3, <2>4, <2>5 DEF WorkerTypes
  <2> QED
    BY <1>0, <1>a, <1>5, <2>1, <2>6, TypePartsNext DEF Flip, AblTypes
<1>6. CASE Drain(c)
  <2>1. PICK p \in Port : GoesThrough(c, p, "tx")
    BY <1>0, <1>6 DEF Drain, CmpTypes, Dir
  <2>2. WorkerTypes'
    BY <1>0, <1>6, <2>1, GoesThroughType DEF Drain, WorkerTypes, Dir
  <2> QED
    BY <1>0, <1>a, <1>6, <2>2, TypePartsNext DEF Drain, AblTypes, CmpTypes
<1>7. CASE ReceiveBurst(c)
  <2>1. PICK p \in Port : GoesThrough(c, p, "rx")
                          /\ wleft' = [wleft EXCEPT ![c] = @ \ {p}]
    BY <1>0, <1>7 DEF ReceiveBurst, WorkerTypes
  <2>2. wuse' \in [Comp -> SUBSET (Port \X Dir \X Area)]
    BY <2>1, GoesThroughType DEF Dir
  <2>3. WorkerTypes'
    BY <1>0, <1>7, <2>1, <2>2 DEF ReceiveBurst, WorkerTypes
  <2> QED
    BY <1>0, <1>a, <1>7, <2>3, TypePartsNext DEF ReceiveBurst, AblTypes, CmpTypes
<1>8. CASE Received(c)
  <2>1. WorkerTypes'
    BY <1>0, <1>8 DEF Received, WorkerTypes
  <2> QED
    BY <1>0, <1>a, <1>8, <2>1, TypePartsNext DEF Received, AblTypes, CmpTypes
<1>9. CASE SendBurst(c)
  <2>1. PICK p \in Port : GoesThrough(c, p, "tx")
    BY <1>0, <1>9 DEF SendBurst, CmpTypes, Dir
  <2>2. wuse' \in [Comp -> SUBSET (Port \X Dir \X Area)]
    BY <2>1, GoesThroughType DEF Dir
  <2>3. WorkerTypes'
    BY <1>0, <1>9, <2>2 DEF SendBurst, WorkerTypes
  <2> QED
    BY <1>0, <1>a, <1>9, <2>3, TypePartsNext DEF SendBurst, AblTypes, CmpTypes
<1>10. CASE Sent(c)
  <2>1. WorkerTypes'
    BY <1>0, <1>10 DEF Sent, WorkerTypes
  <2> QED
    BY <1>0, <1>a, <1>10, <2>1, TypePartsNext DEF Sent, AblTypes, CmpTypes
<1> QED
  BY <1>1, <1>2, <1>3, <1>4, <1>5, <1>6, <1>7, <1>8, <1>9, <1>10 DEF Worker

-----------------------------------------------------------------------------
(* What is registered.                                                      *)

(* A port that comes to a component belonged to none in this direction.     *)
LEMMA PortFree ==
    ASSUME Orderly, OwnerInv, NEW c \in Comp, NEW d \in Dir, NEW p \in Port,
           ForeignPort(c, p, d) => Foreign, p \notin ports[c][d]
    PROVE  \A b \in Comp : p \notin ports[b][d]
<1> SUFFICES ASSUME NEW b \in Comp, p \in ports[b][d]
             PROVE  FALSE
  OBVIOUS
<1>1. b \in started
  BY DEF OwnerInv, NoPorts
<1> QED
  BY <1>1 DEF Orderly, ForeignPort, Used

(* What each command changes, port by port and slot by slot: a component    *)
(* that is flagged afterwards, and operations of one direction of one port  *)
(* that no other component has.                                             *)
LEMMA CommandEffect ==
    ASSUME Orderly, TypeInv, OwnerInv, Command
    PROVE  /\ TypeInv'
           /\ OwnerInv'
           /\ \E c \in Comp :
                 /\ flagged' \subseteq flagged \cup {c}
                 /\ flagged \ {c} \subseteq flagged'
                 /\ c \in started' => c \in flagged'
                 /\ \A b \in Comp \ {c} :
                       ports'[b] = ports[b] /\ (b \in started' <=> b \in started)
                 /\ \A b \in Comp \ {c}, e \in Dir, q \in Port :
                       q \in ports[b][e] => Selected(q, e)' = Selected(q, e)
<1>0. TypeInv'
  BY TypeCommand
<1>1. PICK c \in Comp :
          \/ Start(c)
          \/ Stop(c)
          \/ \E p \in Port, d \in Dir :
                \/ \E o \in Forms, v \in Vid : PortAdd(c, p, d, o, v)
                \/ \E v \in Vid : PortRetag(c, p, d, v)
                \/ PortDel(c, p, d)
  BY DEF Command
<1>2. ability \in [Port -> [Slots -> Ability]]
      /\ ability' \in [Port -> [Slots -> Ability]]
      /\ ports \in [Comp -> [Dir -> SUBSET Port]]
      /\ flagged \subseteq Comp /\ started \subseteq Comp
  BY <1>0 DEF TypeInv, TypeOK
<1> DEFINE Same == \A q \in Port, e \in Dir :
                      (\E b \in Comp \ {c} : q \in ports[b][e])
                         => \A s \in Slots : ability[q][s].rxtx = e \/
                                             ability'[q][s].rxtx = e
                               => ability'[q][s] = ability[q][s]
           Goal == /\ flagged' \subseteq flagged \cup {c}
                   /\ flagged \ {c} \subseteq flagged'
                   /\ c \in started' => c \in flagged'
                   /\ \A b \in Comp \ {c} :
                         ports'[b] = ports[b]
                         /\ (b \in started' <=> b \in started)
<1>3. ASSUME Same, NEW b \in Comp \ {c}, NEW e \in Dir, NEW q \in Port,
             q \in ports[b][e]
      PROVE  Selected(q, e)' = Selected(q, e)
  <2>1. ability[q] \in [Slots -> Ability] /\ ability'[q] \in [Slots -> Ability]
    BY <1>2
  <2>2. \A s \in Slots : ability[q][s].rxtx = e \/ ability'[q][s].rxtx = e
            => ability[q][s] = ability'[q][s]
    BY <1>3
  <2>3. Operations(ability[q], e) = Operations(ability'[q], e)
    BY <2>1, <2>2, OperationsSame
  <2> QED
    BY <2>3 DEF Selected
<1>4. CASE Start(c)
  <2>1. OwnerInv'
    BY <1>4 DEF OwnerInv, Start
  <2>2. Same /\ Goal
    BY <1>4, <1>2 DEF Start
  <2> HIDE DEF Same
  <2> QED
    BY <1>0, <1>3, <2>1, <2>2
<1>5. CASE Stop(c)
  <2>1. ports' = [ports EXCEPT ![c] = NoPorts]
    BY <1>5 DEF Stop
  <2>2. \A b \in Comp : ports'[b] = IF b = c THEN NoPorts ELSE ports[b]
    BY <1>2, <2>1
  <2>3. OwnerInv'
    BY <1>5, <2>2 DEF OwnerInv, Stop, NoPorts
  <2>4. Same /\ Goal
    BY <1>5, <1>2, <2>2 DEF Stop
  <2> HIDE DEF Same
  <2> QED
    BY <1>0, <1>3, <2>3, <2>4
<1>6. ASSUME NEW p \in Port, NEW d \in Dir, NEW o \in Forms, NEW v \in Vid,
             PortAdd(c, p, d, o, v)
      PROVE  OwnerInv' /\ Same /\ Goal
  <2>0. \A b \in Comp : p \notin ports[b][d]
    BY <1>6, PortFree DEF PortAdd
  <2>1. \A b \in Comp, e \in Dir :
           ports'[b][e] = IF b = c /\ e = d THEN ports[b][e] \cup {p}
                          ELSE ports[b][e]
    BY <1>2, <1>6 DEF PortAdd
  <2>2. \A b \in Comp \ {c} : ports'[b] = ports[b]
    BY <1>2, <1>6 DEF PortAdd
  <2>3. started' = started /\ flagged' = flagged \cup {c} /\ c \in started
    BY <1>6 DEF PortAdd
  <2>4. \A q \in Port, s \in Slots :
           \/ ability'[q][s] = ability[q][s]
           \/ /\ q = p /\ ability[q][s].ope = "none"
              /\ ability'[q][s].ope # "none" /\ ability'[q][s].rxtx = d
    <3>1. CASE o = "none"
      BY <1>6, <3>1 DEF PortAdd
    <3>2. CASE o # "none"
      <4>1. PICK s \in FreeSlot(p) :
                ability' = [ability EXCEPT ![p][s] = Operation(o, d, v)]
        BY <1>6, <3>2 DEF PortAdd
      <4>2. s \in Slots /\ ability[p][s].ope = "none"
        BY <4>1, SlotFound
      <4>3. Operation(o, d, v).ope = o /\ Operation(o, d, v).rxtx = d
        BY FormsAssumption, OperationType
      <4> QED
        BY <1>2, <3>2, <4>1, <4>2, <4>3
    <3> QED
      BY <3>1, <3>2
  <2>5. \A q \in Port, s \in Slots :
           ability'[q][s].ope = "none" => ability'[q][s].rxtx = "none"
    BY <2>4 DEF OwnerInv
  <2>6. /\ \A b \in Comp \ started : ports'[b] = NoPorts
        /\ \A a, b \in Comp, e \in Dir, q \in Port :
              q \in ports'[a][e] /\ q \in ports'[b][e] => a = b
    <3>1. \A b \in Comp \ started : ports'[b] = NoPorts
      BY <2>2, <2>3 DEF OwnerInv
    <3>2. ASSUME NEW a \in Comp, NEW b \in Comp, NEW e \in Dir, NEW q \in Port,
                 q \in ports'[a][e], q \in ports'[b][e]
          PROVE  a = b
      <4>1. \A x \in Comp :
                q \in ports'[x][e] => q \in ports[x][e] \/ (x = c /\ e = d /\ q = p)
        BY <2>1
      <4>2. CASE e = d /\ q = p
        BY <2>0, <3>2, <4>1, <4>2
      <4>3. CASE ~ (e = d /\ q = p)
        BY <3>2, <4>1, <4>3 DEF OwnerInv
      <4> QED
        BY <4>2, <4>3
    <3> QED
      BY <3>1, <3>2
  <2>7. OwnerInv'
    BY <2>3, <2>5, <2>6 DEF OwnerInv
  <2>8. Same
    BY <2>0, <2>4 DEF OwnerInv, Dir
  <2>9. Goal
    BY <2>2, <2>3
  <2> HIDE DEF Same, Goal
  <2> QED
    BY <2>7, <2>8, <2>9
<1>7. ASSUME NEW p \in Port, NEW d \in Dir, NEW v \in Vid, PortRetag(c, p, d, v)
      PROVE  OwnerInv' /\ Same /\ Goal
  <2>1. PICK s \in TagSlot(p) :
            /\ ability[p][s].rxtx # d => Foreign
            /\ ability' = [ability EXCEPT ![p][s] = Operation("add_vlantag", d, v)]
    BY <1>7 DEF PortRetag
  <2>2. s \in Slots /\ ability[p][s].rxtx = d
    BY <2>1, SlotFound DEF Orderly
  <2>3. Operation("add_vlantag", d, v).ope = "add_vlantag"
        /\ Operation("add_vlantag", d, v).rxtx = d
    BY OperationType DEF Ope
  <2>4. \A q \in Port, r \in Slots :
           \/ ability'[q][r] = ability[q][r]
           \/ /\ q = p /\ ability[q][r].rxtx = d
              /\ ability'[q][r].ope # "none" /\ ability'[q][r].rxtx = d
    BY <1>2, <2>1, <2>2, <2>3
  <2>5. started' = started /\ flagged' = flagged \cup {c} /\ c \in started
        /\ ports' = ports /\ p \in ports[c][d]
    BY <1>7 DEF PortRetag
  <2>6. \A b \in Comp \ {c} : p \notin ports[b][d]
    BY <2>5 DEF OwnerInv
  <2>7. \A q \in Port, r \in Slots :
           ability'[q][r].ope = "none" => ability'[q][r].rxtx = "none"
    BY <2>4 DEF OwnerInv
  <2>8. OwnerInv'
    BY <2>5, <2>7 DEF OwnerInv
  <2>9. Same
    BY <2>4, <2>6
  <2>10. Goal
    BY <2>5
  <2> HIDE DEF Same, Goal
  <2> QED
    BY <2>8, <2>9, <2>10
<1>8. ASSUME NEW p \in Port, NEW d \in Dir, PortDel(c, p, d)
      PROVE  OwnerInv' /\ Same /\ Goal
  <2>1. \A b \in Comp \ {c} : p \notin ports[b][d]
    <3>1. CASE p \in ports[c][d]
      BY <3>1 DEF OwnerInv
    <3>2. CASE p \notin ports[c][d]
      BY <1>8, <3>2, PortFree DEF PortDel
    <3> QED
      BY <3>1, <3>2
  <2>2. \A b \in Comp, e \in Dir : ports'[b][e] \subseteq ports[b][e]
    BY <1>2, <1>8 DEF PortDel
  <2>3. \A b \in Comp \ {c} : ports'[b] = ports[b]
    BY <1>2, <1>8 DEF PortDel
  <2>4. started' = started /\ flagged' = flagged \cup {c} /\ c \in started
    BY <1>8 DEF PortDel
  <2>5. \A q \in Port, s \in Slots :
           \/ ability'[q][s] = ability[q][s]
           \/ /\ q = p /\ ability[q][s].rxtx = d
              /\ ability'[q][s].rxtx = "none"
    BY <1>2, <1>8, NoAbilityType DEF PortDel, WithoutDir
  <2>6. \A q \in Port, s \in Slots :
           ability'[q][s].ope = "none" => ability'[q][s].rxtx = "none"
    BY <2>5 DEF OwnerInv
  <2>7. /\ \A b \in Comp \ started : ports'[b] = NoPorts
        /\ \A a, b \in Comp, e \in Dir, q \in Port :
              q \in ports'[a][e] /\ q \in ports'[b][e] => a = b
    BY <2>2, <2>3, <2>4 DEF OwnerInv
  <2>8. OwnerInv'
    BY <2>4, <2>6, <2>7 DEF OwnerInv
  <2>9. Same
    BY <2>1, <2>5 DEF Dir
  <2>10. Goal
    BY <2>3, <2>4
  <2> HIDE DEF Same, Goal
  <2> QED
    BY <2>8, <2>9, <2>10
<1>9. OwnerInv' /\ Same /\ Goal
      => /\ TypeInv' /\ OwnerInv' /\ Goal
         /\ \A b \in Comp \ {c}, e \in Dir, q \in Port :
               q \in ports[b][e] => Selected(q, e)' = Selected(q, e)
  <2> HIDE DEF Same, Goal
  <2> QED
    BY <1>0, <1>3
<1> QED
  BY <1>1, <1>4, <1>5, <1>6, <1>7, <1>8, <1>9

(* A flush may only clear the flags, and a worker leaves all as it is.      *)
LEMMA OwnerOther ==
    ASSUME OwnerInv, UNCHANGED <<ports, ability, started>>, flagged' \subseteq flagged
    PROVE  OwnerInv'
BY DEF OwnerInv

LEMMA NothingHeld == Distinct(<<>>) /\ \A x : ~Held(<<>>, x)
BY EmptySeq DEF Held, Distinct

(* The flush: its frame, and what is left of the sides.                     *)
LEMMA FlushFrame ==
    ASSUME Flush
    PROVE  /\ UNCHANGED <<ports, ability, started, wrkVars>>
           /\ flagged' \subseteq flagged
BY DEF Flush, FlushPort, FlushPortFail, FlushCore, NextComponent, AbilityWrite,
       AbilityMark, AbilityAppend, PathRequest, PathSwitched, regVars

LEMMA WorkerFrame ==
    ASSUME NEW c, Worker(c)
    PROVE  UNCHANGED <<regVars, mainVars, aupd, area, cupd, path, running>>
BY DEF Worker, Look, SwitchPort, EndOfList, EmptyLists, Flip, Drain,
       ReceiveBurst, Received, SendBurst, Sent, ablVars, cmpVars

LEMMA MainCommand ==
    ASSUME TypeInv, MainInv, Command
    PROVE  MainInv'
<1>1. mpc = "command" /\ mpc' = "flush" /\ mcomp' = mcomp /\ mports' = mports
  BY CommandFrame
<1>2. mcomp = {} /\ mports = <<>>
  BY <1>1 DEF MainInv, Flushing, Busy
<1> QED
  BY <1>1, <1>2, NothingHeld DEF MainInv, Flushing, Busy, ToFill

LEMMA MainFlush ==
    ASSUME TypeInv, OwnerInv, MainInv, Flush
    PROVE  MainInv'
<1>0. ports' = ports
  BY FlushFrame
<1> USE DEF Flushing, Busy
<1>1. CASE FlushPort
  <2>1. mcomp = {} /\ mports = <<>>
    BY <1>1 DEF MainInv, FlushPort
  <2> QED
    BY <1>1, <2>1, NothingHeld DEF MainInv, FlushPort, ToFill
<1>2. CASE FlushPortFail
  <2>1. mcomp = {} /\ mports = <<>>
    BY <1>2 DEF MainInv, FlushPortFail
  <2> QED
    BY <1>2, <2>1, NothingHeld DEF MainInv, FlushPortFail, ToFill
<1>3. CASE FlushCore
  <2>1. mports = <<>>
    BY <1>3 DEF MainInv, FlushCore
  <2> QED
    BY <1>3, <2>1, NothingHeld DEF MainInv, FlushCore, ToFill, regVars
<1>4. CASE NextComponent
  <2>0. mpc = "component" /\ mports = <<>> /\ mcomp \subseteq flagged
        /\ running = started
    BY <1>4 DEF MainInv, NextComponent
  <2>1. CASE mcomp = {}
    BY <1>4, <2>0, <2>1, NothingHeld DEF MainInv, NextComponent, ToFill
  <2>2. CASE mcomp # {}
    <3>1. Current \in Comp
      BY <2>2, LowestIn DEF Current, TypeInv, TypeOK
    <3>2. mports' = Sides(Current) /\ mpc' = "ability" /\ flagged' = flagged
          /\ mcomp' = mcomp /\ running' = running /\ started' = started
      BY <1>4, <2>2 DEF NextComponent, Current, cmpVars
    <3>3. Distinct(mports') /\ \A d \in Dir, p \in Port :
             ToFill(d, p)' => p \in ports[Current][d]
      BY <3>1, <3>2, SidesRight DEF ToFill
    <3>4. Current' = Current
      BY <3>2 DEF Current
    <3> QED
      BY <1>0, <2>0, <2>2, <3>2, <3>3, <3>4 DEF MainInv
  <2> QED
    BY <2>1, <2>2
<1>5. CASE AbilityWrite
  <2>1. mpc = "ability" /\ mpc' = "mark" /\ mports # <<>>
        /\ UNCHANGED <<regVars, running, mcomp, mports>>
    BY <1>5 DEF AbilityWrite, cmpVars
  <2>2. Current' = Current /\ \A d \in Dir, p \in Port : ToFill(d, p)' <=> ToFill(d, p)
    BY <2>1 DEF Current, ToFill
  <2> QED
    BY <2>1, <2>2 DEF MainInv, regVars
<1>6. CASE AbilityMark
  <2>1. mpc = "mark" /\ mpc' = "append" /\ mports # <<>> /\ num' = num
        /\ UNCHANGED <<regVars, running, mcomp, mports>>
    BY <1>6 DEF AbilityMark, cmpVars, MainInv
  <2>2. Current' = Current /\ \A d \in Dir, p \in Port : ToFill(d, p)' <=> ToFill(d, p)
    BY <2>1 DEF Current, ToFill
  <2>3. mnum' = num[Head(mports)[1]]
    BY <1>6 DEF AbilityMark
  <2> QED
    BY <2>1, <2>2, <2>3 DEF MainInv, regVars
<1>7. CASE AbilityAppend
  <2>1. mpc = "append" /\ mpc' = "ability" /\ mports # <<>>
        /\ mports' = Tail(mports) /\ UNCHANGED <<regVars, running, mcomp>>
    BY <1>7 DEF AbilityAppend, cmpVars, MainInv
  <2>2. Distinct(mports) /\ mports \in Seq(Side)
    BY DEF MainInv, TypeInv
  <2>3. Distinct(mports')
        /\ \A d \in Dir, p \in Port : ToFill(d, p)' => ToFill(d, p)
    BY <2>1, <2>2, TailDistinct DEF ToFill
  <2>4. Current' = Current
    BY <2>1 DEF Current
  <2> QED
    BY <2>1, <2>3, <2>4 DEF MainInv, regVars
<1>8. CASE PathRequest
  <2>1. mpc = "ability" /\ mpc' = "wait" /\ mports = <<>>
        /\ UNCHANGED <<regVars, running, mcomp, mports>>
    BY <1>8 DEF PathRequest
  <2> QED
    BY <2>1, NothingHeld DEF MainInv, regVars, ToFill
<1>9. CASE PathSwitched
  <2>1. mpc = "wait" /\ mpc' = "component" /\ mports = <<>> /\ mcomp' \subseteq mcomp
        /\ UNCHANGED <<regVars, running, mports>>
    BY <1>9 DEF PathSwitched, MainInv, cmpVars
  <2> QED
    BY <2>1, NothingHeld DEF MainInv, regVars, ToFill
<1> QED
  BY <1>1, <1>2, <1>3, <1>4, <1>5, <1>6, <1>7, <1>8, <1>9 DEF Flush

LEMMA MainWorker ==
    ASSUME MainInv, WorkerInv, NEW c \in Comp, Worker(c)
    PROVE  MainInv'
<1>1. UNCHANGED <<regVars, mainVars, running>>
  BY WorkerFrame
<1>2. mpc = "append" => num' = num
  BY DEF Worker, Look, SwitchPort, EndOfList, EmptyLists, Flip, Drain,
         ReceiveBurst, Received, SendBurst, Sent, ablVars, WorkerInv, Asked
<1>3. Current' = Current /\ \A d \in Dir, p \in Port : ToFill(d, p)' <=> ToFill(d, p)
  BY <1>1 DEF Current, ToFill, mainVars
<1> QED
  BY <1>1, <1>2, <1>3 DEF MainInv, regVars, mainVars, Flushing, Busy

-----------------------------------------------------------------------------
(* Workers.                                                                 *)

LEMMA WorkerCommand ==
    ASSUME MainInv, WorkerInv, Command
    PROVE  WorkerInv'
<1>1. mpc = "command" /\ UNCHANGED <<cref, cupd, running, wpc, wcnt, wuse, num>>
  BY CommandFrame DEF cmpVars, wrkVars, ablVars
<1> QED
  BY <1>1 DEF WorkerInv, Asked

(* Main asks one worker at a time, and only takes those out of their lists  *)
(* that are between two calls.                                              *)
LEMMA WorkerFlush ==
    ASSUME TypeInv, MainInv, WorkerInv, Flush,
           mpc = "append" => mnum < MaxList
    PROVE  WorkerInv'
<1>0. UNCHANGED wrkVars
  BY FlushFrame
<1>1. CASE FlushCore
  BY <1>0, <1>1 DEF FlushCore, WorkerInv, Asked, ablVars, wrkVars
<1>2. CASE AbilityAppend
  <2>1. mpc = "append" /\ UNCHANGED <<cref, cupd, running, wpc, wcnt, wuse>>
    BY <1>2 DEF AbilityAppend, cmpVars, wrkVars
  <2>2. \A c \in Comp : cref[c] # cupd[c]
    BY <2>1 DEF WorkerInv, Asked
  <2> QED
    BY <2>1, <2>2 DEF WorkerInv
<1>3. CASE PathRequest
  <2>1. mpc = "ability" /\ mpc' = "wait" /\ Current' = Current
        /\ UNCHANGED <<cref, running, wpc, wcnt, wuse, num>>
    BY <1>3 DEF PathRequest, ablVars, wrkVars, Current
  <2>2. \A c \in Comp : cref[c] # cupd[c]
    BY <2>1 DEF WorkerInv, Asked
  <2>3. \A c \in Comp : cupd'[c] = IF c = Current THEN cref[c] ELSE cupd[c]
    BY <1>3, RequestEffect
  <2>4. Current \in Comp
    BY <1>3, RequestEffect
  <2> QED
    BY <2>1, <2>2, <2>3, <2>4 DEF WorkerInv, Asked
<1>4. CASE PathSwitched
  <2>1. mpc = "wait" /\ UNCHANGED <<cref, cupd, running, wpc, wcnt, wuse, num>>
    BY <1>4 DEF PathSwitched, cmpVars, wrkVars, ablVars
  <2>2. \A c \in Comp : cref[c] # cupd[c]
    BY <1>4 DEF WorkerInv, Asked, Current, PathSwitched
  <2> QED
    BY <2>1, <2>2 DEF WorkerInv
<1>5. CASE FlushPort \/ FlushPortFail \/ NextComponent \/ AbilityWrite
           \/ AbilityMark
  <2>1. mpc # "wait" /\ UNCHANGED <<cref, cupd, running, wpc, wcnt, wuse, num>>
    BY <1>5 DEF FlushPort, FlushPortFail, NextComponent, AbilityWrite,
                AbilityMark, ablVars, cmpVars, wrkVars
  <2> QED
    BY <2>1 DEF WorkerInv, Asked
<1> QED
  BY <1>1, <1>2, <1>3, <1>4, <1>5 DEF Flush

(* What a step of a worker does to its own place.                           *)
LEMMA WorkerEffect ==
    ASSUME TypeInv, NEW c \in Comp, Worker(c)
    PROVE  /\ \A b \in Comp \ {c} :
                 /\ wpc'[b] = wpc[b] /\ wcnt'[b] = wcnt[b]
                 /\ wleft'[b] = wleft[b] /\ wuse'[b] = wuse[b]
                 /\ cref'[b] = cref[b]
           /\ wpc[c] \notin Dir \cup {"empty"} => num' = num
           /\ wpc[c] \notin Dir => list' = list /\ aref' = aref
           /\ wpc[c] = "empty" => num' = [d \in Dir |-> 0]
           /\ wpc[c] # "flip" => cref' = cref
           /\ c \in running \/ wpc[c] # "look"
<1> USE DEF Dir, ablVars, cmpVars, TypeInv, TypeOK
<1>1. CASE Look(c)
  BY <1>1 DEF Look
<1>2. CASE SwitchPort(c)
  BY <1>2 DEF SwitchPort
<1>3. CASE EndOfList(c)
  BY <1>3 DEF EndOfList
<1>4. CASE EmptyLists(c)
  BY <1>4 DEF EmptyLists, Emptied
<1>5. CASE Flip(c)
  BY <1>5 DEF Flip
<1>6. CASE Drain(c)
  BY <1>6 DEF Drain, GoesThrough
<1>7. CASE ReceiveBurst(c)
  BY <1>7 DEF ReceiveBurst, GoesThrough
<1>8. CASE Received(c)
  BY <1>8 DEF Received
<1>9. CASE SendBurst(c)
  BY <1>9 DEF SendBurst, GoesThrough
<1>10. CASE Sent(c)
  BY <1>10 DEF Sent
<1> QED
  BY <1>1, <1>2, <1>3, <1>4, <1>5, <1>6, <1>7, <1>8, <1>9, <1>10 DEF Worker

LEMMA WorkerWorker ==
    ASSUME TypeInv, MainInv, WorkerInv, NEW c \in Comp, Worker(c)
    PROVE  WorkerInv'
<1>1. UNCHANGED <<mpc, mcomp, cupd, running>> /\ Current' = Current
  BY WorkerFrame DEF mainVars, Current
<1>2. /\ wpc \in [Comp -> Dir \cup {"look", "empty", "flip", "burst",
                                   "received", "send", "sent"}]
      /\ wcnt \in [Comp -> Nat] /\ num \in [Dir -> 0 .. MaxList]
      /\ wuse \in [Comp -> SUBSET (Port \X Dir \X Area)]
      /\ cref \in [Comp -> Area] /\ cupd \in [Comp -> Area]
  BY DEF TypeInv, TypeOK
<1> DEFINE Mine == /\ cref'[c] = cupd[c] => cref[c] = cupd[c]
                   /\ wpc'[c] \in Dir \cup {"empty", "flip"} => cref'[c] = cupd[c]
                   /\ wpc'[c] \in Dir => wcnt'[c] <= num'[wpc'[c]]
                   /\ wpc'[c] \in Dir \cup {"empty", "look"} => wuse'[c] = {}
                   /\ c \notin running => wpc'[c] = "look"
<1>3. Mine
  <2> USE <1>2 DEF ablVars, cmpVars
  <2>1. CASE Look(c)
    BY <2>1 DEF Look, WorkerInv, Dir
  <2>2. CASE SwitchPort(c)
    BY <2>2 DEF SwitchPort, WorkerInv
  <2>3. CASE EndOfList(c)
    BY <2>3 DEF EndOfList, WorkerInv, Dir
  <2>4. CASE EmptyLists(c)
    BY <2>4 DEF EmptyLists, WorkerInv, Dir
  <2>5. CASE Flip(c)
    <3>1. cref'[c] = 1 - cupd[c] /\ cupd[c] \in 0 .. 1
      BY <2>5 DEF Flip, Area
    <3>2. cref'[c] # cupd[c]
      BY <3>1
    <3> QED
      BY <2>5, <3>2 DEF Flip, WorkerInv, Dir
  <2>6. CASE Drain(c)
    BY <2>6 DEF Drain, GoesThrough, WorkerInv, Dir
  <2>7. CASE ReceiveBurst(c)
    BY <2>7 DEF ReceiveBurst, WorkerInv, Dir
  <2>8. CASE Received(c)
    BY <2>8 DEF Received, WorkerInv, Dir
  <2>9. CASE SendBurst(c)
    BY <2>9 DEF SendBurst, WorkerInv, Dir
  <2>10. CASE Sent(c)
    BY <2>10 DEF Sent, WorkerInv, Dir
  <2> QED
    BY <2>1, <2>2, <2>3, <2>4, <2>5, <2>6, <2>7, <2>8, <2>9, <2>10 DEF Worker
(* The others have nothing to switch if this one has.                       *)
<1>4. ASSUME NEW b \in Comp \ {c}
      PROVE  /\ wpc'[b] = wpc[b] /\ wcnt'[b] = wcnt[b] /\ wuse'[b] = wuse[b]
             /\ cref'[b] = cref[b]
             /\ wpc[b] \in Dir => wcnt[b] <= num'[wpc[b]]
  <2>1. /\ wpc'[b] = wpc[b] /\ wcnt'[b] = wcnt[b] /\ wuse'[b] = wuse[b]
        /\ cref'[b] = cref[b]
    BY WorkerEffect
  <2>2. wpc[b] \in Dir => wpc[c] \notin Dir \cup {"empty"}
    BY DEF WorkerInv
  <2>3. wpc[b] \in Dir => num' = num
    BY <2>2, WorkerEffect
  <2> QED
    BY <2>1, <2>3 DEF WorkerInv
<1>5. \A b \in Comp : cref'[b] = cupd[b] => cref[b] = cupd[b]
  BY <1>3, <1>4
<1>6. \A b \in Comp : cref'[b] = cupd'[b] => Asked' /\ b = Current'
  BY <1>1, <1>5 DEF WorkerInv, Asked
<1>7. \A b \in Comp :
        /\ wpc'[b] \in Dir \cup {"empty", "flip"} => cref'[b] = cupd'[b]
        /\ wpc'[b] \in Dir => wcnt'[b] <= num'[wpc'[b]]
        /\ wpc'[b] \in Dir \cup {"empty", "look"} => wuse'[b] = {}
        /\ b \notin running' => wpc'[b] = "look"
  <2> SUFFICES ASSUME NEW b \in Comp
               PROVE  /\ wpc'[b] \in Dir \cup {"empty", "flip"} => cref'[b] = cupd'[b]
                      /\ wpc'[b] \in Dir => wcnt'[b] <= num'[wpc'[b]]
                      /\ wpc'[b] \in Dir \cup {"empty", "look"} => wuse'[b] = {}
                      /\ b \notin running' => wpc'[b] = "look"
    OBVIOUS
  <2>1. CASE b = c
    BY <1>1, <1>3, <2>1
  <2>2. CASE b # c
    BY <1>1, <1>4, <2>2 DEF WorkerInv
  <2> QED
    BY <2>1, <2>2
<1> HIDE DEF Mine
<1> QED
  BY <1>6, <1>7 DEF WorkerInv

-----------------------------------------------------------------------------
(* The lists.                                                               *)

LEMMA AreaOther ==
    ASSUME NEW k \in Area
    PROVE  /\ 1 - k \in Area /\ 1 - k # k /\ 1 - (1 - k) = k
           /\ \A j \in Area : j # k => j = 1 - k
<1>1. k = 0 \/ k = 1
  BY DEF Area
<1> QED
  BY <1>1 DEF Area

LEMMA PassedType ==
    ASSUME TypeInv, MainInv, NEW d \in Dir
    PROVE  /\ Passed(d) \in Nat /\ num[d] \in 0 .. MaxList /\ MaxList \in Nat
           /\ Live(d) \subseteq 0 .. MaxList - 1
           /\ mpc # "wait" => Passed(d) = 0
<1>1. num[d] \in 0 .. MaxList /\ MaxList \in Nat /\ num[d] \in Nat
  BY AbilityBoundAssumption DEF TypeInv, TypeOK
<1>2. mpc = "wait" => Current \in Comp /\ wcnt[Current] \in Nat
  BY Turn DEF Busy, TypeInv
<1>3. Passed(d) \in Nat
  BY <1>1, <1>2 DEF Passed
<1>4. \A n \in Live(d) : n \in 0 .. MaxList - 1
  BY <1>1, <1>3 DEF Live
<1> QED
  BY <1>1, <1>3, <1>4 DEF Passed

LEMMA NothingLive ==
    ASSUME TypeInv, MainInv, NEW d \in Dir, num[d] = 0
    PROVE  Live(d) = {} /\ \A p : ~Pending(d, p)
<1>1. Passed(d) \in Nat
  BY PassedType
<1>2. \A n : n \notin Passed(d) .. 0 - 1
  BY <1>1
<1>3. Live(d) = {}
  BY <1>2 DEF Live
<1> QED
  BY <1>3 DEF Pending

LEMMA NothingLiveNext ==
    ASSUME TypeInv', MainInv', NEW d \in Dir, num'[d] = 0
    PROVE  Live(d)' = {} /\ \A p : ~Pending(d, p)'
<1>1. mpc' = "wait" => Current' \in Comp
  <2>1. mpc' = "wait" => mcomp' # {} /\ mcomp' \in SUBSET Comp
    BY DEF MainInv, TypeInv, TypeOK, Busy
  <2> QED
    BY <2>1, LowestIn DEF Current
<1>2. mpc' = "wait" => wcnt'[Current'] \in Nat
  BY <1>1 DEF TypeInv
<1>3. Passed(d)' \in Nat
  BY <1>2 DEF Passed
<1>4. \A n : n \notin Passed(d)' .. 0 - 1
  BY <1>3
<1>5. Live(d)' = {}
  BY <1>4 DEF Live
<1> QED
  BY <1>5 DEF Pending

(* A step that finds the lists empty and leaves them so.                    *)
LEMMA ListEmpty ==
    ASSUME TypeInv, MainInv, ListInv, TypeInv', MainInv',
           \A d \in Dir : num[d] = 0, mpc # "append", mpc' # "append",
           UNCHANGED <<num, aref, aupd>>
    PROVE  ListInv'
<1>1. \A d \in Dir : Live(d) = {} /\ \A p : ~Pending(d, p)
  BY NothingLive
<1>2. \A d \in Dir : num'[d] = 0
  OBVIOUS
<1>3. \A d \in Dir : Live(d)' = {} /\ \A p : ~Pending(d, p)'
  BY <1>2, NothingLiveNext
<1> QED
  BY <1>1, <1>2, <1>3 DEF ListInv

LEMMA ListCommand ==
    ASSUME TypeInv, MainInv, ListInv, TypeInv', MainInv', Command
    PROVE  ListInv'
<1>1. mpc = "command" /\ mpc' = "flush" /\ UNCHANGED <<num, aref, aupd>>
  BY CommandFrame DEF ablVars
<1>2. \A d \in Dir : num[d] = 0
  BY <1>1 DEF ListInv
<1> QED
  BY <1>1, <1>2, ListEmpty

(* If nothing moves in the lists.                                           *)
LEMMA ListSame ==
    ASSUME ListInv, UNCHANGED <<num, list, aref, aupd, ports, mcomp>>,
           \A d \in Dir : Passed(d)' = Passed(d),
           \A d \in Dir, p \in Port : ToFill(d, p)' <=> ToFill(d, p),
           mpc' \in {"command", "flush", "core", "component"}
              \/ (mpc' = "wait" /\ ~Asked')
                 => mpc \in {"command", "flush", "core", "component"}
                       \/ (mpc = "wait" /\ ~Asked),
           (Asked /\ wpc[Current] = "flip")' => Asked /\ wpc[Current] = "flip",
           \A d \in Dir, p \in Port :
              (mpc = "append" /\ Head(mports) = <<d, p>>)'
                 <=> (mpc = "append" /\ Head(mports) = <<d, p>>)
    PROVE  ListInv'
<1>1. Current' = Current
  BY DEF Current
<1>2. \A d \in Dir : Live(d)' = Live(d)
  BY DEF Live
<1>3. \A d \in Dir, p \in Port : Pending(d, p)' <=> Pending(d, p)
  BY <1>2 DEF Pending
<1>4. mpc' \in {"command", "flush", "core", "component"} \/ (mpc' = "wait" /\ ~Asked')
         => \A d \in Dir : num'[d] = 0
  BY DEF ListInv
<1>5. (Asked /\ wpc[Current] = "flip")' => \A d \in Dir : num'[d] = 0
  BY DEF ListInv
<1>6. \A d \in Dir : \A m, n \in Live(d)' : list'[d][m] = list'[d][n] => m = n
  BY <1>2 DEF ListInv
<1>7. \A d \in Dir, p \in Port :
         Pending(d, p)' => p \in ports'[Current'][d] /\ ~ToFill(d, p)'
  BY <1>1, <1>3 DEF ListInv
<1>8. \A d \in Dir, p \in Port :
          aupd'[p][d] = aref'[p][d] <=>
             (mpc = "append" /\ Head(mports) = <<d, p>>)' \/ Pending(d, p)'
  BY <1>3 DEF ListInv
<1> QED
  BY <1>4, <1>5, <1>6, <1>7, <1>8 DEF ListInv

(* The port at the head is not in its list yet, so there is room for it.    *)
LEMMA RoomInList ==
    ASSUME TypeInv, MainInv, ListInv, mpc = "append"
    PROVE  mnum < MaxList
<1>1. PICK d \in Dir, p \in Port : Head(mports) = <<d, p>>
  BY HeadSide DEF MainInv
<1>2. mnum = num[d]
  BY <1>1 DEF MainInv
<1>3. ToFill(d, p)
  BY <1>1, TailDistinct DEF MainInv, TypeInv, ToFill
<1>4. Passed(d) = 0 /\ num[d] \in 0 .. MaxList /\ MaxList \in Nat
      /\ Live(d) \subseteq 0 .. MaxList - 1
  BY PassedType
<1>5. Live(d) = 0 .. num[d] - 1
  BY <1>4 DEF Live
<1>6. \A n \in Live(d) : list[d][n] \in Port
  BY <1>4 DEF TypeInv, TypeOK
<1>7. \A n \in Live(d) : list[d][n] \in Port \ {p}
  BY <1>3, <1>6 DEF ListInv, Pending
<1>8. PICK f : f = [n \in Live(d) |-> list[d][n]]
  OBVIOUS
<1>9. f \in Injection(Live(d), Port \ {p})
  BY <1>7, <1>8 DEF Injection, IsInjective, ListInv
<1>10. IsFiniteSet(Port) /\ Cardinality(Port) <= MaxList /\ Cardinality(Port) \in Nat
  BY PortAssumption, FS_CardinalityType
<1>11. IsFiniteSet(Port \ {p}) /\ Cardinality(Port \ {p}) = Cardinality(Port) - 1
  BY <1>10, FS_RemoveElement
<1>12. Cardinality(Live(d)) <= Cardinality(Port) - 1
  <2>1. PICK L, T : L = Live(d) /\ T = Port \ {p}
    OBVIOUS
  <2>2. f \in Injection(L, T) /\ IsFiniteSet(T)
    BY <1>9, <1>11, <2>1
  <2>3. Cardinality(L) <= Cardinality(T)
    BY <2>2, FS_Injection
  <2> QED
    BY <1>11, <2>1, <2>3
<1>13. Cardinality(Live(d)) = num[d]
  <2>1. PICK n \in Nat : n = num[d]
    BY <1>4
  <2>2. Cardinality(0 .. n - 1) = IF 0 > n - 1 THEN 0 ELSE (n - 1) - 0 + 1
    <3>1. 0 \in Int /\ n - 1 \in Int
      OBVIOUS
    <3> QED
      BY <3>1, FS_Interval
  <2>3. Cardinality(0 .. n - 1) = n
    BY <2>2
  <2> QED
    BY <1>5, <2>1, <2>3
<1> QED
  BY <1>2, <1>4, <1>10, <1>12, <1>13

LEMMA ListFlush ==
    ASSUME TypeInv, MainInv, WorkerInv, ListInv, TypeInv', MainInv', Flush
    PROVE  ListInv'
<1>0. ports' = ports /\ UNCHANGED wrkVars
  BY FlushFrame
<1>1. CASE FlushPort \/ FlushPortFail \/ FlushCore \/ NextComponent
  <2>1. mpc \in {"flush", "core", "component"} /\ mpc' # "append"
        /\ UNCHANGED <<num, aref, aupd>>
    BY <1>1 DEF FlushPort, FlushPortFail, FlushCore, NextComponent, ablVars
  <2>2. \A d \in Dir : num[d] = 0
    BY <2>1 DEF ListInv
  <2> QED
    BY <2>1, <2>2, ListEmpty
<1>2. CASE AbilityWrite
  <2>1. mpc = "ability" /\ mpc' = "mark"
        /\ UNCHANGED <<num, list, aref, aupd, mcomp, mports>>
    BY <1>2 DEF AbilityWrite
  <2>2. \A d \in Dir : Passed(d)' = Passed(d)
    BY <2>1 DEF Passed
  <2>3. \A d \in Dir, p \in Port : ToFill(d, p)' <=> ToFill(d, p)
    BY <2>1 DEF ToFill
  <2>4. ~Asked'
    BY <2>1 DEF Asked
  <2> QED
    BY <1>0, <2>1, <2>2, <2>3, <2>4, ListSame
<1>3. CASE AbilityMark
  <2>1. mpc = "mark" /\ mpc' = "append"
        /\ UNCHANGED <<num, list, aref, mcomp, mports>>
    BY <1>3 DEF AbilityMark
  <2>2. PICK d \in Dir, p \in Port :
            /\ Head(mports) = <<d, p>>
            /\ \A q \in Port, e \in Dir :
                  aupd'[q][e] = IF q = p /\ e = d THEN aref[p][d] ELSE aupd[q][e]
    BY <1>3, MarkEffect
  <2>3. \A e \in Dir : Live(e)' = Live(e)
    BY <2>1 DEF Passed, Live
  <2>4. \A e \in Dir, q \in Port : Pending(e, q)' <=> Pending(e, q)
    BY <2>1, <2>3 DEF Pending
  <2>5. Current' = Current
        /\ \A e \in Dir, q \in Port : ToFill(e, q)' <=> ToFill(e, q)
    BY <2>1 DEF ToFill, Current
  <2>6. \A e \in Dir, q \in Port :
           aupd'[q][e] = aref'[q][e] <=> Head(mports') = <<e, q>> \/ Pending(e, q)'
    <3> SUFFICES ASSUME NEW e \in Dir, NEW q \in Port
                 PROVE  aupd'[q][e] = aref'[q][e]
                           <=> Head(mports') = <<e, q>> \/ Pending(e, q)'
      OBVIOUS
    <3>1. Head(mports') = <<e, q>> <=> e = d /\ q = p
      BY <2>1, <2>2
    <3>2. aupd[q][e] = aref[q][e] <=> Pending(e, q)
      BY <2>1 DEF ListInv
    <3>3. aupd'[q][e] = IF q = p /\ e = d THEN aref[p][d] ELSE aupd[q][e]
      BY <2>2
    <3> QED
      BY <2>1, <2>4, <3>1, <3>2, <3>3
  <2>7. \A e \in Dir : \A m, n \in Live(e)' : list'[e][m] = list'[e][n] => m = n
    BY <2>1, <2>3 DEF ListInv
  <2>8. \A e \in Dir, q \in Port :
           Pending(e, q)' => q \in ports'[Current'][e] /\ ~ToFill(e, q)'
    BY <1>0, <2>4, <2>5 DEF ListInv
  <2> QED
    BY <2>1, <2>6, <2>7, <2>8 DEF ListInv, Asked
<1>4. CASE AbilityAppend
  <2>0. mpc = "append" /\ mpc' = "ability" /\ mports # <<>>
        /\ mports' = Tail(mports) /\ UNCHANGED <<aref, aupd, mcomp>>
    BY <1>4 DEF AbilityAppend, MainInv
  <2>1. mnum < MaxList
    BY <2>0, RoomInList
  <2>2. PICK d \in Dir, p \in Port :
            /\ Head(mports) = <<d, p>> /\ mnum = num[d]
            /\ \A e \in Dir : num'[e] = IF e = d THEN num[d] + 1 ELSE num[e]
            /\ \A e \in Dir, n \in 0 .. MaxList - 1 :
                  list'[e][n] = IF e = d /\ n = num[d] THEN p ELSE list[e][n]
    BY <1>4, <2>1, AppendEffect
  <2>3. /\ \A e \in Dir, q \in Port :
              ToFill(e, q)' <=> ToFill(e, q) /\ <<e, q>> # <<d, p>>
        /\ ToFill(d, p)
    BY <2>0, <2>2, TailDistinct DEF ToFill, MainInv, TypeInv
  <2>4. Current' = Current
    BY <2>0 DEF Current
  <2>5. \A e \in Dir : /\ Passed(e) = 0 /\ Passed(e)' = 0
                       /\ num[e] \in 0 .. MaxList /\ MaxList \in Nat
    BY <2>0, PassedType DEF Passed
  <2>6. \A e \in Dir : Live(e) = 0 .. num[e] - 1 /\ Live(e)' = 0 .. num'[e] - 1
    BY <2>5 DEF Live
  <2>7. \A e \in Dir : \A n \in Live(e)' :
           \/ n \in Live(e) /\ list'[e][n] = list[e][n]
           \/ e = d /\ n = num[d] /\ list'[e][n] = p
    <3> SUFFICES ASSUME NEW e \in Dir, NEW n \in Live(e)'
                 PROVE  \/ n \in Live(e) /\ list'[e][n] = list[e][n]
                        \/ e = d /\ n = num[d] /\ list'[e][n] = p
      BY Zenon
    <3>1. n \in 0 .. num'[e] - 1 /\ Live(e) = 0 .. num[e] - 1
      BY <2>6
    <3>2. num'[e] = IF e = d THEN num[d] + 1 ELSE num[e]
      BY <2>2
    <3>3. num[e] \in 0 .. MaxList /\ num[d] \in 0 .. MaxList /\ MaxList \in Nat
      BY <2>5
    <3>4. n \in 0 .. MaxList - 1
      BY <2>1, <2>2, <3>1, <3>2, <3>3
    <3>5. list'[e][n] = IF e = d /\ n = num[d] THEN p ELSE list[e][n]
      BY <2>2, <3>4
    <3> QED
      BY <3>1, <3>2, <3>3, <3>5
  <2>8. \A e \in Dir : \A n \in Live(e) :
           n \in Live(e)' /\ list'[e][n] = list[e][n]
    <3> SUFFICES ASSUME NEW e \in Dir, NEW n \in Live(e)
                 PROVE  n \in Live(e)' /\ list'[e][n] = list[e][n]
      OBVIOUS
    <3>1. n \in 0 .. num[e] - 1 /\ Live(e)' = 0 .. num'[e] - 1
      BY <2>6
    <3>2. num'[e] = IF e = d THEN num[d] + 1 ELSE num[e]
      BY <2>2
    <3>3. num[e] \in 0 .. MaxList /\ num[d] \in 0 .. MaxList /\ MaxList \in Nat
      BY <2>5
    <3>4. n \in 0 .. MaxList - 1 /\ (e = d => n # num[d])
      BY <3>1, <3>3
    <3>5. list'[e][n] = IF e = d /\ n = num[d] THEN p ELSE list[e][n]
      BY <2>2, <3>4
    <3> QED
      BY <3>1, <3>2, <3>3, <3>4, <3>5
  <2>9. num[d] \in Live(d)' /\ list'[d][num[d]] = p
    <3>1. num[d] \in 0 .. MaxList - 1 /\ num'[d] = num[d] + 1
      BY <2>1, <2>2, <2>5
    <3>2. list'[d][num[d]] = p
      BY <2>2, <3>1
    <3> QED
      BY <2>6, <3>1, <3>2
  <2>10. \A e \in Dir, q \in Port :
            Pending(e, q)' <=> Pending(e, q) \/ (e = d /\ q = p)
    BY <2>7, <2>8, <2>9 DEF Pending
  <2>11. ~Pending(d, p)
    BY <2>3 DEF ListInv
  <2>12. \A e \in Dir : \A m, n \in Live(e)' : list'[e][m] = list'[e][n] => m = n
    <3> SUFFICES ASSUME NEW e \in Dir, NEW m \in Live(e)', NEW n \in Live(e)',
                        list'[e][m] = list'[e][n]
                 PROVE  m = n
      OBVIOUS
    <3>1. CASE m \in Live(e) /\ list'[e][m] = list[e][m]
               /\ n \in Live(e) /\ list'[e][n] = list[e][n]
      BY <3>1 DEF ListInv
    <3>2. ASSUME NEW k \in Live(e), e = d, list[e][k] = p
          PROVE  FALSE
      BY <2>11, <3>2 DEF Pending
    <3> QED
      BY <2>7, <3>1, <3>2
  <2>13. \A e \in Dir, q \in Port :
            Pending(e, q)' => q \in ports'[Current'][e] /\ ~ToFill(e, q)'
    BY <1>0, <2>3, <2>4, <2>10 DEF ListInv, MainInv
  <2>14. \A e \in Dir, q \in Port :
            aupd'[q][e] = aref'[q][e] <=> Pending(e, q)'
    <3> SUFFICES ASSUME NEW e \in Dir, NEW q \in Port
                 PROVE  aupd[q][e] = aref[q][e] <=> Pending(e, q)'
      BY <2>0
    <3>1. Head(mports) = <<e, q>> <=> e = d /\ q = p
      BY <2>2
    <3> QED
      BY <2>0, <2>10, <3>1 DEF ListInv
  <2> QED
    BY <2>0, <2>12, <2>13, <2>14 DEF ListInv, Asked
<1>5. CASE PathRequest
  <2>1. mpc = "ability" /\ mpc' = "wait" /\ mports = <<>>
        /\ UNCHANGED <<num, list, aref, aupd, mcomp, mports, cref>>
    BY <1>5 DEF PathRequest, ablVars
  <2>2. Current \in Comp /\ cupd'[Current] = cref[Current] /\ Current' = Current
    BY <1>5, <2>1, RequestEffect DEF Current
  <2>3. wpc[Current] \notin Dir \cup {"empty", "flip"}
    BY <2>1, <2>2 DEF WorkerInv, Asked
  <2>4. wpc' = wpc
    BY <1>0 DEF wrkVars
  <2>5. \A d \in Dir : Passed(d)' = Passed(d)
    BY <2>1, <2>2, <2>3, <2>4 DEF Passed
  <2>6. \A d \in Dir, p \in Port : ToFill(d, p)' <=> ToFill(d, p)
    BY <2>1 DEF ToFill
  <2>7. Asked' /\ wpc'[Current'] # "flip"
    BY <2>1, <2>2, <2>3, <2>4 DEF Asked
  <2> QED
    BY <1>0, <2>1, <2>5, <2>6, <2>7, ListSame
<1>6. CASE PathSwitched
  <2>1. mpc = "wait" /\ ~Asked /\ mpc' = "component"
        /\ UNCHANGED <<num, aref, aupd>>
    BY <1>6 DEF PathSwitched, Asked, Current, ablVars
  <2>2. \A d \in Dir : num[d] = 0
    BY <2>1 DEF ListInv
  <2> QED
    BY <2>1, <2>2, ListEmpty
<1> QED
  BY <1>1, <1>2, <1>3, <1>4, <1>5, <1>6 DEF Flush

(* A worker that looks at other things than the lists, or at the end of one.*)
LEMMA ListWorkerSame ==
    ASSUME TypeInv, MainInv, WorkerInv, ListInv, NEW c \in Comp, Worker(c),
           UNCHANGED <<num, list, aref, cref>>,
           wpc'[c] = "flip" => wpc[c] = "flip",
           c = Current /\ Asked => \A d \in Dir : Passed(d)' = Passed(d),
           cref[c] # cupd[c] => /\ wpc[c] \notin Dir \cup {"empty"}
                                /\ wpc'[c] \notin Dir \cup {"empty"}
    PROVE  ListInv'
<1>1. UNCHANGED <<aupd, ports, mcomp, mports, mpc, cupd>> /\ Current' = Current
  BY WorkerFrame DEF mainVars, regVars, Current
<1>2. mpc = "wait" => Current \in Comp
  BY Turn DEF Busy
<1>3. \A d \in Dir : Passed(d)' = Passed(d)
  <2>1. CASE mpc # "wait"
    BY <1>1, <2>1 DEF Passed
  <2>2. CASE mpc = "wait" /\ c # Current
    <3>1. wpc'[Current] = wpc[Current] /\ wcnt'[Current] = wcnt[Current]
      BY <1>2, <2>2, WorkerEffect
    <3> QED
      BY <1>1, <3>1 DEF Passed
  <2>3. CASE mpc = "wait" /\ c = Current /\ ~Asked
    <3>1. wpc[Current] \notin Dir \cup {"empty"}
          /\ wpc'[Current] \notin Dir \cup {"empty"}
      BY <2>3 DEF Asked
    <3> QED
      BY <1>1, <3>1 DEF Passed
  <2>4. CASE c = Current /\ Asked
    BY <2>4
  <2> QED
    BY <2>1, <2>2, <2>3, <2>4
<1>4. \A d \in Dir, p \in Port : ToFill(d, p)' <=> ToFill(d, p)
  BY <1>1 DEF ToFill
<1>5. Asked' <=> Asked
  BY <1>1 DEF Asked
<1>6. (Asked /\ wpc[Current] = "flip")' => Asked /\ wpc[Current] = "flip"
  <2>1. CASE c = Current
    BY <1>1, <1>5, <2>1
  <2>2. CASE Asked /\ c # Current
    <3>1. wpc'[Current] = wpc[Current]
      BY <1>2, <2>2, WorkerEffect DEF Asked
    <3> QED
      BY <1>1, <1>5, <3>1
  <2> QED
    BY <1>5, <2>1, <2>2
<1> QED
  BY <1>1, <1>3, <1>4, <1>5, <1>6, ListSame

LEMMA ListWorker ==
    ASSUME TypeInv, MainInv, WorkerInv, ListInv, TypeInv', MainInv',
           NEW c \in Comp, Worker(c)
    PROVE  ListInv'
<1>0. UNCHANGED <<aupd, ports, mcomp, mports, mpc, cupd>> /\ Current' = Current
  BY WorkerFrame DEF mainVars, regVars, Current
<1>a. cref[c] = cupd[c] => Asked /\ c = Current /\ mpc = "wait"
  BY DEF WorkerInv, Asked
<1>b. wpc \in [Comp -> Dir \cup {"look", "empty", "flip", "burst",
                                "received", "send", "sent"}]
      /\ wcnt \in [Comp -> Nat] /\ num \in [Dir -> 0 .. MaxList]
  BY DEF TypeInv, TypeOK
<1> USE DEF Dir
<1>1. CASE Look(c)
  <2>1. CASE cref[c] = cupd[c]
    <3>1. wpc[c] = "look" /\ wpc'[c] = "rx" /\ wcnt'[c] = 0
      BY <1>1, <1>b, <2>1 DEF Look
    <3>2. \A d \in Dir : Passed(d)' = Passed(d)
      BY <1>0, <1>a, <2>1, <3>1 DEF Passed
    <3> QED
      BY <1>1, <2>1, <3>1, <3>2, ListWorkerSame DEF Look, ablVars, cmpVars
  <2>2. CASE cref[c] # cupd[c]
    <3>1. wpc[c] = "look" /\ wpc'[c] = "burst"
      BY <1>1, <1>b, <2>2 DEF Look
    <3>2. ~ (c = Current /\ Asked)
      BY <2>2 DEF Asked
    <3> QED
      BY <1>1, <3>1, <3>2, ListWorkerSame DEF Look, ablVars, cmpVars
  <2> QED
    BY <2>1, <2>2
<1>2. CASE SwitchPort(c)
  <2>1. PICK d \in Dir, p \in Port :
            /\ wpc[c] = d /\ wcnt[c] < num[d] /\ wcnt[c] \in Nat
            /\ wcnt[c] \in 0 .. MaxList - 1 /\ p = list[d][wcnt[c]]
            /\ \A e \in Dir, n \in 0 .. MaxList - 1 :
                  list'[e][n] = IF e = d /\ n = wcnt[c] THEN PortZero
                                ELSE list[e][n]
            /\ \A q \in Port, e \in Dir :
                  aref'[q][e] = IF q = p /\ e = d THEN 1 - aupd[p][d]
                                ELSE aref[q][e]
    BY <1>2, SwitchEffect
  <2>2. Asked /\ c = Current /\ mpc = "wait" /\ cref[c] = cupd[c]
    BY <1>a, <2>1 DEF WorkerInv
  <2>3. UNCHANGED <<num, cref, wpc>> /\ wcnt'[c] = wcnt[c] + 1
    BY <1>2, <1>b DEF SwitchPort, cmpVars
  <2>4. Passed(d) = wcnt[c] /\ Passed(d)' = wcnt[c] + 1
    BY <1>0, <2>1, <2>2, <2>3 DEF Passed
  <2>5. \A e \in Dir : e # d => Passed(e)' = Passed(e)
    BY <1>0, <2>1, <2>2, <2>3 DEF Passed
  <2>6. \A e \in Dir : Live(e) \subseteq 0 .. MaxList - 1 /\ num[e] \in 0 .. MaxList
    BY PassedType
  <2>7. \A e \in Dir : e # d => Live(e)' = Live(e)
    BY <2>3, <2>5 DEF Live
  <2>8. wcnt[c] \in Live(d) /\ \A n : n \in Live(d)' <=> n \in Live(d) /\ n # wcnt[c]
    <3>1. Live(d) = wcnt[c] .. num[d] - 1 /\ Live(d)' = wcnt[c] + 1 .. num[d] - 1
      BY <2>3, <2>4 DEF Live
    <3> QED
      BY <2>1, <2>6, <3>1
  <2>9. \A e \in Dir : \A n \in Live(e)' :
           n \in Live(e) /\ list'[e][n] = list[e][n]
    BY <2>1, <2>6, <2>7, <2>8
  <2>10. \A e \in Dir, q \in Port :
            Pending(e, q)' <=> Pending(e, q) /\ ~ (e = d /\ q = p)
    <3> SUFFICES ASSUME NEW e \in Dir, NEW q \in Port
                 PROVE  Pending(e, q)' <=> Pending(e, q) /\ ~ (e = d /\ q = p)
      OBVIOUS
    <3>1. CASE e # d
      BY <2>7, <2>9, <3>1 DEF Pending
    <3>2. CASE e = d
      <4>1. \A n \in Live(d)' : list[d][n] # p
        BY <2>1, <2>8 DEF ListInv
      <4> QED
        BY <2>1, <2>8, <2>9, <3>2, <4>1 DEF Pending
    <3> QED
      BY <3>1, <3>2
  <2>11. Pending(d, p) /\ aupd[p][d] \in Area
    <3>1. Pending(d, p)
      BY <2>1, <2>8 DEF Pending
    <3>2. aupd \in [Port -> [Dir -> Area]]
      BY DEF TypeInv, TypeOK
    <3> QED
      BY <3>1, <3>2
  <2>12. \A e \in Dir, q \in Port : ToFill(e, q)' <=> ToFill(e, q)
    BY <1>0 DEF ToFill
  <2>13. \A e \in Dir : \A m, n \in Live(e)' : list'[e][m] = list'[e][n] => m = n
    BY <2>9 DEF ListInv
  <2>14. \A e \in Dir, q \in Port :
            Pending(e, q)' => q \in ports'[Current'][e] /\ ~ToFill(e, q)'
    BY <1>0, <2>10, <2>12 DEF ListInv
  <2>15. 1 - aupd[p][d] # aupd[p][d]
    BY <2>11, AreaOther
  <2>16. \A e \in Dir, q \in Port :
            aupd'[q][e] = aref'[q][e] <=> Pending(e, q)'
    <3> SUFFICES ASSUME NEW e \in Dir, NEW q \in Port
                 PROVE  aupd[q][e] = aref'[q][e] <=> Pending(e, q)'
      BY <1>0
    <3>1. CASE e = d /\ q = p
      BY <2>1, <2>10, <2>15, <3>1
    <3>2. CASE ~ (e = d /\ q = p)
      <4>1. aref'[q][e] = aref[q][e]
        BY <2>1, <3>2
      <4> QED
        BY <2>2, <2>10, <3>2, <4>1 DEF ListInv
    <3> QED
      BY <3>1, <3>2
  <2>17. Asked' /\ wpc'[Current'] # "flip" /\ mpc' = "wait"
    BY <1>0, <2>1, <2>2, <2>3 DEF Asked
  <2> QED
    BY <2>13, <2>14, <2>16, <2>17 DEF ListInv
<1>3. CASE EndOfList(c)
  <2>1. wpc[c] \in Dir /\ wcnt[c] >= num[wpc[c]] /\ wcnt[c] \in Nat
        /\ num[wpc[c]] \in Nat /\ UNCHANGED <<num, list, aref, cref>>
        /\ wcnt'[c] = 0 /\ wpc'[c] = (IF wpc[c] = "rx" THEN "tx" ELSE "empty")
    BY <1>3, <1>b DEF EndOfList, ablVars, cmpVars
  <2>2. Asked /\ c = Current /\ mpc = "wait" /\ cref[c] = cupd[c]
    BY <1>a, <2>1 DEF WorkerInv
  <2>3. wcnt[c] = num[wpc[c]]
    <3>1. wcnt[c] <= num[wpc[c]]
      BY <2>1 DEF WorkerInv
    <3> QED
      BY <2>1, <3>1
  <2>4. \A d \in Dir : Passed(d)' = Passed(d)
    BY <1>0, <2>1, <2>2, <2>3 DEF Passed
  <2> QED
    BY <1>3, <2>1, <2>2, <2>4, ListWorkerSame
<1>4. CASE EmptyLists(c)
  <2>1. wpc[c] = "empty" /\ UNCHANGED <<list, aref, cref>>
        /\ \A d \in Dir : num'[d] = 0
    BY <1>4 DEF EmptyLists, cmpVars, Emptied
  <2>2. Asked /\ c = Current /\ mpc = "wait" /\ mpc' = "wait"
    BY <1>0, <1>a, <2>1 DEF WorkerInv
  <2>3. \A d \in Dir : Live(d)' = {} /\ \A p : ~Pending(d, p)'
    BY <2>1, NothingLiveNext
  <2>4. \A d \in Dir : Passed(d) = num[d] /\ num[d] \in Nat
    BY <1>b, <2>1, <2>2 DEF Passed
  <2>5. \A d \in Dir : \A n : n \notin num[d] .. num[d] - 1
    BY <2>4
  <2>6. \A d \in Dir : \A p : ~Pending(d, p)
    BY <2>4, <2>5 DEF Pending, Live
  <2>7. Asked'
    BY <1>0, <2>1, <2>2 DEF Asked
  <2> QED
    BY <1>0, <2>1, <2>2, <2>3, <2>6, <2>7 DEF ListInv
<1>5. CASE Flip(c)
  <2>1. wpc[c] = "flip" /\ UNCHANGED <<list, aref, num>>
    BY <1>5 DEF Flip, ablVars
  <2>2. Asked /\ c = Current /\ mpc = "wait" /\ mpc' = "wait"
    BY <1>0, <1>a, <2>1 DEF WorkerInv
  <2>3. \A d \in Dir : num[d] = 0
    BY <2>1, <2>2 DEF ListInv
  <2> QED
    BY <1>0, <2>1, <2>2, <2>3, ListEmpty
<1>6. CASE Drain(c) \/ ReceiveBurst(c) \/ Received(c) \/ SendBurst(c) \/ Sent(c)
  <2>1. wpc[c] \notin Dir \cup {"empty"} /\ wpc'[c] \notin Dir \cup {"empty"}
        /\ (wpc'[c] = "flip" => wpc[c] = "flip")
        /\ UNCHANGED <<num, list, aref, cref>>
    BY <1>6, <1>b DEF Drain, ReceiveBurst, Received, SendBurst, Sent, ablVars,
                      cmpVars
  <2>2. c = Current /\ Asked => \A d \in Dir : Passed(d)' = Passed(d)
    BY <1>0, <2>1 DEF Passed
  <2> QED
    BY <2>1, <2>2, ListWorkerSame
<1> QED
  BY <1>1, <1>2, <1>3, <1>4, <1>5, <1>6 DEF Worker

-----------------------------------------------------------------------------
(* What the areas hold.                                                     *)

LEMMA ContentSame ==
    ASSUME ContentInv, UNCHANGED <<ports, ability, started, area, aupd>>,
           \A c \in started, d \in Dir : \A p \in ports[c][d] :
              Filled(c, d, p)' => Filled(c, d, p),
           mpc' # "mark"
    PROVE  ContentInv'
<1>1. \A d, p : Selected(p, d)' = Selected(p, d)
  BY DEF Selected
<1> QED
  BY <1>1 DEF ContentInv

LEMMA ContentCommand ==
    ASSUME Orderly, TypeInv, OwnerInv, ContentInv, Command
    PROVE  ContentInv'
<1>1. mpc = "command" /\ mpc' = "flush" /\ UNCHANGED <<area, aupd>>
  BY CommandFrame DEF ablVars
<1>2. OwnerInv' /\ ports' \in [Comp -> [Dir -> SUBSET Port]] /\ started' \subseteq Comp
  BY CommandEffect DEF TypeInv, TypeOK
<1>3. PICK c \in Comp :
          /\ flagged \ {c} \subseteq flagged'
          /\ c \in started' => c \in flagged'
          /\ \A b \in Comp \ {c} :
                ports'[b] = ports[b] /\ (b \in started' <=> b \in started)
          /\ \A b \in Comp \ {c}, e \in Dir, q \in Port :
                q \in ports[b][e] => Selected(q, e)' = Selected(q, e)
  BY CommandEffect
<1>4. \A b, d, p : Filled(b, d, p)' <=> b \notin flagged'
  BY <1>1 DEF Filled, Done, Flushing, Busy
<1>5. ASSUME NEW b \in started', NEW d \in Dir, NEW p \in ports'[b][d],
             b \notin flagged'
      PROVE  area'[p][d][1 - aupd'[p][d]] = Selected(p, d)'
  <2>1. b \in Comp \ {c} /\ b \in started /\ ports'[b] = ports[b] /\ p \in Port
    BY <1>2, <1>3, <1>5
  <2>2. Filled(b, d, p)
    BY <1>3, <1>5, <2>1 DEF Filled, Done
  <2>3. area[p][d][1 - aupd[p][d]] = Selected(p, d)
    BY <1>5, <2>1, <2>2 DEF ContentInv
  <2>4. Selected(p, d)' = Selected(p, d)
    BY <1>3, <1>5, <2>1
  <2> QED
    BY <1>1, <2>3, <2>4
<1> QED
  BY <1>1, <1>4, <1>5 DEF ContentInv

LEMMA ContentFlush ==
    ASSUME TypeInv, MainInv, ListInv, ContentInv, Flush
    PROVE  ContentInv'
<1>0. UNCHANGED <<ports, ability, started>>
  BY FlushFrame
<1>a. /\ ports \in [Comp -> [Dir -> SUBSET Port]] /\ started \subseteq Comp
      /\ aupd \in [Port -> [Dir -> Area]] /\ aref \in [Port -> [Dir -> Area]]
  BY DEF TypeInv, TypeOK
<1> USE DEF Filled, Done, Flushing, Busy
<1>1. CASE FlushPort
  BY <1>0, <1>1, ContentSame DEF FlushPort, ablVars
<1>2. CASE FlushPortFail
  BY <1>0, <1>2, ContentSame DEF FlushPortFail, ablVars
<1>3. CASE FlushCore
  BY <1>0, <1>3, ContentSame DEF FlushCore, ablVars, regVars
<1>4. CASE NextComponent
  <2>1. CASE mcomp = {}
    BY <1>0, <1>4, <2>1, ContentSame DEF NextComponent, ablVars
  <2>2. CASE mcomp # {}
    <3>1. Current \in Comp
      BY <2>2, LowestIn DEF Current, TypeInv, TypeOK
    <3>2. mports' = Sides(Current) /\ mpc' = "ability" /\ flagged' = flagged
          /\ mcomp' = mcomp /\ mpc = "component" /\ UNCHANGED <<area, aupd>>
      BY <1>4, <2>2 DEF NextComponent, Current, ablVars
    <3>3. \A d \in Dir, p \in Port : ToFill(d, p)' <=> p \in ports[Current][d]
      BY <3>1, <3>2, SidesRight DEF ToFill
    <3>4. Current' = Current
      BY <3>2 DEF Current
    <3>5. \A c \in started, d \in Dir : \A p \in ports[c][d] :
             Filled(c, d, p)' => Filled(c, d, p)
      BY <1>a, <3>2, <3>3, <3>4
    <3> HIDE DEF Filled
    <3> QED
      BY <1>0, <3>2, <3>5, ContentSame
  <2> QED
    BY <2>1, <2>2
<1>5. CASE AbilityWrite
  <2>1. mpc = "ability" /\ mpc' = "mark"
        /\ UNCHANGED <<flagged, aupd, mcomp, mports>>
    BY <1>5 DEF AbilityWrite, regVars
  <2>2. PICK d \in Dir, p \in Port :
            /\ Head(mports) = <<d, p>>
            /\ \A q \in Port, e \in Dir, k \in Area :
                  area'[q][e][k] = IF q = p /\ e = d /\ k = aupd[p][d]
                                   THEN Selected(p, d) ELSE area[q][e][k]
    BY <1>5, WriteEffect
  <2>3. \A c, e, q : Filled(c, e, q)' => Filled(c, e, q)
    BY <2>1 DEF Current, ToFill
  <2>4. \A q, e : Selected(q, e)' = Selected(q, e)
    BY <1>0 DEF Selected
  <2>5. ASSUME NEW c \in started, NEW e \in Dir, NEW q \in ports[c][e],
               Filled(c, e, q)
        PROVE  area'[q][e][1 - aupd[q][e]] = Selected(q, e)
    <3>1. q \in Port /\ aupd[q][e] \in Area
      BY <1>a
    <3>2. 1 - aupd[q][e] \in Area /\ 1 - aupd[q][e] # aupd[q][e]
      BY <3>1, AreaOther
    <3>3. area'[q][e][1 - aupd[q][e]] = area[q][e][1 - aupd[q][e]]
      BY <2>2, <3>1, <3>2
    <3> HIDE DEF Filled
    <3> QED
      BY <2>5, <3>3 DEF ContentInv
  <2>6. area'[p][d][aupd[p][d]] = Selected(p, d)
    BY <1>a, <2>2
  <2>7. \A e \in Dir, q \in Port :
           Head(mports') = <<e, q>> => area'[q][e][aupd'[q][e]] = Selected(q, e)'
    BY <2>1, <2>2, <2>4, <2>6
  <2> HIDE DEF Filled
  <2>8. \A c \in started', e \in Dir : \A q \in ports'[c][e] :
           Filled(c, e, q)' => area'[q][e][1 - aupd'[q][e]] = Selected(q, e)'
    BY <1>0, <2>1, <2>3, <2>4, <2>5
  <2> QED
    BY <2>7, <2>8 DEF ContentInv
<1>6. CASE AbilityMark
  <2>1. mpc = "mark" /\ mpc' = "append" /\ mports # <<>>
        /\ UNCHANGED <<flagged, area, mcomp, mports>>
    BY <1>6 DEF AbilityMark, regVars, MainInv
  <2>2. PICK d \in Dir, p \in Port :
            /\ Head(mports) = <<d, p>>
            /\ \A q \in Port, e \in Dir :
                  aupd'[q][e] = IF q = p /\ e = d THEN aref[p][d] ELSE aupd[q][e]
    BY <1>6, MarkEffect
  <2>3. \A c \in started, e \in Dir, q \in Port :
            Filled(c, e, q)' => Filled(c, e, q) \/ (e = d /\ q = p)
    BY <2>1, <2>2 DEF Current, ToFill
  <2>4. \A q, e : Selected(q, e)' = Selected(q, e)
    BY <1>0 DEF Selected
  <2>5. aupd[p][d] = 1 - aref[p][d]
    <3>1. ToFill(d, p)
      BY <2>1, <2>2, TailDistinct DEF MainInv, TypeInv, ToFill
    <3>2. aupd[p][d] # aref[p][d]
      BY <2>1, <3>1 DEF ListInv
    <3>3. aupd[p][d] \in Area /\ aref[p][d] \in Area
      BY <1>a
    <3> QED
      BY <3>2, <3>3, AreaOther
  <2>6. area[p][d][1 - aref[p][d]] = Selected(p, d)
    BY <2>1, <2>2, <2>5 DEF ContentInv
  <2>7. ASSUME NEW c \in started, NEW e \in Dir, NEW q \in ports[c][e],
               Filled(c, e, q)'
        PROVE  area[q][e][1 - aupd'[q][e]] = Selected(q, e)
    <3>0. q \in Port /\ aupd'[q][e] = IF q = p /\ e = d THEN aref[p][d] ELSE aupd[q][e]
      BY <1>a, <2>2
    <3> HIDE DEF Filled
    <3>1. CASE e = d /\ q = p
      BY <2>6, <3>0, <3>1
    <3>2. CASE ~ (e = d /\ q = p)
      <4>1. Filled(c, e, q)
        BY <2>3, <2>7, <3>0, <3>2
      <4> QED
        BY <3>0, <3>2, <4>1 DEF ContentInv
    <3> QED
      BY <3>1, <3>2
  <2> HIDE DEF Filled
  <2> QED
    BY <1>0, <2>1, <2>4, <2>7 DEF ContentInv
<1>7. CASE AbilityAppend
  <2>0. mpc = "append" /\ mpc' = "ability" /\ mports # <<>>
        /\ mports' = Tail(mports) /\ UNCHANGED <<flagged, area, aupd, mcomp>>
    BY <1>7 DEF AbilityAppend, MainInv, regVars
  <2>1. \A e \in Dir, q \in Port :
           ToFill(e, q)' <=> ToFill(e, q) /\ <<e, q>> # Head(mports)
    BY <2>0, TailDistinct DEF ToFill, MainInv, TypeInv
  <2>2. \A c \in started, d \in Dir : \A p \in ports[c][d] :
           Filled(c, d, p)' => Filled(c, d, p)
    BY <1>a, <2>0, <2>1 DEF Current
  <2> HIDE DEF Filled
  <2> QED
    BY <1>0, <2>0, <2>2, ContentSame
<1>8. CASE PathRequest
  <2>1. mpc = "ability" /\ mpc' = "wait"
        /\ UNCHANGED <<flagged, area, aupd, mcomp, mports>>
    BY <1>8 DEF PathRequest, ablVars, regVars
  <2>2. \A c, d, p : Filled(c, d, p)' => Filled(c, d, p)
    BY <2>1 DEF Current, ToFill
  <2> HIDE DEF Filled
  <2> QED
    BY <1>0, <2>1, <2>2, ContentSame
<1>9. CASE PathSwitched
  <2>1. mpc = "wait" /\ mpc' = "component" /\ mcomp' = mcomp \ {Current}
        /\ mports = <<>> /\ UNCHANGED <<flagged, area, aupd>>
    BY <1>9 DEF PathSwitched, ablVars, regVars, Current, MainInv
  <2>2. \A d, p : ~ToFill(d, p)
    BY <2>1, NothingHeld DEF ToFill
  <2>3. \A c, d, p : Filled(c, d, p)' => Filled(c, d, p)
    BY <2>1, <2>2
  <2> HIDE DEF Filled
  <2> QED
    BY <1>0, <2>1, <2>3, ContentSame
<1> QED
  BY <1>1, <1>2, <1>3, <1>4, <1>5, <1>6, <1>7, <1>8, <1>9 DEF Flush

LEMMA ContentWorker ==
    ASSUME ContentInv, NEW c, Worker(c)
    PROVE  ContentInv'
<1>1. UNCHANGED <<ports, ability, started, flagged, area, aupd, mpc, mcomp, mports>>
  BY WorkerFrame DEF regVars, mainVars
<1>2. \A b, d, p : Filled(b, d, p)' <=> Filled(b, d, p)
  BY <1>1 DEF Filled, Done, Flushing, Busy, Current, ToFill
<1>3. \A d, p : Selected(p, d)' = Selected(p, d)
  BY <1>1 DEF Selected
<1> QED
  BY <1>1, <1>2, <1>3 DEF ContentInv

-----------------------------------------------------------------------------
(* The paths.                                                               *)

PathDue(c) == Done(c) \/ (mpc = "wait" /\ c = Current /\ ~Asked)

LEMMA PathSame ==
    ASSUME PathInv,
           UNCHANGED <<ports, started, path, cref, cupd, wpc, wleft>>,
           \A c \in started : PathDue(c)' => PathDue(c),
           Asked' => Asked /\ Current' = Current
    PROVE  PathInv'
BY DEF PathInv, PathDue

LEMMA PathCommand ==
    ASSUME Orderly, TypeInv, OwnerInv, PathInv, Command
    PROVE  PathInv'
<1>1. mpc = "command" /\ mpc' = "flush"
      /\ UNCHANGED <<path, cref, cupd, wpc, wleft>>
  BY CommandFrame DEF cmpVars, wrkVars
<1>2. started' \subseteq Comp
  BY CommandEffect DEF TypeInv, TypeOK
<1>3. PICK c \in Comp :
          /\ flagged \ {c} \subseteq flagged'
          /\ c \in started' => c \in flagged'
          /\ \A b \in Comp \ {c} :
                ports'[b] = ports[b] /\ (b \in started' <=> b \in started)
  BY CommandEffect
<1>4. \A b : PathDue(b)' <=> b \notin flagged'
  BY <1>1 DEF PathDue, Done, Flushing, Busy
<1>5. ASSUME NEW b \in started', b \notin flagged'
      PROVE  path'[b][cref'[b]] = ports'[b]
  <2>1. b \in Comp \ {c} /\ b \in started /\ ports'[b] = ports[b]
    BY <1>2, <1>3, <1>5
  <2>2. Done(b)
    BY <1>3, <1>5, <2>1 DEF Done
  <2> QED
    BY <1>1, <2>1, <2>2 DEF PathInv
<1>6. ~Asked'
  BY <1>1 DEF Asked
<1>7. \A b \in started' : PathDue(b)' => path'[b][cref'[b]] = ports'[b]
  BY <1>4, <1>5
<1> QED
  BY <1>1, <1>6, <1>7 DEF PathInv, PathDue

(* Main fills the area of a path that its worker does not use.              *)
LEMMA RequestElsewhere ==
    ASSUME TypeInv, MainInv, WorkerInv, PathRequest
    PROVE  /\ \A c \in Comp : path'[c][cref[c]] = path[c][cref[c]]
           /\ path'[Current][1 - cupd'[Current]] = ports[Current]
           /\ Current' = Current /\ Current \in Comp /\ Asked'
<1>1. mpc = "ability" /\ mpc' = "wait" /\ Current' = Current /\ cref' = cref
  BY DEF PathRequest, Current
<1>2. \A c \in Comp : cref[c] # cupd[c] /\ cref[c] \in Area /\ cupd[c] \in Area
  BY <1>1 DEF WorkerInv, Asked, TypeInv, TypeOK
<1>3. \A c \in Comp : path'[c][cref[c]] = path[c][cref[c]]
  BY <1>2, RequestEffect
<1>4. Current \in Comp /\ cupd'[Current] = cref[Current]
      /\ path'[Current][cupd[Current]] = ports[Current]
  BY <1>2, RequestEffect
<1>5. 1 - cref[Current] = cupd[Current]
  BY <1>2, <1>4, AreaOther
<1> QED
  BY <1>1, <1>3, <1>4, <1>5 DEF Asked

LEMMA PathFlush ==
    ASSUME TypeInv, MainInv, WorkerInv, PathInv, Flush
    PROVE  PathInv'
<1>0. UNCHANGED <<ports, started, wpc, wleft>>
  BY FlushFrame DEF wrkVars
<1> USE DEF PathDue, Done, Flushing, Busy
<1>1. CASE FlushPort \/ FlushPortFail
  <2>1. mpc = "flush" /\ mpc' \in {"core", "command"}
        /\ UNCHANGED <<flagged, path, cref, cupd, mcomp>>
    BY <1>1 DEF FlushPort, FlushPortFail, cmpVars
  <2> QED
    BY <1>0, <2>1, PathSame DEF Asked
<1>2. CASE FlushCore
  <2>1. mpc = "core" /\ mpc' = "component" /\ mcomp' = flagged
        /\ UNCHANGED <<flagged, path, cref, cupd>>
    BY <1>2 DEF FlushCore, regVars
  <2> QED
    BY <1>0, <2>1, PathSame DEF Asked
<1>3. CASE NextComponent
  <2>1. mpc = "component" /\ mpc' \in {"command", "ability"}
        /\ UNCHANGED <<path, cref, cupd, mcomp>>
        /\ \/ mcomp = {} /\ mpc' = "command"
           \/ flagged' = flagged /\ mpc' = "ability"
    BY <1>3 DEF NextComponent, cmpVars
  <2> QED
    BY <1>0, <2>1, PathSame DEF Asked
<1>4. CASE AbilityWrite \/ AbilityMark \/ AbilityAppend
  <2>1. mpc \in {"ability", "mark", "append"} /\ mpc' \in {"ability", "mark", "append"}
        /\ UNCHANGED <<flagged, path, cref, cupd, mcomp>>
    BY <1>4 DEF AbilityWrite, AbilityMark, AbilityAppend, cmpVars, regVars
  <2> QED
    BY <1>0, <2>1, PathSame DEF Asked
<1>5. CASE PathRequest
  <2>1. mpc = "ability" /\ mpc' = "wait" /\ UNCHANGED <<flagged, cref, mcomp>>
    BY <1>5 DEF PathRequest, regVars
  <2>2. /\ \A c \in Comp : path'[c][cref[c]] = path[c][cref[c]]
        /\ path'[Current][1 - cupd'[Current]] = ports[Current]
        /\ Current' = Current /\ Current \in Comp /\ Asked'
    BY <1>5, RequestElsewhere
  <2>3. \A c \in started : PathDue(c)' => PathDue(c)
    BY <2>1, <2>2
  <2>4. started \subseteq Comp
    BY DEF TypeInv, TypeOK
  <2>5. \A c \in started : PathDue(c)' => path'[c][cref'[c]] = ports'[c]
    <3> HIDE DEF PathDue
    <3>1. \A c \in started : PathDue(c) => path[c][cref[c]] = ports[c]
      BY DEF PathInv, PathDue
    <3> QED
      BY <1>0, <2>1, <2>2, <2>3, <2>4, <3>1
  <2>6. \A c \in Comp : wpc'[c] \in {"burst", "received", "send", "sent"}
            => wleft'[c] \subseteq path'[c][cref'[c]]["rx"]
    BY <1>0, <2>1, <2>2 DEF PathInv
  <2> QED
    BY <1>0, <2>2, <2>5, <2>6 DEF PathInv
<1>6. CASE PathSwitched
  <2>1. mpc = "wait" /\ mpc' = "component" /\ mcomp' = mcomp \ {Current} /\ ~Asked
        /\ UNCHANGED <<flagged, path, cref, cupd>>
    BY <1>6 DEF PathSwitched, cmpVars, regVars, Current, Asked
  <2> QED
    BY <1>0, <2>1, PathSame DEF Asked
<1> QED
  BY <1>1, <1>2, <1>3, <1>4, <1>5, <1>6 DEF Flush

LEMMA PathWorker ==
    ASSUME TypeInv, MainInv, WorkerInv, PathInv, NEW c \in Comp, Worker(c)
    PROVE  PathInv'
<1>0. UNCHANGED <<ports, started, flagged, path, cupd, mpc, mcomp>>
      /\ Current' = Current
  BY WorkerFrame DEF regVars, mainVars, Current
<1>1. \A b \in Comp \ {c} : /\ wpc'[b] = wpc[b] /\ wleft'[b] = wleft[b]
                            /\ cref'[b] = cref[b]
  BY WorkerEffect
<1>2. \A b : Done(b)' <=> Done(b)
  BY <1>0 DEF Done, Flushing, Busy
<1>3. /\ wpc \in [Comp -> Dir \cup {"look", "empty", "flip", "burst",
                                   "received", "send", "sent"}]
      /\ wleft \in [Comp -> SUBSET Port] /\ cref \in [Comp -> Area]
      /\ started \subseteq Comp
  BY DEF TypeInv, TypeOK
<1>4. CASE Flip(c)
  <2>1. wpc[c] = "flip" /\ cref'[c] = 1 - cupd[c]
    BY <1>3, <1>4 DEF Flip
  <2>2. Asked /\ c = Current /\ mpc = "wait"
    BY <2>1 DEF WorkerInv, Asked
  <2>3. c \in mcomp /\ c \in flagged
    BY <2>2, Turn DEF Busy
  <2>4. cref'[c] # cupd[c]
    BY <2>1, AreaOther DEF TypeInv, TypeOK
  <2>5. ~Asked'
    BY <1>0, <2>2, <2>4 DEF Asked
  <2>6. path'[c][cref'[c]] = ports'[c]
    BY <1>0, <2>1, <2>2 DEF PathInv
  <2>7. ~Done(c) /\ \A b \in started \ {c} :
            (Done(b) \/ (mpc = "wait" /\ b = Current /\ ~Asked)) <=> Done(b)
    BY <2>2, <2>3 DEF Done
  <2>8. \A b \in started' :
           Done(b)' \/ (mpc' = "wait" /\ b = Current' /\ ~Asked')
              => path'[b][cref'[b]] = ports'[b]
    <3> SUFFICES ASSUME NEW b \in started,
                        Done(b) \/ (mpc' = "wait" /\ b = Current' /\ ~Asked')
                 PROVE  path'[b][cref'[b]] = ports'[b]
      BY <1>0, <1>2
    <3>1. CASE b = c
      BY <2>6, <3>1
    <3>2. CASE b # c
      <4>1. Done(b)
        BY <1>0, <2>2, <3>2
      <4> QED
        BY <1>0, <1>1, <1>3, <3>2, <4>1 DEF PathInv
    <3> QED
      BY <3>1, <3>2
  <2>9. wpc'[c] \in {"burst", "received", "send", "sent"}
           => wleft'[c] \subseteq path'[c][cref'[c]]["rx"]
    BY <1>0, <1>3, <1>4, <2>1 DEF Flip
  <2>10. \A b \in Comp : wpc'[b] \in {"burst", "received", "send", "sent"}
            => wleft'[b] \subseteq path'[b][cref'[b]]["rx"]
    BY <1>0, <1>1, <2>9 DEF PathInv
  <2> QED
    BY <2>5, <2>8, <2>10 DEF PathInv
<1>5. CASE ~Flip(c)
  <2>1. cref' = cref
    BY <1>5 DEF Worker, Look, SwitchPort, EndOfList, EmptyLists, Drain,
                ReceiveBurst, Received, SendBurst, Sent, cmpVars
  <2>2. Asked' <=> Asked
    BY <1>0, <2>1 DEF Asked
  <2>3. wpc'[c] \in {"burst", "received", "send", "sent"}
           => wleft'[c] \subseteq path[c][cref[c]]["rx"]
    <3>1. CASE Look(c)
      BY <1>3, <3>1 DEF Look
    <3>2. CASE SwitchPort(c) \/ EndOfList(c) \/ EmptyLists(c)
      BY <1>3, <3>2 DEF SwitchPort, EndOfList, EmptyLists, Dir
    <3>3. CASE Drain(c) \/ Received(c) \/ SendBurst(c) \/ Sent(c)
      BY <1>3, <3>3 DEF Drain, Received, SendBurst, Sent, PathInv
    <3>4. CASE ReceiveBurst(c)
      <4>1. wleft'[c] \subseteq wleft[c] /\ wpc[c] = "burst"
        BY <1>3, <3>4 DEF ReceiveBurst
      <4> QED
        BY <4>1 DEF PathInv
    <3> QED
      BY <1>5, <3>1, <3>2, <3>3, <3>4 DEF Worker
  <2>4. \A b \in Comp : wpc'[b] \in {"burst", "received", "send", "sent"}
           => wleft'[b] \subseteq path'[b][cref'[b]]["rx"]
    BY <1>0, <1>1, <2>1, <2>3 DEF PathInv
  <2> QED
    BY <1>0, <1>2, <2>1, <2>2, <2>4 DEF PathInv
<1> QED
  BY <1>4, <1>5

-----------------------------------------------------------------------------
(* What workers go through.                                                 *)

LEMMA UseSame ==
    ASSUME UseInv, UNCHANGED <<wuse, aref, cref>>,
           \A c \in Comp : path'[c][cref[c]] = path[c][cref[c]],
           \A c \in Comp, d \in Dir, p \in Port :
              TakenOver(c, d, p) => TakenOver(c, d, p)'
    PROVE  UseInv'
<1> SUFFICES ASSUME NEW c \in Comp, NEW u \in wuse[c]
             PROVE  \E p \in Port, d \in Dir, k \in Area :
                       /\ u = <<p, d, k>>
                       /\ p \in path'[c][cref'[c]][d]
                       /\ k = aref'[p][d] \/ TakenOver(c, d, p)'
  BY DEF UseInv
<1>1. PICK p \in Port, d \in Dir, k \in Area :
          /\ u = <<p, d, k>>
          /\ p \in path[c][cref[c]][d]
          /\ k = aref[p][d] \/ TakenOver(c, d, p)
  BY DEF UseInv
<1> QED
  BY <1>1

LEMMA UseCommand ==
    ASSUME UseInv, Command
    PROVE  UseInv'
<1>1. mpc = "command" /\ UNCHANGED <<wuse, aref, cref, path>>
  BY CommandFrame DEF cmpVars, wrkVars, ablVars
<1>2. \A c, d, p : ~TakenOver(c, d, p)
  BY <1>1 DEF TakenOver, Flushing, Busy
<1> QED
  BY <1>1, <1>2, UseSame

LEMMA UseFlush ==
    ASSUME TypeInv, MainInv, WorkerInv, UseInv, Flush
    PROVE  UseInv'
<1>0. UNCHANGED <<ports, started, wuse>>
  BY FlushFrame DEF wrkVars
<1> USE DEF Flushing, Busy
<1>1. CASE FlushPort \/ FlushPortFail \/ FlushCore
  <2>1. mpc \in {"flush", "core"} /\ UNCHANGED <<aref, cref, path>>
    BY <1>1 DEF FlushPort, FlushPortFail, FlushCore, cmpVars, ablVars
  <2>2. \A c, d, p : ~TakenOver(c, d, p)
    BY <2>1 DEF TakenOver
  <2> QED
    BY <1>0, <2>1, <2>2, UseSame
<1>2. CASE NextComponent
  <2>1. mpc = "component" /\ mcomp' = mcomp /\ UNCHANGED <<aref, cref, path>>
        /\ (mcomp # {} => mpc' = "ability")
    BY <1>2 DEF NextComponent, cmpVars, ablVars
  <2>2. \A c, d, p : TakenOver(c, d, p) => TakenOver(c, d, p)'
    BY <1>0, <2>1 DEF TakenOver
  <2> QED
    BY <1>0, <2>1, <2>2, UseSame
<1>3. CASE AbilityWrite \/ AbilityMark
  <2>1. mpc \in {"ability", "mark"} /\ mpc' \in {"mark", "append"}
        /\ UNCHANGED <<aref, cref, path, mcomp, mports>>
    BY <1>3 DEF AbilityWrite, AbilityMark, cmpVars
  <2>2. \A c, d, p : TakenOver(c, d, p) => TakenOver(c, d, p)'
    BY <1>0, <2>1 DEF TakenOver, Current, ToFill
  <2> QED
    BY <1>0, <2>1, <2>2, UseSame
<1>4. CASE AbilityAppend
  <2>1. mpc = "append" /\ mpc' = "ability" /\ mports # <<>>
        /\ mports' = Tail(mports) /\ UNCHANGED <<aref, cref, path, mcomp>>
    BY <1>4 DEF AbilityAppend, cmpVars, MainInv
  <2>2. \A d, p : ToFill(d, p)' => ToFill(d, p)
    BY <2>1, TailDistinct DEF ToFill, MainInv, TypeInv
  <2>3. \A c, d, p : TakenOver(c, d, p) => TakenOver(c, d, p)'
    BY <1>0, <2>1, <2>2 DEF TakenOver, Current
  <2> QED
    BY <1>0, <2>1, <2>3, UseSame
<1>5. CASE PathRequest
  <2>1. mpc = "ability" /\ mpc' = "wait"
        /\ UNCHANGED <<aref, cref, mcomp, mports>>
    BY <1>5 DEF PathRequest, ablVars
  <2>2. (\A c \in Comp : path'[c][cref[c]] = path[c][cref[c]]) /\ Asked'
    BY <1>5, RequestElsewhere
  <2>3. \A c, d, p : TakenOver(c, d, p) => TakenOver(c, d, p)'
    BY <1>0, <2>1, <2>2 DEF TakenOver, Current, ToFill
  <2> QED
    BY <1>0, <2>1, <2>2, <2>3, UseSame
<1>6. CASE PathSwitched
  <2>1. mpc = "wait" /\ mpc' = "component" /\ mcomp' = mcomp \ {Current} /\ ~Asked
        /\ UNCHANGED <<aref, cref, path>>
    BY <1>6 DEF PathSwitched, cmpVars, ablVars, Current, Asked
  <2>2. \A c, d, p : TakenOver(c, d, p) => TakenOver(c, d, p)'
    BY <1>0, <2>1 DEF TakenOver
  <2> QED
    BY <1>0, <2>1, <2>2, UseSame
<1> QED
  BY <1>1, <1>2, <1>3, <1>4, <1>5, <1>6 DEF Flush

(* The worker of a port's component switches the port: others that still go *)
(* through the old area belong to components that main has yet to update.   *)
LEMMA SwitchTakesOver ==
    ASSUME TypeInv, OwnerInv, MainInv, WorkerInv, PathInv,
           NEW c \in Comp, NEW b \in Comp \ {c}, NEW d \in Dir, NEW p \in Port,
           Asked, c = Current, Pending(d, p), ListInv,
           p \in path[b][cref[b]][d], wuse[b] # {}
    PROVE  TakenOver(b, d, p)
<1>1. mpc = "wait" /\ running = started /\ mcomp \subseteq flagged
      /\ Current \in flagged
  BY Turn DEF Asked, Busy
<1>2. b \in started
  BY <1>1 DEF WorkerInv
<1>3. p \in ports[c][d] /\ ~ToFill(d, p)
  BY DEF ListInv
<1>4. ~Done(b)
  <2>1. SUFFICES ASSUME Done(b)
                 PROVE  FALSE
    OBVIOUS
  <2>2. p \in ports[b][d]
    BY <1>2, <2>1 DEF PathInv
  <2> QED
    BY <1>3, <2>2 DEF OwnerInv
<1>5. b \in mcomp
  BY <1>1, <1>4 DEF Done, Flushing, Busy
<1>6. c \in started \ {b}
  BY <1>1 DEF OwnerInv
<1> QED
  BY <1>1, <1>3, <1>5, <1>6 DEF TakenOver, Flushing, Busy

LEMMA UseWorker ==
    ASSUME TypeInv, OwnerInv, MainInv, WorkerInv, ListInv, PathInv, UseInv,
           NEW c \in Comp, Worker(c)
    PROVE  UseInv'
<1>0. UNCHANGED <<ports, started, flagged, path, cupd, aupd, mpc, mcomp, mports>>
      /\ Current' = Current
  BY WorkerFrame DEF regVars, mainVars, Current
<1>1. \A b \in Comp \ {c} : wuse'[b] = wuse[b] /\ cref'[b] = cref[b]
  BY WorkerEffect
<1>a. /\ path \in [Comp -> [Area -> [Dir -> SUBSET Port]]]
      /\ cref \in [Comp -> Area] /\ aref \in [Port -> [Dir -> Area]]
      /\ wuse \in [Comp -> SUBSET (Port \X Dir \X Area)]
  BY DEF TypeInv, TypeOK
<1>2. \A b \in Comp \ {c}, d \in Dir, p \in Port :
          TakenOver(b, d, p) => TakenOver(b, d, p)'
  BY <1>0, <1>1 DEF TakenOver, Flushing, Busy, Asked, ToFill
<1>3. ASSUME NEW b \in Comp \ {c}, NEW u \in wuse'[b]
      PROVE  \E p \in Port, d \in Dir, k \in Area :
                /\ u = <<p, d, k>>
                /\ p \in path'[b][cref'[b]][d]
                /\ k = aref'[p][d] \/ TakenOver(b, d, p)'
  <2>0. u \in wuse[b]
    BY <1>1, <1>3
  <2>1. PICK p \in Port, d \in Dir, k \in Area :
            /\ u = <<p, d, k>>
            /\ p \in path[b][cref[b]][d]
            /\ k = aref[p][d] \/ TakenOver(b, d, p)
    BY <2>0 DEF UseInv
  <2>2. aref'[p][d] = aref[p][d] \/ TakenOver(b, d, p)
    <3>1. CASE SwitchPort(c)
      <4>1. PICK e \in Dir, q \in Port :
                /\ wpc[c] = e /\ wcnt[c] < num[e] /\ wcnt[c] \in Nat
                /\ wcnt[c] \in 0 .. MaxList - 1 /\ q = list[e][wcnt[c]]
                /\ \A r \in Port, f \in Dir :
                      aref'[r][f] = IF r = q /\ f = e THEN 1 - aupd[q][e]
                                    ELSE aref[r][f]
        BY <3>1, SwitchEffect
      <4>2. Asked /\ c = Current /\ mpc = "wait"
        BY <4>1 DEF WorkerInv, Asked
      <4>3. CASE p = q /\ d = e
        <5>1. Passed(d) = wcnt[c] /\ num[d] \in Nat
          BY <4>1, <4>2, <4>3 DEF Passed, TypeInv, TypeOK
        <5>2. wcnt[c] \in Live(d)
          BY <4>1, <4>3, <5>1 DEF Live
        <5>3. Pending(d, p)
          BY <4>1, <4>3, <5>2 DEF Pending
        <5> QED
          BY <2>0, <2>1, <4>2, <5>3, SwitchTakesOver
      <4>4. CASE ~ (p = q /\ d = e)
        BY <4>1, <4>4
      <4> QED
        BY <4>3, <4>4
    <3>2. CASE ~SwitchPort(c)
      <4>1. aref' = aref
        BY <3>2 DEF Worker, Look, EndOfList, EmptyLists, Flip, Drain,
                    ReceiveBurst, Received, SendBurst, Sent, ablVars
      <4> QED
        BY <4>1
    <3> QED
      BY <3>1, <3>2
  <2>3. k = aref'[p][d] \/ TakenOver(b, d, p)'
    BY <1>2, <2>1, <2>2
  <2> QED
    BY <1>0, <1>1, <2>1, <2>3
<1>4. ASSUME NEW u \in wuse'[c]
      PROVE  \E p \in Port, d \in Dir, k \in Area :
                /\ u = <<p, d, k>>
                /\ p \in path'[c][cref'[c]][d]
                /\ k = aref'[p][d] \/ TakenOver(c, d, p)'
  <2>1. ASSUME NEW p \in Port, NEW d \in Dir, GoesThrough(c, p, d),
               p \in path[c][cref[c]][d], UNCHANGED <<cref, aref>>
        PROVE  \E q \in Port, e \in Dir, k \in Area :
                  /\ u = <<q, e, k>>
                  /\ q \in path'[c][cref'[c]][e]
                  /\ k = aref'[q][e] \/ TakenOver(c, e, q)'
    <3>1. wuse'[c] = {<<p, d, aref[p][d]>>}
      BY <1>a, <2>1 DEF GoesThrough
    <3>2. u = <<p, d, aref[p][d]>> /\ aref[p][d] \in Area
      BY <1>a, <3>1
    <3> QED
      BY <1>0, <2>1, <3>2
  <2>2. CASE Drain(c) \/ SendBurst(c)
    <3>1. PICK p \in path[c][cref[c]]["tx"] : GoesThrough(c, p, "tx")
      BY <2>2 DEF Drain, SendBurst
    <3>2. p \in Port /\ "tx" \in Dir /\ UNCHANGED <<cref, aref>>
      BY <1>a, <2>2 DEF Dir, Drain, SendBurst, ablVars, cmpVars
    <3> QED
      BY <2>1, <3>1, <3>2
  <2>3. CASE ReceiveBurst(c)
    <3>1. PICK p \in wleft[c] : GoesThrough(c, p, "rx")
      BY <2>3 DEF ReceiveBurst
    <3>2. p \in path[c][cref[c]]["rx"]
      BY <2>3, <3>1 DEF PathInv, ReceiveBurst
    <3>3. p \in Port /\ "rx" \in Dir /\ UNCHANGED <<cref, aref>>
      BY <1>a, <2>3, <3>2 DEF Dir, ReceiveBurst, ablVars, cmpVars
    <3> QED
      BY <2>1, <3>1, <3>2, <3>3
  <2>4. CASE Flip(c) \/ Received(c) \/ Sent(c)
    BY <1>a, <1>4, <2>4 DEF Flip, Received, Sent
  <2>5. CASE Look(c) \/ SwitchPort(c) \/ EndOfList(c) \/ EmptyLists(c)
    <3>1. wuse' = wuse
      BY <2>5 DEF Look, SwitchPort, EndOfList, EmptyLists
    <3>2. wuse[c] = {}
      BY <2>5 DEF Look, SwitchPort, EndOfList, EmptyLists, WorkerInv
    <3> QED
      BY <1>4, <3>1, <3>2
  <2> QED
    BY <2>2, <2>3, <2>4, <2>5 DEF Worker
<1>5. \A b \in Comp : \A u \in wuse'[b] :
        \E p \in Port, d \in Dir, k \in Area :
            /\ u = <<p, d, k>>
            /\ p \in path'[b][cref'[b]][d]
            /\ k = aref'[p][d] \/ TakenOver(b, d, p)'
  BY <1>3, <1>4
<1> QED
  BY <1>5 DEF UseInv

-----------------------------------------------------------------------------
(* The invariant is inductive.                                              *)

LEMMA AbilityInit == Orderly /\ Init => AbilityInv
<1> SUFFICES ASSUME Orderly, Init
             PROVE  AbilityInv
  OBVIOUS
<1>1. TypeInv
  BY TypeInit
<1>2. OwnerInv
  <2>1. \A p \in Port, s \in Slots : ability[p][s].rxtx = "none"
    BY NoAbilityType DEF Init
  <2>2. \A c \in Comp : ports[c] = NoPorts
    BY DEF Init
  <2>3. \A c \in Comp, d \in Dir : ports[c][d] = {}
    BY <2>2 DEF NoPorts
  <2> QED
    BY <2>1, <2>2, <2>3 DEF Init, OwnerInv
<1>3. MainInv
  <2>1. mports = <<>> /\ mcomp = {} /\ mpc = "command"
    BY DEF Init
  <2> QED
    BY <2>1, NothingHeld DEF MainInv, Flushing, Busy, ToFill
<1>4. WorkerInv
  BY DEF Init, WorkerInv, Orderly, Dir
<1>5. ListInv
  <2>1. /\ \A d \in Dir : num[d] = 0
        /\ \A p \in Port, d \in Dir : aupd[p][d] # aref[p][d]
        /\ mpc = "command"
    BY DEF Init
  <2>2. \A d \in Dir : Live(d) = {} /\ \A p : ~Pending(d, p)
    BY <1>1, <1>3, <2>1, NothingLive
  <2> QED
    BY <2>1, <2>2 DEF ListInv, Asked
<1>6. ContentInv
  BY DEF Init, ContentInv
<1>7. PathInv
  BY DEF Init, PathInv, Asked
<1>8. UseInv
  BY DEF Init, UseInv
<1> QED
  BY <1>1, <1>2, <1>3, <1>4, <1>5, <1>6, <1>7, <1>8 DEF AbilityInv

LEMMA AbilityStutter == AbilityInv /\ UNCHANGED vars => AbilityInv'
<1> SUFFICES ASSUME AbilityInv, UNCHANGED vars
             PROVE  AbilityInv'
  OBVIOUS
<1> USE DEF vars, regVars, ablVars, cmpVars, mainVars, wrkVars, AbilityInv
<1>1. TypeInv'
  BY DEF TypeInv, TypeOK
<1>2. OwnerInv'
  BY DEF OwnerInv
<1>3. MainInv'
  BY DEF MainInv, Flushing, Busy, ToFill, Current
<1>4. WorkerInv'
  BY DEF WorkerInv, Asked, Current
<1>5. Asked' = Asked /\ Current' = Current
      /\ (\A d : Passed(d)' = Passed(d)) /\ \A d, p : ToFill(d, p)' = ToFill(d, p)
  BY DEF Asked, Current, Passed, ToFill
<1>6. ListInv'
  BY <1>5, ListSame
<1>7. ContentInv'
  BY <1>5 DEF ContentInv, Filled, Done, Flushing, Busy, Selected
<1>8. PathInv'
  BY <1>5 DEF PathInv, Done, Flushing, Busy
<1>9. UseInv'
  <2>1. \A c, d, p : TakenOver(c, d, p) => TakenOver(c, d, p)'
    BY <1>5 DEF TakenOver, Flushing, Busy
  <2> QED
    BY <2>1, UseSame
<1> QED
  BY <1>1, <1>2, <1>3, <1>4, <1>6, <1>7, <1>8, <1>9

LEMMA AbilityNext == Orderly /\ AbilityInv /\ [Next]_vars => AbilityInv'
<1> SUFFICES ASSUME Orderly, AbilityInv, [Next]_vars
             PROVE  AbilityInv'
  OBVIOUS
<1>0. /\ TypeInv /\ OwnerInv /\ MainInv /\ WorkerInv /\ ListInv
      /\ ContentInv /\ PathInv /\ UseInv
  BY DEF AbilityInv
<1>1. CASE Command
  <2>1. TypeInv' /\ OwnerInv'
    BY <1>0, <1>1, CommandEffect
  <2>2. MainInv' /\ WorkerInv'
    BY <1>0, <1>1, MainCommand, WorkerCommand
  <2>3. ListInv'
    BY <1>0, <1>1, <2>1, <2>2, ListCommand
  <2>4. ContentInv' /\ PathInv' /\ UseInv'
    BY <1>0, <1>1, ContentCommand, PathCommand, UseCommand
  <2> QED
    BY <2>1, <2>2, <2>3, <2>4 DEF AbilityInv
<1>2. CASE Flush
  <2>0. mpc = "append" => mnum < MaxList
    BY <1>0, RoomInList
  <2>1. TypeInv' /\ OwnerInv'
    BY <1>0, <1>2, <2>0, TypeFlush, FlushFrame, OwnerOther
  <2>2. MainInv' /\ WorkerInv'
    BY <1>0, <1>2, <2>0, MainFlush, WorkerFlush
  <2>3. ListInv'
    BY <1>0, <1>2, <2>1, <2>2, ListFlush
  <2>4. ContentInv' /\ PathInv' /\ UseInv'
    BY <1>0, <1>2, ContentFlush, PathFlush, UseFlush
  <2> QED
    BY <2>1, <2>2, <2>3, <2>4 DEF AbilityInv
<1>3. ASSUME NEW c \in Comp, Worker(c)
      PROVE  AbilityInv'
  <2>1. TypeInv'
    BY <1>0, <1>3, TypeWorker
  <2>2. OwnerInv'
    <3>1. UNCHANGED regVars
      BY <1>3, WorkerFrame
    <3> QED
      BY <1>0, <3>1, OwnerOther DEF regVars
  <2>3. MainInv' /\ WorkerInv'
    BY <1>0, <1>3, MainWorker, WorkerWorker
  <2>4. ListInv'
    BY <1>0, <1>3, <2>1, <2>3, ListWorker
  <2>5. ContentInv' /\ PathInv' /\ UseInv'
    BY <1>0, <1>3, ContentWorker, PathWorker, UseWorker
  <2> QED
    BY <2>1, <2>2, <2>3, <2>4, <2>5 DEF AbilityInv
<1>4. CASE UNCHANGED vars
  BY <1>4, AbilityStutter
<1> QED
  BY <1>1, <1>2, <1>3, <1>4 DEF Next, Idle

(* With orderly clients, and where no slot has its first classifier, the    *)
(* invariant holds: whatever devices fail to open, and in any interleaving  *)
(* of main with the workers.                                                *)
THEOREM AbilityInvariant ==
    ASSUME Orderly
    PROVE  Spec => []AbilityInv
<1>1. Init => AbilityInv
  BY AbilityInit
<1>2. AbilityInv /\ [Next]_vars => AbilityInv'
  BY AbilityNext
<1> QED
  BY <1>1, <1>2, PTL DEF Spec

(* Every variable has its type: rx_list and tx_list of spp_port.c, which    *)
(* main and all workers write without a lock, never get more entries than   *)
(* they have room for, however many components and ports are flushed.       *)
THEOREM TypeCorrect ==
    ASSUME Orderly
    PROVE  Spec => []TypeOK
<1>1. AbilityInv => TypeOK
  BY DEF AbilityInv, TypeInv
<1> QED
  BY <1>1, AbilityInvariant, PTL

(* A port operation that spp_flush has answered with success is in force:   *)
(* the bursts of spp_port.c find for each port of a component what is       *)
(* registered for it, each operation once.                                  *)
THEOREM AllInForce ==
    ASSUME Orderly
    PROVE  Spec => []InForce
<1>1. AbilityInv => InForce
  <2> SUFFICES ASSUME AbilityInv, Settled, NEW c \in started, NEW d \in Dir,
                      NEW p \in ports[c][d]
               PROVE  LET a == area[p][d][aref[p][d]] IN
                      /\ ToSet(a) = {x \in ToSet(ability[p]) : x.rxtx = d}
                      /\ Len(a) = Cardinality({s \in Slots : ability[p][s].rxtx = d})
    BY DEF InForce
  <2>1. TypeInv /\ MainInv /\ ListInv /\ ContentInv
    BY DEF AbilityInv
  <2>2. /\ p \in Port /\ ability[p] \in [Slots -> Ability]
        /\ aupd[p][d] \in Area /\ aref[p][d] \in Area
    BY <2>1 DEF TypeInv, TypeOK
  <2>3. mpc = "command" /\ num[d] = 0 /\ Done(c)
    BY <2>1 DEF Settled, ListInv, Done
  <2>4. ~Pending(d, p)
    BY <2>1, <2>3, NothingLive
  <2>5. aupd[p][d] # aref[p][d]
    BY <2>1, <2>2, <2>3, <2>4 DEF ListInv
  <2>6. aref[p][d] = 1 - aupd[p][d]
    BY <2>2, <2>5, AreaOther
  <2>7. area[p][d][aref[p][d]] = Operations(ability[p], d)
    BY <2>1, <2>3, <2>6 DEF ContentInv, Filled, Selected
  <2> QED
    BY <2>2, <2>7, OperationsRight
<1> QED
  BY <1>1, AbilityInvariant, PTL

(* Main never writes to the area of abilities a worker goes through in      *)
(* port_ability_each_operation, and no other worker switches it under one   *)
(* whose component still has the port.                                      *)
LEMMA StableStep ==
    ASSUME AbilityInv, [Next]_vars, NEW c \in Comp, NEW u \in wuse[c]
    PROVE  /\ area'[u[1]][u[2]][u[3]] = area[u[1]][u[2]][u[3]]
           /\ u \in wuse'[c] /\ u[1] \in ports[c][u[2]]
                 => aref'[u[1]][u[2]] = u[3]
<1>0. /\ TypeInv /\ OwnerInv /\ MainInv /\ WorkerInv /\ ListInv
      /\ ContentInv /\ PathInv /\ UseInv
  BY DEF AbilityInv
<1>1. PICK p \in Port, d \in Dir, k \in Area :
          /\ u = <<p, d, k>>
          /\ p \in path[c][cref[c]][d]
          /\ k = aref[p][d] \/ TakenOver(c, d, p)
  BY <1>0 DEF UseInv
<1>2. u[1] = p /\ u[2] = d /\ u[3] = k
  BY <1>1
<1>a. /\ ports \in [Comp -> [Dir -> SUBSET Port]] /\ started \subseteq Comp
      /\ aupd \in [Port -> [Dir -> Area]] /\ aref \in [Port -> [Dir -> Area]]
  BY <1>0 DEF TypeInv, TypeOK
<1>3. area'[p][d][k] = area[p][d][k]
  <2>1. CASE AbilityWrite
    <3>1. PICK e \in Dir, q \in Port :
              /\ Head(mports) = <<e, q>>
              /\ \A r \in Port, f \in Dir, j \in Area :
                    area'[r][f][j] = IF r = q /\ f = e /\ j = aupd[q][e]
                                     THEN Selected(q, e) ELSE area[r][f][j]
      BY <1>0, <2>1, WriteEffect
    <3>2. mports # <<>> /\ mpc = "ability"
      BY <2>1 DEF AbilityWrite
    <3>0. ToFill(e, q)
      BY <1>0, <3>1, <3>2, TailDistinct DEF MainInv, TypeInv, ToFill
    <3>3. ToFill(e, q) /\ q \in ports[Current][e]
      BY <1>0, <3>0 DEF MainInv
    <3>4. aupd[q][e] # aref[q][e]
      BY <1>0, <3>2, <3>3 DEF ListInv
    <3>5. ASSUME p = q, d = e, TakenOver(c, d, p)
          PROVE  FALSE
      <4>1. PICK b \in started \ {c} :
                /\ p \in ports[b][d]
                /\ b \notin mcomp \/ (b = Current /\ ~ToFill(d, p))
        BY <3>5 DEF TakenOver
      <4>2. Current \in Comp /\ Current \in mcomp
        BY <1>0, <3>2, Turn DEF Busy
      <4>3. b = Current
        BY <1>0, <1>a, <3>3, <3>5, <4>1, <4>2 DEF OwnerInv
      <4> QED
        BY <3>3, <3>5, <4>1, <4>2, <4>3
    <3>6. ~ (p = q /\ d = e /\ k = aupd[q][e])
      BY <1>1, <3>4, <3>5
    <3> QED
      BY <3>1, <3>6
  <2>2. CASE ~AbilityWrite
    <3>1. area' = area
      <4>1. CASE Command
        BY <4>1, CommandFrame DEF ablVars
      <4>2. CASE Flush
        BY <2>2, <4>2 DEF Flush, FlushPort, FlushPortFail, FlushCore,
           NextComponent, AbilityMark, AbilityAppend, PathRequest,
           PathSwitched, ablVars
      <4>3. ASSUME NEW b \in Comp, Worker(b)
            PROVE  area' = area
        BY <4>3, WorkerFrame
      <4>4. CASE UNCHANGED vars
        BY <4>4 DEF vars, ablVars
      <4> QED
        BY <4>1, <4>2, <4>3, <4>4 DEF Next, Idle
    <3> QED
      BY <3>1
  <2> QED
    BY <2>1, <2>2
<1>4. ASSUME u \in wuse'[c], p \in ports[c][d]
      PROVE  aref'[p][d] = k
  <2>1. k = aref[p][d]
    <3> SUFFICES ASSUME TakenOver(c, d, p)
                 PROVE  FALSE
      BY <1>1
    <3>1. PICK b \in started \ {c} : p \in ports[b][d]
      BY DEF TakenOver
    <3> QED
      BY <1>0, <1>a, <1>4, <3>1 DEF OwnerInv
  <2>2. ASSUME NEW b \in Comp, SwitchPort(b)
        PROVE  aref'[p][d] = aref[p][d]
    <3>1. PICK e \in Dir, q \in Port :
              /\ wpc[b] = e /\ wcnt[b] < num[e] /\ wcnt[b] \in Nat
              /\ wcnt[b] \in 0 .. MaxList - 1 /\ q = list[e][wcnt[b]]
              /\ \A r \in Port, f \in Dir :
                    aref'[r][f] = IF r = q /\ f = e THEN 1 - aupd[q][e]
                                  ELSE aref[r][f]
      BY <1>0, <2>2, SwitchEffect
    <3>2. Asked /\ b = Current /\ mpc = "wait" /\ wuse[b] = {}
      BY <1>0, <3>1 DEF WorkerInv, Asked
    <3>3. Passed(e) = wcnt[b] /\ num[e] \in Nat
      BY <1>0, <3>1, <3>2 DEF Passed, TypeInv, TypeOK
    <3>4. wcnt[b] \in Live(e)
      BY <3>1, <3>3 DEF Live
    <3>5. Pending(e, q)
      BY <3>1, <3>4 DEF Pending
    <3>6. q \in ports[b][e]
      BY <1>0, <3>2, <3>5 DEF ListInv
    <3>7. ~ (p = q /\ d = e)
      BY <1>0, <1>4, <3>2, <3>6 DEF OwnerInv
    <3> QED
      BY <3>1, <3>7
  <2>3. ASSUME \A b \in Comp : ~SwitchPort(b)
        PROVE  aref' = aref
    <3>1. CASE Command
      BY <3>1, CommandFrame DEF ablVars
    <3>2. CASE Flush
      BY <3>2 DEF Flush, FlushPort, FlushPortFail, FlushCore, NextComponent,
         AbilityWrite, AbilityMark, AbilityAppend, PathRequest, PathSwitched,
         ablVars
    <3>3. ASSUME NEW b \in Comp, Worker(b)
          PROVE  aref' = aref
      BY <2>3, <3>3 DEF Worker, Look, EndOfList, EmptyLists, Flip, Drain,
         ReceiveBurst, Received, SendBurst, Sent, ablVars
    <3>4. CASE UNCHANGED vars
      BY <3>4 DEF vars, ablVars
    <3> QED
      BY <3>1, <3>2, <3>3, <3>4 DEF Next, Idle
  <2>4. CASE \E b \in Comp : SwitchPort(b)
    BY <2>1, <2>2, <2>4
  <2>5. CASE \A b \in Comp : ~SwitchPort(b)
    BY <2>1, <2>3, <2>5
  <2> QED
    BY <2>4, <2>5
<1> QED
  BY <1>2, <1>3, <1>4

(* What a worker goes through is not written meanwhile, and it stays in     *)
(* force as long as the worker's component has the port: the protocol of    *)
(* upd_index, ref_index and the two shared lists keeps main and the workers *)
(* apart without a lock.                                                    *)
THEOREM AbilitiesStable ==
    ASSUME Orderly
    PROVE  Spec => AbilityStable
<1>1. AbilityInv /\ [Next]_vars
         => [\A c \in Comp : \A u \in wuse[c] :
                /\ area'[u[1]][u[2]][u[3]] = area[u[1]][u[2]][u[3]]
                /\ u \in wuse'[c] /\ u[1] \in ports[c][u[2]]
                      => aref'[u[1]][u[2]] = u[3]]_vars
  BY StableStep
<1> QED
  BY <1>1, AbilityInvariant, PTL DEF Spec, AbilityStable

=============================================================================
