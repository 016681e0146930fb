---------------------------- MODULE EventLogProofs ----------------------------
(***************************************************************************)
(* The caches of the event logger are right whenever they are used: proofs *)
(* of the type invariant and of WritesToSubscriber for any number of       *)
(* threads, log points, slots and registrations, and whichever of the two  *)
(* stores of a recalculation becomes visible first.                        *)
(*                                                                         *)
(* The second part is about what a subscriber is sent: no event twice and  *)
(* each thread's events in order (OncePerFd), and, when the two stores     *)
(* become visible in the order of the source, no event missing             *)
(* (NothingMissed).                                                        *)
(***************************************************************************)
EXTENDS EventLog, WellFoundedInduction, TLAPS

(* The threads that are between a lock and its unlock. *)
Locked == {"store", "select", "write"}

(* The mutex is held by whoever is in its critical section. *)
LockInv == \A t \in Threads : th[t].pc \in Locked => mutex = t

(* Some thread has made one of the two stores of a recalculation of p. *)
HalfStored(p) == \E t \in Threads : th[t].pc = "store" /\ th[t].point = p

(* A cache of the current generation is exact, unless it is being stored. *)
CacheInv ==
    \A p \in Points :
        point[p].generation = gen /\ ~HalfStored(p) => point[p].active = PointSlots(p)

(* The cache is current when the targets are selected from it. *)
SelectInv == \A t \in Threads : th[t].pc = "select" => point[th[t].point].generation = gen

(* The slots left to write to are in use by subscribers of the point. *)
WriteInv == \A t \in Threads : th[t].pc = "write" => th[t].active \subseteq PointSlots(th[t].point)

IInv == TypeOK /\ LockInv /\ CacheInv /\ SelectInv /\ WriteInv

-----------------------------------------------------------------------------
(* Types. *)

(* The initial state of a thread is well typed. *)
LEMMA IdleType == Idle \in ThreadType
  BY LogAssumption DEF Idle, ThreadType, Pcs

(* A thread moves on. *)
LEMMA SetPc ==
  ASSUME NEW f \in [Threads -> ThreadType], NEW t \in Threads,
         NEW x \in Pcs
  PROVE  [f EXCEPT ![t].pc = x] \in [Threads -> ThreadType]
<1>1. [f[t] EXCEPT !.pc = x] \in ThreadType
  BY DEF ThreadType
<1> QED BY <1>1

(* A thread moves on and remembers where it goes next. *)
LEMMA SetThen ==
  ASSUME NEW f \in [Threads -> ThreadType], NEW t \in Threads,
         NEW x \in Pcs, NEW y \in {"read", "select"}
  PROVE  [f EXCEPT ![t].pc = x, ![t].then = y] \in [Threads -> ThreadType]
<1>1. [f[t] EXCEPT !.pc = x, !.then = y] \in ThreadType
  BY DEF ThreadType
<1> QED BY <1>1

(* A thread moves on with a set of slots. *)
LEMMA SetActive ==
  ASSUME NEW f \in [Threads -> ThreadType], NEW t \in Threads,
         NEW x \in Pcs, NEW S \in SUBSET Slots
  PROVE  [f EXCEPT ![t].pc = x, ![t].active = S] \in [Threads -> ThreadType]
<1>1. [f[t] EXCEPT !.pc = x, !.active = S] \in ThreadType
  BY DEF ThreadType
<1> QED BY <1>1

(* A thread moves on with the slots to write to. *)
LEMMA SetTargets ==
  ASSUME NEW f \in [Threads -> ThreadType], NEW t \in Threads,
         NEW x \in Pcs, NEW S \in SUBSET Slots, NEW b \in BOOLEAN
  PROVE  [f EXCEPT ![t].pc = x, ![t].active = S, ![t].needs = b] \in [Threads -> ThreadType]
<1>1. [f[t] EXCEPT !.pc = x, !.active = S, !.needs = b] \in ThreadType
  BY DEF ThreadType
<1> QED BY <1>1

(* A thread moves on to another pass. *)
LEMMA SetAppdata ==
  ASSUME NEW f \in [Threads -> ThreadType], NEW t \in Threads,
         NEW x \in Pcs, NEW b \in BOOLEAN
  PROVE  [f EXCEPT ![t].pc = x, ![t].appdata = b] \in [Threads -> ThreadType]
<1>1. [f[t] EXCEPT !.pc = x, !.appdata = b] \in ThreadType
  BY DEF ThreadType
<1> QED BY <1>1

(* A thread is done with a slot. *)
LEMMA SetOwed ==
  ASSUME NEW f \in [Threads -> ThreadType], NEW t \in Threads,
         NEW S \in SUBSET Slots, NEW R \in SUBSET Regs
  PROVE  [f EXCEPT ![t].active = S, ![t].owed = R] \in [Threads -> ThreadType]
<1>1. [f[t] EXCEPT !.active = S, !.owed = R] \in ThreadType
  BY DEF ThreadType
<1> QED BY <1>1

(* A thread notes that another pass is needed. *)
LEMMA SetNeeds ==
  ASSUME NEW f \in [Threads -> ThreadType], NEW t \in Threads,
         NEW b \in BOOLEAN
  PROVE  [f EXCEPT ![t].needs = b] \in [Threads -> ThreadType]
<1>1. [f[t] EXCEPT !.needs = b] \in ThreadType
  BY DEF ThreadType
<1> QED BY <1>1

(* A thread owes the event to fewer registrations. *)
LEMMA DropOwed ==
  ASSUME NEW f \in [Threads -> ThreadType], NEW t \in Threads,
         NEW R \in SUBSET Regs
  PROVE  [f EXCEPT ![t].owed = R] \in [Threads -> ThreadType]
<1>1. [f[t] EXCEPT !.owed = R] \in ThreadType
  BY DEF ThreadType
<1> QED BY <1>1

(* A recalculated connection is well typed. *)
LEMMA RecalcConnType ==
  ASSUME TypeOK, NEW c \in ConnType
  PROVE  RecalcConn(c) \in ConnType /\ RecalcConn(c).generation = gen
<1>1. ConnSlots(c) \in SUBSET Slots /\ gen \in Nat
  BY DEF TypeOK, ConnSlots
<1> QED BY <1>1 DEF RecalcConn, ConnType

(* A recalculation in progress and a finished one leave a well-typed cache. *)
LEMMA RecalculatedType ==
  ASSUME TypeOK, NEW p \in Points
  PROVE  /\ Recalculated(p) \in PointType
         /\ Recalculated(p).generation <= gen
         /\ \A half \in HalfRecalculated(p) : half \in PointType /\ half.generation <= gen
<1>1. PointSlots(p) \in SUBSET Slots
  BY DEF PointSlots
<1>2. gen \in Nat /\ gen <= gen
  BY DEF TypeOK
<1>3. point[p] \in PointType /\ point[p].generation <= gen
  BY DEF TypeOK
<1>4. Recalculated(p) \in PointType /\ Recalculated(p).generation <= gen
  BY <1>1, <1>2 DEF Recalculated, PointType
<1>5. ASSUME NEW half \in HalfRecalculated(p)
      PROVE  half \in PointType /\ half.generation <= gen
  <2>1. \/ half = [active |-> PointSlots(p), generation |-> point[p].generation]
        \/ half = [active |-> point[p].active, generation |-> gen]
    BY <1>5 DEF HalfRecalculated, Recalculated
  <2> QED BY <2>1, <1>1, <1>2, <1>3 DEF PointType
<1> QED BY <1>4, <1>5

(* Lowest picks an element of the set: the order on slots is well-founded. *)
LEMMA LowestIn ==
  ASSUME NEW S, S \subseteq Nat, S # {}
  PROVE  Lowest(S) \in S
<1>1. PICK s \in S : \A x \in S : <<x, s>> \notin OpToRel(<, Nat)
  BY NatLessThanWellFounded, WFMin
<1>2. ASSUME NEW x \in S PROVE s <= x
  <2>1. x \in Nat /\ s \in Nat
    OBVIOUS
  <2>2. <<x, s>> \in Nat \X Nat
    BY <2>1
  <2>3. ~(x < s)
    <3>1. <<x, s>> \notin {ss \in Nat \X Nat : ss[1] < ss[2]}
      BY <1>1 DEF OpToRel
    <3> QED BY <2>2, <3>1
  <2> QED BY <2>1, <2>3
<1> QED BY <1>2 DEF Lowest

(* The initial states satisfy the invariant. *)
LEMMA InitIInv == Init => IInv
<1> SUFFICES ASSUME Init PROVE IInv
  OBVIOUS
<1>1. TypeOK
  <2>1. th \in [Threads -> ThreadType]
    BY IdleType DEF Init
  <2>2. ASSUME NEW t \in Threads PROVE conn[t] \in ConnType /\ conn[t].generation <= gen
    <3>1. conn[t] \in [active : {{}}, generation : {0}, sni : {NoSni},
                       random : Randoms, told : {TRUE}]
      BY DEF Init
    <3>2. conn[t].random \in Nat
      BY <3>1, LogAssumption
    <3>3. conn[t] \in ConnType
      <4>1. conn[t] = [active |-> {}, generation |-> 0, sni |-> NoSni,
                       random |-> conn[t].random, told |-> TRUE]
        BY <3>1
      <4>2. ASSUME NEW x \in Nat
            PROVE  [active |-> {}, generation |-> 0, sni |-> NoSni, random |-> x,
                    told |-> TRUE] \in ConnType
        BY DEF ConnType
      <4> QED BY <4>1, <4>2, <3>2
    <3>4. conn[t].generation = 0 /\ gen = 1
      BY <3>1 DEF Init
    <3> QED BY <3>3, <3>4
  <2>3. conn \in [Threads -> ConnType]
    BY <2>2 DEF Init
  <2>4. point \in [Points -> PointType] /\ \A p \in Points : point[p].generation <= gen
    BY DEF Init, PointType
  <2> QED BY <2>1, <2>2, <2>3, <2>4 DEF Init, TypeOK
<1>2. \A t \in Threads : th[t].pc = "idle"
  BY DEF Init, Idle
<1>3. LockInv /\ SelectInv /\ WriteInv
  BY <1>2 DEF LockInv, SelectInv, WriteInv, Locked
<1>4. CacheInv
  BY DEF Init, CacheInv
<1> QED BY <1>1, <1>3, <1>4 DEF IInv

-----------------------------------------------------------------------------
(* A thread's step that changes only its locals. *)
Local == UNCHANGED <<slots, added, gen, mayApp, mutex, point, conn, stream, numLost>>

(* Such a step keeps the types if it keeps those of the locals. *)
LEMMA LocalType ==
  ASSUME TypeOK, Local, th' \in [Threads -> ThreadType]
  PROVE  TypeOK'
  BY DEF TypeOK, Local

(* A step that stores to a cache of a log point keeps its types. *)
LEMMA PointStoreType ==
  ASSUME TypeOK, NEW p \in Points, NEW c \in PointType, c.generation <= gen, gen' = gen,
         point' = [point EXCEPT ![p] = c]
  PROVE  point' \in [Points -> PointType] /\ \A q \in Points : point'[q].generation <= gen'
  BY DEF TypeOK

(* A step that recalculates a connection keeps its types. *)
LEMMA ConnStoreType ==
  ASSUME TypeOK, NEW t \in Threads, gen' = gen,
         \/ conn' = conn
         \/ conn' = [conn EXCEPT ![t] = RecalcConn(conn[t])]
  PROVE  conn' \in [Threads -> ConnType] /\ \A u \in Threads : conn'[u].generation <= gen'
<1>1. CASE conn' = conn
  BY <1>1 DEF TypeOK
<1>2. CASE conn' = [conn EXCEPT ![t] = RecalcConn(conn[t])]
  <2>1. RecalcConn(conn[t]) \in ConnType /\ RecalcConn(conn[t]).generation = gen
    BY RecalcConnType DEF TypeOK
  <2>2. gen \in Nat /\ gen <= gen
    BY DEF TypeOK
  <2> QED BY <1>2, <2>1, <2>2 DEF TypeOK
<1> QED BY <1>1, <1>2

(* Every step of a thread keeps the types. *)
LEMMA LoggingType ==
  ASSUME TypeOK, NEW t \in Threads, Logging(t)
  PROVE  TypeOK'
<1> DEFINE ok == [Threads -> ThreadType]
<1>0. th \in ok /\ th[t] \in ThreadType /\ th[t].point \in Points
  BY DEF TypeOK, ThreadType
<1>a. ASSUME NEW x \in Pcs PROVE [th EXCEPT ![t].pc = x] \in ok
  BY <1>0, SetPc
<1>1. CASE PointFresh(t)
  <2>1. th' \in ok
    BY <1>1, <1>a DEF PointFresh, Goto, Pcs
  <2> QED BY <1>1, <2>1, LocalType DEF PointFresh, Local
<1>2. CASE RecalcPoint(t)
  <2>1. th' \in ok
    <3>1. \/ th' = [th EXCEPT ![t].pc = "store", ![t].then = "read"]
          \/ th' = [th EXCEPT ![t].pc = "read"]
      BY <1>2 DEF RecalcPoint, Goto
    <3>2. "store" \in Pcs /\ "read" \in Pcs
      BY DEF Pcs
    <3>3. [th EXCEPT ![t].pc = "store", ![t].then = "read"] \in ok
      BY <1>0, <3>2, SetThen
    <3>4. [th EXCEPT ![t].pc = "read"] \in ok
      BY <1>a, <3>2
    <3> QED BY <3>1, <3>3, <3>4
  <2>2. point' \in [Points -> PointType] /\ \A q \in Points : point'[q].generation <= gen'
    <3>1. CASE point' = point
      BY <1>2, <3>1 DEF TypeOK, RecalcPoint
    <3>2. CASE \E half \in HalfRecalculated(th[t].point) :
                  point' = [point EXCEPT ![th[t].point] = half]
      BY <1>0, <1>2, <3>2, RecalculatedType, PointStoreType DEF RecalcPoint
    <3> QED BY <1>2, <3>1, <3>2 DEF RecalcPoint
  <2>3. mutex' \in Threads \cup {Nobody}
    BY <1>2 DEF RecalcPoint, TypeOK
  <2> QED BY <1>2, <2>1, <2>2, <2>3 DEF RecalcPoint, TypeOK
<1>3. CASE RecalcPointDone(t)
  <2>1. th' \in ok
    <3>1. th[t].then \in Pcs
      BY <1>0 DEF ThreadType, Pcs
    <3> QED BY <1>3, <3>1, <1>a DEF RecalcPointDone, Goto
  <2>2. point' \in [Points -> PointType] /\ \A q \in Points : point'[q].generation <= gen'
    BY <1>0, <1>3, RecalculatedType, PointStoreType DEF RecalcPointDone
  <2>3. mutex' \in Threads \cup {Nobody}
    BY <1>3 DEF RecalcPointDone, TypeOK
  <2> QED BY <1>3, <2>1, <2>2, <2>3 DEF RecalcPointDone, TypeOK
<1>4. CASE ReadActive(t)
  <2>1. point[th[t].point].active \in SUBSET Slots
    BY <1>0 DEF TypeOK, PointType
  <2>2. th' \in ok
    BY <1>4, <1>0, <1>a, <2>1, SetActive, ZenonT(30) DEF ReadActive, Leave, Pcs
  <2> QED BY <1>4, <2>2, LocalType DEF ReadActive, Local
<1>5. CASE ConnActive(t)
  <2>1. th' \in ok
    BY <1>5, <1>a DEF ConnActive, Leave, Goto, Pcs
  <2>2. conn' \in [Threads -> ConnType] /\ \A u \in Threads : conn'[u].generation <= gen'
    BY <1>5, ConnStoreType DEF ConnActive
  <2> QED BY <1>5, <2>1, <2>2 DEF ConnActive, TypeOK
<1>6. CASE Format(t)
  <2>1. th' \in ok
    BY <1>6, <1>a DEF Format, Goto, Pcs
  <2> QED BY <1>6, <2>1, LocalType DEF Format, Local
<1>7. CASE FormatFails(t)
  <2>1. [th EXCEPT ![t].pc = "idle"] \in ok
    BY <1>a DEF Pcs
  <2>2. th' \in ok
    BY <1>7, <2>1, DropOwed DEF FormatFails, Leave
  <2> QED BY <1>7, <2>2, LocalType DEF FormatFails, Local
<1>8. CASE WriteEnd(t)
  <2>1. th' \in ok
    <3>1. \/ th' = [th EXCEPT ![t].pc = "store", ![t].then = "select"]
          \/ th' = [th EXCEPT ![t].pc = "select"]
      BY <1>8 DEF WriteEnd, Goto
    <3>2. "store" \in Pcs /\ "select" \in Pcs
      BY DEF Pcs
    <3>3. [th EXCEPT ![t].pc = "store", ![t].then = "select"] \in ok
      BY <1>0, <3>2, SetThen
    <3>4. [th EXCEPT ![t].pc = "select"] \in ok
      BY <1>a, <3>2
    <3> QED BY <3>1, <3>3, <3>4
  <2>2. point' \in [Points -> PointType] /\ \A q \in Points : point'[q].generation <= gen'
    <3>1. CASE point' = point
      BY <1>8, <3>1 DEF TypeOK, WriteEnd
    <3>2. CASE \E half \in HalfRecalculated(th[t].point) :
                  point' = [point EXCEPT ![th[t].point] = half]
      BY <1>0, <1>8, <3>2, RecalculatedType, PointStoreType DEF WriteEnd
    <3> QED BY <1>8, <3>1, <3>2 DEF WriteEnd
  <2> QED BY <1>8, <2>1, <2>2 DEF WriteEnd, TypeOK
<1>9. CASE Select(t)
  <2>1. Targets(t) \in SUBSET Slots
    BY <1>0 DEF Targets, TypeOK, PointType
  <2>2. th' \in ok
    BY <1>9, <1>0, <2>1, SetTargets DEF Select, Pcs
  <2>3. conn' \in [Threads -> ConnType] /\ \A u \in Threads : conn'[u].generation <= gen'
    BY <1>9, ConnStoreType DEF Select
  <2> QED BY <1>9, <2>2, <2>3 DEF Select, TypeOK
<1>b. ASSUME NEW R \in SUBSET Regs PROVE Done(t, R) \in ok
  <2>1. th[t].active \ {Target(t)} \in SUBSET Slots
    BY <1>0 DEF ThreadType
  <2> QED BY <1>0, <2>1, SetOwed DEF Done
<1>c. th[t].owed \in SUBSET Regs /\ \A r : th[t].owed \ {r} \in SUBSET Regs
  BY <1>0 DEF ThreadType
<1>10. CASE Skip(t)
  <2>1. Done(t, th[t].owed) \in ok
    BY <1>b, <1>c
  <2>2. PICK b \in BOOLEAN : th' = [Done(t, th[t].owed) EXCEPT ![t].needs = b]
    BY <1>10, <1>0 DEF Skip, Done, ThreadType
  <2>3. th' \in ok
    BY <2>1, <2>2, SetNeeds
  <2> QED BY <1>10, <2>3, LocalType DEF Skip, Local
<1>11. CASE Write(t)
  <2>1. th' \in ok
    BY <1>11, <1>b, <1>c DEF Write
  <2>2. DOMAIN stream' = Regs
    BY <1>11 DEF Write, TypeOK
  <2> QED BY <1>11, <2>1, <2>2 DEF Write, TypeOK
<1>12. CASE WriteLost(t)
  <2>1. th' \in ok
    BY <1>12, <1>b, <1>c DEF WriteLost
  <2>2. numLost' \in Nat
    BY <1>12 DEF WriteLost, TypeOK
  <2> QED BY <1>12, <2>1, <2>2 DEF WriteLost, TypeOK
<1>13. CASE WriteFails(t)
  <2>1. th' \in ok
    <3>1. Done(t, th[t].owed) \in ok
      BY <1>b, <1>c
    <3>2. ASSUME NEW u \in Threads, NEW r
          PROVE  [Done(t, th[t].owed)[u] EXCEPT !.owed = @ \ {r}] \in ThreadType
      BY <3>1 DEF ThreadType
    <3> QED BY <1>13, <3>2 DEF WriteFails
  <2>2. slots' \in [Slots -> Regs \cup {NoReg}]
    BY <1>13 DEF WriteFails, TypeOK
  <2> QED BY <1>13, <2>1, <2>2 DEF WriteFails, TypeOK, PointType, ConnType
<1>14. CASE WriteDone(t)
  <2>1. th' \in ok
    BY <1>14, <1>0, <1>a, SetAppdata DEF WriteDone, Leave, Pcs
  <2> QED BY <1>14, <2>1 DEF WriteDone, TypeOK
<1> QED
  BY <1>1, <1>2, <1>3, <1>4, <1>5, <1>6, <1>7, <1>8, <1>9, <1>10, <1>11, <1>12,
     <1>13, <1>14 DEF Logging

(* Every step keeps the types. *)
LEMMA TypeStep ==
  ASSUME TypeOK, [Next]_vars
  PROVE  TypeOK'
<1>1. ASSUME NEW r \in Regs, AddFd(r) PROVE TypeOK'
  <2>1. slots' \in [Slots -> Regs \cup {NoReg}] /\ added' \subseteq Regs
    BY <1>1 DEF TypeOK, AddFd
  <2> QED BY <1>1, <2>1 DEF TypeOK, AddFd, PointType, ConnType
<1>2. ASSUME SetMayIncludeAppdata PROVE TypeOK'
  <2>1. ASSUME NEW t \in Threads
        PROVE  [th[t] EXCEPT !.owed = {r \in @ : ~r.appdata}] \in ThreadType
    BY DEF TypeOK, ThreadType
  <2> QED BY <1>2, <2>1 DEF TypeOK, SetMayIncludeAppdata
<1>3. ASSUME NEW t \in Threads, NEW name \in Names, SetServerName(t, name) PROVE TypeOK'
  <2>1. [conn[t] EXCEPT !.sni = name, !.told = FALSE] \in ConnType
    BY DEF TypeOK, ConnType
  <2>2. [conn[t] EXCEPT !.sni = name, !.told = FALSE].generation = conn[t].generation
    BY DEF TypeOK, ConnType
  <2> QED BY <1>3, <2>1, <2>2 DEF TypeOK, SetServerName
<1>4. ASSUME NEW t \in Threads, RecalcConnState(t) PROVE TypeOK'
  <2>1. [conn[t] EXCEPT !.generation = 0, !.told = TRUE] \in ConnType
    BY DEF TypeOK, ConnType
  <2>2. [conn[t] EXCEPT !.generation = 0, !.told = TRUE].generation = 0
    BY DEF TypeOK, ConnType
  <2> QED BY <1>4, <2>1, <2>2 DEF TypeOK, RecalcConnState
<1>5. ASSUME NEW t \in Threads, NEW p \in Points, NEW withConn \in BOOLEAN,
             LogStart(t, p, withConn)
      PROVE  TypeOK'
  <2>1. Owed(t, p, withConn) \in SUBSET Regs
    BY DEF Owed, PointSlots, TypeOK
  <2>2. th[t].n + 1 \in Nat /\ "point" \in Pcs
    BY DEF TypeOK, ThreadType, Pcs
  <2>3. [Idle EXCEPT !.pc = "point", !.n = th[t].n + 1, !.point = p,
                     !.withConn = withConn, !.owed = Owed(t, p, withConn)] \in ThreadType
    BY <2>1, <2>2, IdleType DEF ThreadType
  <2> QED BY <1>5, <2>3 DEF TypeOK, LogStart
<1>6. ASSUME NEW t \in Threads, Logging(t) PROVE TypeOK'
  BY <1>6, LoggingType
<1>7. CASE UNCHANGED vars
  BY <1>7 DEF TypeOK, vars
<1> QED
  BY <1>1, <1>2, <1>3, <1>4, <1>5, <1>6, <1>7 DEF Next

-----------------------------------------------------------------------------
(* The mutex. *)

(* What the invariant reads of a thread does not change. *)
Same(u) ==
    /\ th'[u].pc = th[u].pc
    /\ th'[u].point = th[u].point
    /\ th'[u].active = th[u].active

(* A step of one thread does not touch the locals of another that matter, nor *)
(* its own log point.                                                         *)
LEMMA OthersSame ==
  ASSUME TypeOK, NEW t \in Threads, Logging(t)
  PROVE  th'[t].point = th[t].point /\ \A u \in Threads \ {t} : Same(u)
<1>0. th \in [Threads -> ThreadType]
  BY DEF TypeOK
<1> SUFFICES ASSUME NEW u \in Threads
             PROVE  th'[t].point = th[t].point /\ (u # t => Same(u))
  OBVIOUS
<1>1. CASE PointFresh(t)
  BY <1>0, <1>1 DEF PointFresh, Goto, Same, ThreadType
<1>2. CASE RecalcPoint(t)
  BY <1>0, <1>2 DEF RecalcPoint, Goto, Same, ThreadType
<1>3. CASE RecalcPointDone(t)
  BY <1>0, <1>3 DEF RecalcPointDone, Goto, Same, ThreadType
<1>4. CASE ReadActive(t)
  BY <1>0, <1>4 DEF ReadActive, Leave, Same, ThreadType
<1>5. CASE ConnActive(t)
  BY <1>0, <1>5 DEF ConnActive, Leave, Goto, Same, ThreadType
<1>6. CASE Format(t)
  BY <1>0, <1>6 DEF Format, Goto, Same, ThreadType
<1>7. CASE FormatFails(t)
  BY <1>0, <1>7 DEF FormatFails, Leave, Same, ThreadType
<1>8. CASE WriteEnd(t)
  BY <1>0, <1>8 DEF WriteEnd, Goto, Same, ThreadType
<1>9. CASE Select(t)
  BY <1>0, <1>9 DEF Select, Same, ThreadType
<1>10. CASE Skip(t)
  BY <1>0, <1>10 DEF Skip, Done, Same, ThreadType
<1>11. CASE Write(t)
  BY <1>0, <1>11 DEF Write, Done, Same, ThreadType
<1>12. CASE WriteLost(t)
  BY <1>0, <1>12 DEF WriteLost, Done, Same, ThreadType
<1>13. CASE WriteFails(t)
  BY <1>0, <1>13 DEF WriteFails, Done, Same, ThreadType
<1>14. CASE WriteDone(t)
  BY <1>0, <1>14 DEF WriteDone, Leave, Same, ThreadType
<1> QED
  BY <1>1, <1>2, <1>3, <1>4, <1>5, <1>6, <1>7, <1>8, <1>9, <1>10, <1>11, <1>12,
     <1>13, <1>14 DEF Logging

(* A step that leaves the mutex alone and does not enter a critical section. *)
LEMMA LockKept ==
  ASSUME LockInv, NEW t \in Threads, \A u \in Threads \ {t} : Same(u),
         mutex' = mutex, th'[t].pc \in Locked => th[t].pc \in Locked
  PROVE  LockInv'
  BY DEF LockInv, Same

(* A step that takes the mutex: nobody is in a critical section. *)
LEMMA LockTaken ==
  ASSUME LockInv, NEW t \in Threads, \A u \in Threads \ {t} : Same(u),
         mutex = Nobody, mutex' = t
  PROVE  LockInv'
  BY LogAssumption DEF LockInv, Same

(* A step that leaves the critical section: nobody else was in one. *)
LEMMA LockReleased ==
  ASSUME LockInv, NEW t \in Threads, \A u \in Threads \ {t} : Same(u),
         th[t].pc \in Locked, mutex' = Nobody, th'[t].pc \notin Locked
  PROVE  LockInv'
  BY LogAssumption DEF LockInv, Same

(* A step of a thread keeps the mutex in order. *)
LEMMA LockStep ==
  ASSUME TypeOK, LockInv, NEW t \in Threads, Logging(t)
  PROVE  LockInv'
<1>0. th \in [Threads -> ThreadType] /\ th[t] \in ThreadType
  BY DEF TypeOK
<1>a. \A u \in Threads \ {t} : Same(u)
  BY OthersSame
<1>1. CASE PointFresh(t)
  <2>1. mutex' = mutex /\ th'[t].pc \notin Locked
    BY <1>0, <1>1 DEF PointFresh, Goto, ThreadType, Locked
  <2> QED BY <1>a, <2>1, LockKept
<1>2. CASE RecalcPoint(t)
  <2>1. CASE mutex' = t
    BY <1>2, <1>a, <2>1, LockTaken DEF RecalcPoint
  <2>2. CASE mutex' # t
    <3>1. mutex' = mutex /\ th'[t].pc \notin Locked
      BY <1>0, <1>2, <2>2 DEF RecalcPoint, Goto, ThreadType, Locked
    <3> QED BY <1>a, <3>1, LockKept
  <2> QED BY <2>1, <2>2
<1>3. CASE RecalcPointDone(t)
  <2>1. th[t].pc = "store" /\ th'[t].pc = th[t].then
    BY <1>0, <1>3 DEF RecalcPointDone, At, Goto, ThreadType
  <2>2. CASE th[t].then = "read"
    <3>1. mutex' = Nobody
      BY <1>3, <2>2 DEF RecalcPointDone
    <3> QED BY <1>a, <2>1, <2>2, <3>1, LockReleased DEF Locked
  <2>3. CASE th[t].then # "read"
    <3>1. mutex' = mutex
      BY <1>3, <2>3 DEF RecalcPointDone
    <3> QED BY <1>a, <2>1, <3>1, LockKept DEF Locked
  <2> QED BY <2>2, <2>3
<1>4. CASE ReadActive(t)
  <2>1. mutex' = mutex /\ th'[t].pc \notin Locked
    BY <1>0, <1>4 DEF ReadActive, Leave, ThreadType, Locked
  <2> QED BY <1>a, <2>1, LockKept
<1>5. CASE ConnActive(t)
  <2>1. mutex' = mutex /\ th'[t].pc \notin Locked
    BY <1>0, <1>5 DEF ConnActive, Leave, Goto, ThreadType, Locked
  <2> QED BY <1>a, <2>1, LockKept
<1>6. CASE Format(t)
  <2>1. mutex' = mutex /\ th'[t].pc \notin Locked
    BY <1>0, <1>6 DEF Format, Goto, ThreadType, Locked
  <2> QED BY <1>a, <2>1, LockKept
<1>7. CASE FormatFails(t)
  <2>1. mutex' = mutex /\ th'[t].pc \notin Locked
    BY <1>0, <1>7 DEF FormatFails, Leave, ThreadType, Locked
  <2> QED BY <1>a, <2>1, LockKept
<1>8. CASE WriteEnd(t)
  BY <1>8, <1>a, LockTaken DEF WriteEnd
<1>9. CASE Select(t)
  <2>1. mutex' = mutex /\ th[t].pc \in Locked
    BY <1>9 DEF Select, At, Locked
  <2> QED BY <1>a, <2>1, LockKept
<1>10. CASE Skip(t)
  <2>1. mutex' = mutex /\ th[t].pc \in Locked
    BY <1>10 DEF Skip, Writing, At, Locked
  <2> QED BY <1>a, <2>1, LockKept
<1>11. CASE Write(t)
  <2>1. mutex' = mutex /\ th[t].pc \in Locked
    BY <1>11 DEF Write, Writing, At, Locked
  <2> QED BY <1>a, <2>1, LockKept
<1>12. CASE WriteLost(t)
  <2>1. mutex' = mutex /\ th[t].pc \in Locked
    BY <1>12 DEF WriteLost, Writing, At, Locked
  <2> QED BY <1>a, <2>1, LockKept
<1>13. CASE WriteFails(t)
  <2>1. mutex' = mutex /\ th[t].pc \in Locked
    BY <1>13 DEF WriteFails, Writing, At, Locked
  <2> QED BY <1>a, <2>1, LockKept
<1>14. CASE WriteDone(t)
  <2>1. th[t].pc \in Locked /\ mutex' = Nobody
    BY <1>14 DEF WriteDone, At, Locked
  <2>2. th'[t].pc \notin Locked
    BY <1>0, <1>14 DEF WriteDone, Leave, ThreadType, Locked
  <2> QED BY <1>a, <2>1, <2>2, LockReleased
<1> QED
  BY <1>1, <1>2, <1>3, <1>4, <1>5, <1>6, <1>7, <1>8, <1>9, <1>10, <1>11, <1>12,
     <1>13, <1>14 DEF Logging

-----------------------------------------------------------------------------
(* The caches. *)

(* What the invariant says of the caches and of those who use them. *)
Caches == CacheInv /\ SelectInv /\ WriteInv

(* A step that stores to no cache, changes no registration, does not end a *)
(* recalculation and does not enter the part that relies on the caches.    *)
LEMMA CachesKept ==
  ASSUME Caches, NEW t \in Threads, \A u \in Threads \ {t} : Same(u),
         UNCHANGED <<slots, gen, point>>, th[t].pc # "store",
         th'[t].pc \notin {"select", "write"}
  PROVE  Caches'
<1>0. \A p : PointSlots(p)' = PointSlots(p)
  BY DEF PointSlots
<1>1. CacheInv'
  <2>1. \A p \in Points : HalfStored(p) => HalfStored(p)'
    BY DEF HalfStored, Same
  <2> QED BY <1>0, <2>1 DEF Caches, CacheInv
<1>2. SelectInv'
  BY DEF Caches, SelectInv, Same
<1>3. WriteInv'
  BY <1>0 DEF Caches, WriteInv, Same
<1> QED BY <1>1, <1>2, <1>3 DEF Caches

(* A step of the loop that writes to the slots: one slot is done with. *)
LEMMA CachesInLoop ==
  ASSUME Caches, NEW t \in Threads, \A u \in Threads \ {t} : Same(u),
         UNCHANGED <<slots, gen, point>>, th[t].pc = "write", th'[t].pc = "write",
         th'[t].point = th[t].point, th'[t].active \subseteq th[t].active
  PROVE  Caches'
<1>0. \A p : PointSlots(p)' = PointSlots(p)
  BY DEF PointSlots
<1>1. CacheInv'
  <2>1. \A p \in Points : HalfStored(p) => HalfStored(p)'
    BY DEF HalfStored, Same
  <2> QED BY <1>0, <2>1 DEF Caches, CacheInv
<1>2. SelectInv'
  BY DEF Caches, SelectInv, Same
<1>3. WriteInv'
  BY <1>0 DEF Caches, WriteInv, Same
<1> QED BY <1>1, <1>2, <1>3 DEF Caches

(* A step that changes the registrations: every cache is out of date. *)
LEMMA CachesOutdated ==
  ASSUME TypeOK, Caches, point' = point, gen' = gen + 1,
         \A u \in Threads : th'[u].pc # "select",
         \A u \in Threads : th'[u].pc = "write" =>
            th'[u].active \subseteq PointSlots(th[u].point)'
  PROVE  Caches'
<1>1. \A p \in Points : point[p].generation # gen'
  BY DEF TypeOK, PointType
<1>2. CacheInv'
  BY <1>1 DEF CacheInv
<1>3. SelectInv'
  BY DEF SelectInv
<1>4. WriteInv'
  BY DEF WriteInv
<1> QED BY <1>2, <1>3, <1>4 DEF Caches

(* The first store of a recalculation. *)
LEMMA CachesHalf ==
  ASSUME TypeOK, Caches, LockInv, NEW t \in Threads, \A u \in Threads \ {t} : Same(u),
         UNCHANGED <<slots, gen>>, mutex = Nobody, th[t].pc # "store",
         th'[t].pc = "store", th'[t].point = th[t].point,
         NEW c, point' = [point EXCEPT ![th[t].point] = c]
  PROVE  Caches'
<1>0. \A p : PointSlots(p)' = PointSlots(p)
  BY DEF PointSlots
<1>1. \A u \in Threads : th'[u].pc \notin {"select", "write"}
  BY LogAssumption DEF LockInv, Locked, Same
<1>2. CacheInv'
  <2> SUFFICES ASSUME NEW p \in Points, point'[p].generation = gen', ~HalfStored(p)'
               PROVE  point'[p].active = PointSlots(p)'
    BY DEF CacheInv
  <2>1. p # th[t].point
    BY DEF HalfStored
  <2>2. point'[p] = point[p]
    BY <2>1 DEF TypeOK
  <2>3. ~HalfStored(p)
    BY DEF HalfStored, Same
  <2> QED BY <1>0, <2>2, <2>3 DEF Caches, CacheInv
<1> QED BY <1>1, <1>2 DEF Caches, SelectInv, WriteInv

(* The second store of a recalculation: the cache is exact. *)
LEMMA CachesWhole ==
  ASSUME TypeOK, Caches, LockInv, NEW t \in Threads, \A u \in Threads \ {t} : Same(u),
         UNCHANGED <<slots, gen>>, th[t].pc = "store", th'[t].pc \in {"read", "select"},
         th'[t].point = th[t].point,
         point' = [point EXCEPT ![th[t].point] = Recalculated(th[t].point)]
  PROVE  Caches'
<1>0. \A p : PointSlots(p)' = PointSlots(p)
  BY DEF PointSlots
<1>1. th[t].point \in Points
  BY DEF TypeOK, ThreadType
<1>2. \A u \in Threads \ {t} : th'[u].pc \notin {"select", "write"}
  BY DEF LockInv, Locked, Same
<1>3. point'[th[t].point] = Recalculated(th[t].point)
  BY <1>1 DEF TypeOK
<1>4. CacheInv'
  <2> SUFFICES ASSUME NEW p \in Points, point'[p].generation = gen', ~HalfStored(p)'
               PROVE  point'[p].active = PointSlots(p)'
    BY DEF CacheInv
  <2>1. CASE p = th[t].point
    BY <1>0, <1>3, <2>1 DEF Recalculated
  <2>2. CASE p # th[t].point
    <3>1. point'[p] = point[p]
      BY <2>2 DEF TypeOK
    <3>2. ~HalfStored(p)
      BY <2>2 DEF HalfStored, Same
    <3> QED BY <1>0, <3>1, <3>2 DEF Caches, CacheInv
  <2> QED BY <2>1, <2>2
<1>5. SelectInv'
  <2>1. point'[th'[t].point].generation = gen'
    BY <1>3 DEF Recalculated
  <2> QED BY <1>2, <2>1 DEF SelectInv
<1>6. WriteInv'
  BY <1>2 DEF WriteInv
<1> QED BY <1>4, <1>5, <1>6 DEF Caches

(* A step of a thread keeps the caches and their uses right. *)
LEMMA CachesStep ==
  ASSUME TypeOK, LockInv, Caches, NEW t \in Threads, Logging(t)
  PROVE  Caches'
<1>0. th \in [Threads -> ThreadType] /\ th[t] \in ThreadType
  BY DEF TypeOK
<1>a. th'[t].point = th[t].point /\ \A u \in Threads \ {t} : Same(u)
  BY OthersSame
<1>1. CASE PointFresh(t)
  <2>1. th[t].pc # "store" /\ th'[t].pc \notin {"select", "write"}
    BY <1>0, <1>1 DEF PointFresh, At, Goto, ThreadType
  <2> QED BY <1>1, <1>a, <2>1, CachesKept DEF PointFresh
<1>2. CASE RecalcPoint(t)
  <2>1. th[t].pc # "store" /\ mutex = Nobody /\ UNCHANGED <<slots, gen>>
    BY <1>2 DEF RecalcPoint, At
  <2>2. CASE point[th[t].point].generation # gen
    <3>1. th'[t].pc = "store"
      BY <1>0, <1>2, <2>2 DEF RecalcPoint, ThreadType
    <3>2. PICK c : point' = [point EXCEPT ![th[t].point] = c]
      BY <1>2, <2>2 DEF RecalcPoint
    <3> QED BY <1>a, <2>1, <3>1, <3>2, CachesHalf
  <2>3. CASE point[th[t].point].generation = gen
    <3>1. point' = point /\ th'[t].pc = "read"
      BY <1>0, <1>2, <2>3 DEF RecalcPoint, Goto, ThreadType
    <3> QED BY <1>a, <2>1, <3>1, CachesKept
  <2> QED BY <2>2, <2>3
<1>3. CASE RecalcPointDone(t)
  <2>1. th[t].pc = "store" /\ th'[t].pc \in {"read", "select"}
    BY <1>0, <1>3 DEF RecalcPointDone, At, Goto, ThreadType
  <2> QED BY <1>3, <1>a, <2>1, CachesWhole DEF RecalcPointDone
<1>4. CASE ReadActive(t)
  <2>1. th[t].pc # "store" /\ th'[t].pc \notin {"select", "write"}
    BY <1>0, <1>4 DEF ReadActive, At, Leave, ThreadType
  <2> QED BY <1>4, <1>a, <2>1, CachesKept DEF ReadActive
<1>5. CASE ConnActive(t)
  <2>1. th[t].pc # "store" /\ th'[t].pc \notin {"select", "write"}
    BY <1>0, <1>5 DEF ConnActive, At, Leave, Goto, ThreadType
  <2> QED BY <1>5, <1>a, <2>1, CachesKept DEF ConnActive
<1>6. CASE Format(t)
  <2>1. th[t].pc # "store" /\ th'[t].pc \notin {"select", "write"}
    BY <1>0, <1>6 DEF Format, At, Goto, ThreadType
  <2> QED BY <1>6, <1>a, <2>1, CachesKept DEF Format
<1>7. CASE FormatFails(t)
  <2>1. th[t].pc # "store" /\ th'[t].pc \notin {"select", "write"}
    BY <1>0, <1>7 DEF FormatFails, At, Leave, ThreadType
  <2> QED BY <1>7, <1>a, <2>1, CachesKept DEF FormatFails
<1>8. CASE WriteEnd(t)
  <2>1. th[t].pc # "store" /\ mutex = Nobody /\ UNCHANGED <<slots, gen>>
    BY <1>8 DEF WriteEnd, At
  <2>2. CASE point[th[t].point].generation # gen
    <3>1. th'[t].pc = "store"
      BY <1>0, <1>8, <2>2 DEF WriteEnd, ThreadType
    <3>2. PICK c : point' = [point EXCEPT ![th[t].point] = c]
      BY <1>8, <2>2 DEF WriteEnd
    <3> QED BY <1>a, <2>1, <3>1, <3>2, CachesHalf
  <2>3. CASE point[th[t].point].generation = gen
    <3>1. point' = point /\ th'[t].pc = "select"
      BY <1>0, <1>8, <2>3 DEF WriteEnd, Goto, ThreadType
    <3>2. \A p : PointSlots(p)' = PointSlots(p)
      BY <2>1 DEF PointSlots
    <3>3. CacheInv'
      <4>1. \A p \in Points : HalfStored(p) => HalfStored(p)'
        BY <1>a, <2>1 DEF HalfStored, Same
      <4> QED BY <2>1, <3>1, <3>2, <4>1 DEF Caches, CacheInv
    <3>4. SelectInv'
      BY <1>a, <2>1, <2>3, <3>1 DEF Caches, SelectInv, Same
    <3>5. WriteInv'
      BY <1>a, <3>1, <3>2 DEF Caches, WriteInv, Same
    <3> QED BY <3>3, <3>4, <3>5 DEF Caches
  <2> QED BY <2>2, <2>3
<1>9. CASE Select(t)
  <2>1. th[t].pc = "select" /\ UNCHANGED <<slots, gen, point>>
    BY <1>9 DEF Select, At
  <2>2. th'[t].pc = "write" /\ th'[t].active = Targets(t)
    BY <1>0, <1>9 DEF Select, ThreadType
  <2>3. \A p : PointSlots(p)' = PointSlots(p)
    BY <2>1 DEF PointSlots
  <2>4. Targets(t) \subseteq PointSlots(th[t].point)
    <3>1. th[t].point \in Points
      BY <1>0 DEF ThreadType
    <3>2. point[th[t].point].generation = gen
      BY <2>1 DEF Caches, SelectInv
    <3>3. ~HalfStored(th[t].point)
      BY <2>1 DEF HalfStored, LockInv, Locked
    <3>4. point[th[t].point].active = PointSlots(th[t].point)
      BY <3>1, <3>2, <3>3 DEF Caches, CacheInv
    <3> QED BY <3>4 DEF Targets
  <2>5. CacheInv'
    <3>1. \A p \in Points : HalfStored(p) => HalfStored(p)'
      BY <1>a, <2>1 DEF HalfStored, Same
    <3> QED BY <2>1, <2>3, <3>1 DEF Caches, CacheInv
  <2>6. SelectInv'
    BY <1>a, <2>1, <2>2 DEF Caches, SelectInv, Same
  <2>7. WriteInv'
    BY <1>a, <2>2, <2>3, <2>4 DEF Caches, WriteInv, Same
  <2> QED BY <2>5, <2>6, <2>7 DEF Caches
<1>b. Done(t, th[t].owed) \in [Threads -> ThreadType]
  <2>1. th[t].active \ {Target(t)} \in SUBSET Slots /\ th[t].owed \in SUBSET Regs
    BY <1>0 DEF ThreadType
  <2> QED BY <1>0, <2>1, SetOwed DEF Done
<1>10. CASE Skip(t)
  <2>1. th[t].pc = "write" /\ th'[t].pc = "write" /\ th'[t].active \subseteq th[t].active
    BY <1>0, <1>10 DEF Skip, Writing, At, Done, ThreadType
  <2> QED BY <1>10, <1>a, <2>1, CachesInLoop DEF Skip
<1>11. CASE Write(t)
  <2>1. th[t].pc = "write" /\ th'[t].pc = "write" /\ th'[t].active \subseteq th[t].active
    BY <1>0, <1>11 DEF Write, Writing, At, Done, ThreadType
  <2> QED BY <1>11, <1>a, <2>1, CachesInLoop DEF Write
<1>12. CASE WriteLost(t)
  <2>1. th[t].pc = "write" /\ th'[t].pc = "write" /\ th'[t].active \subseteq th[t].active
    BY <1>0, <1>12 DEF WriteLost, Writing, At, Done, ThreadType
  <2> QED BY <1>12, <1>a, <2>1, CachesInLoop DEF WriteLost
<1>13. CASE WriteFails(t)
  <2>1. th[t].pc = "write"
    BY <1>13 DEF WriteFails, Writing, At
  <2>2. th'[t].pc = "write" /\ th'[t].active = th[t].active \ {Target(t)}
    BY <1>0, <1>13, <2>1 DEF WriteFails, Done, ThreadType
  <2>3. \A u \in Threads \ {t} : th'[u].pc \notin {"select", "write"}
    BY <1>a, <2>1 DEF LockInv, Locked, Same
  <2>4. th[t].active \ {Target(t)} \subseteq PointSlots(th[t].point)'
    <3>1. th[t].active \subseteq PointSlots(th[t].point)
      BY <2>1 DEF Caches, WriteInv
    <3>2. \A s \in Slots \ {Target(t)} : slots'[s] = slots[s]
      BY <1>13 DEF WriteFails, TypeOK
    <3>3. PointSlots(th[t].point)' = {s \in Slots : slots'[s] # NoReg /\ InList(slots'[s].points, th[t].point)}
      BY <1>a DEF PointSlots
    <3> QED BY <3>1, <3>2, <3>3 DEF PointSlots
  <2>5. point' = point /\ gen' = gen + 1
    BY <1>13 DEF WriteFails
  <2> QED BY <1>a, <2>2, <2>3, <2>4, <2>5, CachesOutdated
<1>14. CASE WriteDone(t)
  <2>1. th[t].pc # "store" /\ th'[t].pc \notin {"select", "write"}
    BY <1>0, <1>14 DEF WriteDone, At, Leave, ThreadType
  <2> QED BY <1>14, <1>a, <2>1, CachesKept DEF WriteDone
<1> QED
  BY <1>1, <1>2, <1>3, <1>4, <1>5, <1>6, <1>7, <1>8, <1>9, <1>10, <1>11, <1>12,
     <1>13, <1>14 DEF Logging

(* A step that leaves the registrations, the mutex, the point caches and what *)
(* the invariant reads of the threads as they are.                            *)
LEMMA NothingRead ==
  ASSUME LockInv, Caches, UNCHANGED <<slots, gen, mutex, point>>,
         \A u \in Threads : Same(u)
  PROVE  LockInv' /\ Caches'
<1>0. \A p : PointSlots(p)' = PointSlots(p)
  BY DEF PointSlots
<1>1. LockInv'
  BY DEF LockInv, Same
<1>2. CacheInv'
  <2>1. \A p \in Points : HalfStored(p) => HalfStored(p)'
    BY DEF HalfStored, Same
  <2> QED BY <1>0, <2>1 DEF Caches, CacheInv
<1>3. SelectInv'
  BY DEF Caches, SelectInv, Same
<1>4. WriteInv'
  BY <1>0 DEF Caches, WriteInv, Same
<1> QED BY <1>1, <1>2, <1>3, <1>4 DEF Caches

(* The invariant is inductive. *)
LEMMA StepIInv ==
  ASSUME IInv, [Next]_vars
  PROVE  IInv'
<1>0. TypeOK /\ LockInv /\ Caches /\ th \in [Threads -> ThreadType]
  BY DEF IInv, Caches, TypeOK
<1>1. TypeOK'
  BY <1>0, TypeStep
<1>2. ASSUME NEW r \in Regs, AddFd(r) PROVE LockInv' /\ Caches'
  <2>1. mutex = Nobody /\ UNCHANGED <<mutex, point, th>> /\ gen' = gen + 1
    BY <1>2 DEF AddFd
  <2>2. \A u \in Threads : th'[u].pc \notin Locked
    BY <1>0, <2>1, LogAssumption DEF LockInv
  <2>3. LockInv'
    BY <2>2 DEF LockInv
  <2>4. \A u \in Threads : th'[u].pc # "select" /\ th'[u].pc # "write"
    BY <2>2 DEF Locked
  <2> QED BY <1>0, <2>1, <2>3, <2>4, CachesOutdated
<1>3. ASSUME SetMayIncludeAppdata PROVE LockInv' /\ Caches'
  <2>1. \A u \in Threads : Same(u)
    BY <1>0, <1>3 DEF SetMayIncludeAppdata, Same, ThreadType
  <2> QED BY <1>0, <1>3, <2>1, NothingRead DEF SetMayIncludeAppdata
<1>4. ASSUME NEW t \in Threads, NEW name \in Names, SetServerName(t, name)
      PROVE  LockInv' /\ Caches'
  <2>1. \A u \in Threads : Same(u)
    BY <1>4 DEF SetServerName, Same
  <2> QED BY <1>0, <1>4, <2>1, NothingRead DEF SetServerName
<1>5. ASSUME NEW t \in Threads, RecalcConnState(t) PROVE LockInv' /\ Caches'
  <2>1. \A u \in Threads : Same(u)
    BY <1>5 DEF RecalcConnState, Same
  <2> QED BY <1>0, <1>5, <2>1, NothingRead DEF RecalcConnState
<1>6. ASSUME NEW t \in Threads, NEW p \in Points, NEW withConn \in BOOLEAN,
             LogStart(t, p, withConn)
      PROVE  LockInv' /\ Caches'
  <2>1. \A u \in Threads \ {t} : Same(u)
    BY <1>0, <1>6 DEF LogStart, Same
  <2>2. th[t].pc # "store" /\ th'[t].pc = "point"
    BY <1>0, <1>6, IdleType DEF LogStart, At, ThreadType
  <2>3. UNCHANGED <<slots, gen, mutex, point>>
    BY <1>6 DEF LogStart
  <2>4. LockInv'
    BY <1>0, <2>1, <2>2, <2>3, LockKept DEF Locked
  <2> QED BY <1>0, <2>1, <2>2, <2>3, <2>4, CachesKept
<1>7. ASSUME NEW t \in Threads, Logging(t) PROVE LockInv' /\ Caches'
  BY <1>0, <1>7, LockStep, CachesStep
<1>8. ASSUME UNCHANGED vars PROVE LockInv' /\ Caches'
  <2>1. \A u \in Threads : Same(u)
    BY <1>8 DEF vars, Same
  <2>2. UNCHANGED <<slots, gen, mutex, point>>
    BY <1>8 DEF vars
  <2> QED BY <1>0, <2>1, <2>2, NothingRead
<1>9. ASSUME Next PROVE LockInv' /\ Caches'
  <2>1. ASSUME NEW t \in Threads,
               \/ \E name \in Names : SetServerName(t, name)
               \/ RecalcConnState(t)
               \/ \E p \in Points, withConn \in BOOLEAN : LogStart(t, p, withConn)
               \/ Logging(t)
        PROVE  LockInv' /\ Caches'
    <3>1. CASE \E name \in Names : SetServerName(t, name)
      BY <3>1, <1>4
    <3>2. CASE \E p \in Points, withConn \in BOOLEAN : LogStart(t, p, withConn)
      BY <3>2, <1>6
    <3> QED BY <2>1, <3>1, <3>2, <1>5, <1>7
  <2>2. CASE \E r \in Regs : AddFd(r)
    BY <2>2, <1>2
  <2> QED BY <1>9, <1>3, <2>1, <2>2 DEF Next
<1>10. LockInv' /\ Caches'
  BY <1>8, <1>9
<1> QED BY <1>1, <1>10 DEF IInv, Caches

-----------------------------------------------------------------------------
(* The theorems. *)

(* The slots that are left to write to satisfy the assertion. *)
LEMMA IInvWrites == IInv => WritesToSubscriber
<1> SUFFICES ASSUME IInv, NEW t \in Threads, Writing(t)
             PROVE  /\ slots[Target(t)] # NoReg
                    /\ InList(slots[Target(t)].points, th[t].point)
  BY DEF WritesToSubscriber
<1>1. th[t].active \subseteq Slots /\ th[t].active # {}
  BY DEF IInv, TypeOK, ThreadType, Writing
<1>2. Target(t) \in th[t].active
  BY <1>1, LogAssumption, LowestIn DEF Target
<1>3. th[t].active \subseteq PointSlots(th[t].point)
  BY DEF IInv, WriteInv, Writing, At
<1> QED BY <1>2, <1>3 DEF PointSlots

(* The caches of the log points and of the connections are never ahead of   *)
(* the generation counter, for any number of threads, points, slots and     *)
(* registrations.                                                           *)
THEOREM LogTypeCorrect == Spec => []TypeOK
<1>1. Init => TypeOK
  BY InitIInv DEF IInv
<1>2. TypeOK /\ [Next]_vars => TypeOK'
  BY TypeStep
<1> QED BY <1>1, <1>2, PTL DEF Spec

(* The assertion of ptls_log__do_write_end holds: a slot about to be written *)
(* to is used by a registration that wants the log point, whatever order the *)
(* two unsynchronised stores of a recalculation become visible in.           *)
THEOREM WritesReachSubscribers == Spec => []WritesToSubscriber
<1>1. Init => IInv
  BY InitIInv
<1>2. IInv /\ [Next]_vars => IInv'
  BY StepIInv
<1>3. IInv => WritesToSubscriber
  BY IInvWrites
<1> QED BY <1>1, <1>2, <1>3, PTL DEF Spec

(***************************************************************************)
(* What a subscriber is sent.                                              *)
(***************************************************************************)

(* A registration holds at most one slot, and only after it was added. *)
TableInv ==
    /\ \A s \in Slots : slots[s] # NoReg => slots[s] \in added
    /\ \A s, x \in Slots : slots[s] # NoReg /\ slots[s] = slots[x] => s = x

EventType == [thread : Threads, n : Nat, point : Points, conn : SUBSET ConnType,
              appdata : BOOLEAN]

StreamInv == stream \in [Regs -> Seq(EventType)]

(* t may have sent r the event it is at: the event is over, r was served by *)
(* the pass without application data, or by this pass.                      *)
MaySent(t, r) ==
    \/ th[t].pc = "idle"
    \/ th[t].appdata /\ ~r.appdata
    \/ /\ th[t].pc = "write"
       /\ r.appdata = th[t].appdata
       /\ \A s \in th[t].active : slots[s] # r

(* An event sent to r is not newer than what its thread is at, and the event a *)
(* thread is at was sent only where it may have been.                          *)
Accounted(e, r) ==
    /\ e.n <= th[e.thread].n
    /\ e.n = th[e.thread].n => MaySent(e.thread, r)

NumbersInv == \A r \in Regs : \A i \in DOMAIN stream[r] : Accounted(stream[r][i], r)

(* The pass with application data asks for no other. *)
PassInv == \A t \in Threads : th[t].pc = "write" /\ th[t].appdata => ~th[t].needs

OnceInv == TableInv /\ StreamInv /\ NumbersInv /\ PassInv /\ OncePerFd

-----------------------------------------------------------------------------
(* What the steps of one thread leave alone. *)

(* The locals of u that the delivery invariants read besides those of Same. *)
SameEvent(u) ==
    /\ th'[u].n = th[u].n
    /\ th'[u].withConn = th[u].withConn
    /\ th'[u].appdata = th[u].appdata
    /\ th'[u].needs = th[u].needs
    /\ th'[u].owed \subseteq th[u].owed

(* Only the events a thread is at change, and only by its own steps; the number *)
(* of an event and what it is about stay until it is over.                      *)
LEMMA OthersSameEvent ==
  ASSUME TypeOK, NEW t \in Threads, Logging(t)
  PROVE  /\ \A u \in Threads \ {t} : SameEvent(u)
         /\ th'[t].n = th[t].n /\ th'[t].withConn = th[t].withConn
         /\ th'[t].owed \subseteq th[t].owed
<1>0. th \in [Threads -> ThreadType]
  BY DEF TypeOK
<1> SUFFICES ASSUME NEW u \in Threads
             PROVE  /\ u # t => SameEvent(u)
                    /\ th'[t].n = th[t].n /\ th'[t].withConn = th[t].withConn
                    /\ th'[t].owed \subseteq th[t].owed
  OBVIOUS
<1>1. CASE PointFresh(t)
  BY <1>0, <1>1 DEF PointFresh, Goto, SameEvent, ThreadType
<1>2. CASE RecalcPoint(t)
  BY <1>0, <1>2 DEF RecalcPoint, Goto, SameEvent, ThreadType
<1>3. CASE RecalcPointDone(t)
  BY <1>0, <1>3 DEF RecalcPointDone, Goto, SameEvent, ThreadType
<1>4. CASE ReadActive(t)
  BY <1>0, <1>4 DEF ReadActive, Leave, SameEvent, ThreadType
<1>5. CASE ConnActive(t)
  BY <1>0, <1>5 DEF ConnActive, Leave, Goto, SameEvent, ThreadType
<1>6. CASE Format(t)
  BY <1>0, <1>6 DEF Format, Goto, SameEvent, ThreadType
<1>7. CASE FormatFails(t)
  BY <1>0, <1>7 DEF FormatFails, Leave, SameEvent, ThreadType
<1>8. CASE WriteEnd(t)
  BY <1>0, <1>8 DEF WriteEnd, Goto, SameEvent, ThreadType
<1>9. CASE Select(t)
  BY <1>0, <1>9 DEF Select, SameEvent, ThreadType
<1>10. CASE Skip(t)
  BY <1>0, <1>10 DEF Skip, Done, SameEvent, ThreadType
<1>11. CASE Write(t)
  BY <1>0, <1>11 DEF Write, Done, SameEvent, ThreadType
<1>12. CASE WriteLost(t)
  BY <1>0, <1>12 DEF WriteLost, Done, SameEvent, ThreadType
<1>13. CASE WriteFails(t)
  BY <1>0, <1>13 DEF WriteFails, Done, SameEvent, ThreadType
<1>14. CASE WriteDone(t)
  BY <1>0, <1>14 DEF WriteDone, Leave, SameEvent, ThreadType
<1> QED
  BY <1>1, <1>2, <1>3, <1>4, <1>5, <1>6, <1>7, <1>8, <1>9, <1>10, <1>11, <1>12,
     <1>13, <1>14 DEF Logging

(* The slot a thread is writing to is one of those it has left. *)
LEMMA TargetIn ==
  ASSUME TypeOK, NEW t \in Threads, Writing(t)
  PROVE  /\ Target(t) \in th[t].active /\ Target(t) \in Slots
         /\ th[t].pc = "write"
<1>1. th[t].active \subseteq Slots /\ th[t].active # {} /\ th[t].pc = "write"
  BY DEF TypeOK, ThreadType, Writing, At
<1> QED BY <1>1, LogAssumption, LowestIn DEF Target

(* One turn of the loop is over: what t has left. *)
LEMMA DoneFacts ==
  ASSUME TypeOK, NEW t \in Threads, NEW R,
         \/ th' = Done(t, R)
         \/ \E b : th' = [Done(t, R) EXCEPT ![t].needs = b]
  PROVE  /\ th'[t].pc = th[t].pc /\ th'[t].appdata = th[t].appdata
         /\ th'[t].active = th[t].active \ {Target(t)} /\ th'[t].owed = R
<1>1. th \in [Threads -> ThreadType]
  BY DEF TypeOK
<1> QED BY <1>1 DEF Done, ThreadType

-----------------------------------------------------------------------------
(* Once per fd. *)

(* The table of registrations. *)
LEMMA TableStep ==
  ASSUME TypeOK, TableInv, [Next]_vars
  PROVE  TableInv'
<1>1. CASE UNCHANGED <<slots, added>>
  BY <1>1 DEF TableInv
<1>2. ASSUME NEW r \in Regs, AddFd(r) PROVE TableInv'
  <2> DEFINE f == Lowest(FreeSlots)
  <2>1. FreeSlots \subseteq Slots /\ FreeSlots # {}
    BY <1>2 DEF FreeSlots, AddFd
  <2>2. f \in FreeSlots
    BY <2>1, LogAssumption, LowestIn
  <2>3. slots' = [slots EXCEPT ![f] = r] /\ added' = added \cup {r} /\ r \notin added
    BY <1>2 DEF AddFd
  <2>4. f \in Slots /\ slots \in [Slots -> Regs \cup {NoReg}]
    BY <2>1, <2>2 DEF TypeOK
  <2> HIDE DEF f
  <2>5. slots'[f] = r /\ \A s \in Slots \ {f} : slots'[s] = slots[s]
    BY <2>3, <2>4
  <2> QED BY <2>3, <2>4, <2>5 DEF TableInv
<1>3. ASSUME NEW t \in Threads, WriteFails(t) PROVE TableInv'
  <2>1. added' = added /\ \A s \in Slots : slots'[s] = slots[s] \/ slots'[s] = NoReg
    BY <1>3 DEF WriteFails, TypeOK
  <2> QED BY <2>1 DEF TableInv
<1>4. ASSUME NEW t \in Threads, Logging(t), ~WriteFails(t) PROVE UNCHANGED <<slots, added>>
  BY <1>4 DEF Logging, PointFresh, RecalcPoint, RecalcPointDone, ReadActive, ConnActive,
              Format, FormatFails, WriteEnd, Select, Skip, Write, WriteLost, WriteDone
<1>5. ASSUME NEW t \in Threads,
             \/ \E name \in Names : SetServerName(t, name)
             \/ RecalcConnState(t)
             \/ \E p \in Points, withConn \in BOOLEAN : LogStart(t, p, withConn)
      PROVE  UNCHANGED <<slots, added>>
  BY <1>5 DEF SetServerName, RecalcConnState, LogStart
<1>6. ASSUME SetMayIncludeAppdata PROVE UNCHANGED <<slots, added>>
  BY <1>6 DEF SetMayIncludeAppdata
<1>7. ASSUME UNCHANGED vars PROVE UNCHANGED <<slots, added>>
  BY <1>7 DEF vars
<1> QED BY <1>1, <1>2, <1>3, <1>4, <1>5, <1>6, <1>7 DEF Next

(* What t may have sent stays so while t stays and no slot it has left is *)
(* given to another registration.                                         *)
LEMMA MayKept ==
  ASSUME NEW u \in Threads, Same(u), th'[u].appdata = th[u].appdata, NEW r \in Regs,
         th[u].pc = "write" => \A s \in th[u].active : slots'[s] = slots[s] \/ slots'[s] = NoReg,
         MaySent(u, r)
  PROVE  MaySent(u, r)'
BY LogAssumption DEF MaySent, Same

(* Steps that send nothing. *)
LEMMA NumbersKept ==
  ASSUME StreamInv, NumbersInv, OncePerFd, stream' = stream,
         \A u \in Threads : th'[u].n = th[u].n /\ \A r \in Regs : MaySent(u, r) => MaySent(u, r)'
  PROVE  StreamInv' /\ NumbersInv' /\ OncePerFd'
<1>1. StreamInv'
  BY DEF StreamInv
<1>2. OncePerFd'
  BY DEF OncePerFd
<1>3. ASSUME NEW r \in Regs, NEW i \in DOMAIN stream[r]
      PROVE  Accounted(stream[r][i], r)'
  <2>1. stream[r][i].thread \in Threads
    <3>1. stream[r] \in Seq(EventType)
      BY DEF StreamInv
    <3>2. stream[r][i] \in EventType
      BY <3>1
    <3> QED BY <3>2 DEF EventType
  <2>2. Accounted(stream[r][i], r)
    BY DEF NumbersInv
  <2> QED BY <2>1, <2>2 DEF Accounted
<1>4. NumbersInv'
  BY <1>3 DEF NumbersInv
<1> QED BY <1>1, <1>2, <1>4

(* A thread outside the writing loop that goes on with its pass, or leaves. *)
LEMMA MayMove ==
  ASSUME NEW t \in Threads, th[t].pc \notin {"idle", "write"},
         th'[t].appdata = th[t].appdata \/ th'[t].pc = "idle", NEW r \in Regs, MaySent(t, r)
  PROVE  MaySent(t, r)'
BY DEF MaySent

(* A turn of the loop that ends without a write to the fd. *)
LEMMA MayTurn ==
  ASSUME TypeOK, NEW t \in Threads, th[t].pc = "write", th'[t].pc = "write",
         th'[t].appdata = th[t].appdata, th'[t].active \subseteq th[t].active,
         \A s \in Slots : slots'[s] = slots[s] \/ slots'[s] = NoReg,
         NEW r \in Regs, MaySent(t, r)
  PROVE  MaySent(t, r)'
<1>1. th[t].active \subseteq Slots
  BY DEF TypeOK, ThreadType
<1> QED BY <1>1, LogAssumption DEF MaySent

(* write() of the event t is at to registration r, from slot s. *)
LEMMA WriteOnce ==
  ASSUME TypeOK, OnceInv, NEW t \in Threads, Write(t)
  PROVE  StreamInv' /\ NumbersInv' /\ OncePerFd'
<1>0. th \in [Threads -> ThreadType] /\ th[t] \in ThreadType /\ conn[t] \in ConnType
  BY DEF TypeOK
<1>1. PICK s \in Slots : s = Target(t) /\ s \in th[t].active /\ th[t].pc = "write"
  BY TargetIn DEF Write
<1>2. PICK r \in Regs :
        /\ r = slots[s] /\ r # NoReg /\ ThisPass(t, r)
        /\ stream' = [stream EXCEPT ![r] = Append(@, Event(t))]
        /\ th' = Done(t, th[t].owed \ {r}) /\ UNCHANGED <<slots, conn>>
  <2>1. slots[s] \in Regs \cup {NoReg}
    BY DEF TypeOK
  <2> QED BY <1>1, <2>1 DEF Write
<1>3. r \in Regs
  OBVIOUS
<1> DEFINE ev == Event(t)
           old == stream[r]
<1>4. ev \in EventType /\ ev.thread = t /\ ev.n = th[t].n
  <2>1. th[t].n \in Nat /\ th[t].point \in Points /\ th[t].appdata \in BOOLEAN
    BY <1>0 DEF ThreadType
  <2>2. (IF th[t].withConn THEN {conn[t]} ELSE {}) \in SUBSET ConnType
    BY <1>0
  <2> QED BY <2>1, <2>2 DEF Event, EventType
<1> HIDE DEF ev
<1>5. old \in Seq(EventType)
  BY <1>3 DEF OnceInv, StreamInv
<1>6. /\ stream'[r] = Append(old, ev)
      /\ \A q \in Regs \ {r} : stream'[q] = stream[q]
      /\ DOMAIN stream'[r] = 1..(Len(old) + 1) /\ DOMAIN old = 1..Len(old) /\ Len(old) \in Nat
      /\ stream'[r][Len(old) + 1] = ev /\ \A i \in 1..Len(old) : stream'[r][i] = old[i]
  <2>1. stream'[r] = Append(old, ev) /\ \A q \in Regs \ {r} : stream'[q] = stream[q]
    BY <1>2, <1>3 DEF OnceInv, StreamInv, ev
  <2> HIDE DEF old
  <2> QED BY <1>4, <1>5, <2>1
<1>7. StreamInv'
  <2>1. Append(old, ev) \in Seq(EventType)
    BY <1>4, <1>5
  <2> QED BY <1>2, <1>3, <2>1 DEF OnceInv, StreamInv, ev
<1>8. /\ th'[t].pc = "write" /\ th'[t].appdata = th[t].appdata
      /\ th'[t].active = th[t].active \ {s} /\ th'[t].n = th[t].n
  <2>1. th'[t].pc = th[t].pc /\ th'[t].appdata = th[t].appdata /\ th'[t].active = th[t].active \ {s}
    BY <1>1, <1>2, DoneFacts
  <2>2. Logging(t)
    BY DEF Logging
  <2> QED BY <1>1, <2>1, <2>2, OthersSameEvent
<1>9. MaySent(t, r)'
  <2>1. r.appdata = th[t].appdata
    BY <1>2 DEF ThisPass
  <2>2. \A x \in th[t].active \ {s} : x \in Slots /\ slots[x] # r
    BY <1>0, <1>1, <1>2 DEF OnceInv, TableInv, ThreadType
  <2> QED BY <1>2, <1>8, <2>1, <2>2 DEF MaySent
<1>10. ~MaySent(t, r)
  <2>1. r.appdata = th[t].appdata
    BY <1>2 DEF ThisPass
  <2> QED BY <1>1, <1>2, <2>1 DEF MaySent
<1>11. ASSUME NEW u \in Threads, NEW q \in Regs, MaySent(u, q) PROVE MaySent(u, q)' /\ th'[u].n = th[u].n
  <2>1. CASE u = t
    BY <1>1, <1>2, <1>8, <1>11, <2>1, MayTurn
  <2>2. CASE u # t
    <3>1. Same(u) /\ SameEvent(u)
      BY <2>2, OthersSame, OthersSameEvent DEF Logging
    <3> QED BY <1>2, <1>11, <3>1, MayKept DEF SameEvent
  <2> QED BY <2>1, <2>2
<1>12. \A u \in Threads : th'[u].n = th[u].n
  BY <1>8, OthersSameEvent DEF Logging, SameEvent
<1>13. ASSUME NEW q \in Regs, NEW i \in DOMAIN stream[q]
       PROVE  /\ stream[q][i].thread \in Threads /\ stream[q][i].n \in Nat
              /\ Accounted(stream[q][i], q)
  <2>1. stream[q] \in Seq(EventType)
    BY DEF OnceInv, StreamInv
  <2>2. stream[q][i] \in EventType
    BY <2>1
  <2> QED BY <2>2 DEF EventType, OnceInv, NumbersInv
<1>14. NumbersInv'
  <2> SUFFICES ASSUME NEW q \in Regs, NEW i \in DOMAIN stream'[q]
               PROVE  Accounted(stream[q][i], q)'
    BY DEF NumbersInv
  <2>1. CASE q = r /\ i = Len(old) + 1
    <3>1. stream'[q][i] = ev
      BY <1>6, <2>1
    <3>2. stream'[q][i].thread = t /\ stream'[q][i].n = th'[t].n /\ th'[t].n <= th'[t].n
      <4>1. th[t].n \in Nat
        BY <1>0 DEF ThreadType
      <4> QED BY <1>4, <1>8, <3>1, <4>1
    <3>3. MaySent(t, q)'
      BY <1>2, <1>9, <2>1
    <3> QED BY <3>2, <3>3 DEF Accounted
  <2>2. CASE ~(q = r /\ i = Len(old) + 1)
    <3>1. i \in DOMAIN stream[q] /\ stream'[q][i] = stream[q][i]
      <4>1. CASE q = r
        <5>1. i \in 1..Len(old)
          BY <1>6, <2>2, <4>1
        <5> QED BY <1>6, <4>1, <5>1
      <4>2. CASE q # r
        BY <1>6, <4>2
      <4> QED BY <4>1, <4>2
    <3>2. stream[q][i].thread \in Threads /\ Accounted(stream[q][i], q)
      BY <1>13, <3>1
    <3>3. /\ stream'[q][i].n <= th'[stream'[q][i].thread].n
          /\ stream'[q][i].n = th'[stream'[q][i].thread].n => MaySent(stream[q][i].thread, q)'
      BY <1>11, <1>12, <3>1, <3>2 DEF Accounted
    <3> QED BY <3>3 DEF Accounted
  <2> QED BY <2>1, <2>2
<1>15. OncePerFd'
  <2> SUFFICES ASSUME NEW q \in Regs, NEW i \in DOMAIN stream'[q], NEW j \in DOMAIN stream'[q],
                      i < j, stream'[q][i].thread = stream'[q][j].thread
               PROVE  stream'[q][i].n < stream'[q][j].n
    BY DEF OncePerFd
  <2>1. CASE q # r
    BY <1>6, <2>1 DEF OnceInv, OncePerFd
  <2>2. CASE q = r /\ j # Len(old) + 1
    <3>1. i \in 1..Len(old) /\ j \in 1..Len(old)
      BY <1>6, <2>2
    <3>2. stream'[q][i] = old[i] /\ stream'[q][j] = old[j]
      BY <1>6, <2>2, <3>1
    <3> QED BY <1>3, <1>6, <2>2, <3>1, <3>2 DEF OnceInv, OncePerFd
  <2>3. CASE q = r /\ j = Len(old) + 1
    <3>1. i \in 1..Len(old) /\ stream'[q][i] = stream[q][i] /\ stream'[q][j] = ev /\ i \in DOMAIN stream[q]
      BY <1>6, <2>3
    <3>2. stream[q][i].thread = t /\ Accounted(stream[q][i], q) /\ stream[q][i].n \in Nat
      BY <1>4, <1>13, <3>1
    <3>3. stream[q][i].n <= th[t].n /\ stream[q][i].n # th[t].n
      BY <1>10, <2>3, <3>2 DEF Accounted
    <3>4. th[t].n \in Nat
      BY <1>0 DEF ThreadType
    <3> QED BY <1>4, <3>1, <3>2, <3>3, <3>4
  <2> QED BY <2>1, <2>2, <2>3
<1> QED BY <1>7, <1>14, <1>15

(* Steps of a thread that send nothing. *)
LEMMA LoggingNumbers ==
  ASSUME IInv, OnceInv, NEW t \in Threads, Logging(t)
  PROVE  StreamInv' /\ NumbersInv' /\ OncePerFd' /\ PassInv'
<1>0. TypeOK /\ LockInv /\ th \in [Threads -> ThreadType] /\ th[t] \in ThreadType
  BY DEF IInv, TypeOK
<1>a. /\ \A u \in Threads \ {t} : Same(u) /\ SameEvent(u)
      /\ th'[t].n = th[t].n
  BY <1>0, OthersSame, OthersSameEvent
<1>p. ASSUME th'[t].pc = "write" /\ th'[t].appdata => ~th'[t].needs PROVE PassInv'
  BY <1>a, <1>p DEF OnceInv, PassInv, Same, SameEvent
<1>k. ASSUME stream' = stream, \A s \in Slots : slots'[s] = slots[s] \/ slots'[s] = NoReg,
             \A r \in Regs : MaySent(t, r) => MaySent(t, r)'
      PROVE  StreamInv' /\ NumbersInv' /\ OncePerFd'
  <2>1. ASSUME NEW u \in Threads, NEW r \in Regs, MaySent(u, r) PROVE MaySent(u, r)'
    <3>1. CASE u = t
      BY <1>k, <2>1, <3>1
    <3>2. CASE u # t
      <4>1. th[u].active \subseteq Slots
        BY <1>0 DEF ThreadType
      <4> QED BY <1>a, <1>k, <2>1, <3>2, <4>1, MayKept DEF SameEvent
    <3> QED BY <3>1, <3>2
  <2>2. \A u \in Threads : th'[u].n = th[u].n
    BY <1>a DEF SameEvent
  <2> QED BY <1>k, <2>1, <2>2, NumbersKept DEF OnceInv
<1>m. ASSUME UNCHANGED <<stream, slots>>, th[t].pc \notin {"idle", "write"},
             th'[t].appdata = th[t].appdata \/ th'[t].pc = "idle",
             th'[t].pc = "write" => ~th'[t].needs
      PROVE  StreamInv' /\ NumbersInv' /\ OncePerFd' /\ PassInv'
  BY <1>k, <1>m, <1>p, MayMove
<1>1. CASE PointFresh(t)
  <2>1. /\ th[t].pc = "point" /\ th'[t].appdata = th[t].appdata /\ th'[t].pc # "write"
        /\ UNCHANGED <<stream, slots>>
    BY <1>0, <1>1 DEF PointFresh, At, Goto, ThreadType
  <2> QED BY <1>m, <2>1
<1>2. CASE RecalcPoint(t)
  <2>1. /\ th[t].pc = "recalc" /\ th'[t].appdata = th[t].appdata /\ th'[t].pc # "write"
        /\ UNCHANGED <<stream, slots>>
    BY <1>0, <1>2 DEF RecalcPoint, At, Goto, ThreadType
  <2> QED BY <1>m, <2>1
<1>3. CASE RecalcPointDone(t)
  <2>1. /\ th[t].pc = "store" /\ th'[t].appdata = th[t].appdata /\ th'[t].pc # "write"
        /\ UNCHANGED <<stream, slots>>
    BY <1>0, <1>3 DEF RecalcPointDone, At, Goto, ThreadType
  <2> QED BY <1>m, <2>1
<1>4. CASE ReadActive(t)
  <2>1. /\ th[t].pc = "read" /\ th'[t].appdata = th[t].appdata /\ th'[t].pc # "write"
        /\ UNCHANGED <<stream, slots>>
    BY <1>0, <1>4 DEF ReadActive, At, Leave, ThreadType
  <2> QED BY <1>m, <2>1
<1>5. CASE ConnActive(t)
  <2>1. /\ th[t].pc = "conn" /\ th'[t].appdata = th[t].appdata /\ th'[t].pc # "write"
        /\ UNCHANGED <<stream, slots>>
    BY <1>0, <1>5 DEF ConnActive, At, Leave, Goto, ThreadType
  <2> QED BY <1>m, <2>1
<1>6. CASE Format(t)
  <2>1. /\ th[t].pc = "format" /\ th'[t].appdata = th[t].appdata /\ th'[t].pc # "write"
        /\ UNCHANGED <<stream, slots>>
    BY <1>0, <1>6 DEF Format, At, Goto, ThreadType
  <2> QED BY <1>m, <2>1
<1>7. CASE FormatFails(t)
  <2>1. /\ th[t].pc = "format" /\ th'[t].appdata = th[t].appdata /\ th'[t].pc # "write"
        /\ UNCHANGED <<stream, slots>>
    BY <1>0, <1>7 DEF FormatFails, At, Leave, ThreadType
  <2> QED BY <1>m, <2>1
<1>8. CASE WriteEnd(t)
  <2>1. /\ th[t].pc = "end" /\ th'[t].appdata = th[t].appdata /\ th'[t].pc # "write"
        /\ UNCHANGED <<stream, slots>>
    BY <1>0, <1>8 DEF WriteEnd, At, Goto, ThreadType
  <2> QED BY <1>m, <2>1
<1>9. CASE Select(t)
  <2>1. /\ th[t].pc = "select" /\ th'[t].appdata = th[t].appdata /\ ~th'[t].needs
        /\ UNCHANGED <<stream, slots>>
    BY <1>0, <1>9 DEF Select, At, ThreadType
  <2> QED BY <1>m, <2>1
<1>t. ASSUME stream' = stream, \A s \in Slots : slots'[s] = slots[s] \/ slots'[s] = NoReg,
             th[t].pc = "write", th'[t].pc = "write", th'[t].appdata = th[t].appdata,
             th'[t].active \subseteq th[t].active, th[t].appdata => (th'[t].needs => th[t].needs)
      PROVE  StreamInv' /\ NumbersInv' /\ OncePerFd' /\ PassInv'
  <2>1. \A r \in Regs : MaySent(t, r) => MaySent(t, r)'
    BY <1>0, <1>t, MayTurn
  <2>2. PassInv'
    BY <1>t, <1>p DEF OnceInv, PassInv
  <2> QED BY <1>t, <1>k, <2>1, <2>2
<1>10. CASE Skip(t)
  <2>1. /\ th[t].pc = "write" /\ th'[t].pc = "write" /\ th'[t].appdata = th[t].appdata
        /\ th'[t].active \subseteq th[t].active
    BY <1>0, <1>10 DEF Skip, Writing, At, Done, ThreadType
  <2>2. th[t].appdata => (th'[t].needs => th[t].needs)
    BY <1>0, <1>10 DEF Skip, Done, ThreadType
  <2> QED BY <1>10, <1>t, <2>1, <2>2 DEF Skip
<1>11. CASE Write(t)
  <2>1. StreamInv' /\ NumbersInv' /\ OncePerFd'
    BY <1>0, <1>11, WriteOnce
  <2>2. th'[t].appdata = th[t].appdata /\ th'[t].needs = th[t].needs /\ th[t].pc = "write"
    BY <1>0, <1>11 DEF Write, Writing, At, Done, ThreadType
  <2>3. PassInv'
    BY <2>2, <1>p DEF OnceInv, PassInv
  <2> QED BY <2>1, <2>3
<1>12. CASE WriteLost(t)
  <2>1. /\ th[t].pc = "write" /\ th'[t].pc = "write" /\ th'[t].appdata = th[t].appdata
        /\ th'[t].active \subseteq th[t].active /\ th'[t].needs = th[t].needs
    BY <1>0, <1>12 DEF WriteLost, Writing, At, Done, ThreadType
  <2> QED BY <1>12, <1>t, <2>1 DEF WriteLost
<1>13. CASE WriteFails(t)
  <2>1. /\ th[t].pc = "write" /\ th'[t].pc = "write" /\ th'[t].appdata = th[t].appdata
        /\ th'[t].active \subseteq th[t].active /\ th'[t].needs = th[t].needs
    BY <1>0, <1>13 DEF WriteFails, Writing, At, Done, ThreadType
  <2>2. stream' = stream /\ \A s \in Slots : slots'[s] = slots[s] \/ slots'[s] = NoReg
    BY <1>0, <1>13 DEF WriteFails, TypeOK
  <2> QED BY <1>t, <2>1, <2>2
<1>14. CASE WriteDone(t)
  <2>1. th[t].pc = "write" /\ th'[t].pc # "write" /\ UNCHANGED <<stream, slots>>
    BY <1>0, <1>14 DEF WriteDone, At, Leave, ThreadType
  <2>2. th'[t].pc = "idle" \/ (th[t].needs /\ th'[t].appdata)
    BY <1>0, <1>14 DEF WriteDone, At, Leave, ThreadType
  <2>3. ASSUME NEW r \in Regs, MaySent(t, r) PROVE MaySent(t, r)'
    <3>1. CASE th'[t].pc = "idle"
      BY <3>1 DEF MaySent
    <3>2. CASE th[t].needs /\ th'[t].appdata
      <4>1. ~th[t].appdata
        BY <2>1, <3>2 DEF OnceInv, PassInv
      <4>2. ~r.appdata
        <5>1. r.appdata \in BOOLEAN /\ th[t].appdata \in BOOLEAN
          BY <1>0, LogAssumption DEF ThreadType
        <5> QED BY <2>1, <2>3, <4>1, <5>1 DEF MaySent
      <4> QED BY <3>2, <4>2 DEF MaySent
    <3> QED BY <2>2, <3>1, <3>2
  <2> QED BY <1>k, <1>p, <2>1, <2>3
<1> QED
  BY <1>1, <1>2, <1>3, <1>4, <1>5, <1>6, <1>7, <1>8, <1>9, <1>10, <1>11, <1>12,
     <1>13, <1>14 DEF Logging

(* The next event of t has a number of its own. *)
LEMMA StartNumbers ==
  ASSUME TypeOK, OnceInv, NEW t \in Threads, NEW p \in Points, NEW withConn \in BOOLEAN,
         LogStart(t, p, withConn)
  PROVE  StreamInv' /\ NumbersInv' /\ OncePerFd' /\ PassInv'
<1>0. th \in [Threads -> ThreadType] /\ th[t].n \in Nat
  BY DEF TypeOK, ThreadType
<1>1. th'[t].n = th[t].n + 1 /\ th'[t].pc = "point"
  BY <1>0, IdleType DEF LogStart, ThreadType
<1>2. \A u \in Threads \ {t} : th'[u] = th[u]
  BY <1>0 DEF LogStart
<1>3. UNCHANGED <<stream, slots>>
  BY DEF LogStart
<1>4. StreamInv' /\ OncePerFd'
  BY <1>3 DEF OnceInv, StreamInv, OncePerFd
<1>5. PassInv'
  BY <1>1, <1>2 DEF OnceInv, PassInv
<1>6. NumbersInv'
  <2> SUFFICES ASSUME NEW r \in Regs, NEW i \in DOMAIN stream[r]
               PROVE  Accounted(stream[r][i], r)'
    BY <1>3 DEF NumbersInv
  <2>1. stream[r][i].thread \in Threads /\ stream[r][i].n \in Nat
    <3>1. stream[r] \in Seq(EventType)
      BY DEF OnceInv, StreamInv
    <3>2. stream[r][i] \in EventType
      BY <3>1
    <3> QED BY <3>2 DEF EventType
  <2>2. Accounted(stream[r][i], r)
    BY DEF OnceInv, NumbersInv
  <2>3. CASE stream[r][i].thread = t
    <3>1. stream[r][i].n < th'[t].n
      BY <1>0, <1>1, <2>1, <2>2, <2>3 DEF Accounted
    <3>2. th'[t].n \in Nat
      BY <1>0, <1>1
    <3> QED BY <1>3, <2>1, <2>3, <3>1, <3>2 DEF Accounted
  <2>4. CASE stream[r][i].thread # t
    <3>1. \A u \in Threads \ {t} : MaySent(u, r) => MaySent(u, r)'
      BY <1>2, <1>3 DEF MaySent
    <3> QED BY <1>2, <1>3, <2>1, <2>2, <2>4, <3>1 DEF Accounted
  <2> QED BY <2>3, <2>4
<1> QED BY <1>4, <1>5, <1>6

(* Every step keeps what was sent in order. *)
LEMMA StepOnce ==
  ASSUME IInv, OnceInv, [Next]_vars
  PROVE  OnceInv'
<1>0. TypeOK /\ LockInv /\ th \in [Threads -> ThreadType]
  BY DEF IInv, TypeOK
<1>1. TableInv'
  BY <1>0, TableStep DEF OnceInv
<1>k. ASSUME stream' = stream,
             \A u \in Threads : Same(u) /\ SameEvent(u),
             \A u \in Threads : th[u].pc = "write" => slots' = slots
      PROVE  StreamInv' /\ NumbersInv' /\ OncePerFd' /\ PassInv'
  <2>1. \A u \in Threads, r \in Regs : MaySent(u, r) => MaySent(u, r)'
    BY <1>k, MayKept DEF SameEvent
  <2>2. PassInv'
    BY <1>k DEF OnceInv, PassInv, Same, SameEvent
  <2> QED BY <1>k, <2>1, <2>2, NumbersKept DEF OnceInv, SameEvent
<1>2. ASSUME NEW r \in Regs, AddFd(r) PROVE StreamInv' /\ NumbersInv' /\ OncePerFd' /\ PassInv'
  <2>1. \A u \in Threads : th[u].pc # "write"
    BY <1>0, <1>2, LogAssumption DEF AddFd, LockInv, Locked
  <2>2. \A u \in Threads : Same(u) /\ SameEvent(u)
    BY <1>2 DEF AddFd, Same, SameEvent
  <2> QED BY <1>2, <1>k, <2>1, <2>2 DEF AddFd
<1>3. ASSUME SetMayIncludeAppdata PROVE StreamInv' /\ NumbersInv' /\ OncePerFd' /\ PassInv'
  <2>1. \A u \in Threads : Same(u) /\ SameEvent(u)
    BY <1>0, <1>3 DEF SetMayIncludeAppdata, Same, SameEvent, ThreadType
  <2> QED BY <1>3, <1>k, <2>1 DEF SetMayIncludeAppdata
<1>4. ASSUME NEW t \in Threads,
             (\E name \in Names : SetServerName(t, name)) \/ RecalcConnState(t)
      PROVE  StreamInv' /\ NumbersInv' /\ OncePerFd' /\ PassInv'
  <2>1. UNCHANGED <<th, stream, slots>>
    BY <1>4 DEF SetServerName, RecalcConnState
  <2> QED BY <1>k, <2>1 DEF Same, SameEvent
<1>5. ASSUME UNCHANGED vars PROVE StreamInv' /\ NumbersInv' /\ OncePerFd' /\ PassInv'
  <2>1. UNCHANGED <<th, stream, slots>>
    BY <1>5 DEF vars
  <2> QED BY <1>k, <2>1 DEF Same, SameEvent
<1>6. ASSUME Next PROVE StreamInv' /\ NumbersInv' /\ OncePerFd' /\ PassInv'
  <2>1. ASSUME NEW t \in Threads,
               \E p \in Points, withConn \in BOOLEAN : LogStart(t, p, withConn)
        PROVE  StreamInv' /\ NumbersInv' /\ OncePerFd' /\ PassInv'
    BY <1>0, <2>1, StartNumbers
  <2>2. ASSUME NEW t \in Threads, Logging(t)
        PROVE  StreamInv' /\ NumbersInv' /\ OncePerFd' /\ PassInv'
    BY <2>2, LoggingNumbers
  <2> QED BY <1>2, <1>3, <1>4, <1>6, <2>1, <2>2 DEF Next
<1> QED BY <1>1, <1>5, <1>6 DEF OnceInv

(* Nothing was sent at first. *)
LEMMA InitOnce == Init => OnceInv
<1> SUFFICES ASSUME Init PROVE OnceInv
  OBVIOUS
<1>1. \A r \in Regs : stream[r] = <<>> /\ DOMAIN stream[r] = {}
  BY DEF Init
<1>2. StreamInv
  BY DEF Init, StreamInv
<1>3. \A t \in Threads : th[t].pc = "idle"
  BY DEF Init, Idle
<1> QED BY <1>1, <1>2, <1>3 DEF Init, OnceInv, TableInv, NumbersInv, PassInv, OncePerFd

(* No fd is sent the same event twice and the events of a thread arrive in order, *)
(* although the pass with application data runs after the mutex was released and  *)
(* slots may have been freed and taken over since the first pass.                 *)
THEOREM SentOnce == Spec => []OncePerFd
<1>1. Init => IInv /\ OnceInv
  BY InitIInv, InitOnce
<1>2. IInv /\ OnceInv /\ [Next]_vars => IInv' /\ OnceInv'
  BY StepIInv, StepOnce
<1>3. OnceInv => OncePerFd
  BY DEF OnceInv
<1> QED BY <1>1, <1>2, <1>3, PTL DEF Spec

-----------------------------------------------------------------------------
(* Nothing missed. *)

(* A log point of the current generation is exact: the source stores *)
(* active_conns before the generation.                               *)
ExactCache == \A p \in Points : point[p].generation = gen => point[p].active = PointSlots(p)

(* So is a connection of the current generation, once it was told of its name. *)
ConnCache ==
    /\ gen > 0
    /\ \A t \in Threads : conn[t].generation = gen /\ conn[t].told =>
                           conn[t].active = ConnSlots(conn[t])

(* A set of slots that has the slot of r. *)
Has(S, r) == \A s \in Slots : slots[s] = r => s \in S

(* A registration that is owed the event of t is in the table and wants it. *)
Due(t, r) ==
    /\ \E s \in Slots : slots[s] = r
    /\ InList(r.points, th[t].point)
    /\ th[t].withConn => conn[t].told /\ Wants(r, conn[t])
    /\ r.appdata => mayApp
    /\ th[t].appdata => r.appdata

(* What t goes by does not leave r out. *)
InSight(t, r) ==
    /\ th[t].pc = "read" => Has(point[th[t].point].active, r)
    /\ th[t].pc = "conn" => Has(th[t].active, r)
    /\ th[t].pc = "write" =>
         Has(th[t].active, r) \/ (th[t].needs /\ r.appdata /\ ~th[t].appdata)

OwedInv ==
    \A t \in Threads :
        /\ th[t].pc = "idle" => th[t].owed = {}
        /\ th[t].pc = "conn" => th[t].withConn
        /\ \A r \in th[t].owed : Due(t, r) /\ InSight(t, r)

MissInv == ExactCache /\ ConnCache /\ OwedInv

(* The slot of r, if it has one. *)
SameSlot(r) == \A s \in Slots : slots'[s] = r <=> slots[s] = r

(* The filters of a connection. *)
SameConn(u) ==
    conn'[u].told = conn[u].told /\ conn'[u].sni = conn[u].sni /\ conn'[u].random = conn[u].random

(* What r is due does not change when its slot and the filters do not. *)
LEMMA DueKept ==
  ASSUME NEW u \in Threads, NEW r \in Regs, Due(u, r), SameSlot(r), SameConn(u),
         th'[u].point = th[u].point, th'[u].withConn = th[u].withConn,
         r.appdata => mayApp', th'[u].appdata => r.appdata
  PROVE  Due(u, r)'
<1>1. InList(r.points, th'[u].point) /\ (th'[u].withConn => conn'[u].told)
  BY DEF Due, SameConn
<1>2. th'[u].withConn => Wants(r, conn'[u])
  BY DEF Due, SameConn, Wants
<1>3. \E s \in Slots : slots'[s] = r
  BY DEF Due, SameSlot
<1> QED BY <1>1, <1>2, <1>3 DEF Due

(* A subscriber of a point is among the slots of the point. *)
LEMMA PointHas ==
  ASSUME NEW r \in Regs, NEW p, InList(r.points, p)
  PROVE  Has(PointSlots(p), r)
BY LogAssumption DEF Has, PointSlots

(* A registration that wants a connection is among the slots of the connection. *)
LEMMA ConnHas ==
  ASSUME NEW r \in Regs, NEW c, Wants(r, c)
  PROVE  Has(ConnSlots(c), r)
BY LogAssumption DEF Has, ConnSlots

(* A step in which u does not take part. *)
LEMMA BystanderKept ==
  ASSUME TypeOK, NEW u \in Threads, Same(u), SameEvent(u), SameConn(u),
         NEW r \in Regs, Due(u, r), InSight(u, r), SameSlot(r), r.appdata => mayApp',
         \A p \in Points : point'[p].active = point[p].active \/ point'[p].active = PointSlots(p)'
  PROVE  Due(u, r)' /\ InSight(u, r)'
<1>1. Due(u, r)'
  BY DueKept DEF Same, SameEvent, Due
<1>2. ASSUME NEW S, Has(S, r) PROVE \A s \in Slots : slots'[s] = r => s \in S
  BY <1>2 DEF Has, SameSlot
<1>3. th[u].pc = "read" => \A s \in Slots : slots'[s] = r => s \in point'[th[u].point].active
  <2>1. th[u].point \in Points
    BY DEF TypeOK, ThreadType
  <2>2. \A s \in Slots : slots'[s] = r => s \in PointSlots(th[u].point)'
    BY <1>1, LogAssumption DEF Due, PointSlots
  <2>3. th'[u].point = th[u].point
    BY DEF Same
  <2>4. PointSlots(th[u].point)' = {s \in Slots : slots'[s] # NoReg /\ InList(slots'[s].points, th[u].point)}
    BY <2>3 DEF PointSlots
  <2>5. point'[th[u].point].active = PointSlots(th[u].point)' \/ point'[th[u].point].active = point[th[u].point].active
    BY <2>1, <2>4 DEF PointSlots
  <2> QED BY <1>2, <2>2, <2>5 DEF InSight
<1>4. th[u].pc = "conn" => \A s \in Slots : slots'[s] = r => s \in th[u].active
  BY <1>2 DEF InSight
<1>5. th[u].pc = "write" =>
        \/ \A s \in Slots : slots'[s] = r => s \in th[u].active
        \/ th[u].needs /\ r.appdata /\ ~th[u].appdata
  BY <1>2 DEF InSight
<1>6. InSight(u, r)'
  BY <1>3, <1>4, <1>5 DEF InSight, Same, SameEvent, Has
<1> QED BY <1>1, <1>6

(* In the order of the source a store to a log point is of the slots that want *)
(* it, and no generation is stored before them.                                *)
LEMMA HalfOrdered ==
  ASSUME ~Unordered, NEW p, NEW half \in HalfRecalculated(p)
  PROVE  half.active = PointSlots(p) /\ half.generation = point[p].generation
BY DEF HalfRecalculated, Recalculated

(* What a step of a thread may store to a log point. *)
LEMMA PointStores ==
  ASSUME ~Unordered, TypeOK, NEW t \in Threads, Logging(t), NEW p \in Points
  PROVE  \/ point'[p] = point[p]
         \/ /\ UNCHANGED <<slots, gen>>
            /\ point'[p].active = PointSlots(p)
<1>0. point \in [Points -> PointType] /\ th[t].point \in Points
  BY DEF TypeOK, ThreadType
<1>1. CASE RecalcPoint(t)
  <2>1. CASE point' = point
    BY <2>1
  <2>2. CASE point' # point
    <3>1. PICK half \in HalfRecalculated(th[t].point) : point' = [point EXCEPT ![th[t].point] = half]
      BY <1>1, <2>2 DEF RecalcPoint
    <3>2. half.active = PointSlots(th[t].point)
      BY HalfOrdered
    <3>3. UNCHANGED <<slots, gen>>
      BY <1>1 DEF RecalcPoint
    <3> QED BY <1>0, <3>1, <3>2, <3>3
  <2> QED BY <2>1, <2>2
<1>2. CASE WriteEnd(t)
  <2>1. CASE point' = point
    BY <2>1
  <2>2. CASE point' # point
    <3>1. PICK half \in HalfRecalculated(th[t].point) : point' = [point EXCEPT ![th[t].point] = half]
      BY <1>2, <2>2 DEF WriteEnd
    <3>2. half.active = PointSlots(th[t].point)
      BY HalfOrdered
    <3>3. UNCHANGED <<slots, gen>>
      BY <1>2 DEF WriteEnd
    <3> QED BY <1>0, <3>1, <3>2, <3>3
  <2> QED BY <2>1, <2>2
<1>3. CASE RecalcPointDone(t)
  BY <1>0, <1>3 DEF RecalcPointDone, Recalculated
<1>4. CASE ~(RecalcPoint(t) \/ WriteEnd(t) \/ RecalcPointDone(t))
  BY <1>4 DEF Logging, PointFresh, ReadActive, ConnActive, Format, FormatFails, Select, Skip,
              Write, WriteLost, WriteFails, WriteDone
<1> QED BY <1>1, <1>2, <1>3, <1>4

(* The table changes only together with the generation. *)
LEMMA TableGeneration ==
  ASSUME TypeOK, [Next]_vars
  PROVE  \/ UNCHANGED <<slots, gen>>
         \/ gen' = gen + 1 /\ point' = point /\ conn' = conn
<1>1. ASSUME NEW r \in Regs, AddFd(r) PROVE gen' = gen + 1 /\ point' = point /\ conn' = conn
  BY <1>1 DEF AddFd
<1>2. ASSUME NEW t \in Threads, Logging(t)
      PROVE UNCHANGED <<slots, gen>> \/ (gen' = gen + 1 /\ point' = point /\ conn' = conn)
  BY <1>2 DEF Logging, PointFresh, RecalcPoint, RecalcPointDone, ReadActive, ConnActive,
              Format, FormatFails, WriteEnd, Select, Skip, Write, WriteLost, WriteFails, WriteDone
<1>3. ASSUME NEW t \in Threads,
             \/ \E name \in Names : SetServerName(t, name)
             \/ RecalcConnState(t)
             \/ \E p \in Points, withConn \in BOOLEAN : LogStart(t, p, withConn)
      PROVE  UNCHANGED <<slots, gen>>
  BY <1>3 DEF SetServerName, RecalcConnState, LogStart
<1>4. ASSUME SetMayIncludeAppdata PROVE UNCHANGED <<slots, gen>>
  BY <1>4 DEF SetMayIncludeAppdata
<1>5. ASSUME UNCHANGED vars PROVE UNCHANGED <<slots, gen>>
  BY <1>5 DEF vars
<1> QED BY <1>1, <1>2, <1>3, <1>4, <1>5 DEF Next

(* The caches of the log points stay exact. *)
LEMMA ExactStep ==
  ASSUME ~Unordered, TypeOK, ExactCache, [Next]_vars
  PROVE  ExactCache'
<1>1. CASE gen' = gen + 1 /\ point' = point
  <2>1. \A p \in Points : point[p].generation # gen'
    BY <1>1 DEF TypeOK, PointType
  <2> QED BY <1>1, <2>1 DEF ExactCache
<1>2. CASE UNCHANGED <<slots, gen>>
  <2>0. \A p : PointSlots(p)' = PointSlots(p)
    BY <1>2 DEF PointSlots
  <2>1. ASSUME NEW p \in Points PROVE point'[p] = point[p] \/ point'[p].active = PointSlots(p)
    <3>1. ASSUME NEW t \in Threads, Logging(t)
          PROVE  point'[p] = point[p] \/ point'[p].active = PointSlots(p)
      BY <3>1, PointStores
    <3>2. ASSUME NEW t \in Threads,
                 \/ \E name \in Names : SetServerName(t, name)
                 \/ RecalcConnState(t)
                 \/ \E q \in Points, withConn \in BOOLEAN : LogStart(t, q, withConn)
          PROVE  point' = point
      BY <3>2 DEF SetServerName, RecalcConnState, LogStart
    <3>3. ASSUME SetMayIncludeAppdata \/ (\E r \in Regs : AddFd(r)) \/ UNCHANGED vars
          PROVE  point' = point
      BY <3>3 DEF SetMayIncludeAppdata, AddFd, vars
    <3> QED BY <3>1, <3>2, <3>3 DEF Next
  <2> QED BY <1>2, <2>0, <2>1 DEF ExactCache
<1> QED BY <1>1, <1>2, TableGeneration

(* The cache of a connection is recalculated from the table. *)
LEMMA RecalcConnFacts ==
  ASSUME NEW c \in ConnType
  PROVE  /\ RecalcConn(c).told = c.told /\ RecalcConn(c).sni = c.sni
         /\ RecalcConn(c).random = c.random /\ RecalcConn(c).generation = gen
         /\ RecalcConn(c).active = ConnSlots(c) /\ ConnSlots(RecalcConn(c)) = ConnSlots(c)
<1>1. /\ RecalcConn(c).told = c.told /\ RecalcConn(c).sni = c.sni
      /\ RecalcConn(c).random = c.random /\ RecalcConn(c).generation = gen
      /\ RecalcConn(c).active = ConnSlots(c)
  BY DEF RecalcConn, ConnType
<1>2. \A r : Wants(r, RecalcConn(c)) <=> Wants(r, c)
  BY <1>1 DEF Wants
<1> QED BY <1>1, <1>2 DEF ConnSlots

(* What a step of a thread does to connections. *)
LEMMA ConnStores ==
  ASSUME TypeOK, NEW t \in Threads, Logging(t), NEW u \in Threads
  PROVE  \/ conn'[u] = conn[u]
         \/ u = t /\ UNCHANGED <<slots, gen>> /\ conn'[u] = RecalcConn(conn[u])
<1>0. conn \in [Threads -> ConnType]
  BY DEF TypeOK
<1>1. CASE ConnActive(t)
  BY <1>0, <1>1 DEF ConnActive
<1>2. CASE Select(t)
  BY <1>0, <1>2 DEF Select
<1>3. CASE ~(ConnActive(t) \/ Select(t))
  BY <1>3 DEF Logging, PointFresh, RecalcPoint, RecalcPointDone, ReadActive, Format, FormatFails,
              WriteEnd, Skip, Write, WriteLost, WriteFails, WriteDone
<1> QED BY <1>1, <1>2, <1>3

(* The caches of the connections stay exact. *)
LEMMA ConnStep ==
  ASSUME TypeOK, ConnCache, [Next]_vars
  PROVE  ConnCache'
<1>0. conn \in [Threads -> ConnType] /\ gen \in Nat
  BY DEF TypeOK
<1>1. CASE gen' = gen + 1 /\ conn' = conn
  <2>1. \A u \in Threads : conn[u].generation # gen'
    BY <1>0, <1>1 DEF TypeOK, ConnType
  <2> QED BY <1>0, <1>1, <2>1 DEF ConnCache
<1>2. CASE UNCHANGED <<slots, gen>>
  <2>0. \A c : ConnSlots(c)' = ConnSlots(c)
    BY <1>2 DEF ConnSlots
  <2>1. ASSUME NEW u \in Threads,
               \/ conn'[u] = conn[u]
               \/ conn'[u] = RecalcConn(conn[u])
               \/ conn'[u].told = FALSE
               \/ conn'[u].generation = 0
        PROVE  conn'[u].generation = gen' /\ conn'[u].told => conn'[u].active = ConnSlots(conn'[u])
    <3>1. CASE conn'[u] = conn[u]
      BY <1>2, <3>1 DEF ConnCache
    <3>2. CASE conn'[u] = RecalcConn(conn[u])
      BY <1>0, <3>2, RecalcConnFacts
    <3>3. CASE conn'[u].told = FALSE
      BY <3>3
    <3>4. CASE conn'[u].generation = 0
      BY <1>2, <3>4 DEF ConnCache
    <3> QED BY <2>1, <3>1, <3>2, <3>3, <3>4
  <2>2. ASSUME NEW u \in Threads
        PROVE  \/ conn'[u] = conn[u]
               \/ conn'[u] = RecalcConn(conn[u])
               \/ conn'[u].told = FALSE
               \/ conn'[u].generation = 0
    <3>1. ASSUME NEW t \in Threads, Logging(t)
          PROVE  conn'[u] = conn[u] \/ conn'[u] = RecalcConn(conn[u])
      BY <3>1, ConnStores
    <3>2. ASSUME NEW t \in Threads, NEW name \in Names, SetServerName(t, name)
          PROVE  conn'[u] = conn[u] \/ conn'[u].told = FALSE
      BY <1>0, <3>2 DEF SetServerName, ConnType
    <3>3. ASSUME NEW t \in Threads, RecalcConnState(t)
          PROVE  conn'[u] = conn[u] \/ conn'[u].generation = 0
      BY <1>0, <3>3 DEF RecalcConnState, ConnType
    <3>4. ASSUME NEW t \in Threads, \E q \in Points, withConn \in BOOLEAN : LogStart(t, q, withConn)
          PROVE  conn' = conn
      BY <3>4 DEF LogStart
    <3>5. ASSUME SetMayIncludeAppdata \/ (\E r \in Regs : AddFd(r)) \/ UNCHANGED vars
          PROVE  conn' = conn
      BY <3>5 DEF SetMayIncludeAppdata, AddFd, vars
    <3> QED BY <3>1, <3>2, <3>3, <3>4, <3>5 DEF Next
  <2>3. \A u \in Threads : ConnSlots(conn[u])' = ConnSlots(conn'[u])
    BY <1>2 DEF ConnSlots
  <2> QED BY <1>2, <2>1, <2>2, <2>3 DEF ConnCache
<1> QED BY <1>1, <1>2, TableGeneration

(* Who is still owed an event after a step of a thread was owed it before, and *)
(* has kept its slot: a registration whose slot is freed is owed nothing.      *)
LEMMA OwedStay ==
  ASSUME TypeOK, NEW t \in Threads, Logging(t), NEW u \in Threads, NEW r \in th'[u].owed
  PROVE  r \in th[u].owed /\ r \in Regs /\ SameSlot(r) /\ mayApp' = mayApp
<1>1. r \in th[u].owed
  BY OthersSameEvent DEF SameEvent
<1>2. r \in Regs
  BY <1>1 DEF TypeOK, ThreadType
<1>3. mayApp' = mayApp
  BY DEF Logging, PointFresh, RecalcPoint, RecalcPointDone, ReadActive, ConnActive, Format,
         FormatFails, WriteEnd, Select, Skip, Write, WriteLost, WriteFails, WriteDone
<1>4. CASE WriteFails(t)
  <2>1. PICK s \in Slots : s = Target(t)
    BY <1>4, TargetIn DEF WriteFails
  <2>2. slots' = [slots EXCEPT ![s] = NoReg]
    BY <1>4, <2>1 DEF WriteFails
  <2>3. r # slots[s]
    <3>1. th'[u] = [Done(t, th[t].owed)[u] EXCEPT !.owed = @ \ {slots[s]}]
      BY <1>4, <2>1 DEF WriteFails
    <3>2. Done(t, th[t].owed)[u] \in ThreadType
      <4>1. th \in [Threads -> ThreadType]
        BY DEF TypeOK
      <4> QED BY <4>1, ZenonT(30) DEF Done, ThreadType
    <3>3. th'[u].owed = Done(t, th[t].owed)[u].owed \ {slots[s]}
      BY <3>1, <3>2 DEF ThreadType
    <3> QED BY <3>3
  <2>4. r # NoReg
    BY <1>2, LogAssumption
  <2> QED BY <1>1, <1>2, <1>3, <2>1, <2>2, <2>3, <2>4 DEF SameSlot, TypeOK
<1>5. CASE ~WriteFails(t)
  <2>1. slots' = slots
    BY <1>5 DEF Logging, PointFresh, RecalcPoint, RecalcPointDone, ReadActive, ConnActive, Format,
                FormatFails, WriteEnd, Select, Skip, Write, WriteLost, WriteDone
  <2> QED BY <1>1, <1>2, <1>3, <2>1 DEF SameSlot
<1> QED BY <1>4, <1>5

(* A step of t leaves the others what they are owed. *)
LEMMA OthersOwed ==
  ASSUME ~Unordered, TypeOK, OwedInv, NEW t \in Threads, Logging(t), NEW u \in Threads, u # t
  PROVE  /\ th'[u].pc = "idle" => th'[u].owed = {}
         /\ th'[u].pc = "conn" => th'[u].withConn
         /\ \A r \in th'[u].owed : Due(u, r)' /\ InSight(u, r)'
<1>1. Same(u) /\ SameEvent(u)
  BY OthersSame, OthersSameEvent
<1>2. /\ th'[u].pc = "idle" => th'[u].owed = {}
      /\ th'[u].pc = "conn" => th'[u].withConn
  BY <1>1 DEF Same, SameEvent, OwedInv
<1>3. SameConn(u)
  BY ConnStores DEF SameConn
<1>4. \A p \in Points : point'[p].active = point[p].active \/ point'[p].active = PointSlots(p)'
  <2>1. ASSUME NEW p \in Points, UNCHANGED <<slots, gen>> PROVE PointSlots(p)' = PointSlots(p)
    BY <2>1 DEF PointSlots
  <2> QED BY <2>1, PointStores
<1>5. ASSUME NEW r \in th'[u].owed PROVE Due(u, r)' /\ InSight(u, r)'
  <2>1. r \in th[u].owed /\ r \in Regs /\ SameSlot(r) /\ mayApp' = mayApp
    BY OwedStay
  <2>2. Due(u, r) /\ InSight(u, r)
    BY <2>1 DEF OwedInv
  <2>3. r.appdata => mayApp'
    BY <2>1, <2>2 DEF Due
  <2> QED BY <1>1, <1>3, <1>4, <2>1, <2>2, <2>3, BystanderKept
<1> QED BY <1>2, <1>5

(* A step of t leaves those it still owes the event due. *)
LEMMA OwnDue ==
  ASSUME TypeOK, OwedInv, NEW t \in Threads, Logging(t), NEW r \in th'[t].owed,
         th'[t].appdata => r.appdata
  PROVE  /\ r \in Regs /\ r \in th[t].owed /\ SameSlot(r)
         /\ Due(t, r) /\ InSight(t, r) /\ Due(t, r)'
<1>1. r \in th[t].owed /\ r \in Regs /\ SameSlot(r) /\ mayApp' = mayApp
  BY OwedStay
<1>2. Due(t, r) /\ InSight(t, r)
  BY <1>1 DEF OwedInv
<1>3. SameConn(t)
  <2>1. conn[t] \in ConnType
    BY DEF TypeOK
  <2> QED BY <2>1, ConnStores, RecalcConnFacts DEF SameConn
<1>4. th'[t].point = th[t].point /\ th'[t].withConn = th[t].withConn
  BY OthersSame, OthersSameEvent
<1>5. r.appdata => mayApp'
  BY <1>1, <1>2 DEF Due
<1> QED BY <1>1, <1>2, <1>3, <1>4, <1>5, DueKept

(* An exact log point has the slots of those who are due the event. *)
LEMMA DueAtPoint ==
  ASSUME TypeOK, ExactCache, NEW t \in Threads, NEW r \in Regs, Due(t, r),
         point[th[t].point].generation = gen
  PROVE  Has(point[th[t].point].active, r)
<1>1. th[t].point \in Points
  BY DEF TypeOK, ThreadType
<1>2. point[th[t].point].active = PointSlots(th[t].point)
  BY <1>1 DEF ExactCache
<1>3. Has(PointSlots(th[t].point), r)
  BY PointHas DEF Due
<1> QED BY <1>2, <1>3

(* A step of t keeps its own debts in sight, and it leaves the macro only when *)
(* it has none.                                                                *)
LEMMA OwnOwed ==
  ASSUME ~Unordered, IInv, MissInv, NEW t \in Threads, Logging(t)
  PROVE  /\ th'[t].pc = "idle" => th'[t].owed = {}
         /\ th'[t].pc = "conn" => th'[t].withConn
         /\ \A r \in th'[t].owed : Due(t, r)' /\ InSight(t, r)'
<1>0. /\ TypeOK /\ SelectInv /\ ExactCache /\ ConnCache /\ OwedInv
      /\ th \in [Threads -> ThreadType] /\ th[t] \in ThreadType
      /\ conn \in [Threads -> ConnType] /\ conn[t] \in ConnType
      /\ th[t].point \in Points /\ point \in [Points -> PointType]
      /\ th'[t].point = th[t].point
      /\ \A r \in th[t].owed : Due(t, r) /\ InSight(t, r) /\ r \in Regs
  BY OthersSame DEF IInv, MissInv, TypeOK, ThreadType, OwedInv
<1>d. ASSUME NEW r \in th'[t].owed, th'[t].appdata = th[t].appdata
      PROVE  /\ r \in Regs /\ r \in th[t].owed /\ SameSlot(r)
             /\ Due(t, r) /\ InSight(t, r) /\ Due(t, r)'
  <2>1. r \in th[t].owed
    BY <1>0, OwedStay
  <2>2. th'[t].appdata => r.appdata
    BY <1>0, <1>d, <2>1 DEF Due
  <2> QED BY <1>0, <2>2, OwnDue
<1>e. ASSUME th'[t].appdata = th[t].appdata,
             th'[t].pc \notin {"idle", "conn", "read", "write"}
      PROVE  /\ th'[t].pc = "idle" => th'[t].owed = {}
             /\ th'[t].pc = "conn" => th'[t].withConn
             /\ \A r \in th'[t].owed : Due(t, r)' /\ InSight(t, r)'
  BY <1>d, <1>e DEF InSight
<1>1. CASE PointFresh(t)
  <2>1. /\ th'[t].appdata = th[t].appdata /\ UNCHANGED <<slots, point>>
        /\ th'[t].pc = IF point[th[t].point].generation = gen THEN "read" ELSE "recalc"
    BY <1>0, <1>1 DEF PointFresh, Goto, ThreadType
  <2>2. CASE point[th[t].point].generation # gen
    BY <1>e, <2>1, <2>2
  <2>3. CASE point[th[t].point].generation = gen
    <3>1. ASSUME NEW r \in th'[t].owed PROVE Due(t, r)' /\ InSight(t, r)'
      <4>1. Due(t, r)' /\ Has(point[th[t].point].active, r)
        BY <1>0, <1>d, <2>1, <2>3, DueAtPoint
      <4>2. InSight(t, r)'
        BY <1>0, <2>1, <2>3, <4>1 DEF InSight, Has
      <4> QED BY <4>1, <4>2
    <3> QED BY <2>1, <2>3, <3>1
  <2> QED BY <2>2, <2>3
<1>2. CASE RecalcPoint(t)
  <2>1. th'[t].appdata = th[t].appdata /\ UNCHANGED <<slots, gen>>
    BY <1>0, <1>2 DEF RecalcPoint, Goto, ThreadType
  <2>2. CASE point[th[t].point].generation # gen
    <3>1. th'[t].pc = "store"
      BY <1>0, <1>2, <2>2 DEF RecalcPoint, ThreadType
    <3> QED BY <1>e, <2>1, <3>1
  <2>3. CASE point[th[t].point].generation = gen
    <3>0. th'[t].pc = "read" /\ point' = point
      BY <1>0, <1>2, <2>3 DEF RecalcPoint, Goto, ThreadType
    <3>1. ASSUME NEW r \in th'[t].owed PROVE Due(t, r)' /\ InSight(t, r)'
      <4>1. Due(t, r)' /\ Has(point[th[t].point].active, r)
        BY <1>0, <1>d, <2>1, <2>3, DueAtPoint
      <4>2. InSight(t, r)'
        BY <1>0, <2>1, <3>0, <4>1 DEF InSight, Has
      <4> QED BY <4>1, <4>2
    <3> QED BY <3>0, <3>1
  <2> QED BY <2>2, <2>3
<1>3. CASE RecalcPointDone(t)
  <2>1. /\ th'[t].appdata = th[t].appdata /\ UNCHANGED <<slots, gen>>
        /\ th'[t].pc \in {"read", "select"}
        /\ point'[th[t].point].active = PointSlots(th[t].point)
    BY <1>0, <1>3 DEF RecalcPointDone, Goto, ThreadType, Recalculated
  <2>2. ASSUME NEW r \in th'[t].owed PROVE Due(t, r)' /\ InSight(t, r)'
    <3>1. Due(t, r)' /\ Has(PointSlots(th[t].point), r)
      BY <1>d, <2>1, PointHas DEF Due
    <3>2. InSight(t, r)'
      BY <1>0, <2>1, <3>1 DEF InSight, Has
    <3> QED BY <3>1, <3>2
  <2> QED BY <2>1, <2>2
<1>4. CASE ReadActive(t)
  <2> DEFINE act == point[th[t].point].active
  <2>0. th[t].pc = "read" /\ th'[t].appdata = th[t].appdata /\ UNCHANGED slots
    BY <1>0, <1>4 DEF ReadActive, At, Leave, ThreadType
  <2>1. ASSUME NEW r \in th[t].owed PROVE Has(act, r) /\ act # {}
    BY <1>0, <2>0 DEF InSight, Has, Due
  <2>2. CASE act = {}
    <3>1. th'[t].pc = "idle" /\ th'[t].owed = th[t].owed
      BY <1>0, <1>4, <2>2 DEF ReadActive, Leave, ThreadType
    <3> QED BY <2>1, <2>2, <3>1
  <2>3. CASE act # {}
    <3>1. /\ th'[t].pc = IF th[t].withConn THEN "conn" ELSE "format"
          /\ th'[t].withConn = th[t].withConn /\ th'[t].active = act
      BY <1>0, <1>4, <2>3 DEF ReadActive, ThreadType
    <3>2. ASSUME NEW r \in th'[t].owed PROVE Due(t, r)' /\ InSight(t, r)'
      <4>1. Due(t, r)' /\ Has(act, r)
        BY <1>d, <2>0, <2>1
      <4>2. InSight(t, r)'
        BY <2>0, <3>1, <4>1 DEF InSight, Has
      <4> QED BY <4>1, <4>2
    <3> QED BY <3>1, <3>2
  <2> QED BY <2>2, <2>3
<1>5. CASE ConnActive(t)
  <2>0. /\ th[t].pc = "conn" /\ th[t].withConn
        /\ th'[t].appdata = th[t].appdata /\ UNCHANGED <<slots, gen>>
    BY <1>0, <1>5 DEF ConnActive, At, Leave, Goto, ThreadType, OwedInv
  <2>1. ASSUME NEW r \in th[t].owed PROVE th[t].active \cap conn'[t].active # {}
    <3>1. Has(th[t].active, r) /\ conn[t].told /\ Wants(r, conn[t]) /\ r \in Regs
      BY <1>0, <2>0, <2>1 DEF InSight, Due
    <3>2. Has(ConnSlots(conn[t]), r)
      BY <3>1, ConnHas
    <3>3. conn'[t].active = ConnSlots(conn[t])
      <4>1. CASE conn[t].generation = gen
        BY <1>0, <1>5, <3>1, <4>1 DEF ConnActive, ConnCache
      <4>2. CASE conn[t].generation # gen
        BY <1>0, <1>5, <4>2, RecalcConnFacts DEF ConnActive
      <4> QED BY <4>1, <4>2
    <3>4. PICK s \in Slots : slots[s] = r
      BY <1>0, <2>1 DEF Due
    <3> QED BY <3>1, <3>2, <3>3, <3>4 DEF Has
  <2>2. CASE th[t].active \cap conn'[t].active = {}
    <3>1. th'[t].pc = "idle" /\ th'[t].owed = th[t].owed
      BY <1>0, <1>5, <2>2 DEF ConnActive, Leave, ThreadType
    <3> QED BY <2>1, <2>2, <3>1
  <2>3. CASE th[t].active \cap conn'[t].active # {}
    <3>1. th'[t].pc = "format"
      BY <1>0, <1>5, <2>3 DEF ConnActive, Goto, ThreadType
    <3> QED BY <1>e, <2>0, <3>1
  <2> QED BY <2>2, <2>3
<1>6. CASE Format(t)
  <2>1. th'[t].pc = "end" /\ th'[t].appdata = th[t].appdata
    BY <1>0, <1>6 DEF Format, Goto, ThreadType
  <2> QED BY <1>e, <2>1
<1>7. CASE FormatFails(t)
  <2>1. th'[t].pc = "idle" /\ th'[t].owed = {}
    BY <1>0, <1>7 DEF FormatFails, Leave, ThreadType
  <2> QED BY <2>1
<1>8. CASE WriteEnd(t)
  <2>1. th'[t].pc \in {"store", "select"} /\ th'[t].appdata = th[t].appdata
    BY <1>0, <1>8 DEF WriteEnd, Goto, ThreadType
  <2> QED BY <1>e, <2>1
<1>9. CASE Select(t)
  <2>1. /\ th'[t].pc = "write" /\ th'[t].appdata = th[t].appdata
        /\ th'[t].active = Targets(t) /\ UNCHANGED slots
    BY <1>0, <1>9 DEF Select, ThreadType
  <2>2. point[th[t].point].generation = gen
    BY <1>0, <1>9 DEF Select, At, SelectInv
  <2>3. ASSUME NEW r \in th'[t].owed PROVE Due(t, r)' /\ InSight(t, r)'
    <3>1. Due(t, r)' /\ Due(t, r) /\ r \in Regs /\ Has(point[th[t].point].active, r)
      BY <1>0, <1>d, <2>1, <2>2, DueAtPoint
    <3>2. th[t].withConn => Has(ConnSlots(conn[t]), r)
      BY <3>1, ConnHas DEF Due
    <3>3. Has(Targets(t), r)
      BY <3>1, <3>2 DEF Targets, Has
    <3>4. InSight(t, r)'
      BY <2>1, <3>3 DEF InSight, Has
    <3> QED BY <3>1, <3>4
  <2> QED BY <2>1, <2>3
<1>t. ASSUME Writing(t), th'[t].pc = "write", th'[t].appdata = th[t].appdata,
             th'[t].active = th[t].active \ {Target(t)},
             th[t].needs => th'[t].needs,
             \A r \in th'[t].owed :
                slots[Target(t)] # r \/ (th'[t].needs /\ r.appdata /\ ~th[t].appdata)
      PROVE  /\ th'[t].pc = "idle" => th'[t].owed = {}
             /\ th'[t].pc = "conn" => th'[t].withConn
             /\ \A r \in th'[t].owed : Due(t, r)' /\ InSight(t, r)'
  <2>1. PICK s \in Slots : s = Target(t)
    BY <1>0, <1>t, TargetIn
  <2>2. ASSUME NEW r \in th'[t].owed PROVE Due(t, r)' /\ InSight(t, r)'
    <3>1. Due(t, r)' /\ InSight(t, r) /\ SameSlot(r)
      BY <1>d, <1>t
    <3>2. \/ \A x \in Slots : slots'[x] = r => x \in th[t].active \ {s}
          \/ th'[t].needs /\ r.appdata /\ ~th[t].appdata
      <4>1. th[t].pc = "write"
        BY <1>t DEF Writing, At
      <4> QED BY <1>t, <2>1, <3>1, <4>1 DEF InSight, Has, SameSlot
    <3>3. InSight(t, r)'
      BY <1>t, <2>1, <3>2 DEF InSight, Has
    <3> QED BY <3>1, <3>3
  <2> QED BY <1>t, <2>2
<1>10. CASE Skip(t)
  <2>1. /\ Writing(t) /\ th'[t].pc = "write" /\ th'[t].appdata = th[t].appdata
        /\ th'[t].active = th[t].active \ {Target(t)} /\ th'[t].owed = th[t].owed
        /\ ~ThisPass(t, slots[Target(t)])
    BY <1>0, <1>10 DEF Skip, Done, ThreadType, Writing, At
  <2>2. th'[t].needs = (th[t].needs \/ (~th[t].appdata /\ mayApp))
    BY <1>0, <1>10 DEF Skip, Done, ThreadType
  <2>3. ASSUME NEW r \in th'[t].owed, slots[Target(t)] = r
        PROVE  th'[t].needs /\ r.appdata /\ ~th[t].appdata
    <3>1. Due(t, r) /\ r \in Regs /\ ~ThisPass(t, r)
      BY <1>0, <2>1, <2>3
    <3>2. r.appdata \in BOOLEAN /\ th[t].appdata \in BOOLEAN
      BY <1>0, <3>1, LogAssumption DEF ThreadType
    <3>3. r.appdata /\ ~th[t].appdata /\ mayApp
      BY <3>1, <3>2 DEF Due, ThisPass
    <3> QED BY <2>2, <3>3
  <2> QED BY <1>t, <2>1, <2>2, <2>3
<1>11. CASE Write(t)
  <2>1. /\ Writing(t) /\ th'[t].pc = "write" /\ th'[t].appdata = th[t].appdata
        /\ th'[t].active = th[t].active \ {Target(t)} /\ th'[t].needs = th[t].needs
        /\ th'[t].owed = th[t].owed \ {slots[Target(t)]}
    BY <1>0, <1>11 DEF Write, Done, ThreadType, Writing, At
  <2> QED BY <1>t, <2>1
<1>12. CASE WriteLost(t)
  <2>1. /\ Writing(t) /\ th'[t].pc = "write" /\ th'[t].appdata = th[t].appdata
        /\ th'[t].active = th[t].active \ {Target(t)} /\ th'[t].needs = th[t].needs
        /\ th'[t].owed = th[t].owed \ {slots[Target(t)]}
    BY <1>0, <1>12 DEF WriteLost, Done, ThreadType, Writing, At
  <2> QED BY <1>t, <2>1
<1>13. CASE WriteFails(t)
  <2>1. /\ Writing(t) /\ th'[t].pc = "write" /\ th'[t].appdata = th[t].appdata
        /\ th'[t].active = th[t].active \ {Target(t)} /\ th'[t].needs = th[t].needs
        /\ th'[t].owed = th[t].owed \ {slots[Target(t)]}
    BY <1>0, <1>13 DEF WriteFails, Done, ThreadType, Writing, At
  <2> QED BY <1>t, <2>1
<1>14. CASE WriteDone(t)
  <2>1. /\ th[t].pc = "write" /\ th[t].active = {} /\ th'[t].owed = th[t].owed
        /\ th'[t].pc = (IF th[t].needs THEN "format" ELSE "idle")
    BY <1>0, <1>14 DEF WriteDone, At, Leave, ThreadType
  <2>2. ASSUME NEW r \in th[t].owed PROVE th[t].needs /\ r.appdata
    BY <1>0, <2>1, <2>2 DEF Due, InSight, Has
  <2>3. ASSUME NEW r \in th'[t].owed PROVE Due(t, r)' /\ InSight(t, r)'
    <3>1. Due(t, r)'
      BY <1>0, <2>1, <2>2, <2>3, OwnDue
    <3>2. th'[t].pc = "format"
      BY <2>1, <2>2
    <3> QED BY <3>1, <3>2 DEF InSight
  <2> QED BY <2>1, <2>2, <2>3
<1> QED
  BY <1>1, <1>2, <1>3, <1>4, <1>5, <1>6, <1>7, <1>8, <1>9, <1>10, <1>11, <1>12,
     <1>13, <1>14 DEF Logging

(* What a new event is owed to is due and, so far, in sight. *)
LEMMA StartOwed ==
  ASSUME TypeOK, OwedInv, NEW t \in Threads, NEW p \in Points, NEW withConn \in BOOLEAN,
         LogStart(t, p, withConn)
  PROVE  OwedInv'
<1>0. th \in [Threads -> ThreadType]
  BY DEF TypeOK
<1>1. /\ th'[t].pc = "point" /\ th'[t].point = p /\ th'[t].withConn = withConn
      /\ th'[t].appdata = FALSE /\ th'[t].owed = Owed(t, p, withConn)
  BY <1>0 DEF LogStart, Idle
<1>2. \A u \in Threads \ {t} : th'[u] = th[u]
  BY <1>0 DEF LogStart
<1>3. UNCHANGED <<slots, mayApp, point, conn>>
  BY DEF LogStart
<1>4. ASSUME NEW r \in th'[t].owed PROVE Due(t, r)' /\ InSight(t, r)'
  <2>1. PICK s \in PointSlots(p) :
          /\ r = slots[s]
          /\ withConn => conn[t].told /\ Wants(slots[s], conn[t])
          /\ slots[s].appdata => mayApp
    BY <1>1, <1>4 DEF Owed
  <2>2. s \in Slots /\ InList(r.points, p)
    BY <2>1 DEF PointSlots
  <2> QED BY <1>1, <1>3, <2>1, <2>2 DEF Due, InSight
<1>5. ASSUME NEW u \in Threads, u # t, NEW r \in th'[u].owed PROVE Due(u, r)' /\ InSight(u, r)'
  <2>1. Due(u, r) /\ InSight(u, r)
    BY <1>2, <1>5 DEF OwedInv
  <2> QED BY <1>2, <1>3, <1>5, <2>1 DEF Due, InSight, Has
<1>6. \A u \in Threads \ {t} :
        /\ th'[u].pc = "idle" => th'[u].owed = {}
        /\ th'[u].pc = "conn" => th'[u].withConn
  BY <1>2 DEF OwedInv
<1> QED BY <1>1, <1>4, <1>5, <1>6 DEF OwedInv

(* Every step keeps those who are owed an event in sight. *)
LEMMA StepMiss ==
  ASSUME ~Unordered, IInv, TableInv, MissInv, [Next]_vars
  PROVE  MissInv'
<1>0. TypeOK /\ ExactCache /\ ConnCache /\ OwedInv /\ th \in [Threads -> ThreadType]
      /\ conn \in [Threads -> ConnType]
  BY DEF IInv, MissInv, TypeOK
<1>1. ExactCache' /\ ConnCache'
  BY <1>0, ExactStep, ConnStep
<1>k. ASSUME point' = point,
             \A u \in Threads : Same(u) /\ SameEvent(u),
             \A u \in Threads : th[u].pc = "idle" \/ conn'[u] = conn[u],
             \A u \in Threads : \A r \in th'[u].owed : SameSlot(r) /\ (r.appdata => mayApp')
      PROVE  OwedInv'
  <2>1. ASSUME NEW u \in Threads, NEW r \in th'[u].owed PROVE Due(u, r)' /\ InSight(u, r)'
    <3>1. r \in th[u].owed
      BY <1>k DEF SameEvent
    <3>2. Due(u, r) /\ InSight(u, r) /\ r \in Regs /\ th[u].pc # "idle"
      BY <1>0, <3>1 DEF OwedInv, ThreadType
    <3>3. SameConn(u)
      BY <1>k, <3>2 DEF SameConn
    <3> QED BY <1>0, <1>k, <3>2, <3>3, BystanderKept
  <2>2. ASSUME NEW u \in Threads
        PROVE  /\ th'[u].pc = "idle" => th'[u].owed = {}
               /\ th'[u].pc = "conn" => th'[u].withConn
    BY <1>0, <1>k DEF OwedInv, Same, SameEvent
  <2> QED BY <2>1, <2>2 DEF OwedInv
<1>2. ASSUME NEW r \in Regs, AddFd(r) PROVE OwedInv'
  <2>1. \A u \in Threads : Same(u) /\ SameEvent(u)
    BY <1>2 DEF AddFd, Same, SameEvent
  <2>2. ASSUME NEW u \in Threads, NEW q \in th'[u].owed PROVE SameSlot(q) /\ (q.appdata => mayApp')
    <3>1. q \in th[u].owed /\ q \in Regs /\ Due(u, q)
      BY <1>0, <1>2, <2>2 DEF AddFd, OwedInv, ThreadType
    <3>2. q # NoReg
      BY <3>1, LogAssumption
    <3>3. q # r
      BY <1>2, <3>1, <3>2 DEF Due, TableInv, AddFd
    <3>4. PICK f \in Slots : slots[f] = NoReg /\ slots' = [slots EXCEPT ![f] = r]
      <4>1. FreeSlots \subseteq Nat /\ FreeSlots # {}
        BY <1>2, LogAssumption DEF AddFd, FreeSlots
      <4>2. Lowest(FreeSlots) \in FreeSlots
        BY <4>1, LowestIn
      <4> QED BY <1>2, <4>2 DEF AddFd, FreeSlots
    <3>5. SameSlot(q)
      BY <1>0, <3>2, <3>3, <3>4 DEF SameSlot, TypeOK
    <3>6. mayApp' = mayApp
      BY <1>2 DEF AddFd
    <3> QED BY <3>1, <3>5, <3>6 DEF Due
  <2>3. point' = point /\ conn' = conn
    BY <1>2 DEF AddFd
  <2> QED BY <1>k, <2>1, <2>2, <2>3
<1>3. ASSUME SetMayIncludeAppdata PROVE OwedInv'
  <2>1. \A u \in Threads : Same(u) /\ SameEvent(u) /\ \A r \in th'[u].owed : ~r.appdata
    BY <1>0, <1>3 DEF SetMayIncludeAppdata, Same, SameEvent, ThreadType
  <2>2. point' = point /\ conn' = conn /\ slots' = slots
    BY <1>3 DEF SetMayIncludeAppdata
  <2> QED BY <1>k, <2>1, <2>2 DEF SameSlot
<1>4. ASSUME NEW t \in Threads,
             (\E name \in Names : SetServerName(t, name)) \/ RecalcConnState(t)
      PROVE  OwedInv'
  <2>1. UNCHANGED <<th, point, slots, mayApp>> /\ th[t].pc = "idle"
    BY <1>4 DEF SetServerName, RecalcConnState
  <2>2. \A u \in Threads : u = t \/ conn'[u] = conn[u]
    BY <1>0, <1>4 DEF SetServerName, RecalcConnState
  <2>3. \A u \in Threads : \A r \in th[u].owed : r.appdata => mayApp
    BY <1>0 DEF OwedInv, Due
  <2>4. \A u \in Threads : Same(u) /\ SameEvent(u)
    BY <2>1 DEF Same, SameEvent
  <2>5. \A u \in Threads : th[u].pc = "idle" \/ conn'[u] = conn[u]
    BY <2>1, <2>2
  <2>6. \A u \in Threads : \A r \in th'[u].owed : SameSlot(r) /\ (r.appdata => mayApp')
    BY <2>1, <2>3 DEF SameSlot
  <2> QED BY <1>k, <2>1, <2>4, <2>5, <2>6
<1>5. ASSUME UNCHANGED vars PROVE OwedInv'
  <2>1. UNCHANGED <<th, point, slots, mayApp, conn>>
    BY <1>5 DEF vars
  <2>2. \A u \in Threads : \A r \in th[u].owed : r.appdata => mayApp
    BY <1>0 DEF OwedInv, Due
  <2> QED BY <1>k, <2>1, <2>2 DEF Same, SameEvent, SameSlot
<1>6. ASSUME NEW t \in Threads, \E p \in Points, withConn \in BOOLEAN : LogStart(t, p, withConn)
      PROVE  OwedInv'
  BY <1>0, <1>6, StartOwed
<1>7. ASSUME NEW t \in Threads, Logging(t) PROVE OwedInv'
  <2>1. ASSUME NEW u \in Threads
        PROVE  /\ th'[u].pc = "idle" => th'[u].owed = {}
               /\ th'[u].pc = "conn" => th'[u].withConn
               /\ \A r \in th'[u].owed : Due(u, r)' /\ InSight(u, r)'
    BY <1>0, <1>7, OthersOwed, OwnOwed
  <2> QED BY <2>1 DEF OwedInv
<1>8. OwedInv'
  BY <1>2, <1>3, <1>4, <1>5, <1>6, <1>7 DEF Next
<1> QED BY <1>1, <1>8 DEF MissInv

(* Nobody is owed anything at first. *)
LEMMA InitMiss == Init => MissInv
<1> SUFFICES ASSUME Init PROVE MissInv
  OBVIOUS
<1>a. ExactCache
  BY DEF Init, ExactCache
<1>b. \A t \in Threads : conn[t].generation = 0
  BY DEF Init
<1>c. ConnCache
  BY <1>b DEF Init, ConnCache
<1>1. ExactCache /\ ConnCache
  BY <1>a, <1>c
<1>2. \A t \in Threads : th[t].pc = "idle" /\ th[t].owed = {}
  BY DEF Init, Idle
<1>3. OwedInv
  BY <1>2 DEF OwedInv
<1> QED BY <1>1, <1>3 DEF MissInv

(* When the stores of a recalculation become visible in the order in which the *)
(* source makes them, an fd that was registered when an event began, that      *)
(* wanted it and that was not closed meanwhile has been sent it, or the loss   *)
(* has been counted, by the time the macro is left: neither of the looks at    *)
(* the caches outside the mutex loses it.                                      *)
THEOREM EveryEventDelivered ==
  ASSUME ~Unordered
  PROVE  Spec => []NothingMissed
<1>1. Init => IInv /\ OnceInv /\ MissInv
  BY InitIInv, InitOnce, InitMiss
<1>2. IInv /\ OnceInv /\ MissInv /\ [Next]_vars => IInv' /\ OnceInv' /\ MissInv'
  <2>1. OnceInv => TableInv
    BY DEF OnceInv
  <2> QED BY <2>1, StepIInv, StepOnce, StepMiss
<1>3. MissInv => NothingMissed
  BY DEF MissInv, OwedInv, NothingMissed, At
<1> QED BY <1>1, <1>2, <1>3, PTL DEF Spec
=============================================================================
