------------------------------- MODULE EventLog -------------------------------
(***************************************************************************)
(* The event logger (lib/picotls.c ptls_log_*, and the PTLS_LOG_CONN and   *)
(* PTLS_LOG macros of include/zpicotls.h).                                 *)
(*                                                                         *)
(* File descriptors are registered in a table of slots under one mutex.    *)
(* A log point (static, shared by all threads) and a connection (used by   *)
(* one thread) each cache the set of slots that want them, and a           *)
(* generation number says whether the cache is current.  The caches are    *)
(* looked at without the mutex before an event is formatted, and looked at *)
(* again with the mutex when it is written.                                *)
(*                                                                         *)
(* A registration is its filters and an identity; the bytes of an event    *)
(* are abstracted to the thread, its number, its log point, the server     *)
(* name of its connection and whether application data is included.        *)
(***************************************************************************)
EXTENDS Integers, Sequences, FiniteSets

CONSTANTS
    Threads,     \* each logs events of a connection of its own
    Points,      \* the log points
    Names,       \* the values of SNI
    Slots,       \* 1 .. 32 in the code: the bits of active_conns
    Regs,        \* the registrations ptls_log_add_fd may be called with
    Randoms,     \* the values random_ may take, to be compared with a ratio
    Unordered,   \* whether the two stores of a recalculation, which readers
                 \* see without the mutex, may become visible in either order
    MaxEvents,   \* bound: events the threads log between them
    NoReg, NoSni, Nobody  \* a free slot, an SNI that is NULL, a free mutex

ASSUME LogAssumption ==
    /\ Slots \subseteq Nat
    /\ Slots # {} /\ Points # {}
    /\ Regs \subseteq [id : Nat, points : SUBSET Points, snis : SUBSET Names,
                       ratio : Nat, appdata : BOOLEAN]
    /\ NoReg \notin Regs
    /\ NoSni \notin Names
    /\ Nobody \notin Threads
    /\ Randoms \subseteq Nat
    /\ Unordered \in BOOLEAN
    /\ MaxEvents \in Nat

VARIABLES
    slots,    \* logctx.conns: slots[s] is a registration, or NoReg
    added,    \* the registrations made so far
    gen,      \* ptls_log._generation
    mayApp,   \* ptls_log.may_include_appdata
    mutex,    \* logctx.mutex: the thread that holds it, or Nobody
    point,    \* point[p]: active_conns and generation of a log point
    conn,     \* conn[t]: the same of t's connection, its SNI and random_
    th,       \* th[t]: where t is in PTLS_LOG_CONN and its locals
    stream,   \* stream[r]: the events written to the fd of r, in order
    numLost   \* logctx.num_lost

vars == <<slots, added, gen, mayApp, mutex, point, conn, th, stream, numLost>>

-----------------------------------------------------------------------------
(* The filters. *)

\* is_in_stringlist, and is_in_addresslist for peer addresses: an empty list
\* admits everything, an absent name is in no other list.
InList(list, x) == list = {} \/ x \in list

\* The slots whose registration wants events of point p.
PointSlots(p) == {s \in Slots : slots[s] # NoReg /\ InList(slots[s].points, p)}

\* Whether registration r wants the events of a connection: it is in the
\* sample, and its server name is in the list.
Wants(r, c) == c.random < r.ratio /\ InList(r.snis, c.sni)

\* The slots whose registration wants the events of connection c.
ConnSlots(c) == {s \in Slots : slots[s] # NoReg /\ Wants(slots[s], c)}

-----------------------------------------------------------------------------
Idle == [pc |-> "idle", n |-> 0, point |-> CHOOSE p \in Points : TRUE,
         withConn |-> FALSE, active |-> {}, then |-> "read",
         appdata |-> FALSE, needs |-> FALSE, owed |-> {}]

Init ==
    /\ slots = [s \in Slots |-> NoReg]
    /\ added = {}
    /\ gen = 1
    /\ mayApp \in BOOLEAN
    /\ mutex = Nobody
    /\ point = [p \in Points |-> [active |-> {}, generation |-> 0]]
    /\ conn \in [Threads -> [active : {{}}, generation : {0}, sni : {NoSni},
                             random : Randoms, told : {TRUE}]]
    /\ th = [t \in Threads |-> Idle]
    /\ stream = [r \in Regs |-> <<>>]
    /\ numLost = 0

-----------------------------------------------------------------------------
(* Registration. *)

FreeSlots == {s \in Slots : slots[s] = NoReg}

Lowest(S) == CHOOSE s \in S : \A x \in S : s <= x

\* ptls_log_add_fd: under the mutex, the registration takes the first slot
\* that is free.  When there is none, or an allocation fails, nothing changes.
AddFd(r) ==
    /\ mutex = Nobody
    /\ r \notin added
    /\ FreeSlots # {}
    /\ slots' = [slots EXCEPT ![Lowest(FreeSlots)] = r]
    /\ added' = added \cup {r}
    /\ gen' = gen + 1
    /\ UNCHANGED <<mayApp, mutex, point, conn, th, stream, numLost>>

\* The application changes may_include_appdata, which is volatile and not
\* covered by the mutex.  (owed is a history variable of the properties: what
\* the fds that want application data are owed depends on it.)
SetMayIncludeAppdata ==
    /\ mayApp' = ~mayApp
    /\ th' = [t \in Threads |->
                [th[t] EXCEPT !.owed = {r \in @ : ~r.appdata}]]
    /\ UNCHANGED <<slots, added, gen, mutex, point, conn, stream, numLost>>

\* ptls_set_server_name, which leaves the cache of the connection alone.
SetServerName(t, name) ==
    /\ th[t].pc = "idle"
    /\ conn[t].sni # name
    /\ conn' = [conn EXCEPT ![t].sni = name, ![t].told = FALSE]
    /\ UNCHANGED <<slots, added, gen, mayApp, mutex, point, th, stream, numLost>>

\* Mutant: the cache of the connection is kept.
RecalcConnState_Kept(t) ==
    /\ th[t].pc = "idle"
    /\ ~conn[t].told
    /\ conn' = [conn EXCEPT ![t].told = TRUE]
    /\ UNCHANGED <<slots, added, gen, mayApp, mutex, point, th, stream, numLost>>

\* ptls_log_recalc_conn_state: the application forces a recalculation.
RecalcConnState(t) ==
    /\ th[t].pc = "idle"
    /\ ~conn[t].told
    /\ conn' = [conn EXCEPT ![t].generation = 0, ![t].told = TRUE]
    /\ UNCHANGED <<slots, added, gen, mayApp, mutex, point, th, stream, numLost>>

-----------------------------------------------------------------------------
(* PTLS_LOG_CONN (withConn) and PTLS_LOG, step by step.                    *)

At(t, pc) == th[t].pc = pc

Goto(t, pc) == [th EXCEPT ![t].pc = pc]

\* The macro is left without an event.
Leave(t) == [th EXCEPT ![t].pc = "idle"]

\* The registrations in the table that want this event.
Owed(t, p, withConn) ==
    {slots[s] : s \in {x \in PointSlots(p) :
        /\ withConn => conn[t].told /\ Wants(slots[x], conn[t])
        /\ slots[x].appdata => mayApp}}

\* The events begun so far.
Logged == {e \in Threads \X (1 .. MaxEvents) : e[2] <= th[e[1]].n}

\* The macro is entered.
LogStart(t, p, withConn) ==
    /\ At(t, "idle")
    /\ Cardinality(Logged) < MaxEvents
    /\ th' = [th EXCEPT ![t] = [Idle EXCEPT !.pc = "point", !.n = th[t].n + 1,
                !.point = p, !.withConn = withConn, !.owed = Owed(t, p, withConn)]]
    /\ UNCHANGED <<slots, added, gen, mayApp, mutex, point, conn, stream, numLost>>

\* ptls_log_point_maybe_active compares the generations without the mutex.
PointFresh(t) ==
    /\ At(t, "point")
    /\ th' = Goto(t, IF point[th[t].point].generation = gen THEN "read" ELSE "recalc")
    /\ UNCHANGED <<slots, added, gen, mayApp, mutex, point, conn, stream, numLost>>

Recalculated(p) == [active |-> PointSlots(p), generation |-> gen]

\* The recalculation after its first store, active_conns in the source order.
HalfRecalculated(p) ==
    {[Recalculated(p) EXCEPT !.generation = point[p].generation]}
        \cup IF Unordered THEN {[Recalculated(p) EXCEPT !.active = point[p].active]}
                          ELSE {}

\* ptls_log__recalc_point with caller_locked = 0: takes the mutex, and
\* recalculates unless another thread has done so.
RecalcPoint(t) ==
    /\ At(t, "recalc")
    /\ mutex = Nobody
    /\ LET p == th[t].point IN
       IF point[p].generation # gen
       THEN /\ mutex' = t
            /\ \E half \in HalfRecalculated(p) : point' = [point EXCEPT ![p] = half]
            /\ th' = [th EXCEPT ![t].pc = "store", ![t].then = "read"]
       ELSE /\ th' = Goto(t, "read")
            /\ UNCHANGED <<mutex, point>>
    /\ UNCHANGED <<slots, added, gen, mayApp, conn, stream, numLost>>

\* Mutant: the mutex is not released after a recalculation.
RecalcPointDone_Locked(t) ==
    /\ At(t, "store")
    /\ point' = [point EXCEPT ![th[t].point] = Recalculated(th[t].point)]
    /\ th' = Goto(t, th[t].then)
    /\ UNCHANGED <<slots, added, gen, mayApp, mutex, conn, stream, numLost>>

\* The second store of a recalculation, and, when the function took the mutex
\* itself, the unlock.
RecalcPointDone(t) ==
    /\ At(t, "store")
    /\ point' = [point EXCEPT ![th[t].point] = Recalculated(th[t].point)]
    /\ mutex' = IF th[t].then = "read" THEN Nobody ELSE mutex
    /\ th' = Goto(t, th[t].then)
    /\ UNCHANGED <<slots, added, gen, mayApp, conn, stream, numLost>>

\* ptls_log_point_maybe_active reads active_conns without the mutex; the macro
\* is left when no slot wants the point.
ReadActive(t) ==
    /\ At(t, "read")
    /\ LET active == point[th[t].point].active IN
       th' = IF active = {} THEN Leave(t)
             ELSE [th EXCEPT ![t].pc = IF th[t].withConn THEN "conn" ELSE "format",
                             ![t].active = active]
    /\ UNCHANGED <<slots, added, gen, mayApp, mutex, point, conn, stream, numLost>>

\* ptls_log__recalc_conn: only t uses the cache of its connection.
RecalcConn(c) == [c EXCEPT !.active = ConnSlots(c), !.generation = gen]

\* ptls_log_conn_maybe_active: the mutex is taken only to recalculate.
ConnActive(t) ==
    /\ At(t, "conn")
    /\ conn[t].generation # gen => mutex = Nobody
    /\ conn' = IF conn[t].generation = gen THEN conn
               ELSE [conn EXCEPT ![t] = RecalcConn(@)]
    /\ th' = IF th[t].active \cap conn'[t].active = {} THEN Leave(t)
             ELSE Goto(t, "format")
    /\ UNCHANGED <<slots, added, gen, mayApp, mutex, point, stream, numLost>>

\* ptls_log__do_write_start, the elements of the event and the closing brace,
\* in a buffer of the thread.
Format(t) ==
    /\ At(t, "format")
    /\ th' = Goto(t, "end")
    /\ UNCHANGED <<slots, added, gen, mayApp, mutex, point, conn, stream, numLost>>

\* The buffer cannot grow: the event is dropped without a trace.
FormatFails(t) ==
    /\ At(t, "format")
    /\ th' = [Leave(t) EXCEPT ![t].owed = {}]
    /\ UNCHANGED <<slots, added, gen, mayApp, mutex, point, conn, stream, numLost>>

\* ptls_log__do_write_end takes the mutex and brings the point up to date.
WriteEnd(t) ==
    /\ At(t, "end")
    /\ mutex = Nobody
    /\ mutex' = t
    /\ LET p == th[t].point IN
       IF point[p].generation # gen
       THEN /\ \E half \in HalfRecalculated(p) : point' = [point EXCEPT ![p] = half]
            /\ th' = [th EXCEPT ![t].pc = "store", ![t].then = "select"]
       ELSE /\ th' = Goto(t, "select")
            /\ UNCHANGED point
    /\ UNCHANGED <<slots, added, gen, mayApp, conn, stream, numLost>>

\* The slots the event is written to.  Those of the connection count only when
\* the cache of the connection was out of date.
Targets(t) ==
    IF th[t].withConn /\ conn[t].generation # gen
    THEN point[th[t].point].active \cap ConnSlots(conn[t])
    ELSE point[th[t].point].active

Select(t) ==
    /\ At(t, "select")
    /\ th' = [th EXCEPT ![t].pc = "write", ![t].active = Targets(t), ![t].needs = FALSE]
    /\ conn' = IF th[t].withConn /\ conn[t].generation # gen
               THEN [conn EXCEPT ![t] = RecalcConn(@)] ELSE conn
    /\ UNCHANGED <<slots, added, gen, mayApp, mutex, point, stream, numLost>>

Event(t) == [thread |-> t, n |-> th[t].n, point |-> th[t].point,
             conn |-> IF th[t].withConn THEN {conn[t]} ELSE {},
             appdata |-> th[t].appdata]

Target(t) == Lowest(th[t].active)

\* One turn of the loop over the slots is over.
Done(t, owed) == [th EXCEPT ![t].active = @ \ {Target(t)}, ![t].owed = owed]

\* Mutant: the pass with application data goes to every registration.
ThisPass_Both(t, r) == r.appdata => th[t].appdata

\* Whether this pass of the event is meant for the registration.
ThisPass(t, r) == r.appdata = th[t].appdata

Writing(t) == At(t, "write") /\ th[t].active # {}

\* The slot asked for application data and this pass has none, or the reverse.
Skip(t) ==
    /\ Writing(t)
    /\ slots[Target(t)] # NoReg
    /\ ~ThisPass(t, slots[Target(t)])
    /\ th' = [Done(t, th[t].owed) EXCEPT ![t].needs = @ \/ (~th[t].appdata /\ mayApp)]
    /\ UNCHANGED <<slots, added, gen, mayApp, mutex, point, conn, stream, numLost>>

\* write() takes the whole event.
Write(t) ==
    /\ Writing(t)
    /\ LET r == slots[Target(t)] IN
       /\ r # NoReg
       /\ ThisPass(t, r)
       /\ stream' = [stream EXCEPT ![r] = Append(@, Event(t))]
       /\ th' = Done(t, th[t].owed \ {r})
    /\ UNCHANGED <<slots, added, gen, mayApp, mutex, point, conn, numLost>>

\* write() takes a part of it, or the pipe is full.
WriteLost(t) ==
    /\ Writing(t)
    /\ slots[Target(t)] # NoReg
    /\ ThisPass(t, slots[Target(t)])
    /\ numLost' = numLost + 1
    /\ th' = Done(t, th[t].owed \ {slots[Target(t)]})
    /\ UNCHANGED <<slots, added, gen, mayApp, mutex, point, conn, stream>>

\* Mutant: the caches are not told that the slot is free.
WriteFails_SameGeneration(t) ==
    /\ Writing(t)
    /\ LET s == Target(t)
           r == slots[s] IN
       /\ r # NoReg
       /\ ThisPass(t, r)
       /\ slots' = [slots EXCEPT ![s] = NoReg]
       /\ th' = [u \in Threads |->
                   [Done(t, th[t].owed)[u] EXCEPT !.owed = @ \ {r}]]
    /\ UNCHANGED <<added, gen, mayApp, mutex, point, conn, stream, numLost>>

\* close_log_fd: write() fails, the slot is freed.
WriteFails(t) ==
    /\ Writing(t)
    /\ LET s == Target(t)
           r == slots[s] IN
       /\ r # NoReg
       /\ ThisPass(t, r)
       /\ slots' = [slots EXCEPT ![s] = NoReg]
       /\ th' = [u \in Threads |->
                   [Done(t, th[t].owed)[u] EXCEPT !.owed = @ \ {r}]]
    /\ gen' = gen + 1
    /\ UNCHANGED <<added, mayApp, mutex, point, conn, stream, numLost>>

\* The mutex is released; the event is formatted again, with its application
\* data, when a slot asked for it.
WriteDone(t) ==
    /\ At(t, "write")
    /\ th[t].active = {}
    /\ mutex' = Nobody
    /\ th' = IF th[t].needs THEN [th EXCEPT ![t].pc = "format", ![t].appdata = TRUE]
                            ELSE Leave(t)
    /\ UNCHANGED <<slots, added, gen, mayApp, point, conn, stream, numLost>>

-----------------------------------------------------------------------------
Logging(t) ==
    \/ PointFresh(t)
    \/ RecalcPoint(t)
    \/ RecalcPointDone(t)
    \/ ReadActive(t)
    \/ ConnActive(t)
    \/ Format(t)
    \/ FormatFails(t)
    \/ WriteEnd(t)
    \/ Select(t)
    \/ Skip(t)
    \/ Write(t)
    \/ WriteLost(t)
    \/ WriteFails(t)
    \/ WriteDone(t)

Next ==
    \/ \E r \in Regs : AddFd(r)
    \/ SetMayIncludeAppdata
    \/ \E t \in Threads :
         \/ \E name \in Names : SetServerName(t, name)
         \/ RecalcConnState(t)
         \/ \E p \in Points, withConn \in BOOLEAN : LogStart(t, p, withConn)
         \/ Logging(t)

Spec == Init /\ [][Next]_vars

\* A thread inside the macro keeps running, and a mutex nobody holds is given
\* to a thread that waits for it.
FairSpec == Spec /\ \A t \in Threads : WF_vars(Logging(t))

-----------------------------------------------------------------------------
(* Properties. *)

Pcs == {"idle", "point", "recalc", "store", "read", "conn", "format", "end",
        "select", "write"}

PointType == [active : SUBSET Slots, generation : Nat]

ConnType == [active : SUBSET Slots, generation : Nat, sni : Names \cup {NoSni},
             random : Nat, told : BOOLEAN]

ThreadType == [pc : Pcs, n : Nat, point : Points, withConn : BOOLEAN,
               active : SUBSET Slots, then : {"read", "select"},
               appdata : BOOLEAN, needs : BOOLEAN, owed : SUBSET Regs]

\* No cache is ahead of the generation counter of the logger.
TypeOK ==
    /\ slots \in [Slots -> Regs \cup {NoReg}]
    /\ added \subseteq Regs
    /\ gen \in Nat
    /\ mayApp \in BOOLEAN
    /\ mutex \in Threads \cup {Nobody}
    /\ point \in [Points -> PointType]
    /\ \A p \in Points : point[p].generation <= gen
    /\ conn \in [Threads -> ConnType]
    /\ \A t \in Threads : conn[t].generation <= gen
    /\ th \in [Threads -> ThreadType]
    /\ DOMAIN stream = Regs
    /\ numLost \in Nat

\* The assertion of ptls_log__do_write_end, and what it is for: a slot that is
\* about to be written to is in use, and by a registration that wants the log
\* point -- not by a later one that took the slot over.
WritesToSubscriber ==
    \A t \in Threads : Writing(t) =>
        /\ slots[Target(t)] # NoReg
        /\ InList(slots[Target(t)].points, th[t].point)

\* No fd is sent the same event twice, and the events of a thread arrive in
\* the order it logged them, whatever happens between the two passes.
OncePerFd ==
    \A r \in Regs : \A i, j \in DOMAIN stream[r] :
        i < j /\ stream[r][i].thread = stream[r][j].thread =>
            stream[r][i].n < stream[r][j].n

\* An fd that was registered when the event began, that wanted it and that was
\* not closed meanwhile has been sent the event, or the loss has been counted.
NothingMissed == \A t \in Threads : At(t, "idle") => th[t].owed = {}

\* Every PTLS_LOG and PTLS_LOG_CONN returns: nobody waits for the mutex forever.
LoggingReturns == \A t \in Threads : ~At(t, "idle") ~> At(t, "idle")

\* "list of SNIs to log" and "sampling ratio" of ptls_log_add_fd: an fd is sent
\* the events of a connection only if it wants that connection.
ConnectionFilter ==
    \A r \in Regs : \A i \in DOMAIN stream[r] :
        \A c \in stream[r][i].conn : c.told => Wants(r, c)
=============================================================================
