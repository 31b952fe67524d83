--------------------------- MODULE EmbeddedProofs ---------------------------
(***************************************************************************)
(* Proofs about Embedded: its types, the two accounting invariants         *)
(* NothingDropped and BilledOnce, and PendingKept, for any set of users,   *)
(* connections, user lists, chunk sizes and bounds; and that Embedded      *)
(* implements Ledger.                                                      *)
(***************************************************************************)
EXTENDS Embedded, TLAPS

\* Places and names of an execution, for the provers.
LEMMA ConstTypes ==
  /\ Zero \in [Dir -> Nat]
  /\ NoTraffic \in Traffic
  /\ \A pc : RepAt(pc).pc = pc /\ RepAt(pc).slice = NoTraffic /\ RepAt(pc).sent = 0
  BY DEF Zero, NoTraffic, Traffic, RepAt

\* Adding to one direction of one user: what countingConn does to the counter
\* of its connection, an unknown user leaving the map alone.
LEMMA Added ==
  ASSUME NEW f \in Traffic, NEW u, NEW d \in Dir, NEW n \in Nat
  PROVE  /\ add(f, u, d, n) \in Traffic
         /\ \A v \in Uuid, k \in Dir :
              add(f, u, d, n)[v][k] =
                IF v = u /\ k = d THEN f[v][k] + n ELSE f[v][k]
<1>1. CASE u \in Uuid
  BY <1>1 DEF Traffic, add
<1>2. CASE u \notin Uuid
  BY <1>2 DEF Traffic, add
<1> QED BY <1>1, <1>2

\* markOffline keeps the ages in their range.
LEMMA Refreshed ==
  ASSUME NEW f \in [Uuid -> 0..(OnlineTTL + 1) \cup {Absent}], NEW u
  PROVE  [f EXCEPT ![u] = IF @ = Absent THEN Absent ELSE 0]
           \in [Uuid -> 0..(OnlineTTL + 1) \cup {Absent}]
<1>1. CASE u \in Uuid
  BY <1>1, NumAssumption
<1>2. CASE u \notin Uuid
  BY <1>2
<1> QED BY <1>1, <1>2

ConnState == [st : {"idle", "handshake", "control", "relay", "drain"},
              uuid : Uuid \cup {NoUuid}, live : BOOLEAN]

\* A connection whose counter left the map is otherwise unchanged.
LEMMA PointerSet ==
  ASSUME NEW r \in ConnState, NEW b \in BOOLEAN
  PROVE  [r EXCEPT !.live = b] \in ConnState
  BY DEF ConnState

LEMMA InitType == Init => TypeOK
  BY ConstTypes, ListAssumption DEF Init, TypeOK, Idle, IdleRep, RepAt, tableOf

\* A step of the user table keeps the types.
LEMMA UpdateType ==
  ASSUME TypeOK, NEW l \in UserLists, NEW ok \in BOOLEAN, UpdateUsers(l, ok)
  PROVE  TypeOK'
<1>1. users' \in [Uuid -> Uid \cup {Absent}] /\ hashed' \in [Uuid -> Uid \cup {Absent}]
  BY ListAssumption DEF TypeOK, UpdateUsers, replaceUsersLocked, rebuildUserHashesLocked, tableOf
<1>2. counters' \subseteq Uuid
  BY DEF UpdateUsers, replaceUsersLocked, countersOf
<1>3. conn' \in [Conn -> ConnState]
  <2>1. conn' = [c \in Conn |-> [conn[c] EXCEPT !.live =
                                  conn[c].live /\ conn[c].uuid \in countersOf(l)]]
    BY DEF UpdateUsers, replaceUsersLocked, detach
  <2>2. ASSUME NEW c \in Conn
        PROVE  [conn[c] EXCEPT !.live = conn[c].live /\ conn[c].uuid \in countersOf(l)]
                 \in ConnState
    <3>1. conn[c] \in ConnState
      BY DEF TypeOK, ConnState
    <3>2. (conn[c].live /\ conn[c].uuid \in countersOf(l)) \in BOOLEAN
      OBVIOUS
    <3> QED BY <3>1, <3>2, PointerSet
  <2> QED BY <2>1, <2>2
<1> QED BY <1>1, <1>2, <1>3 DEF TypeOK, ConnState, UpdateUsers, gvars

\* A step of a connection keeps the types.
LEMMA ConnType ==
  ASSUME TypeOK, NEW c \in Conn, connStep(c)
  PROVE  TypeOK'
<1>1. CASE handleConn(c)
  BY <1>1 DEF TypeOK, handleConn, gvars
<1>2. CASE \E i \in Uid, u \in Uuid : counterForUserHash(c, i, u)
  BY <1>2, NumAssumption DEF TypeOK, counterForUserHash, gvars
<1>3. CASE rejectConn(c)
  BY <1>3 DEF TypeOK, rejectConn, Idle, gvars
<1>4. ASSUME NEW d \in Dir, NEW n \in Chunk, count(c, d, n)
      PROVE  TypeOK'
  <2>1. pend' \in Traffic /\ metered' \in Traffic /\ unmetered' \in Traffic
    <3>1. n \in Nat /\ pend \in Traffic /\ metered \in Traffic /\ unmetered \in Traffic
      BY ChunkAssumption DEF TypeOK
    <3>2. \A f \in Traffic : add(f, conn[c].uuid, d, n) \in Traffic
      BY <3>1, Added
    <3> QED BY <1>4, <3>1, <3>2 DEF count
  <2> QED BY <1>4, <2>1 DEF TypeOK, count
<1>5. CASE startSession(c)
  BY <1>5 DEF TypeOK, startSession, gvars
<1>6. CASE controlFailed(c)
  BY <1>6 DEF TypeOK, controlFailed, Idle, gvars
<1>7. CASE unknownControl(c)
  <2>1. online' \in [Uuid -> 0..(OnlineTTL + 1) \cup {Absent}]
    BY <1>7, Refreshed DEF TypeOK, unknownControl, markOffline
  <2> QED BY <1>7, <2>1 DEF TypeOK, unknownControl, Idle, gvars
<1>8. CASE sessionEnd(c)
  <2>1. online' \in [Uuid -> 0..(OnlineTTL + 1) \cup {Absent}]
    BY <1>8, Refreshed DEF TypeOK, sessionEnd, markOffline
  <2> QED BY <1>8, <2>1 DEF TypeOK, sessionEnd, gvars
<1>9. CASE drained(c)
  BY <1>9 DEF TypeOK, drained, Idle, gvars
<1> QED BY <1>1, <1>2, <1>3, <1>4, <1>5, <1>6, <1>7, <1>8, <1>9 DEF connStep

\* A step of an execution of the report task keeps the types.
LEMMA ReportType ==
  ASSUME TypeOK, NEW e \in Slot, reportStep(e)
  PROVE  TypeOK'
<1> USE ConstTypes
<1>1. CASE panelAccepts(e)
  <2>1. billed' \in Traffic
    BY <1>1 DEF TypeOK, Traffic, panelAccepts, Plus
  <2> QED BY <1>1, <2>1 DEF TypeOK, panelAccepts, fault, tvars
<1>2. CASE pushReturns(e)
  BY <1>2 DEF TypeOK, pushReturns, tvars, gvars
<1>3. CASE pushFails(e)
  BY <1>3 DEF TypeOK, pushFails, RepAt, fault, tvars
<1>4. CASE pushTimesOut(e)
  BY <1>4 DEF TypeOK, pushTimesOut, return, IdleRep, RepAt, fault, tvars
<1>5. CASE ConfirmUserTraffic(e)
  <2>1. pend' \in Traffic
    BY <1>5 DEF TypeOK, Traffic, ConfirmUserTraffic, subtract
  <2> QED BY <1>5, <2>1 DEF TypeOK, ConfirmUserTraffic, RepAt, gvars
<1>6. CASE GetOnlineDevice(e)
  <2>1. online' \in [Uuid -> 0..(OnlineTTL + 1) \cup {Absent}]
    BY <1>6 DEF TypeOK, GetOnlineDevice
  <2>2. \E r \in {RepAt("alive"), IdleRep} : rep' = [rep EXCEPT ![e] = r]
    BY <1>6 DEF GetOnlineDevice, return
  <2>3. rep' \in [Slot -> [pc : {"idle", "push", "confirm", "online", "alive"},
                           slice : Traffic, sent : Nat]]
    BY <2>2 DEF TypeOK, IdleRep, RepAt
  <2>4. taskLoop' \in {"wait", "exec", "stopped"}
    BY <1>6 DEF TypeOK, GetOnlineDevice, return
  <2> QED BY <1>6, <2>1, <2>3, <2>4 DEF TypeOK, GetOnlineDevice, gvars
<1>7. CASE ReportNodeOnlineUsers(e)
  BY <1>7 DEF TypeOK, ReportNodeOnlineUsers, return, IdleRep, RepAt, tvars, gvars
<1> QED BY <1>1, <1>2, <1>3, <1>4, <1>5, <1>6, <1>7 DEF reportStep

LEMMA NextType == TypeOK /\ [Next]_vars => TypeOK'
<1> SUFFICES ASSUME TypeOK, [Next]_vars PROVE TypeOK'
  OBVIOUS
<1>1. CASE Tick
  BY <1>1, NumAssumption, UidAssumption DEF TypeOK, Tick, gvars
<1>2. CASE GetUserTrafficSlice
  <2>1. [u \in Uuid |-> sliceOf(u)] \in Traffic
    BY ConstTypes DEF TypeOK, Traffic, sliceOf
  <2> QED BY <1>2, <2>1 DEF TypeOK, GetUserTrafficSlice, tvars, gvars
<1>3. CASE executionTimedOut
  BY <1>3, ConstTypes DEF TypeOK, executionTimedOut, IdleRep, RepAt, fault, tvars, Slot
<1>4. CASE taskStops
  BY <1>4 DEF TypeOK, taskStops, tvars, gvars
<1>5. CASE Close
  BY <1>5 DEF TypeOK, Close, tvars, gvars
<1>6. CASE closeReturns
  BY <1>6 DEF TypeOK, closeReturns, tvars, gvars
<1>7. CASE UNCHANGED vars
  BY <1>7 DEF TypeOK, vars, tvars, gvars
<1> QED
  BY <1>1, <1>2, <1>3, <1>4, <1>5, <1>6, <1>7, UpdateType, ConnType, ReportType DEF Next

\* Every reachable state of the embedded runtime and its report task is well
\* typed, for any users, lists, connections and bounds.
THEOREM TypeCorrect == Spec => []TypeOK
  BY InitType, NextType, PTL DEF Spec

-----------------------------------------------------------------------------
(* The accounting invariants.  PendingKept is inductive given the types;   *)
(* BilledOnce and NothingDropped need Accounts, which in turn needs        *)
(* PendingKept where ConfirmUserTraffic skips a user without a counter.    *)

IInv == TypeOK /\ PendingKept /\ Accounts /\ BilledOnce

LEMMA InitInv == Init => IInv
<1> SUFFICES ASSUME Init PROVE IInv
  OBVIOUS
<1>1. TypeOK
  BY InitType
<1>2. PendingKept
  BY DEF Init, PendingKept, NoTraffic, tableOf, Idle
<1>3. \A e \in Slot : rep[e].pc = "idle"
  BY ConstTypes DEF Init, IdleRep
<1>4. \A u \in Uuid, d \in Dir, e \in Slot : Due(e, u, d) = 0
  BY <1>3 DEF Due
<1>5. \A u \in Uuid, d \in Dir : metered[u][d] = 0 /\ pend[u][d] = 0 /\ billed[u][d] = 0
  BY DEF Init, NoTraffic, Zero
<1>6. Accounts /\ BilledOnce
  BY <1>3, <1>4, <1>5 DEF Accounts, Books, TaskShape, Covered, BilledOnce, Slot
<1> QED BY <1>1, <1>2, <1>6 DEF IInv

\* A counter that holds bytes, belongs to a listed user or is pointed to stays
\* in the map.
LEMMA StepKept ==
  ASSUME TypeOK, PendingKept, [Next]_vars
  PROVE  PendingKept'
<1>1. ASSUME NEW l \in UserLists, NEW ok \in BOOLEAN, UpdateUsers(l, ok)
      PROVE  PendingKept'
  <2>1. \A u \in Uuid : (pend[u] # Zero \/ users[u] # Absent => u \in counters)'
    BY <1>1 DEF PendingKept, UpdateUsers, replaceUsersLocked, tableOf, countersOf
  <2>2. \A c \in Conn : (conn[c].live => conn[c].uuid \in counters)'
    BY <1>1 DEF TypeOK, UpdateUsers, replaceUsersLocked, detach
  <2> QED BY <2>1, <2>2 DEF PendingKept
<1>2. ASSUME NEW c \in Conn, connStep(c)
      PROVE  PendingKept'
  <2>1. ASSUME NEW i \in Uid, NEW u \in Uuid, counterForUserHash(c, i, u)
        PROVE  PendingKept'
    BY <2>1 DEF TypeOK, PendingKept, counterForUserHash
  <2>2. ASSUME NEW d \in Dir, NEW n \in Chunk, count(c, d, n)
        PROVE  PendingKept'
    <3>1. CASE conn[c].live
      <4>1. conn[c].uuid \in counters
        BY <3>1 DEF PendingKept
      <4>2. \A u \in Uuid : u # conn[c].uuid => pend'[u] = pend[u]
        BY <2>2, <3>1 DEF TypeOK, Traffic, count, add
      <4> QED BY <2>2, <4>1, <4>2 DEF PendingKept, count
    <3>2. CASE ~conn[c].live
      BY <2>2, <3>2 DEF PendingKept, count
    <3> QED BY <3>1, <3>2
  <2>3. CASE handleConn(c) \/ startSession(c) \/ sessionEnd(c)
    BY <2>3 DEF TypeOK, PendingKept, handleConn, startSession, sessionEnd
  <2>4. CASE rejectConn(c) \/ controlFailed(c) \/ unknownControl(c) \/ drained(c)
    BY <2>4 DEF TypeOK, PendingKept, rejectConn, controlFailed, unknownControl, drained, Idle
  <2> QED BY <1>2, <2>1, <2>2, <2>3, <2>4 DEF connStep
<1>3. ASSUME NEW e \in Slot, ConfirmUserTraffic(e)
      PROVE  PendingKept'
  <2>1. ASSUME NEW u \in Uuid, pend[u] = Zero
        PROVE  pend'[u] = Zero
    <3>1. \A d \in Dir : subtract(pend[u][d], rep[e].slice[u][d]) = 0
      BY <2>1 DEF TypeOK, Traffic, Zero, subtract
    <3> QED BY <1>3, <2>1, <3>1 DEF ConfirmUserTraffic, Zero
  <2> QED BY <1>3, <2>1 DEF PendingKept, ConfirmUserTraffic
<1>4. CASE UNCHANGED <<users, counters, pend, conn>>
  BY <1>4 DEF PendingKept
<1>5. ASSUME NEW e \in Slot, reportStep(e), ~ConfirmUserTraffic(e)
      PROVE  UNCHANGED <<users, counters, pend, conn>>
  BY <1>5 DEF reportStep, panelAccepts, pushReturns, pushFails, pushTimesOut,
              GetOnlineDevice, ReportNodeOnlineUsers, tvars
<1>6. ASSUME Tick \/ GetUserTrafficSlice \/ executionTimedOut \/ taskStops \/ Close
               \/ closeReturns \/ UNCHANGED vars
      PROVE  UNCHANGED <<users, counters, pend, conn>>
  BY <1>6 DEF Tick, GetUserTrafficSlice, executionTimedOut, taskStops, Close,
              closeReturns, vars, tvars
<1> QED BY <1>1, <1>2, <1>3, <1>4, <1>5, <1>6 DEF Next

\* What a change of one execution does to what it has in flight.
LEMMA DueType ==
  ASSUME TypeOK
  PROVE  \A e \in Slot, u \in Uuid, d \in Dir :
           Due(e, u, d) \in Nat /\ Due(e, u, d) <= rep[e].slice[u][d]
  BY DEF TypeOK, Traffic, Due

\* Steps that touch neither the counters, the books nor the report task.
LEMMA AccountsFrame ==
  ASSUME Accounts, BilledOnce,
         UNCHANGED <<pend, metered, billed, faults, rep, taskLoop>>
  PROVE  Accounts' /\ BilledOnce'
  BY DEF Accounts, Books, TaskShape, Covered, BilledOnce, Due

\* The numbers of one user and direction.
LEMMA Numbers ==
  ASSUME TypeOK, NEW u \in Uuid, NEW d \in Dir
  PROVE  /\ metered[u][d] \in Nat /\ pend[u][d] \in Nat /\ billed[u][d] \in Nat
         /\ Due("cur", u, d) \in Nat /\ Due("late", u, d) \in Nat
         /\ rep["cur"].slice[u][d] \in Nat /\ rep["late"].slice[u][d] \in Nat
  BY DueType DEF TypeOK, Traffic, Slot

\* A connection counts bytes: on the counter and in the ghost, or in neither.
LEMMA CountAccounts ==
  ASSUME TypeOK, Accounts, BilledOnce,
         NEW c \in Conn, NEW d \in Dir, NEW n \in Chunk, count(c, d, n)
  PROVE  Accounts' /\ BilledOnce'
<1>1. CASE ~conn[c].live
  BY <1>1, AccountsFrame DEF count
<1>2. CASE conn[c].live
  <2> DEFINE u == conn[c].uuid
  <2>1. /\ pend' = add(pend, u, d, n)
        /\ metered' = add(metered, u, d, n)
        /\ UNCHANGED <<billed, faults, rep, taskLoop>>
    BY <1>2 DEF count
  <2>2. n \in Nat /\ pend \in Traffic /\ metered \in Traffic
    BY ChunkAssumption DEF TypeOK
  <2> HIDE DEF u
  <2>3. \A v \in Uuid, k \in Dir :
          /\ pend'[v][k] = IF v = u /\ k = d THEN pend[v][k] + n ELSE pend[v][k]
          /\ metered'[v][k] = IF v = u /\ k = d THEN metered[v][k] + n ELSE metered[v][k]
    BY <2>1, <2>2, Added
  <2>4. \A v \in Uuid, k \in Dir, e \in Slot : Due(e, v, k)' = Due(e, v, k)
    BY <2>1 DEF Due
  <2>5. ASSUME NEW v \in Uuid, NEW k \in Dir
        PROVE  /\ (metered[v][k] + Due("cur", v, k) + Due("late", v, k) <= pend[v][k] + billed[v][k])'
               /\ rep["cur"].slice[v][k] <= pend[v][k] => rep["cur"].slice[v][k] <= pend'[v][k]
               /\ metered[v][k] + Due("cur", v, k) = pend[v][k] + billed[v][k]
                    => (metered[v][k] + Due("cur", v, k) = pend[v][k] + billed[v][k])'
    <3>1. metered[v][k] + Due("cur", v, k) + Due("late", v, k) <= pend[v][k] + billed[v][k]
      BY DEF Accounts, Books
    <3>2. Due("cur", v, k)' = Due("cur", v, k) /\ Due("late", v, k)' = Due("late", v, k)
      BY <2>4 DEF Slot
    <3>3. billed'[v][k] = billed[v][k]
      BY <2>1
    <3>4. CASE v = u /\ k = d
      <4>1. pend'[v][k] = pend[v][k] + n /\ metered'[v][k] = metered[v][k] + n
        BY <2>3, <3>4
      <4>2. /\ metered[v][k] \in Nat /\ pend[v][k] \in Nat /\ billed[v][k] \in Nat
            /\ Due("cur", v, k) \in Nat /\ Due("late", v, k) \in Nat
            /\ rep["cur"].slice[v][k] \in Nat
        BY Numbers
      <4> QED BY <2>2, <3>1, <3>2, <3>3, <4>1, <4>2
    <3>5. CASE ~(v = u /\ k = d)
      <4>1. pend'[v][k] = pend[v][k] /\ metered'[v][k] = metered[v][k]
        BY <2>3, <3>5
      <4> QED BY <3>1, <3>2, <3>3, <4>1
    <3> QED BY <3>4, <3>5
  <2> QED BY <2>1, <2>5 DEF Accounts, Books, TaskShape, Covered, BilledOnce
<1> QED BY <1>1, <1>2

\* An execution with no push under way owes nothing.
LEMMA NothingDue ==
  ASSUME NEW e \in Slot, rep[e].pc \notin {"push", "confirm"}, NEW u, NEW d
  PROVE  Due(e, u, d) = 0
  BY DEF Due

\* The execution other than e is untouched by a step of e.
LEMMA OtherDue ==
  ASSUME NEW e \in Slot, NEW o \in Slot, o # e, rep'[o] = rep[o], NEW u, NEW d
  PROVE  Due(o, u, d)' = Due(o, u, d)
  BY DEF Due

\* The panel books a push: what it adds to the books, the execution now owes.
LEMMA AcceptAccounts ==
  ASSUME TypeOK, Accounts, BilledOnce, NEW e \in Slot, panelAccepts(e)
  PROVE  Accounts' /\ BilledOnce'
<1>1. /\ rep'[e].pc = "push" /\ rep'[e].sent = rep[e].sent + 1
      /\ rep'[e].slice = rep[e].slice /\ rep[e].pc = "push"
      /\ \A o \in Slot : o # e => rep'[o] = rep[o]
      /\ rep[e].sent \in Nat
      /\ UNCHANGED <<pend, metered, taskLoop>>
  BY DEF TypeOK, panelAccepts, tvars
<1>2. faults' = 0 => faults = 0 /\ rep[e].sent = 0
  BY <1>1 DEF TypeOK, panelAccepts, fault
<1>3. ASSUME NEW u \in Uuid, NEW d \in Dir
      PROVE  /\ billed'[u][d] = billed[u][d] + rep[e].slice[u][d]
             /\ Due(e, u, d)' = rep[e].slice[u][d]
             /\ Due(e, u, d) = IF rep[e].sent > 0 THEN rep[e].slice[u][d] ELSE 0
             /\ \A o \in Slot : o # e => Due(o, u, d)' = Due(o, u, d)
  <2>1. billed'[u][d] = billed[u][d] + rep[e].slice[u][d]
    BY DEF panelAccepts, Plus
  <2> QED BY <1>1, <2>1, OtherDue DEF Due
<1>4. Books'
  <2> SUFFICES ASSUME NEW u \in Uuid, NEW d \in Dir
               PROVE  (metered[u][d] + Due("cur", u, d) + Due("late", u, d)
                         <= pend[u][d] + billed[u][d])'
    BY DEF Books
  <2>1. metered[u][d] + Due("cur", u, d) + Due("late", u, d) <= pend[u][d] + billed[u][d]
    BY DEF Accounts, Books
  <2>2. /\ metered[u][d] \in Nat /\ pend[u][d] \in Nat /\ billed[u][d] \in Nat
        /\ Due("cur", u, d) \in Nat /\ Due("late", u, d) \in Nat
        /\ rep["cur"].slice[u][d] \in Nat /\ rep["late"].slice[u][d] \in Nat
    BY Numbers
  <2>3. CASE e = "cur"
    BY <1>1, <1>3, <2>1, <2>2, <2>3 DEF Slot
  <2>4. CASE e = "late"
    BY <1>1, <1>3, <2>1, <2>2, <2>4 DEF Slot
  <2> QED BY <2>3, <2>4 DEF Slot
<1>5. faults' = 0 => e = "cur"
  BY <1>1, <1>2 DEF Accounts, Covered, Slot
<1>6. TaskShape' /\ Covered'
  BY <1>1, <1>2, <1>5 DEF Accounts, TaskShape, Covered, Slot
<1>7. BilledOnce'
  <2> SUFFICES ASSUME faults' = 0, NEW u \in Uuid, NEW d \in Dir
               PROVE  (metered[u][d] + Due("cur", u, d) = pend[u][d] + billed[u][d])'
    BY DEF BilledOnce
  <2>1. metered[u][d] + Due("cur", u, d) = pend[u][d] + billed[u][d]
    BY <1>2 DEF BilledOnce
  <2>2. /\ metered[u][d] \in Nat /\ pend[u][d] \in Nat /\ billed[u][d] \in Nat
        /\ rep["cur"].slice[u][d] \in Nat
    BY Numbers
  <2> QED BY <1>1, <1>2, <1>3, <1>5, <2>1, <2>2
<1> QED BY <1>4, <1>6, <1>7 DEF Accounts

\* The clamped subtraction takes off what the execution owes, and no more.
LEMMA ConfirmAccounts ==
  ASSUME TypeOK, PendingKept, Accounts, BilledOnce, NEW e \in Slot, ConfirmUserTraffic(e)
  PROVE  Accounts' /\ BilledOnce'
<1>1. /\ rep[e].pc = "confirm" /\ rep'[e].pc = "online"
      /\ \A o \in Slot : o # e => rep'[o] = rep[o]
      /\ UNCHANGED <<metered, billed, faults, taskLoop>>
  BY ConstTypes DEF TypeOK, ConfirmUserTraffic, gvars
<1>2. ASSUME NEW u \in Uuid, NEW d \in Dir
      PROVE  /\ pend'[u][d] = subtract(pend[u][d], rep[e].slice[u][d])
             /\ Due(e, u, d) = rep[e].slice[u][d]
             /\ Due(e, u, d)' = 0
             /\ \A o \in Slot : o # e => Due(o, u, d)' = Due(o, u, d)
  <2>1. pend'[u][d] = subtract(pend[u][d], rep[e].slice[u][d])
    <3>1. CASE u \in counters
      BY <3>1 DEF ConfirmUserTraffic
    <3>2. CASE u \notin counters
      <4>1. pend[u] = Zero /\ pend'[u] = pend[u]
        BY <3>2 DEF PendingKept, ConfirmUserTraffic
      <4>2. rep[e].slice[u][d] \in Nat
        BY DEF TypeOK, Traffic
      <4> QED BY <4>1, <4>2 DEF Zero, subtract
    <3> QED BY <3>1, <3>2
  <2> QED BY <1>1, <2>1, OtherDue DEF Due
<1>3. Books'
  <2> SUFFICES ASSUME NEW u \in Uuid, NEW d \in Dir
               PROVE  (metered[u][d] + Due("cur", u, d) + Due("late", u, d)
                         <= pend[u][d] + billed[u][d])'
    BY DEF Books
  <2>1. metered[u][d] + Due("cur", u, d) + Due("late", u, d) <= pend[u][d] + billed[u][d]
    BY DEF Accounts, Books
  <2>2. /\ metered[u][d] \in Nat /\ pend[u][d] \in Nat /\ billed[u][d] \in Nat
        /\ Due("cur", u, d) \in Nat /\ Due("late", u, d) \in Nat
        /\ rep["cur"].slice[u][d] \in Nat /\ rep["late"].slice[u][d] \in Nat
    BY Numbers
  <2>3. CASE e = "cur"
    BY <1>1, <1>2, <2>1, <2>2, <2>3 DEF Slot, subtract
  <2>4. CASE e = "late"
    BY <1>1, <1>2, <2>1, <2>2, <2>4 DEF Slot, subtract
  <2> QED BY <2>3, <2>4 DEF Slot
<1>4. faults' = 0 => e = "cur"
  BY <1>1 DEF Accounts, Covered, Slot
<1>5. TaskShape' /\ Covered'
  BY <1>1, <1>4 DEF Accounts, TaskShape, Covered, Slot
<1>6. BilledOnce'
  <2> SUFFICES ASSUME faults' = 0, NEW u \in Uuid, NEW d \in Dir
               PROVE  (metered[u][d] + Due("cur", u, d) = pend[u][d] + billed[u][d])'
    BY DEF BilledOnce
  <2>1. metered[u][d] + Due("cur", u, d) = pend[u][d] + billed[u][d]
    BY <1>1 DEF BilledOnce
  <2>2. rep["cur"].slice[u][d] <= pend[u][d]
    BY <1>1, <1>4 DEF Accounts, Covered
  <2>3. /\ metered[u][d] \in Nat /\ pend[u][d] \in Nat /\ billed[u][d] \in Nat
        /\ rep["cur"].slice[u][d] \in Nat
    BY Numbers
  <2>4. /\ pend'[u][d] = subtract(pend[u][d], rep["cur"].slice[u][d])
        /\ Due("cur", u, d) = rep["cur"].slice[u][d]
        /\ Due("cur", u, d)' = 0
        /\ metered'[u][d] = metered[u][d] /\ billed'[u][d] = billed[u][d]
    BY <1>1, <1>2, <1>4
  <2> QED BY <2>1, <2>2, <2>3, <2>4 DEF subtract
<1> QED BY <1>3, <1>5, <1>6 DEF Accounts

\* A step that only drops what one execution owes: it leaves the push for good.
\* While nothing went wrong it owed nothing.
LEMMA DropAccounts ==
  ASSUME TypeOK, Accounts, BilledOnce, NEW e \in Slot,
         rep'[e].pc \notin {"push", "confirm"},
         \A o \in Slot : o # e => rep'[o] = rep[o],
         UNCHANGED <<pend, metered, billed>>,
         faults' = 0 => faults = 0 /\ \A u \in Uuid, d \in Dir : Due(e, u, d) = 0,
         TaskShape',
         faults' = 0 => rep'["late"].pc = "idle"
  PROVE  Accounts' /\ BilledOnce'
<1>1. ASSUME NEW u \in Uuid, NEW d \in Dir
      PROVE  /\ Due(e, u, d)' = 0
             /\ \A o \in Slot : o # e => Due(o, u, d)' = Due(o, u, d)
  BY OtherDue DEF Due
<1>2. Books'
  <2> SUFFICES ASSUME NEW u \in Uuid, NEW d \in Dir
               PROVE  (metered[u][d] + Due("cur", u, d) + Due("late", u, d)
                         <= pend[u][d] + billed[u][d])'
    BY DEF Books
  <2>1. metered[u][d] + Due("cur", u, d) + Due("late", u, d) <= pend[u][d] + billed[u][d]
    BY DEF Accounts, Books
  <2>2. /\ metered[u][d] \in Nat /\ pend[u][d] \in Nat /\ billed[u][d] \in Nat
        /\ Due("cur", u, d) \in Nat /\ Due("late", u, d) \in Nat
    BY Numbers
  <2>3. CASE e = "cur"
    BY <1>1, <2>1, <2>2, <2>3 DEF Slot
  <2>4. CASE e = "late"
    BY <1>1, <2>1, <2>2, <2>4 DEF Slot
  <2> QED BY <2>3, <2>4 DEF Slot
<1>3. Covered'
  BY DEF Accounts, Covered, Slot
<1>4. BilledOnce'
  <2> SUFFICES ASSUME faults' = 0, NEW u \in Uuid, NEW d \in Dir
               PROVE  (metered[u][d] + Due("cur", u, d) = pend[u][d] + billed[u][d])'
    BY DEF BilledOnce
  <2>1. metered[u][d] + Due("cur", u, d) = pend[u][d] + billed[u][d]
    BY DEF BilledOnce
  <2>2. Due("cur", u, d)' = Due("cur", u, d)
    BY <1>1 DEF Slot
  <2> QED BY <2>1, <2>2
<1> QED BY <1>2, <1>3, <1>4 DEF Accounts

\* The other steps of an execution: a push that returned is about to be
\* confirmed, every other step drops what the execution owes.
LEMMA ReportAccounts ==
  ASSUME TypeOK, PendingKept, Accounts, BilledOnce, NEW e \in Slot, reportStep(e)
  PROVE  Accounts' /\ BilledOnce'
<1>1. CASE pushReturns(e)
  <2>1. /\ rep[e].pc = "push" /\ rep[e].sent > 0 /\ rep'[e].pc = "confirm"
        /\ rep'[e].slice = rep[e].slice
        /\ \A o \in Slot : o # e => rep'[o] = rep[o]
        /\ UNCHANGED <<pend, metered, billed, faults, taskLoop>>
    BY <1>1 DEF TypeOK, pushReturns, tvars, gvars
  <2>2. \A o \in Slot, u \in Uuid, d \in Dir : Due(o, u, d)' = Due(o, u, d)
    BY <2>1 DEF Due
  <2>3. faults' = 0 => e = "cur"
    BY <2>1 DEF Accounts, Covered, Slot
  <2>4. Books' /\ BilledOnce'
    BY <2>1, <2>2 DEF Accounts, Books, BilledOnce, Slot
  <2>5. TaskShape' /\ Covered'
    BY <2>1, <2>3 DEF Accounts, TaskShape, Covered, Slot
  <2> QED BY <2>4, <2>5 DEF Accounts
<1>2. CASE pushFails(e) \/ pushTimesOut(e)
  <2>1. /\ rep[e].pc = "push" /\ rep'[e].pc \in {"idle", "online"}
        /\ \A o \in Slot : o # e => rep'[o] = rep[o]
        /\ UNCHANGED <<pend, metered, billed>>
    BY <1>2, ConstTypes DEF TypeOK, pushFails, pushTimesOut, return, IdleRep, tvars
  <2>2. TaskShape'
    BY <1>2, <2>1, ConstTypes DEF Accounts, TaskShape, TypeOK, pushFails, pushTimesOut,
                                  return, IdleRep, Slot
  <2>3. faults' = 0 => faults = 0 /\ ~(rep[e].sent > 0)
    BY <1>2 DEF TypeOK, pushFails, pushTimesOut, fault
  <2>4. faults' = 0 => \A u \in Uuid, d \in Dir : Due(e, u, d) = 0
    BY <2>1, <2>3 DEF Due
  <2>5. faults' = 0 => rep'["late"].pc = "idle"
    BY <2>1, <2>3 DEF Accounts, Covered, Slot
  <2> QED BY <2>1, <2>2, <2>3, <2>4, <2>5, DropAccounts
<1>3. CASE GetOnlineDevice(e) \/ ReportNodeOnlineUsers(e)
  <2>1. /\ rep[e].pc \in {"online", "alive"} /\ rep'[e].pc \in {"idle", "alive"}
        /\ \A o \in Slot : o # e => rep'[o] = rep[o]
        /\ UNCHANGED <<pend, metered, billed, faults>>
    BY <1>3, ConstTypes DEF TypeOK, GetOnlineDevice, ReportNodeOnlineUsers, return,
                            IdleRep, tvars, gvars
  <2>2. TaskShape'
    BY <1>3, <2>1, ConstTypes DEF Accounts, TaskShape, TypeOK, GetOnlineDevice,
                                  ReportNodeOnlineUsers, return, IdleRep, Slot
  <2>3. \A u \in Uuid, d \in Dir : Due(e, u, d) = 0
    BY <2>1 DEF Due
  <2>4. faults' = 0 => rep'["late"].pc = "idle"
    BY <2>1 DEF Accounts, Covered, Slot
  <2> QED BY <2>1, <2>2, <2>3, <2>4, DropAccounts
<1> QED BY <1>1, <1>2, <1>3, AcceptAccounts, ConfirmAccounts DEF reportStep

\* The snapshot owes nothing yet and is on the counters.
LEMMA SliceAccounts ==
  ASSUME TypeOK, Accounts, BilledOnce, GetUserTrafficSlice
  PROVE  Accounts' /\ BilledOnce'
<1>1. /\ rep'["cur"].sent = 0 /\ rep'["cur"].pc \in {"online", "push"}
      /\ rep'["cur"].slice = [u \in Uuid |-> sliceOf(u)]
      /\ rep'["late"] = rep["late"]
      /\ UNCHANGED <<pend, metered, billed, faults>>
      /\ taskLoop = "wait" /\ taskLoop' = "exec"
  BY DEF TypeOK, GetUserTrafficSlice, tvars, gvars, Slot
<1>2. ASSUME NEW u \in Uuid, NEW d \in Dir
      PROVE  /\ Due("cur", u, d)' = 0 /\ Due("cur", u, d) = 0
             /\ Due("late", u, d)' = Due("late", u, d)
             /\ rep'["cur"].slice[u][d] <= pend[u][d]
  <2>1. Due("cur", u, d)' = 0 /\ Due("late", u, d)' = Due("late", u, d)
    BY <1>1 DEF Due
  <2>2. Due("cur", u, d) = 0
    BY <1>1 DEF Accounts, TaskShape, Due
  <2>3. sliceOf(u)[d] <= pend[u][d]
    <3>1. pend[u][d] \in Nat /\ Zero[d] = 0
      BY DEF TypeOK, Traffic, Zero
    <3>2. sliceOf(u)[d] = pend[u][d] \/ sliceOf(u)[d] = 0
      BY <3>1 DEF sliceOf
    <3> QED BY <3>1, <3>2
  <2> QED BY <1>1, <2>1, <2>2, <2>3
<1>3. Books' /\ BilledOnce'
  BY <1>1, <1>2 DEF Accounts, Books, BilledOnce
<1>4. TaskShape' /\ Covered'
  BY <1>1, <1>2 DEF Accounts, TaskShape, Covered
<1> QED BY <1>3, <1>4 DEF Accounts

\* The abandoned execution keeps owing what the current one owed.
LEMMA TimeoutAccounts ==
  ASSUME TypeOK, Accounts, executionTimedOut
  PROVE  Accounts' /\ BilledOnce'
<1>1. /\ rep'["late"] = rep["cur"] /\ rep'["cur"].pc = "idle" /\ rep["late"].pc = "idle"
      /\ UNCHANGED <<pend, metered, billed>>
      /\ faults' # 0
  BY ConstTypes DEF TypeOK, executionTimedOut, fault, IdleRep, Slot, tvars
<1>2. ASSUME NEW u \in Uuid, NEW d \in Dir
      PROVE  /\ Due("late", u, d)' = Due("cur", u, d) /\ Due("late", u, d) = 0
             /\ Due("cur", u, d)' = 0
  BY <1>1 DEF Due
<1>3. Books'
  <2> SUFFICES ASSUME NEW u \in Uuid, NEW d \in Dir
               PROVE  (metered[u][d] + Due("cur", u, d) + Due("late", u, d)
                         <= pend[u][d] + billed[u][d])'
    BY DEF Books
  <2>1. metered[u][d] + Due("cur", u, d) + Due("late", u, d) <= pend[u][d] + billed[u][d]
    BY DEF Accounts, Books
  <2>2. metered[u][d] \in Nat /\ Due("cur", u, d) \in Nat
    BY Numbers
  <2> QED BY <1>1, <1>2, <2>1, <2>2
<1> QED BY <1>1, <1>3 DEF Accounts, TaskShape, Covered, BilledOnce

LEMMA NextInv == IInv /\ [Next]_vars => IInv'
<1> SUFFICES ASSUME TypeOK, PendingKept, Accounts, BilledOnce, [Next]_vars PROVE IInv'
  BY DEF IInv
<1>1. TypeOK' /\ PendingKept'
  BY NextType, StepKept
<1>2. Accounts' /\ BilledOnce'
  <2>1. ASSUME NEW l \in UserLists, NEW ok \in BOOLEAN, UpdateUsers(l, ok)
        PROVE  Accounts' /\ BilledOnce'
    BY <2>1, AccountsFrame DEF UpdateUsers, gvars
  <2>2. ASSUME NEW c \in Conn, connStep(c)
        PROVE  Accounts' /\ BilledOnce'
    <3>1. CASE \E d \in Dir, n \in Chunk : count(c, d, n)
      BY <3>1, CountAccounts
    <3>2. CASE ~\E d \in Dir, n \in Chunk : count(c, d, n)
      BY <2>2, <3>2, AccountsFrame DEF connStep, handleConn, counterForUserHash, rejectConn,
           startSession, controlFailed, unknownControl, sessionEnd, drained, gvars
    <3> QED BY <3>1, <3>2
  <2>3. CASE taskStops
    BY <2>3 DEF taskStops, Accounts, Books, TaskShape, Covered, BilledOnce, Due, tvars, gvars
  <2>4. CASE Tick \/ Close \/ closeReturns \/ UNCHANGED vars
    BY <2>4, AccountsFrame DEF Tick, Close, closeReturns, vars, tvars, gvars
  <2> QED BY <2>1, <2>2, <2>3, <2>4, ReportAccounts, SliceAccounts, TimeoutAccounts DEF Next
<1> QED BY <1>1, <1>2 DEF IInv

LEMMA Invariance == Spec => []IInv
  BY InitInv, NextInv, PTL DEF Spec

\* A byte counted for a user is on the counter or in the panel's books, whatever
\* is retried, lost or abandoned: subtract never takes off more than was pushed.
THEOREM NoByteDropped == Spec => []NothingDropped
<1>1. IInv => NothingDropped
  <2> SUFFICES ASSUME IInv, NEW u \in Uuid, NEW d \in Dir
               PROVE  metered[u][d] <= pend[u][d] + billed[u][d]
    BY DEF NothingDropped
  <2>1. metered[u][d] + Due("cur", u, d) + Due("late", u, d) <= pend[u][d] + billed[u][d]
    BY DEF IInv, Accounts, Books
  <2>2. /\ metered[u][d] \in Nat /\ pend[u][d] \in Nat /\ billed[u][d] \in Nat
        /\ Due("cur", u, d) \in Nat /\ Due("late", u, d) \in Nat
    BY Numbers DEF IInv
  <2> QED BY <2>1, <2>2
<1> QED BY <1>1, Invariance, PTL

\* Without a repeated, lost or abandoned push every byte is billed exactly once.
THEOREM BilledExactlyOnce == Spec => []BilledOnce
<1>1. IInv => BilledOnce
  BY DEF IInv
<1> QED BY <1>1, Invariance, PTL

\* replaceUsersLocked never drops a counter that holds bytes, belongs to a
\* listed user or is the one a connection of the map points to.
THEOREM CountersKept == Spec => []PendingKept
<1>1. IInv => PendingKept
  BY DEF IInv
<1> QED BY <1>1, Invariance, PTL

-----------------------------------------------------------------------------
(* Embedded implements Ledger: the embedded runtime and its report task    *)
(* keep the promise about traffic that the panel relies on.  While nothing *)
(* went wrong the claim is what was counted less what was booked           *)
(* (ExactClaim), because BilledOnce holds and the pushed slice is still on *)
(* the counters; after a lapse it is Books that keeps everything counted   *)
(* claimed or booked.                                                      *)

\* The books only grow, on one side at a time, and a lapse is for good.
BooksGrow ==
  /\ \A u \in Uuid, d \in Dir :
       metered[u][d] <= metered'[u][d] /\ billed[u][d] <= billed'[u][d]
  /\ metered' = metered \/ billed' = billed
  /\ faults <= faults'

\* A step that leaves the books and the lapses alone.
LEMMA BooksFrame ==
  ASSUME TypeOK, UNCHANGED <<metered, billed>>, faults <= faults'
  PROVE  BooksGrow
  BY DEF BooksGrow, TypeOK, Traffic

\* Only a connection that counts and a panel that books move the books.
LEMMA StepGrows ==
  ASSUME TypeOK, [Next]_vars
  PROVE  BooksGrow
<1>1. ASSUME NEW c \in Conn, NEW d \in Dir, NEW n \in Chunk, count(c, d, n)
      PROVE  BooksGrow
  <2>1. n \in Nat /\ metered \in Traffic /\ billed \in Traffic /\ faults \in Nat
    BY ChunkAssumption DEF TypeOK
  <2>2. billed' = billed /\ faults' = faults
    BY <1>1 DEF count
  <2>3. CASE metered' = metered
    BY <2>1, <2>2, <2>3, BooksFrame
  <2>4. CASE metered' = add(metered, conn[c].uuid, d, n)
    <3>1. ASSUME NEW v \in Uuid, NEW k \in Dir
          PROVE  metered[v][k] <= metered'[v][k] /\ billed[v][k] <= billed'[v][k]
      <4>1. metered'[v][k] = IF v = conn[c].uuid /\ k = d
                             THEN metered[v][k] + n ELSE metered[v][k]
        BY <2>1, <2>4, Added
      <4>2. metered[v][k] \in Nat /\ billed[v][k] \in Nat
        BY <2>1 DEF Traffic
      <4> QED BY <2>1, <2>2, <4>1, <4>2
    <3> QED BY <2>1, <2>2, <3>1 DEF BooksGrow
  <2> QED BY <1>1, <2>3, <2>4 DEF count
<1>2. ASSUME NEW e \in Slot, panelAccepts(e)
      PROVE  BooksGrow
  <2>1. metered' = metered /\ faults <= faults'
    BY <1>2 DEF panelAccepts, fault, TypeOK
  <2>2. ASSUME NEW u \in Uuid, NEW d \in Dir
        PROVE  metered[u][d] <= metered'[u][d] /\ billed[u][d] <= billed'[u][d]
    <3>1. billed'[u][d] = billed[u][d] + rep[e].slice[u][d]
      BY <1>2 DEF panelAccepts, Plus
    <3>2. metered[u][d] \in Nat /\ billed[u][d] \in Nat /\ rep[e].slice[u][d] \in Nat
      BY Numbers DEF Slot
    <3> QED BY <2>1, <3>1, <3>2
  <2> QED BY <2>1, <2>2 DEF BooksGrow
<1>3. faults \in Nat
  BY DEF TypeOK
<1>4. ASSUME NEW e \in Slot, reportStep(e), ~panelAccepts(e)
      PROVE  UNCHANGED <<metered, billed>> /\ faults <= faults'
  BY <1>3, <1>4 DEF reportStep, pushReturns, pushFails, pushTimesOut, ConfirmUserTraffic,
                    GetOnlineDevice, ReportNodeOnlineUsers, fault, gvars
<1>5. ASSUME NEW c \in Conn, connStep(c), ~\E d \in Dir, n \in Chunk : count(c, d, n)
      PROVE  UNCHANGED <<metered, billed>> /\ faults <= faults'
  BY <1>3, <1>5 DEF connStep, handleConn, counterForUserHash, rejectConn, startSession,
                    controlFailed, unknownControl, sessionEnd, drained, gvars
<1>6. ASSUME NEW l \in UserLists, NEW ok \in BOOLEAN, UpdateUsers(l, ok)
      PROVE  UNCHANGED <<metered, billed>> /\ faults <= faults'
  BY <1>3, <1>6 DEF UpdateUsers, gvars
<1>7. ASSUME Tick \/ GetUserTrafficSlice \/ executionTimedOut \/ taskStops \/ Close
               \/ closeReturns \/ UNCHANGED vars
      PROVE  UNCHANGED <<metered, billed>> /\ faults <= faults'
  BY <1>3, <1>7 DEF Tick, GetUserTrafficSlice, executionTimedOut, taskStops, Close,
                    closeReturns, vars, gvars, fault
<1> QED BY <1>1, <1>2, <1>4, <1>5, <1>6, <1>7, BooksFrame DEF Next

\* The claim of one user and direction.
LEMMA ClaimAt ==
  ASSUME TypeOK, NEW u \in Uuid, NEW d \in Dir
  PROVE  /\ Claim[u][d] \in Nat
         /\ Due("cur", u, d) + Due("late", u, d) <= pend[u][d] =>
              Claim[u][d] + Due("cur", u, d) + Due("late", u, d) = pend[u][d]
         /\ pend[u][d] <= Claim[u][d] + Due("cur", u, d) + Due("late", u, d)
<1>1. /\ pend[u][d] \in Nat /\ Due("cur", u, d) \in Nat /\ Due("late", u, d) \in Nat
  BY Numbers
<1>2. Claim[u][d] = LET owed == Due("cur", u, d) + Due("late", u, d)
                    IN  IF owed >= pend[u][d] THEN 0 ELSE pend[u][d] - owed
  BY DEF Claim
<1> QED BY <1>1, <1>2

LEMMA ClaimType ==
  ASSUME TypeOK
  PROVE  Claim \in Traffic
<1>1. \A u \in Uuid, d \in Dir : Claim[u][d] \in Nat
  BY ClaimAt
<1>2. Claim = [u \in Uuid |-> [d \in Dir |-> Claim[u][d]]]
  BY DEF Claim
<1> QED BY <1>1, <1>2 DEF Traffic

\* While nothing went wrong: counted is claimed plus booked.
LEMMA ExactClaim ==
  ASSUME IInv, faults = 0, NEW u \in Uuid, NEW d \in Dir
  PROVE  Claim[u][d] + billed[u][d] = metered[u][d]
<1>1. TypeOK /\ BilledOnce /\ Accounts
  BY DEF IInv
<1>2. /\ metered[u][d] \in Nat /\ pend[u][d] \in Nat /\ billed[u][d] \in Nat
      /\ Due("cur", u, d) \in Nat /\ rep["cur"].slice[u][d] \in Nat
  BY <1>1, Numbers
<1>3. Due("late", u, d) = 0
  BY <1>1 DEF Accounts, Covered, Due
<1>4. Due("cur", u, d) <= pend[u][d]
  BY <1>1, <1>2 DEF Accounts, Covered, Due
<1>5. metered[u][d] + Due("cur", u, d) = pend[u][d] + billed[u][d]
  BY <1>1 DEF BilledOnce
<1>6. Claim[u][d] \in Nat /\ Claim[u][d] + Due("cur", u, d) + Due("late", u, d) = pend[u][d]
  BY <1>1, <1>2, <1>3, <1>4, ClaimAt
<1> QED BY <1>2, <1>3, <1>5, <1>6

\* In any case: counted is at most claimed plus booked.
LEMMA LooseClaim ==
  ASSUME IInv, NEW u \in Uuid, NEW d \in Dir
  PROVE  metered[u][d] <= Claim[u][d] + billed[u][d]
<1>1. TypeOK /\ Accounts
  BY DEF IInv
<1>2. /\ metered[u][d] \in Nat /\ pend[u][d] \in Nat /\ billed[u][d] \in Nat
      /\ Due("cur", u, d) \in Nat /\ Due("late", u, d) \in Nat
  BY <1>1, Numbers
<1>3. metered[u][d] + Due("cur", u, d) + Due("late", u, d) <= pend[u][d] + billed[u][d]
  BY <1>1 DEF Accounts, Books
<1>4. Claim[u][d] \in Nat /\ pend[u][d] <= Claim[u][d] + Due("cur", u, d) + Due("late", u, d)
  BY <1>1, ClaimAt
<1> QED BY <1>2, <1>3, <1>4

\* What the mapping keeps true of the claim in every reachable state.
ClaimInv ==
  /\ Claim \in Traffic
  /\ \A u \in Uuid, d \in Dir : metered[u][d] <= Claim[u][d] + billed[u][d]
  /\ faults = 0 => \A u \in Uuid, d \in Dir : Claim[u][d] + billed[u][d] = metered[u][d]

LEMMA ClaimHolds == IInv => ClaimInv
  BY ClaimType, LooseClaim, ExactClaim DEF ClaimInv, IInv

-----------------------------------------------------------------------------

LEMMA LedgerInit == Init => L!Init
<1> SUFFICES ASSUME Init PROVE L!Init
  OBVIOUS
<1>1. IInv
  BY InitInv
<1>2. /\ metered = NoTraffic /\ billed = NoTraffic /\ pend = NoTraffic /\ faults = 0
      /\ rep = [e \in Slot |-> IdleRep]
  BY DEF Init
<1>3. ASSUME NEW u \in Uuid, NEW d \in Dir
      PROVE  Claim[u][d] = 0
  <2>1. Claim[u][d] + billed[u][d] = metered[u][d]
    BY <1>1, <1>2, ExactClaim
  <2>2. billed[u][d] = 0 /\ metered[u][d] = 0
    BY <1>2 DEF NoTraffic, Zero
  <2>3. Claim[u][d] \in Nat
    BY <1>1, ClaimAt DEF IInv
  <2> QED BY <2>1, <2>2, <2>3
<1>4. Claim = [u \in Uuid |-> [d \in Dir |-> Claim[u][d]]]
  BY DEF Claim
<1>5. Claim = [u \in Uuid |-> [d \in Dir |-> 0]]
  BY <1>3, <1>4
<1> QED BY <1>2, <1>5 DEF L!Init, L!Nothing, NoTraffic, Zero

LEMMA LedgerStep ==
  IInv /\ ClaimInv /\ IInv' /\ ClaimInv' /\ [Next]_vars => [L!Next]_(L!lvars)
<1> SUFFICES ASSUME IInv, ClaimInv, IInv', ClaimInv', [Next]_vars PROVE L!Next
  OBVIOUS
<1>1. TypeOK /\ TypeOK'
  BY DEF IInv
<1>2. BooksGrow
  BY <1>1, StepGrows
<1>3. faults \in Nat /\ faults' \in Nat
  BY <1>1 DEF TypeOK
<1>4. Claim \in Traffic /\ Claim' \in Traffic
  BY DEF ClaimInv
<1>5. CASE faults' > 0
  <2>1. \A u \in Uuid, d \in Dir : metered'[u][d] <= Claim'[u][d] + billed'[u][d]
    BY DEF ClaimInv
  <2>2. L!AtMost(metered, metered') /\ L!AtMost(billed, billed')
    BY <1>2 DEF BooksGrow, L!AtMost
  <2>3. L!AtMost(metered', L!Sum(Claim', billed'))
    BY <2>1 DEF L!AtMost, L!Sum
  <2> QED BY <1>4, <1>5, <2>2, <2>3 DEF L!Next, L!Lapse, L!Amounts, Traffic
<1>6. CASE faults' = 0
  <2>1. faults = 0
    BY <1>2, <1>3, <1>6 DEF BooksGrow
  <2>2. ASSUME NEW u \in Uuid, NEW d \in Dir
        PROVE  /\ Claim[u][d] + billed[u][d] = metered[u][d]
               /\ Claim'[u][d] + billed'[u][d] = metered'[u][d]
               /\ Claim[u][d] \in Nat /\ Claim'[u][d] \in Nat
               /\ billed[u][d] \in Nat /\ billed'[u][d] \in Nat
               /\ metered[u][d] \in Nat /\ metered'[u][d] \in Nat
    <3>1. Claim[u][d] + billed[u][d] = metered[u][d]
          /\ Claim'[u][d] + billed'[u][d] = metered'[u][d]
      BY <1>6, <2>1 DEF ClaimInv
    <3>2. Claim[u][d] \in Nat /\ Claim'[u][d] \in Nat
      BY <1>4 DEF Traffic
    <3>3. billed[u][d] \in Nat /\ billed'[u][d] \in Nat
          /\ metered[u][d] \in Nat /\ metered'[u][d] \in Nat
      BY <1>1 DEF TypeOK, Traffic
    <3> QED BY <3>1, <3>2, <3>3
  <2>3. CASE billed' = billed
    <3>1. \A u \in Uuid, d \in Dir : Claim'[u][d] + metered[u][d] = Claim[u][d] + metered'[u][d]
      BY <2>2, <2>3
    <3>2. L!Sum(Claim', metered) = L!Sum(Claim, metered')
      BY <3>1 DEF L!Sum
    <3>3. L!AtMost(metered, metered')
      BY <1>2 DEF BooksGrow, L!AtMost
    <3> QED BY <1>4, <1>6, <2>1, <2>3, <3>2, <3>3 DEF L!Next, L!Carry, L!Amounts, Traffic
  <2>4. CASE metered' = metered
    <3>1. \A u \in Uuid, d \in Dir : Claim'[u][d] + billed'[u][d] = Claim[u][d] + billed[u][d]
      BY <2>2, <2>4
    <3>2. L!Sum(Claim', billed') = L!Sum(Claim, billed)
      BY <3>1 DEF L!Sum
    <3>3. L!AtMost(billed, billed')
      BY <1>2 DEF BooksGrow, L!AtMost
    <3> QED BY <1>4, <1>6, <2>1, <2>4, <3>2, <3>3 DEF L!Next, L!Book, L!Amounts, Traffic
  <2> QED BY <1>2, <2>3, <2>4 DEF BooksGrow
<1> QED BY <1>3, <1>5, <1>6

\* The embedded runtime and its report task implement the Ledger: until a push
\* goes wrong the panel books exactly what was counted and not yet booked, and
\* what was counted is claimed or booked whatever happens.
THEOREM ImplementsLedger == Spec => KeepsLedger
<1>1. Init => L!Init
  BY LedgerInit
<1>2. IInv /\ ClaimInv /\ IInv' /\ ClaimInv' /\ [Next]_vars => [L!Next]_(L!lvars)
  BY LedgerStep
<1>3. IInv => ClaimInv
  BY ClaimHolds
<1> QED BY <1>1, <1>2, <1>3, Invariance, PTL DEF Spec, KeepsLedger, L!Spec

\* Counters, pushes under way and the task loop keep step, the invariant the
\* accounting theorems rest on.
THEOREM AccountsKept == Spec => []Accounts
<1>1. IInv => Accounts
  BY DEF IInv
<1> QED BY <1>1, Invariance, PTL

=============================================================================
