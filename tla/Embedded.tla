------------------------------ MODULE Embedded ------------------------------
(***************************************************************************)
(* One instance of the embedded runtime (internal/runtime/embedded.go,     *)
(* counting.go) together with the report task that drains it               *)
(* (Controller.reportUserTrafficTask run by task.Task).                    *)
(*                                                                         *)
(* The runtime keeps, per UUID, a trafficCounter that connections write to *)
(* without holding e.mu: a connection resolves the pointer once, after its *)
(* handshake, and keeps it until it ends.  A counter that was dropped from *)
(* the map is never read again, so a pointer is modelled by one bit: the   *)
(* connection's counter is the one in the map ("live") or it is not.       *)
(*                                                                         *)
(* A user hash is the pair <<uid, uuid>>: deterministic_split derives the  *)
(* key from the node id, the user id, the UUID and the master key, and the *)
(* first and the last are fixed for one instance.                          *)
(*                                                                         *)
(* A definition whose comment begins with "Mutant" is a faulty variant of  *)
(* the one that follows it, which some property must tell from the real    *)
(* one; it is no part of the specification.                                *)
(***************************************************************************)
EXTENDS Integers

CONSTANTS
  Uuid,        \* the user UUIDs the panel may list
  NoUuid,      \* the empty UUID
  Uid,         \* panel user ids, 0 included: the zero value of UserInfo.Id
  Absent,      \* no entry in a map
  Conn,        \* client connections open at the same time
  UserLists,   \* the user lists the panel may return, as maps uuid -> id
  ReportMin,   \* node_report_min_traffic, in the model's byte units
  RetryCount,  \* resty retries of one push
  OnlineTTL,   \* push intervals an online entry stays valid (2 in the code)
  Chunk,       \* sizes of one Read or Write
  MaxBytes,    \* bound: bytes carried per user and direction
  MaxFaults    \* bound: pushes repeated, failed after booking or abandoned

ASSUME UuidAssumption == NoUuid \notin Uuid
ASSUME UidAssumption == Uid \subseteq Nat /\ Absent \notin Nat
ASSUME ListAssumption ==
  \A l \in UserLists : DOMAIN l \subseteq Uuid \cup {NoUuid}
                       /\ \A u \in DOMAIN l : l[u] \in Uid
ASSUME NumAssumption == ReportMin \in Nat /\ RetryCount \in Nat /\ OnlineTTL \in Nat
ASSUME ChunkAssumption == Chunk \subseteq Nat \ {0} /\ MaxBytes \in Nat /\ MaxFaults \in Nat

VARIABLES
  users,      \* e.users: uuid -> user id, or Absent
  hashed,     \* e.userHashToUUID: hash <<hashed[u], u>> maps to u
  counters,   \* the keys of e.counters
  pend,       \* up and down of the counter in the map
  online,     \* e.online: push intervals since seenAt, or Absent
  conn,       \* the handler goroutine of each connection
  server,     \* "up", "closing" (in Embedded.Close) or "closed"
  taskLoop,   \* goroutine of Task.Start: "wait", "exec" or "stopped"
  rep,        \* executions of reportUserTrafficTask
  metered,    \* ghost: bytes counted on the counter in the map
  unmetered,  \* ghost: bytes counted on a counter dropped from the map
  billed,     \* ghost: bytes the panel added to its books
  faults      \* ghost: pushes repeated, failed after booking or abandoned

tvars == <<users, hashed, counters, pend, online, conn>>
gvars == <<metered, unmetered, billed, faults>>
vars == <<tvars, server, taskLoop, rep, gvars>>

Dir == {"up", "down"}
Slot == {"cur", "late"}   \* the execution the task waits for; an abandoned one
Zero == [d \in Dir |-> 0]
NoTraffic == [u \in Uuid |-> Zero]
Total(t) == t["up"] + t["down"]
Plus(f, g) == [u \in Uuid |-> [d \in Dir |-> f[u][d] + g[u][d]]]

\* A user the runtime serves: present, with a non-zero id.
Listed(u) == users[u] \notin {Absent, 0}

Idle == [st |-> "idle", uuid |-> NoUuid, live |-> FALSE]
RepAt(pc) == [pc |-> pc, slice |-> NoTraffic, sent |-> 0]
IdleRep == RepAt("idle")

\* A push the panel booked that the node will not confirm, or books again.
fault(harm) == /\ harm => faults < MaxFaults
               /\ faults' = IF harm THEN faults + 1 ELSE faults

-----------------------------------------------------------------------------
(* The user table.                                                         *)

\* users of a list entry with an empty UUID are skipped
tableOf(l) == [u \in Uuid |-> IF u \in DOMAIN l THEN l[u] ELSE Absent]

\* Mutant: replaceUsersLocked drops every counter of an unlisted user.
countersListed(l) == {u \in Uuid : u \in DOMAIN l}

\* A listed UUID has a counter; the counter of an unlisted one survives only
\* while it holds bytes.
countersOf(l) ==
  {u \in Uuid : u \in DOMAIN l \/ (u \in counters /\ pend[u] # Zero)}

\* Connections whose counter left the map keep writing to it unseen.
detach(kept) ==
  [c \in Conn |-> [conn[c] EXCEPT !.live = conn[c].live /\ conn[c].uuid \in kept]]

replaceUsersLocked(l) ==
  /\ users' = tableOf(l)
  /\ counters' = countersOf(l)
  /\ conn' = detach(countersOf(l))

\* BuildMappings may fail (key file limit, key file I/O): the old hashes stay.
rebuildUserHashesLocked(ok) ==
  hashed' = IF ok THEN users' ELSE hashed

\* The full list is always passed, so the incremental branch never runs.
UpdateUsers(l, ok) ==
  /\ replaceUsersLocked(l)
  /\ rebuildUserHashesLocked(ok)
  /\ UNCHANGED <<pend, online, server, taskLoop, rep, gvars>>

-----------------------------------------------------------------------------
(* Connections.                                                            *)

\* acceptLoop, registerConn and the httpmask prelude
handleConn(c) ==
  /\ server = "up"
  /\ conn[c].st = "idle"
  /\ conn' = [conn EXCEPT ![c].st = "handshake"]
  /\ UNCHANGED <<users, hashed, counters, pend, online, server, taskLoop, rep, gvars>>

\* The handshake named hash <<i, u>> and the runtime knows it.
counterForUserHash(c, i, u) ==
  /\ conn[c].st = "handshake"
  /\ hashed[u] = i
  /\ Listed(u)
  /\ counters' = counters \cup {u}
  /\ online' = [online EXCEPT ![u] = 0]
  /\ conn' = [conn EXCEPT ![c] = [st |-> "control", uuid |-> u, live |-> TRUE]]
  /\ UNCHANGED <<users, hashed, pend, server, taskLoop, rep, gvars>>

\* Failed or suspicious handshake, or a hash without a listed user.
rejectConn(c) ==
  /\ conn[c].st = "handshake"
  /\ conn' = [conn EXCEPT ![c] = Idle]
  /\ UNCHANGED <<users, hashed, counters, pend, online, server, taskLoop, rep, gvars>>

\* trafficCounter.addUpload and addDownload
add(f, u, d, n) == [f EXCEPT ![u][d] = @ + n]

\* countingConn.Read and Write: add to the counter the connection points to.
\* "drain" is the second copy goroutine of pipeConn (or handleUoT), which may
\* still count what it moved after the handler returned.
count(c, d, n) ==
  LET u == conn[c].uuid IN
  /\ conn[c].st \in {"relay", "drain"} \/ (conn[c].st = "control" /\ d = "up")
  /\ metered[u][d] + unmetered[u][d] + n <= MaxBytes
  /\ IF conn[c].live
     THEN /\ pend' = add(pend, u, d, n)
          /\ metered' = add(metered, u, d, n)
          /\ UNCHANGED unmetered
     ELSE /\ unmetered' = add(unmetered, u, d, n)
          /\ UNCHANGED <<pend, metered>>
  /\ UNCHANGED <<users, hashed, counters, online, conn, server, taskLoop, rep,
                 billed, faults>>

\* markOffline refreshes seenAt when the entry is still there.
markOffline(u) ==
  online' = [online EXCEPT ![u] = IF @ = Absent THEN Absent ELSE 0]

\* A StartUoT, StartMux or OpenTCP message whose target answered.
startSession(c) ==
  /\ conn[c].st = "control"
  /\ conn' = [conn EXCEPT ![c].st = "relay"]
  /\ UNCHANGED <<users, hashed, counters, pend, online, server, taskLoop, rep, gvars>>

\* readFirstControl, ReadAddress or the dial failed: return, no markOffline.
controlFailed(c) ==
  /\ conn[c].st = "control"
  /\ conn' = [conn EXCEPT ![c] = Idle]
  /\ UNCHANGED <<users, hashed, counters, pend, online, server, taskLoop, rep, gvars>>

\* An unknown control message: log and markOffline.
unknownControl(c) ==
  /\ conn[c].st = "control"
  /\ markOffline(conn[c].uuid)
  /\ conn' = [conn EXCEPT ![c] = Idle]
  /\ UNCHANGED <<users, hashed, counters, pend, server, taskLoop, rep, gvars>>

\* pipeConn (or the uot or mux session) returned after its first error.
sessionEnd(c) ==
  /\ conn[c].st = "relay"
  /\ markOffline(conn[c].uuid)
  /\ conn' = [conn EXCEPT ![c].st = "drain"]
  /\ UNCHANGED <<users, hashed, counters, pend, server, taskLoop, rep, gvars>>

drained(c) ==
  /\ conn[c].st = "drain"
  /\ conn' = [conn EXCEPT ![c] = Idle]
  /\ UNCHANGED <<users, hashed, counters, pend, online, server, taskLoop, rep, gvars>>

\* One push interval passes.
Tick ==
  /\ \E u \in Uuid : online[u] \in 0..OnlineTTL
  /\ online' = [u \in Uuid |-> IF online[u] \in 0..OnlineTTL
                               THEN online[u] + 1 ELSE online[u]]
  /\ UNCHANGED <<users, hashed, counters, pend, conn, server, taskLoop, rep, gvars>>

-----------------------------------------------------------------------------
(* The report task.                                                        *)

\* Mutant: the threshold is off by one.
sliceAboveNext(u) ==
  IF u \in counters /\ Total(pend[u]) > ReportMin + 1 /\ Listed(u) THEN pend[u] ELSE Zero

sliceOf(u) ==
  IF u \in counters /\ Total(pend[u]) > ReportMin /\ Listed(u) THEN pend[u] ELSE Zero

\* The timer fires and reportUserTrafficTask takes its snapshot.
GetUserTrafficSlice ==
  /\ taskLoop = "wait"
  /\ taskLoop' = "exec"
  /\ LET slice == [u \in Uuid |-> sliceOf(u)]
     IN  rep' = [rep EXCEPT !["cur"] =
           [pc |-> IF slice = NoTraffic THEN "online" ELSE "push",
            slice |-> slice, sent |-> 0]]
  /\ UNCHANGED <<tvars, server, gvars>>

\* The panel receives one attempt of the push and books it.
panelAccepts(e) ==
  /\ rep[e].pc = "push"
  /\ rep[e].sent <= RetryCount
  /\ rep' = [rep EXCEPT ![e].sent = @ + 1]
  /\ billed' = Plus(billed, rep[e].slice)
  /\ fault(rep[e].sent > 0)
  /\ UNCHANGED <<tvars, server, taskLoop, metered, unmetered>>

\* ReportUserTraffic returned nil.
pushReturns(e) ==
  /\ rep[e].pc = "push"
  /\ rep[e].sent > 0
  /\ rep' = [rep EXCEPT ![e].pc = "confirm"]
  /\ UNCHANGED <<tvars, server, taskLoop, gvars>>

\* ReportUserTraffic returned an error other than a timeout.
pushFails(e) ==
  /\ rep[e].pc = "push"
  /\ rep' = [rep EXCEPT ![e] = RepAt("online")]
  /\ fault(rep[e].sent > 0)
  /\ UNCHANGED <<tvars, server, taskLoop, metered, unmetered, billed>>

\* Mutant: an abandoned execution that returns wakes the loop as well.
returnAny(e) ==
  /\ rep' = [rep EXCEPT ![e] = IdleRep]
  /\ taskLoop' = "wait"

\* Execution e returns; the task loop goes on if it still waits for e.
return(e) ==
  /\ rep' = [rep EXCEPT ![e] = IdleRep]
  /\ taskLoop' = IF e = "cur" THEN "wait" ELSE taskLoop

\* ReportUserTraffic timed out or was cancelled: the whole task returns.
pushTimesOut(e) ==
  /\ rep[e].pc = "push"
  /\ return(e)
  /\ fault(rep[e].sent > 0)
  /\ UNCHANGED <<tvars, server, metered, unmetered, billed>>

\* Mutant: the counter is not clamped.
subtractUnclamped(p, s) == p - s

\* Mutant: the counter is reset instead.
subtractAll(p, s) == 0

\* trafficCounter.subtract stops at zero.
subtract(p, s) == IF s >= p THEN 0 ELSE p - s

\* Mutant: the confirmation takes nothing off.
confirmNothing(e) ==
  /\ rep[e].pc = "confirm"
  /\ rep' = [rep EXCEPT ![e] = RepAt("online")]
  /\ UNCHANGED <<tvars, server, taskLoop, gvars>>

ConfirmUserTraffic(e) ==
  /\ rep[e].pc = "confirm"
  /\ pend' = [u \in Uuid |-> IF u \in counters
                             THEN [d \in Dir |-> subtract(pend[u][d], rep[e].slice[u][d])]
                             ELSE pend[u]]
  /\ rep' = [rep EXCEPT ![e] = RepAt("online")]
  /\ UNCHANGED <<users, hashed, counters, online, conn, server, taskLoop, gvars>>

\* Mutant: expired entries are skipped and stay in the map.
onlineKept(e) ==
  /\ rep[e].pc = "online"
  /\ IF \E u \in Uuid : online[u] \in 0..OnlineTTL /\ Listed(u)
     THEN rep' = [rep EXCEPT ![e] = RepAt("alive")] /\ UNCHANGED taskLoop
     ELSE return(e)
  /\ UNCHANGED <<tvars, server, gvars>>

\* Expired entries are dropped; nobody online ends the execution.
GetOnlineDevice(e) ==
  /\ rep[e].pc = "online"
  /\ online' = [u \in Uuid |-> IF online[u] # Absent /\ online[u] > OnlineTTL
                               THEN Absent ELSE online[u]]
  /\ IF \E u \in Uuid : online'[u] # Absent /\ Listed(u)
     THEN rep' = [rep EXCEPT ![e] = RepAt("alive")] /\ UNCHANGED taskLoop
     ELSE return(e)
  /\ UNCHANGED <<users, hashed, counters, pend, conn, server, gvars>>

\* ReportNodeOnlineUsers returned, with or without an error.
ReportNodeOnlineUsers(e) ==
  /\ rep[e].pc = "alive"
  /\ return(e)
  /\ UNCHANGED <<tvars, server, gvars>>

\* ExecuteWithTimeout gives up on the execution, which goes on by itself.
\* Bound: one abandoned execution at a time.
executionTimedOut ==
  /\ taskLoop = "exec"
  /\ rep["late"].pc = "idle"
  /\ rep' = [rep EXCEPT !["late"] = rep["cur"], !["cur"] = IdleRep]
  /\ taskLoop' = "wait"
  /\ fault(TRUE)
  /\ UNCHANGED <<tvars, server, metered, unmetered, billed>>

\* The loop sees the closed Stop channel.
taskStops ==
  /\ server # "up"
  /\ taskLoop = "wait"
  /\ taskLoop' = "stopped"
  /\ UNCHANGED <<tvars, server, rep, gvars>>

-----------------------------------------------------------------------------
(* Controller.Close: stop the tasks, close the listener and the registered *)
(* connections, then wait for the handlers (not for the copy goroutines    *)
(* or a running report).                                                   *)

Close ==
  /\ server = "up"
  /\ server' = "closing"
  /\ UNCHANGED <<tvars, taskLoop, rep, gvars>>

closeReturns ==
  /\ server = "closing"
  /\ \A c \in Conn : conn[c].st \in {"idle", "drain"}
  /\ server' = "closed"
  /\ UNCHANGED <<tvars, taskLoop, rep, gvars>>

-----------------------------------------------------------------------------

Init ==
  /\ \E l \in UserLists : /\ users = tableOf(l)
                          /\ counters = {u \in Uuid : u \in DOMAIN l}
  /\ hashed = users
  /\ pend = NoTraffic
  /\ online = [u \in Uuid |-> Absent]
  /\ conn = [c \in Conn |-> Idle]
  /\ server = "up"
  /\ taskLoop = "wait"
  /\ rep = [e \in Slot |-> IdleRep]
  /\ metered = NoTraffic
  /\ unmetered = NoTraffic
  /\ billed = NoTraffic
  /\ faults = 0

connStep(c) ==
  \/ handleConn(c)
  \/ \E i \in Uid, u \in Uuid : counterForUserHash(c, i, u)
  \/ rejectConn(c)
  \/ \E d \in Dir, n \in Chunk : count(c, d, n)
  \/ startSession(c)
  \/ controlFailed(c)
  \/ unknownControl(c)
  \/ sessionEnd(c)
  \/ drained(c)

reportStep(e) ==
  \/ panelAccepts(e)
  \/ pushReturns(e)
  \/ pushFails(e)
  \/ pushTimesOut(e)
  \/ ConfirmUserTraffic(e)
  \/ GetOnlineDevice(e)
  \/ ReportNodeOnlineUsers(e)

Next ==
  \/ \E l \in UserLists, ok \in BOOLEAN : UpdateUsers(l, ok)
  \/ \E c \in Conn : connStep(c)
  \/ Tick
  \/ GetUserTrafficSlice
  \/ \E e \in Slot : reportStep(e)
  \/ executionTimedOut
  \/ taskStops
  \/ Close
  \/ closeReturns

Spec == Init /\ [][Next]_vars

-----------------------------------------------------------------------------
(* Fairness: the Go scheduler runs the report goroutine, timers fire, time *)
(* passes, and a push that is tried again and again gets through in the    *)
(* end.  Nothing is assumed about clients, user updates or Close.          *)

Fairness ==
  /\ WF_vars(GetUserTrafficSlice)
  /\ WF_vars(Tick)
  /\ \A e \in Slot : WF_vars(reportStep(e))
  /\ SF_vars(panelAccepts("cur"))
  /\ SF_vars(pushReturns("cur"))

FairSpec == Spec /\ Fairness

-----------------------------------------------------------------------------
(* Properties.                                                             *)

Traffic == [Uuid -> [Dir -> Nat]]

\* Every variable stays in its type: in particular an entry of e.users has an
\* id of the panel and an execution of the report task a known place.
TypeOK ==
  /\ users \in [Uuid -> Uid \cup {Absent}]
  /\ hashed \in [Uuid -> Uid \cup {Absent}]
  /\ counters \subseteq Uuid
  /\ pend \in Traffic
  /\ online \in [Uuid -> 0..(OnlineTTL + 1) \cup {Absent}]
  /\ conn \in [Conn -> [st : {"idle", "handshake", "control", "relay", "drain"},
                        uuid : Uuid \cup {NoUuid}, live : BOOLEAN]]
  /\ server \in {"up", "closing", "closed"}
  /\ taskLoop \in {"wait", "exec", "stopped"}
  /\ rep \in [Slot -> [pc : {"idle", "push", "confirm", "online", "alive"},
                       slice : Traffic, sent : Nat]]
  /\ metered \in Traffic
  /\ unmetered \in Traffic
  /\ billed \in Traffic
  /\ faults \in Nat

\* What execution e has got booked by the panel and not yet taken off the
\* counter.
Due(e, u, d) ==
  IF rep[e].pc = "confirm" \/ (rep[e].pc = "push" /\ rep[e].sent > 0)
  THEN rep[e].slice[u][d] ELSE 0

\* A byte counted for a user is still on the counter or was booked by the
\* panel: ConfirmUserTraffic and its clamped subtract never take off more than
\* was pushed, whatever was counted, lost, repeated or abandoned between the
\* snapshot and the confirmation.
NothingDropped ==
  \A u \in Uuid, d \in Dir : metered[u][d] <= pend[u][d] + billed[u][d]

\* While no push was repeated, failed after the panel had booked it, or was
\* abandoned by the task's timeout, each byte is billed once: counter plus
\* books is what was counted plus what is booked and about to be taken off.
BilledOnce ==
  faults = 0 =>
    \A u \in Uuid, d \in Dir :
      metered[u][d] + Due("cur", u, d) = pend[u][d] + billed[u][d]

\* replaceUsersLocked never drops a counter that holds bytes, and every listed
\* user and every connection with a live pointer has a counter in the map.
PendingKept ==
  /\ \A u \in Uuid : pend[u] # Zero \/ users[u] # Absent => u \in counters
  /\ \A c \in Conn : conn[c].live => conn[c].uuid \in counters

\* Why NothingDropped and BilledOnce survive every step.
\* The books, with the booked pushes of both executions still in flight:
Books ==
  \A u \in Uuid, d \in Dir :
    metered[u][d] + Due("cur", u, d) + Due("late", u, d) <= pend[u][d] + billed[u][d]

\* a task loop that waits (or stopped) has no current execution;
TaskShape == taskLoop # "exec" => rep["cur"].pc = "idle"

\* and, while nothing went wrong, there is no abandoned execution and the pushed
\* slice is still on the counters when ConfirmUserTraffic runs.
Covered ==
  faults = 0 =>
    /\ rep["late"].pc = "idle"
    /\ rep["cur"].pc \in {"push", "confirm"} =>
         \A u \in Uuid, d \in Dir : rep["cur"].slice[u][d] <= pend[u][d]

\* ExecuteWithTimeout, reportUserTrafficTask and the counters keep step.
Accounts == Books /\ TaskShape /\ Covered

\* What the panel has still to book: the counters, less the booked pushes that
\* were not yet taken off them.
Claim ==
  [u \in Uuid |-> [d \in Dir |->
    LET owed == Due("cur", u, d) + Due("late", u, d)
    IN  IF owed >= pend[u][d] THEN 0 ELSE pend[u][d] - owed]]

L == INSTANCE Ledger WITH User <- Uuid, Side <- Dir, carried <- metered,
                          booked <- billed, claim <- Claim, lapsed <- faults > 0

\* Counters, snapshots, retried pushes and clamped confirmations, two executions
\* of reportUserTrafficTask at a time, add up to the Ledger: the panel books only
\* what was counted and not yet booked until a push goes wrong, and nothing that
\* was counted is ever forgotten.
KeepsLedger == L!Spec

\* Traffic of a listed user above the report threshold is confirmed in the end,
\* unless the user is removed or the server closed first.
TrafficReported ==
  \A u \in Uuid :
    (Total(pend[u]) > ReportMin /\ Listed(u))
      ~> (Total(pend[u]) <= ReportMin \/ ~Listed(u) \/ server # "up")

\* An entry of e.online that outlived its time is purged by GetOnlineDevice or
\* refreshed by its user; it does not stay for ever.
OnlineExpires ==
  \A u \in Uuid :
    online[u] = OnlineTTL + 1 ~> (online[u] # OnlineTTL + 1 \/ server # "up")

\* README.md:14 says the embedded engine "reports per-user traffic": a session
\* of a listed user counts on the counter the report task reads.  It does not
\* after the user was removed and listed again under an idle counter.
OpenSessionsMetered ==
  \A c \in Conn :
    conn[c].st \in {"control", "relay"} /\ Listed(conn[c].uuid) => conn[c].live

=============================================================================
