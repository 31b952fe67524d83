------------------------------ MODULE External ------------------------------
(***************************************************************************)
(* The external runtime (internal/runtime/external.go): a node loop that   *)
(* starts and closes instances one after the other, the Sudoku process     *)
(* each instance runs, the goroutine that waits for it (startLocked), the  *)
(* goroutine that polls e.cmd (stopLocked), and the traffic events of the  *)
(* process with the report task that drains them.                          *)
(*                                                                         *)
(* Only Close holds e.mu for longer than one step: stopLocked keeps it     *)
(* while it waits, so every other user of e.mu is blocked in "closing".    *)
(* The configuration an instance writes depends on the node and on the     *)
(* settings it was built from, which never change: its hash stays the one  *)
(* Start wrote and applyConfigLocked never restarts the process.           *)
(*                                                                         *)
(* A definition whose comment begins with "Mutant" is a faulty variant of  *)
(* the one that follows it.                                                *)
(***************************************************************************)
EXTENDS Integers

CONSTANTS
  Uuid,       \* user UUIDs
  Imports,    \* the output of the process reaches ImportEventLine: FALSE in
              \* this repository, where the method has no caller
  ReportMin,  \* node_report_min_traffic, in the model's byte units
  MaxBytes,   \* bound: bytes per user and direction in the events
  MaxStarts,  \* bound: instances
  MaxFaults   \* bound: pushes repeated, lost after booking, or overlapping

ASSUME BoundAssumption ==
  Imports \in BOOLEAN /\ ReportMin \in Nat /\ MaxBytes \in Nat /\ MaxStarts \in Nat
  /\ MaxFaults \in Nat

VARIABLES
  run,      \* node loop: "stopped", "up", "closing" (in stopLocked), "over" (main returned)
  gen,      \* instances started so far; the last one is the current one
  cmd,      \* e.cmd of the current instance is not nil
  child,    \* per instance: its process, "none", "running" or "dead"
  sig,      \* per instance: the strongest signal sent, "none", "term" or "kill"
  waiter,   \* per instance: goroutine of startLocked, "none", "wait", "lock", "done"
  poller,   \* per instance: goroutine of stopLocked, "none", "polling", "done"
  timer,    \* the five seconds of stopLocked have passed
  listed,   \* e.users, those with an id
  known,    \* e.userHashToUUID
  pending,  \* e.pending, zero where there is no entry
  online,   \* e.online: "none", "fresh", or "stale" after two push intervals
  rep,      \* executions of the report task on the current instance
  emitted,  \* ghost: bytes the events of the process named for listed users
  billed,   \* ghost: bytes of this instance the panel booked
  faults    \* ghost: pushes repeated, lost after booking, or overlapping

pvars == <<run, gen, cmd, child, sig, waiter, poller, timer>>
avars == <<listed, known, pending, online, rep, emitted, billed, faults>>
vars == <<pvars, avars>>

Inst == 1..MaxStarts
Dir == {"up", "down"}
Exec == {"cur", "late"}   \* executions of reportUserTrafficTask that may overlap
Zero == [d \in Dir |-> 0]
NoTraffic == [u \in Uuid |-> Zero]
IdleRep == [pc |-> "idle", slice |-> NoTraffic]
Total(t) == t["up"] + t["down"]

\* The empty maps of NewExternal, and no execution of its report task yet.
newMaps ==
  /\ pending' = NoTraffic
  /\ online' = [u \in Uuid |-> "none"]
  /\ rep' = [e \in Exec |-> IdleRep]
  /\ emitted' = NoTraffic
  /\ billed' = NoTraffic
  /\ faults' = 0

\* The new list, and the hashes of its users if BuildMappings makes them.
replaceUsersLocked(l, ok) ==
  /\ listed' = l
  /\ known' = IF ok THEN l ELSE known

-----------------------------------------------------------------------------
(* The process.                                                            *)

\* NewExternal and Start: the instance knows a list of users, writes its
\* configuration and starts the process.  (One that fails is dropped.)
Start(l) ==
  /\ run = "stopped"
  /\ gen < MaxStarts
  /\ run' = "up"
  /\ gen' = gen + 1
  /\ cmd' = TRUE
  /\ child' = [child EXCEPT ![gen + 1] = "running"]
  /\ waiter' = [waiter EXCEPT ![gen + 1] = "wait"]
  /\ timer' = FALSE
  /\ replaceUsersLocked(l, TRUE)
  /\ newMaps
  /\ UNCHANGED <<sig, poller>>

\* The process ends: by itself, or because of a signal.
exits(g) ==
  /\ child[g] = "running"
  /\ child' = [child EXCEPT ![g] = "dead"]
  /\ UNCHANGED <<run, gen, cmd, sig, waiter, poller, timer, avars>>

\* cmd.Wait returns.
waitReturns(g) ==
  /\ run # "over"
  /\ waiter[g] = "wait"
  /\ child[g] = "dead"
  /\ waiter' = [waiter EXCEPT ![g] = "lock"]
  /\ UNCHANGED <<run, gen, cmd, child, sig, poller, timer, avars>>

\* Mutant: e.cmd is cleared without e.mu.
clearsUnlocked(g) ==
  /\ run # "over"
  /\ waiter[g] = "lock"
  /\ waiter' = [waiter EXCEPT ![g] = "done"]
  /\ cmd' = IF g = gen THEN FALSE ELSE cmd
  /\ UNCHANGED <<run, gen, child, sig, poller, timer, avars>>

\* The waiting goroutine gets e.mu and clears e.cmd; the process is not started
\* again.  The mutex of an earlier instance is always free.
clearsCmd(g) ==
  /\ run # "over"
  /\ waiter[g] = "lock"
  /\ g = gen => run # "closing"
  /\ waiter' = [waiter EXCEPT ![g] = "done"]
  /\ cmd' = IF g = gen THEN FALSE ELSE cmd
  /\ UNCHANGED <<run, gen, child, sig, poller, timer, avars>>

\* Close without a process: nothing to wait for.
closeIdle ==
  /\ run = "up"
  /\ ~cmd
  /\ run' = "stopped"
  /\ UNCHANGED <<gen, cmd, child, sig, waiter, poller, timer, avars>>

\* stopLocked sends SIGTERM and starts the goroutine that polls e.cmd.
stopLocked ==
  /\ run = "up"
  /\ cmd
  /\ run' = "closing"
  /\ sig' = [sig EXCEPT ![gen] = "term"]
  /\ poller' = [poller EXCEPT ![gen] = "polling"]
  /\ UNCHANGED <<gen, cmd, child, waiter, timer, avars>>

\* The polling goroutine reads e.cmd, without a lock, finds nil and closes done.
pollSeesNil(g) ==
  /\ run # "over"
  /\ poller[g] = "polling"
  /\ g = gen => ~cmd
  /\ poller' = [poller EXCEPT ![g] = "done"]
  /\ UNCHANGED <<run, gen, cmd, child, sig, waiter, timer, avars>>

timeAfter ==
  /\ run = "closing"
  /\ ~timer
  /\ timer' = TRUE
  /\ UNCHANGED <<run, gen, cmd, child, sig, waiter, poller, avars>>

\* Mutant: the process is not killed after five seconds.
closeTermOnly ==
  /\ run = "closing"
  /\ poller[gen] = "done" \/ timer
  /\ cmd' = FALSE
  /\ run' = "stopped"
  /\ UNCHANGED <<gen, child, sig, waiter, poller, timer, avars>>

\* The select of stopLocked: done was closed, or five seconds passed and the
\* process is killed; then Close returns.
Close ==
  /\ run = "closing"
  /\ poller[gen] = "done" \/ timer
  /\ sig' = [sig EXCEPT ![gen] = IF poller[gen] = "done" THEN @ ELSE "kill"]
  /\ cmd' = FALSE
  /\ run' = "stopped"
  /\ UNCHANGED <<gen, child, waiter, poller, timer, avars>>

\* A signal ends main, which does not wait for runNode; the goroutines and the
\* memory of the instance are gone, its process is not.
mainReturns ==
  /\ run # "over"
  /\ run' = "over"
  /\ listed' = {}
  /\ known' = {}
  /\ newMaps
  /\ UNCHANGED <<gen, cmd, child, sig, waiter, poller, timer>>

-----------------------------------------------------------------------------
(* Users and events, under e.mu.                                           *)

\* e.mu of the instance is free; calls of a running task may come after Close.
Free == gen > 0 /\ run \in {"up", "stopped"}

\* UpdateUsers with the full list; BuildMappings may fail and leave the hashes.
UpdateUsers(l, ok) ==
  /\ Free
  /\ replaceUsersLocked(l, ok)
  /\ UNCHANGED <<pvars, pending, online, rep, emitted, billed, faults>>

add(f, u, d, n) == [f EXCEPT ![u][d] = @ + n]

\* The process reports n bytes of a user it let in; ImportEventLine adds them up,
\* where it is called.
trafficEvent(u, d, n) ==
  /\ Free
  /\ child[gen] = "running"
  /\ u \in known /\ u \in listed
  /\ emitted[u][d] + n <= MaxBytes
  /\ emitted' = add(emitted, u, d, n)
  /\ pending' = IF Imports THEN add(pending, u, d, n) ELSE pending
  /\ UNCHANGED <<pvars, listed, known, online, rep, billed, faults>>

\* Events of type open and close.
openEvent(u) ==
  /\ Free
  /\ child[gen] = "running"
  /\ u \in known /\ u \in listed
  /\ online' = IF Imports THEN [online EXCEPT ![u] = "fresh"] ELSE online
  /\ UNCHANGED <<pvars, listed, known, pending, rep, emitted, billed, faults>>

closeEvent(u) ==
  /\ Free
  /\ child[gen] = "running"
  /\ u \in known /\ u \in listed
  /\ online[u] # "none"
  /\ online' = [online EXCEPT ![u] = "none"]
  /\ UNCHANGED <<pvars, listed, known, pending, rep, emitted, billed, faults>>

\* Two push intervals pass.
Tick ==
  /\ Free
  /\ \E u \in Uuid : online[u] = "fresh"
  /\ online' = [u \in Uuid |-> IF online[u] = "fresh" THEN "stale" ELSE online[u]]
  /\ UNCHANGED <<pvars, listed, known, pending, rep, emitted, billed, faults>>

-----------------------------------------------------------------------------
(* The report task.  An execution that overlaps another was abandoned by   *)
(* ExecuteWithTimeout.                                                     *)

fault(harm) == /\ harm => faults < MaxFaults
               /\ faults' = IF harm THEN faults + 1 ELSE faults

\* Users that were removed are reported as well.
sliceOf(u) == IF Total(pending[u]) > ReportMin THEN pending[u] ELSE Zero

GetUserTrafficSlice(e) ==
  /\ Free
  /\ rep[e].pc = "idle"
  /\ \E u \in Uuid : sliceOf(u) # Zero
  /\ rep' = [rep EXCEPT ![e] = [pc |-> "push", slice |-> [u \in Uuid |-> sliceOf(u)]]]
  /\ fault(\E o \in Exec : rep[o].pc # "idle")
  /\ UNCHANGED <<pvars, listed, known, pending, online, emitted, billed>>

\* The panel receives the push and books it, once or more often.
panelBooks(e) ==
  /\ run # "over"
  /\ rep[e].pc # "idle"
  /\ rep' = [rep EXCEPT ![e].pc = "booked"]
  /\ billed' = [u \in Uuid |-> [d \in Dir |-> billed[u][d] + rep[e].slice[u][d]]]
  /\ fault(rep[e].pc = "booked")
  /\ UNCHANGED <<pvars, listed, known, pending, online, emitted>>

\* ReportUserTraffic returns an error, or never.
pushFails(e) ==
  /\ run # "over"
  /\ rep[e].pc # "idle"
  /\ rep' = [rep EXCEPT ![e] = IdleRep]
  /\ fault(rep[e].pc = "booked")
  /\ UNCHANGED <<pvars, listed, known, pending, online, emitted, billed>>

\* Mutant: what was pushed twice is taken off twice.
subtractUnclamped(p, s) == p - s

subtract(p, s) == IF s >= p THEN 0 ELSE p - s

\* Mutant: the entry is deleted, whatever came in since the snapshot.
confirmDeletes(e) ==
  /\ Free
  /\ rep[e].pc = "booked"
  /\ pending' = [u \in Uuid |-> IF rep[e].slice[u] = Zero THEN pending[u] ELSE Zero]
  /\ rep' = [rep EXCEPT ![e] = IdleRep]
  /\ UNCHANGED <<pvars, listed, known, online, emitted, billed, faults>>

\* What was pushed is taken off; an entry that is left without bytes is deleted.
ConfirmUserTraffic(e) ==
  /\ Free
  /\ rep[e].pc = "booked"
  /\ pending' = [u \in Uuid |-> [d \in Dir |-> subtract(pending[u][d], rep[e].slice[u][d])]]
  /\ rep' = [rep EXCEPT ![e] = IdleRep]
  /\ UNCHANGED <<pvars, listed, known, online, emitted, billed, faults>>

GetOnlineDevice ==
  /\ Free
  /\ \E u \in Uuid : online[u] = "stale"
  /\ online' = [u \in Uuid |-> IF online[u] = "stale" THEN "none" ELSE online[u]]
  /\ UNCHANGED <<pvars, listed, known, pending, rep, emitted, billed, faults>>

-----------------------------------------------------------------------------

Init ==
  /\ run = "stopped"
  /\ gen = 0
  /\ cmd = FALSE
  /\ child = [g \in Inst |-> "none"]
  /\ sig = [g \in Inst |-> "none"]
  /\ waiter = [g \in Inst |-> "none"]
  /\ poller = [g \in Inst |-> "none"]
  /\ timer = FALSE
  /\ listed = {}
  /\ known = {}
  /\ pending = NoTraffic
  /\ online = [u \in Uuid |-> "none"]
  /\ rep = [e \in Exec |-> IdleRep]
  /\ emitted = NoTraffic
  /\ billed = NoTraffic
  /\ faults = 0

instStep(g) ==
  \/ exits(g)
  \/ waitReturns(g)
  \/ clearsCmd(g)
  \/ pollSeesNil(g)

reportStep(e) ==
  \/ GetUserTrafficSlice(e)
  \/ panelBooks(e)
  \/ pushFails(e)
  \/ ConfirmUserTraffic(e)

Next ==
  \/ \E l \in SUBSET Uuid : Start(l)
  \/ \E g \in Inst : instStep(g)
  \/ closeIdle
  \/ stopLocked
  \/ timeAfter
  \/ Close
  \/ mainReturns
  \/ \E l \in SUBSET Uuid, ok \in BOOLEAN : UpdateUsers(l, ok)
  \/ \E u \in Uuid, d \in Dir, n \in 1..MaxBytes : trafficEvent(u, d, n)
  \/ \E u \in Uuid : openEvent(u) \/ closeEvent(u)
  \/ Tick
  \/ \E e \in Exec : reportStep(e)
  \/ GetOnlineDevice

Spec == Init /\ [][Next]_vars

-----------------------------------------------------------------------------
(* Fairness: goroutines that can go on do, the timer fires, and the kernel *)
(* ends a process that was killed.  SIGTERM may be ignored, and nothing    *)
(* makes the node loop or the panel act.                                   *)

Fairness ==
  /\ WF_vars(timeAfter)
  /\ WF_vars(Close)
  /\ \A g \in Inst :
       /\ WF_vars(waitReturns(g))
       /\ WF_vars(clearsCmd(g))
       /\ WF_vars(pollSeesNil(g))
       /\ WF_vars(exits(g) /\ sig[g] = "kill")

FairSpec == Spec /\ Fairness

-----------------------------------------------------------------------------
(* Properties.                                                             *)

Traffic == [Uuid -> [Dir -> Nat]]

\* Every variable stays in its type.
TypeOK ==
  /\ run \in {"stopped", "up", "closing", "over"}
  /\ gen \in 0..MaxStarts
  /\ cmd \in BOOLEAN
  /\ child \in [Inst -> {"none", "running", "dead"}]
  /\ sig \in [Inst -> {"none", "term", "kill"}]
  /\ waiter \in [Inst -> {"none", "wait", "lock", "done"}]
  /\ poller \in [Inst -> {"none", "polling", "done"}]
  /\ timer \in BOOLEAN
  /\ listed \subseteq Uuid
  /\ known \subseteq Uuid
  /\ pending \in Traffic
  /\ online \in [Uuid -> {"none", "fresh", "stale"}]
  /\ rep \in [Exec -> [pc : {"idle", "push", "booked"}, slice : Traffic]]
  /\ emitted \in Traffic
  /\ billed \in Traffic
  /\ faults \in Nat

\* A process that runs belongs to the instance that is up, which still knows it
\* (e.cmd), or was killed: Close never returns, and a new instance never starts,
\* with an older process left alone.  (When main has returned nobody looks after
\* it any more.)
NoStrayProcess ==
  run # "over" =>
    \A g \in Inst : child[g] = "running" =>
      sig[g] = "kill" \/ (g = gen /\ run \in {"up", "closing"} /\ cmd)

\* stopLocked waits with e.mu held for e.cmd to become nil, and only a goroutine
\* that needs e.mu sets it: done is never closed while Close waits, so Close
\* takes its full five seconds and kills, however fast the process obeys.
StopNeedsTimeout ==
  run = "closing" => cmd /\ poller[gen] = "polling"

\* Once Close began, the process ends and so do the goroutines that wait for it
\* and poll e.cmd, unless main returns first.
HelpersEnd ==
  \A g \in Inst :
    sig[g] # "none" ~>
      (child[g] = "dead" /\ waiter[g] = "done" /\ poller[g] = "done") \/ run = "over"

\* README.md:16 says traffic is deducted with a runtime "that emits JSON events":
\* the bytes of an event are on the pending entry or on the panel's books, also
\* when they arrive between the snapshot and its confirmation.
EventsCounted ==
  \A u \in Uuid, d \in Dir : emitted[u][d] <= pending[u][d] + billed[u][d]

\* What execution e has got booked and not yet taken off.
Due(e, u, d) == IF rep[e].pc = "booked" THEN rep[e].slice[u][d] ELSE 0
Owed(u, d) == Due("cur", u, d) + Due("late", u, d)

\* Without a repeated, lost or overlapping push the panel books every byte of an
\* event once.
BookedOnce ==
  faults = 0 =>
    \A u \in Uuid, d \in Dir :
      emitted[u][d] + Owed(u, d) = pending[u][d] + billed[u][d]

=============================================================================
