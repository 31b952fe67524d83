--------------------------- MODULE ExternalProofs ---------------------------
(***************************************************************************)
(* Proofs about External: the types, the supervision of the processes,     *)
(* and, for a runtime whose events are imported, the accounts and that     *)
(* each instance implements Ledger.                                        *)
(***************************************************************************)
EXTENDS External, TLAPS

-----------------------------------------------------------------------------
(* Types.                                                                  *)

Slice == [pc : {"idle", "push", "booked"}, slice : Traffic]

LEMMA Zeroes ==
  /\ NoTraffic \in Traffic
  /\ IdleRep \in Slice
  BY DEF NoTraffic, Zero, Traffic, IdleRep, Slice

LEMMA InitTypes == Init => TypeOK
<1> SUFFICES ASSUME Init PROVE TypeOK
  OBVIOUS
<1>1. pending \in Traffic /\ emitted \in Traffic /\ billed \in Traffic
  BY Zeroes DEF Init
<1>2. rep \in [Exec -> Slice]
  BY Zeroes DEF Init
<1>3. gen \in 0..MaxStarts
  BY BoundAssumption DEF Init
<1>4. cmd \in BOOLEAN /\ timer \in BOOLEAN
  BY DEF Init
<1>5. child \in [Inst -> {"none", "running", "dead"}]
  BY DEF Init
<1>6. sig \in [Inst -> {"none", "term", "kill"}]
  BY DEF Init
<1>7. waiter \in [Inst -> {"none", "wait", "lock", "done"}]
  BY DEF Init
<1>8. poller \in [Inst -> {"none", "polling", "done"}]
  BY DEF Init
<1>9. /\ run \in {"stopped", "up", "closing", "over"}
      /\ listed \subseteq Uuid /\ known \subseteq Uuid
      /\ online \in [Uuid -> {"none", "fresh", "stale"}]
      /\ faults \in Nat
  BY DEF Init
<1>10. QED
  BY <1>1, <1>2, <1>3, <1>4, <1>5, <1>6, <1>7, <1>8, <1>9 DEF TypeOK, Slice

\* The variables of the process.
PTypes ==
  /\ run \in {"stopped", "up", "closing", "over"}
  /\ gen \in 0..MaxStarts
  /\ cmd \in BOOLEAN
  /\ child \in [Inst -> {"none", "running", "dead"}]
  /\ sig \in [Inst -> {"none", "term", "kill"}]
  /\ waiter \in [Inst -> {"none", "wait", "lock", "done"}]
  /\ poller \in [Inst -> {"none", "polling", "done"}]
  /\ timer \in BOOLEAN

\* The variables of the users and their traffic.
ATypes ==
  /\ listed \subseteq Uuid
  /\ known \subseteq Uuid
  /\ pending \in Traffic
  /\ online \in [Uuid -> {"none", "fresh", "stale"}]
  /\ rep \in [Exec -> Slice]
  /\ emitted \in Traffic
  /\ billed \in Traffic
  /\ faults \in Nat

LEMMA TypeParts == TypeOK <=> PTypes /\ ATypes
  BY DEF TypeOK, PTypes, ATypes, Slice

-----------------------------------------------------------------------------
LEMMA PTypesKept ==
  ASSUME PTypes, [Next]_vars
  PROVE  PTypes'
<1> USE DEF PTypes
<1>1. ASSUME NEW l \in SUBSET Uuid, Start(l) PROVE PTypes'
  <2>1. gen + 1 \in Inst /\ gen + 1 \in 0..MaxStarts
    BY <1>1, BoundAssumption DEF Start, Inst
  <2>2. child' \in [Inst -> {"none", "running", "dead"}]
    BY <1>1, <2>1 DEF Start
  <2>3. waiter' \in [Inst -> {"none", "wait", "lock", "done"}]
    BY <1>1, <2>1 DEF Start
  <2>4. QED
    BY <1>1, <2>1, <2>2, <2>3 DEF Start
<1>2. ASSUME NEW g \in Inst, exits(g) PROVE PTypes'
  BY <1>2 DEF exits
<1>3. ASSUME NEW g \in Inst, waitReturns(g) PROVE PTypes'
  BY <1>3 DEF waitReturns
<1>4. ASSUME NEW g \in Inst, clearsCmd(g) PROVE PTypes'
  BY <1>4 DEF clearsCmd
<1>5. ASSUME NEW g \in Inst, pollSeesNil(g) PROVE PTypes'
  BY <1>5 DEF pollSeesNil
<1>6. CASE closeIdle
  BY <1>6 DEF closeIdle
<1>7. CASE stopLocked
  BY <1>7 DEF stopLocked
<1>8. CASE timeAfter
  BY <1>8 DEF timeAfter
<1>9. CASE Close
  <2>1. sig' \in [Inst -> {"none", "term", "kill"}]
    BY <1>9 DEF Close
  <2>2. QED
    BY <1>9, <2>1 DEF Close
<1>10. CASE mainReturns
  BY <1>10 DEF mainReturns
<1>11. CASE UNCHANGED pvars
  BY <1>11 DEF pvars
<1>12. ASSUME UNCHANGED vars PROVE UNCHANGED pvars
  BY <1>12 DEF vars
<1>13. ASSUME \E l \in SUBSET Uuid, ok \in BOOLEAN : UpdateUsers(l, ok) PROVE UNCHANGED pvars
  BY <1>13 DEF UpdateUsers
<1>14. ASSUME \E u \in Uuid, d \in Dir, n \in 1..MaxBytes : trafficEvent(u, d, n)
       PROVE UNCHANGED pvars
  BY <1>14 DEF trafficEvent
<1>15. ASSUME \E u \in Uuid : openEvent(u) \/ closeEvent(u) PROVE UNCHANGED pvars
  BY <1>15 DEF openEvent, closeEvent
<1>16. ASSUME Tick \/ GetOnlineDevice PROVE UNCHANGED pvars
  BY <1>16 DEF Tick, GetOnlineDevice
<1>17. ASSUME \E e \in Exec : reportStep(e) PROVE UNCHANGED pvars
  BY <1>17 DEF reportStep, GetUserTrafficSlice, panelBooks, pushFails, ConfirmUserTraffic
<1>18. QED
  BY <1>1, <1>2, <1>3, <1>4, <1>5, <1>6, <1>7, <1>8, <1>9, <1>10, <1>11, <1>12, <1>13,
     <1>14, <1>15, <1>16, <1>17 DEF Next, instStep

\* Sums and differences of traffic are traffic.
LEMMA AddType ==
  ASSUME NEW f \in Traffic, NEW u \in Uuid, NEW d \in Dir, NEW n \in Nat
  PROVE  add(f, u, d, n) \in Traffic
  BY DEF add, Traffic

LEMMA SubtractType ==
  ASSUME NEW p \in Nat, NEW s \in Nat
  PROVE  /\ subtract(p, s) \in Nat
         /\ subtract(p, s) >= p - s
         /\ s <= p => subtract(p, s) = p - s
  BY DEF subtract

LEMMA ReportTypes ==
  ASSUME ATypes, NEW e \in Exec
  PROVE  /\ rep[e].pc \in {"idle", "push", "booked"}
         /\ rep[e].slice \in Traffic
  BY DEF ATypes, Slice

LEMMA FaultType ==
  ASSUME faults \in Nat, NEW harm, fault(harm)
  PROVE  faults' \in Nat
  BY DEF fault

LEMMA ATypesKept ==
  ASSUME ATypes, [Next]_vars
  PROVE  ATypes'
<1>1. ASSUME NEW l \in SUBSET Uuid, Start(l) PROVE ATypes'
  BY <1>1, Zeroes DEF Start, replaceUsersLocked, newMaps, ATypes
<1>2. CASE mainReturns
  BY <1>2, Zeroes DEF mainReturns, newMaps, ATypes
<1>3. CASE UNCHANGED avars
  BY <1>3 DEF avars, ATypes
<1>4. ASSUME NEW l \in SUBSET Uuid, NEW ok \in BOOLEAN, UpdateUsers(l, ok) PROVE ATypes'
  BY <1>4 DEF UpdateUsers, replaceUsersLocked, ATypes
<1>5. ASSUME NEW u \in Uuid, NEW d \in Dir, NEW n \in 1..MaxBytes, trafficEvent(u, d, n)
      PROVE ATypes'
  <2>1. add(emitted, u, d, n) \in Traffic /\ add(pending, u, d, n) \in Traffic
    BY AddType, BoundAssumption DEF ATypes
  <2>2. QED
    BY <1>5, <2>1 DEF trafficEvent, ATypes
<1>6. ASSUME NEW u \in Uuid, openEvent(u) \/ closeEvent(u) PROVE ATypes'
  BY <1>6 DEF openEvent, closeEvent, ATypes
<1>7. CASE Tick
  BY <1>7 DEF Tick, ATypes
<1>8. CASE GetOnlineDevice
  BY <1>8 DEF GetOnlineDevice, ATypes
<1>9. ASSUME NEW e \in Exec, GetUserTrafficSlice(e) PROVE ATypes'
  <2>1. [u \in Uuid |-> sliceOf(u)] \in Traffic
    BY DEF sliceOf, Zero, ATypes, Traffic
  <2>2. rep' \in [Exec -> Slice]
    BY <1>9, <2>1 DEF GetUserTrafficSlice, ATypes, Slice
  <2>3. faults' \in Nat
    BY <1>9, FaultType DEF GetUserTrafficSlice, ATypes
  <2>4. QED
    BY <1>9, <2>2, <2>3 DEF GetUserTrafficSlice, ATypes
<1>10. ASSUME NEW e \in Exec, panelBooks(e) PROVE ATypes'
  <2>1. billed' \in Traffic
    <3>1. billed \in Traffic /\ rep[e].slice \in Traffic
      BY ReportTypes DEF ATypes
    <3>2. \A u \in Uuid, d \in Dir : billed[u][d] + rep[e].slice[u][d] \in Nat
      BY <3>1 DEF Traffic
    <3>3. QED
      BY <1>10, <3>2 DEF panelBooks, Traffic
  <2>2. rep' \in [Exec -> Slice]
    BY <1>10 DEF panelBooks, ATypes, Slice
  <2>3. faults' \in Nat
    BY <1>10, FaultType DEF panelBooks, ATypes
  <2>4. QED
    BY <1>10, <2>1, <2>2, <2>3 DEF panelBooks, ATypes
<1>11. ASSUME NEW e \in Exec, pushFails(e) PROVE ATypes'
  <2>1. faults' \in Nat
    BY <1>11, FaultType DEF pushFails, ATypes
  <2>2. QED
    BY <1>11, <2>1, Zeroes DEF pushFails, ATypes
<1>12. ASSUME NEW e \in Exec, ConfirmUserTraffic(e) PROVE ATypes'
  <2>1. pending' \in Traffic
    <3>1. pending \in Traffic /\ rep[e].slice \in Traffic
      BY ReportTypes DEF ATypes
    <3>2. \A u \in Uuid, d \in Dir : subtract(pending[u][d], rep[e].slice[u][d]) \in Nat
      BY <3>1, SubtractType DEF Traffic
    <3>3. QED
      BY <1>12, <3>2 DEF ConfirmUserTraffic, Traffic
  <2>2. QED
    BY <1>12, <2>1, Zeroes DEF ConfirmUserTraffic, ATypes
<1>13. ASSUME \E g \in Inst : instStep(g) PROVE UNCHANGED avars
  BY <1>13 DEF instStep, exits, waitReturns, clearsCmd, pollSeesNil
<1>14. ASSUME closeIdle \/ stopLocked \/ timeAfter \/ Close PROVE UNCHANGED avars
  BY <1>14 DEF closeIdle, stopLocked, timeAfter, Close
<1>15. ASSUME UNCHANGED vars PROVE UNCHANGED avars
  BY <1>15 DEF vars
<1>16. QED
  BY <1>1, <1>2, <1>3, <1>4, <1>5, <1>6, <1>7, <1>8, <1>9, <1>10, <1>11, <1>12, <1>13,
     <1>14, <1>15 DEF Next, reportStep

LEMMA TypesKept == TypeOK /\ [Next]_vars => TypeOK'
<1> SUFFICES ASSUME TypeOK, [Next]_vars PROVE TypeOK'
  OBVIOUS
<1>1. PTypes /\ ATypes
  BY TypeParts
<1>2. PTypes' /\ ATypes'
  BY <1>1, PTypesKept, ATypesKept
<1>3. QED
  BY <1>2 DEF TypeOK, PTypes, ATypes, Slice

\* The pending entries of the events stay natural numbers although overlapping
\* executions may take the same bytes off twice, and every other variable stays
\* in its type.
THEOREM TypeCorrect == Spec => []TypeOK
  BY InitTypes, TypesKept, PTL DEF Spec

-----------------------------------------------------------------------------
(* Supervision.  A process that runs is being waited for, so its goroutine *)
(* cannot have cleared e.cmd; while Close waits nobody can.                *)

Watched(g) ==
  /\ child[g] = "running" => waiter[g] = "wait"
  /\ waiter[g] = "lock" => child[g] = "dead"
  /\ g > gen => child[g] = "none"
  /\ child[g] = "running" /\ run # "over" =>
       sig[g] = "kill" \/ (g = gen /\ run \in {"up", "closing"} /\ cmd)

Supervision ==
  /\ \A g \in Inst : Watched(g)
  /\ run \in {"up", "closing"} => gen \in Inst
  /\ StopNeedsTimeout

LEMMA InitSupervision == Init => Supervision
  BY DEF Init, Supervision, Watched, StopNeedsTimeout

LEMMA SupervisionKept == PTypes /\ Supervision /\ [Next]_vars => Supervision'
<1> SUFFICES ASSUME PTypes, Supervision, [Next]_vars PROVE Supervision'
  OBVIOUS
<1>1. ASSUME NEW l \in SUBSET Uuid, Start(l) PROVE Supervision'
  <2>1. gen + 1 \in Inst /\ gen \in Int
    BY <1>1, BoundAssumption DEF Start, Inst, PTypes
  <2>2. ASSUME NEW g \in Inst PROVE Watched(g)'
    <3>1. g \in Int
      BY DEF Inst
    <3>2. CASE g = gen + 1
      BY <1>1, <2>1, <3>2 DEF Start, Watched, PTypes
    <3>3. CASE g # gen + 1
      <4>1. child'[g] = child[g] /\ waiter'[g] = waiter[g] /\ sig'[g] = sig[g]
        BY <1>1, <3>3 DEF Start, PTypes
      <4>2. Watched(g)
        BY DEF Supervision
      <4>3. QED
        BY <1>1, <2>1, <3>1, <3>3, <4>1, <4>2 DEF Start, Watched
    <3>4. QED
      BY <3>2, <3>3
  <2>3. QED
    BY <1>1, <2>1, <2>2 DEF Supervision, Start, StopNeedsTimeout
<1>2. ASSUME NEW g \in Inst, exits(g) PROVE Supervision'
  BY <1>2 DEF exits, Supervision, Watched, StopNeedsTimeout, PTypes
<1>3. ASSUME NEW g \in Inst, waitReturns(g) PROVE Supervision'
  BY <1>3 DEF waitReturns, Supervision, Watched, StopNeedsTimeout, PTypes
<1>4. ASSUME NEW g \in Inst, clearsCmd(g) PROVE Supervision'
  <2>1. child[g] = "dead"
    BY <1>4 DEF clearsCmd, Supervision, Watched
  <2>2. ASSUME NEW h \in Inst PROVE Watched(h)'
    BY <1>4, <2>1 DEF clearsCmd, Supervision, Watched, PTypes
  <2>3. StopNeedsTimeout'
    BY <1>4 DEF clearsCmd, Supervision, StopNeedsTimeout
  <2>4. QED
    BY <1>4, <2>2, <2>3 DEF Supervision, clearsCmd
<1>5. ASSUME NEW g \in Inst, pollSeesNil(g) PROVE Supervision'
  BY <1>5 DEF pollSeesNil, Supervision, Watched, StopNeedsTimeout, PTypes
<1>6. CASE closeIdle
  BY <1>6 DEF closeIdle, Supervision, Watched, StopNeedsTimeout
<1>7. CASE stopLocked
  BY <1>7 DEF stopLocked, Supervision, Watched, StopNeedsTimeout, PTypes
<1>8. CASE timeAfter
  BY <1>8 DEF timeAfter, Supervision, Watched, StopNeedsTimeout
<1>9. CASE Close
  <2>1. gen \in Inst /\ poller[gen] # "done"
    BY <1>9 DEF Close, Supervision, StopNeedsTimeout
  <2>2. sig' = [sig EXCEPT ![gen] = "kill"]
    BY <1>9, <2>1 DEF Close
  <2>3. QED
    BY <1>9, <2>1, <2>2 DEF Close, Supervision, Watched, StopNeedsTimeout, PTypes
<1>10. CASE mainReturns
  BY <1>10 DEF mainReturns, Supervision, Watched, StopNeedsTimeout
<1>11. CASE UNCHANGED pvars
  BY <1>11 DEF pvars, Supervision, Watched, StopNeedsTimeout
<1>12. ASSUME UNCHANGED vars PROVE UNCHANGED pvars
  BY <1>12 DEF vars
<1>13. ASSUME \E l \in SUBSET Uuid, ok \in BOOLEAN : UpdateUsers(l, ok) PROVE UNCHANGED pvars
  BY <1>13 DEF UpdateUsers
<1>14. ASSUME \E u \in Uuid, d \in Dir, n \in 1..MaxBytes : trafficEvent(u, d, n)
       PROVE UNCHANGED pvars
  BY <1>14 DEF trafficEvent
<1>15. ASSUME \E u \in Uuid : openEvent(u) \/ closeEvent(u) PROVE UNCHANGED pvars
  BY <1>15 DEF openEvent, closeEvent
<1>16. ASSUME Tick \/ GetOnlineDevice PROVE UNCHANGED pvars
  BY <1>16 DEF Tick, GetOnlineDevice
<1>17. ASSUME \E e \in Exec : reportStep(e) PROVE UNCHANGED pvars
  BY <1>17 DEF reportStep, GetUserTrafficSlice, panelBooks, pushFails, ConfirmUserTraffic
<1>18. QED
  BY <1>1, <1>2, <1>3, <1>4, <1>5, <1>6, <1>7, <1>8, <1>9, <1>10, <1>11, <1>12, <1>13,
     <1>14, <1>15, <1>16, <1>17 DEF Next, instStep

LEMMA Supervised == Spec => [](PTypes /\ Supervision)
<1>1. Init => PTypes /\ Supervision
  BY InitTypes, TypeParts, InitSupervision
<1>2. PTypes /\ Supervision /\ [Next]_vars => PTypes' /\ Supervision'
  BY PTypesKept, SupervisionKept
<1>3. QED
  BY <1>1, <1>2, PTL DEF Spec

\* Until main returns, every process that runs belongs to the instance that is up,
\* which still knows it, or was killed: no order of starts, closes, exits and
\* goroutines leaves one alone.
THEOREM NoProcessLeftAlone == Spec => []NoStrayProcess
<1>1. Supervision => NoStrayProcess
  BY DEF Supervision, Watched, NoStrayProcess
<1>2. QED
  BY <1>1, Supervised, PTL

\* While stopLocked waits, e.cmd is set and done is open: the early exit of its
\* select is never taken.
THEOREM CloseWaitsItsTime == Spec => []StopNeedsTimeout
<1>1. Supervision => StopNeedsTimeout
  BY DEF Supervision
<1>2. QED
  BY <1>1, Supervised, PTL

-----------------------------------------------------------------------------
(* What HelpersEnd needs besides fairness: no deadlock.  The guards of the *)
(* steps are written out.                                                  *)

Over(g) == child[g] = "dead" /\ waiter[g] = "done" /\ poller[g] = "done"

\* Close of the instance, its process or one of its goroutines can go on, whatever
\* node loop and process want.
Moves(g) ==
  \/ run = "closing" /\ g = gen
  \/ child[g] = "running" /\ sig[g] = "kill"
  \/ child[g] = "dead" /\ waiter[g] = "wait"
  \/ waiter[g] = "lock" /\ (g = gen => run # "closing")
  \/ poller[g] = "polling" /\ (g = gen => ~cmd)

\* A signal is sent, and a poller started, by the Close of a started instance only;
\* a SIGTERM alone means that this Close has not returned.
Helped(g) ==
  /\ g > gen => sig[g] = "none"
  /\ g <= gen => child[g] # "none" /\ waiter[g] # "none"
  /\ sig[g] = "none" <=> poller[g] = "none"
  /\ sig[g] = "term" => g = gen /\ run \in {"closing", "over"}
  /\ g = gen /\ run = "up" => sig[g] = "none"

Helpers ==
  /\ \A g \in Inst : Helped(g)
  /\ run = "stopped" => ~cmd

\* A step of users, events or reports leaves processes and helpers alone.
LEMMA OtherSteps ==
  ASSUME [Next]_vars, ~\E l \in SUBSET Uuid : Start(l), ~\E g \in Inst : instStep(g),
         ~closeIdle, ~stopLocked, ~timeAfter, ~Close, ~mainReturns
  PROVE  UNCHANGED pvars
<1>1. ASSUME \E l \in SUBSET Uuid, ok \in BOOLEAN : UpdateUsers(l, ok) PROVE UNCHANGED pvars
  BY <1>1 DEF UpdateUsers
<1>2. ASSUME \E u \in Uuid, d \in Dir, n \in 1..MaxBytes : trafficEvent(u, d, n)
      PROVE UNCHANGED pvars
  BY <1>2 DEF trafficEvent
<1>3. ASSUME (\E u \in Uuid : openEvent(u) \/ closeEvent(u)) \/ Tick \/ GetOnlineDevice
      PROVE UNCHANGED pvars
  BY <1>3 DEF openEvent, closeEvent, Tick, GetOnlineDevice
<1>4. ASSUME \E e \in Exec : reportStep(e) PROVE UNCHANGED pvars
  BY <1>4 DEF reportStep, GetUserTrafficSlice, panelBooks, pushFails, ConfirmUserTraffic
<1>5. ASSUME UNCHANGED vars PROVE UNCHANGED pvars
  BY <1>5 DEF vars
<1>6. QED
  BY <1>1, <1>2, <1>3, <1>4, <1>5 DEF Next

LEMMA HelpersKept == PTypes /\ Supervision /\ Helpers /\ [Next]_vars => Helpers'
<1> SUFFICES ASSUME PTypes, Supervision, Helpers, [Next]_vars PROVE Helpers'
  OBVIOUS
<1>1. ASSUME NEW l \in SUBSET Uuid, Start(l) PROVE Helpers'
  <2>1. gen \in Int /\ gen' = gen + 1 /\ run' = "up" /\ sig' = sig /\ poller' = poller
    BY <1>1, BoundAssumption DEF Start, PTypes
  <2>2. ASSUME NEW g \in Inst PROVE Helped(g)'
    <3>1. g \in Int /\ Helped(g)
      BY DEF Inst, Helpers
    <3>2. CASE g = gen + 1
      <4>1. g > gen /\ ~(g > gen')
        BY <2>1, <3>1, <3>2
      <4>2. sig[g] = "none"
        BY <3>1, <4>1 DEF Helped
      <4>3. child'[g] # "none" /\ waiter'[g] # "none"
        BY <1>1, <3>2 DEF Start, PTypes
      <4>4. QED
        BY <2>1, <3>1, <4>1, <4>2, <4>3 DEF Helped
    <3>3. CASE g # gen + 1
      <4>1. child'[g] = child[g] /\ waiter'[g] = waiter[g]
        BY <1>1, <3>3 DEF Start, PTypes
      <4>2. (g > gen' => g > gen) /\ (g <= gen' => g <= gen) /\ g # gen'
        BY <2>1, <3>1, <3>3
      <4>3. run = "stopped" /\ sig[g] # "term"
        BY <1>1, <3>1 DEF Start, Helped
      <4>4. QED
        BY <2>1, <3>1, <4>1, <4>2, <4>3 DEF Helped
    <3>4. QED
      BY <3>2, <3>3
  <2>3. QED
    BY <2>1, <2>2 DEF Helpers
<1>2. ASSUME NEW g \in Inst, exits(g) PROVE Helpers'
  BY <1>2 DEF exits, Helpers, Helped, PTypes
<1>3. ASSUME NEW g \in Inst, waitReturns(g) PROVE Helpers'
  BY <1>3 DEF waitReturns, Helpers, Helped, PTypes
<1>4. ASSUME NEW g \in Inst, clearsCmd(g) PROVE Helpers'
  BY <1>4 DEF clearsCmd, Helpers, Helped, PTypes
<1>5. ASSUME NEW g \in Inst, pollSeesNil(g) PROVE Helpers'
  BY <1>5 DEF pollSeesNil, Helpers, Helped, PTypes
<1>6. CASE closeIdle
  BY <1>6 DEF closeIdle, Helpers, Helped
<1>7. CASE stopLocked
  <2>1. gen \in Inst /\ gen \in Int
    BY <1>7, BoundAssumption DEF stopLocked, Supervision, PTypes
  <2>2. /\ run = "up" /\ run' = "closing" /\ gen' = gen /\ child' = child /\ waiter' = waiter
        /\ sig' = [sig EXCEPT ![gen] = "term"] /\ poller' = [poller EXCEPT ![gen] = "polling"]
    BY <1>7 DEF stopLocked
  <2>3. ASSUME NEW g \in Inst PROVE Helped(g)'
    <3>1. Helped(g)
      BY DEF Helpers
    <3>2. CASE g = gen
      <4>1. ~(gen > gen)
        BY <2>1
      <4>2. sig'[g] = "term" /\ poller'[g] = "polling"
        BY <2>1, <2>2, <3>2 DEF PTypes
      <4>3. QED
        BY <2>2, <3>1, <3>2, <4>1, <4>2 DEF Helped
    <3>3. CASE g # gen
      <4>1. sig'[g] = sig[g] /\ poller'[g] = poller[g]
        BY <2>2, <3>3 DEF PTypes
      <4>2. QED
        BY <2>2, <3>1, <3>3, <4>1 DEF Helped
    <3>4. QED
      BY <3>2, <3>3
  <2>4. QED
    BY <2>2, <2>3 DEF Helpers
<1>8. CASE timeAfter
  BY <1>8 DEF timeAfter, Helpers, Helped
<1>9. CASE Close
  <2>1. gen \in Inst /\ poller[gen] = "polling" /\ gen \in Int
    BY <1>9, BoundAssumption DEF Close, Supervision, StopNeedsTimeout, PTypes
  <2>2. /\ run = "closing" /\ run' = "stopped" /\ ~cmd' /\ gen' = gen
        /\ child' = child /\ waiter' = waiter /\ poller' = poller
        /\ sig' = [sig EXCEPT ![gen] = "kill"]
    BY <1>9, <2>1 DEF Close
  <2>3. ASSUME NEW g \in Inst PROVE Helped(g)'
    <3>1. Helped(g)
      BY DEF Helpers
    <3>2. CASE g = gen
      <4>1. ~(gen > gen)
        BY <2>1
      <4>2. sig'[g] = "kill"
        BY <2>1, <2>2, <3>2 DEF PTypes
      <4>3. QED
        BY <2>1, <2>2, <3>1, <3>2, <4>1, <4>2 DEF Helped
    <3>3. CASE g # gen
      <4>1. sig'[g] = sig[g]
        BY <2>2, <3>3 DEF PTypes
      <4>2. QED
        BY <2>2, <3>1, <3>3, <4>1 DEF Helped
    <3>4. QED
      BY <3>2, <3>3
  <2>4. QED
    BY <2>2, <2>3 DEF Helpers
<1>10. CASE mainReturns
  BY <1>10 DEF mainReturns, Helpers, Helped
<1>11. CASE UNCHANGED pvars
  BY <1>11 DEF pvars, Helpers, Helped
<1>12. QED
  BY <1>1, <1>2, <1>3, <1>4, <1>5, <1>6, <1>7, <1>8, <1>9, <1>10, <1>11, OtherSteps
  DEF instStep

LEMMA HelpersHold == Spec => [](PTypes /\ Supervision /\ Helpers)
<1>1. Init => Helpers
  <2> SUFFICES ASSUME Init, NEW g \in Inst PROVE Helped(g)
    BY DEF Init, Helpers
  <2>1. ~(g <= gen)
    BY DEF Init, Inst
  <2>2. gen = 0 /\ run = "stopped" /\ sig[g] = "none" /\ poller[g] = "none"
    BY DEF Init
  <2>3. QED
    BY <2>1, <2>2 DEF Helped
<1>2. QED
  BY <1>1, HelpersKept, Supervised, PTL DEF Spec

\* Close of the external runtime and its helpers never wait in a circle, although
\* stopLocked keeps e.mu while it waits for a goroutine that needs it: from the signal
\* on, until process, waiter and poller are over, one of them or Close can go on.
THEOREM HelpersNeverStuck ==
  Spec => [](run # "over" => \A g \in Inst : sig[g] # "none" => Over(g) \/ Moves(g))
<1>1. ASSUME PTypes, Supervision, Helpers, run # "over", NEW g \in Inst, sig[g] # "none",
             ~Over(g)
      PROVE  Moves(g)
  <2>1. Helped(g) /\ Watched(g)
    BY <1>1 DEF Helpers, Supervision
  <2>2. CASE run = "closing" /\ g = gen
    BY <2>2 DEF Moves
  <2>3. CASE ~(run = "closing" /\ g = gen)
    <3>1. gen \in Int /\ g \in Int
      BY <1>1, BoundAssumption DEF PTypes, Inst
    <3>2. g <= gen
      BY <1>1, <2>1, <3>1 DEF Helped
    <3>3. /\ child[g] \in {"running", "dead"}
          /\ waiter[g] \in {"wait", "lock", "done"}
      BY <1>1, <2>1, <3>2 DEF Helped, PTypes
    <3>4. poller[g] \in {"polling", "done"}
      BY <1>1, <2>1 DEF Helped, PTypes
    <3>5. sig[g] = "kill"
      BY <1>1, <2>1, <2>3 DEF Helped, PTypes
    <3>6. g = gen => run = "stopped" /\ ~cmd
      BY <1>1, <2>1, <2>3 DEF Helped, Helpers, PTypes
    <3>7. CASE child[g] = "running"
      BY <3>5, <3>7 DEF Moves
    <3>8. CASE child[g] = "dead" /\ waiter[g] # "done"
      BY <2>3, <3>3, <3>8 DEF Moves
    <3>9. CASE child[g] = "dead" /\ waiter[g] = "done"
      BY <1>1, <3>4, <3>6, <3>9 DEF Moves, Over
    <3>10. QED
      BY <3>3, <3>7, <3>8, <3>9
  <2>4. QED
    BY <2>2, <2>3
<1>2. PTypes /\ Supervision /\ Helpers =>
        (run # "over" => \A g \in Inst : sig[g] # "none" => Over(g) \/ Moves(g))
  BY <1>1
<1>3. QED
  BY <1>2, HelpersHold, PTL

-----------------------------------------------------------------------------
(* Accounts, where the events are imported.  A push that was booked and is *)
(* not yet taken off is on both sides; it is owed to the pending entry.    *)

Covered(u, d) == emitted[u][d] + Owed(u, d) <= pending[u][d] + billed[u][d]

\* Without faults at most one execution is at work, and its slice is still pending.
Alone(e) ==
  faults = 0 /\ rep[e].pc # "idle" =>
    /\ \A o \in Exec : o # e => rep[o].pc = "idle"
    /\ \A u \in Uuid, d \in Dir : rep[e].slice[u][d] <= pending[u][d]

Books ==
  /\ \A u \in Uuid, d \in Dir : Covered(u, d)
  /\ \A e \in Exec : Alone(e)
  /\ BookedOnce

LEMMA Amounts ==
  ASSUME ATypes, NEW u \in Uuid, NEW d \in Dir
  PROVE  /\ emitted[u][d] \in Nat /\ pending[u][d] \in Nat /\ billed[u][d] \in Nat
         /\ \A e \in Exec : rep[e].slice[u][d] \in Nat /\ Due(e, u, d) \in Nat
<1>1. \A e \in Exec : rep[e].slice \in Traffic
  BY ReportTypes
<1>2. QED
  BY <1>1 DEF ATypes, Traffic, Due

LEMMA EmptyBooks ==
  ASSUME pending = NoTraffic, emitted = NoTraffic, billed = NoTraffic,
         rep = [e \in Exec |-> IdleRep]
  PROVE  Books
<1>1. \A e \in Exec : rep[e].pc = "idle"
  BY DEF IdleRep
<1>2. \A u \in Uuid, d \in Dir : Due("cur", u, d) = 0 /\ Due("late", u, d) = 0
  BY <1>1 DEF Due, Exec
<1>3. \A u \in Uuid, d \in Dir : pending[u][d] = 0 /\ emitted[u][d] = 0 /\ billed[u][d] = 0
  BY DEF NoTraffic, Zero
<1>4. QED
  BY <1>1, <1>2, <1>3 DEF Books, Covered, Owed, Alone, BookedOnce

LEMMA NewBooks ==
  ASSUME newMaps
  PROVE  Books'
<1>1. \A e \in Exec : rep'[e].pc = "idle"
  BY DEF IdleRep, newMaps
<1>2. \A u \in Uuid, d \in Dir : Due("cur", u, d)' = 0 /\ Due("late", u, d)' = 0
  BY <1>1 DEF Due, Exec
<1>3. \A u \in Uuid, d \in Dir : pending'[u][d] = 0 /\ emitted'[u][d] = 0 /\ billed'[u][d] = 0
  BY DEF NoTraffic, Zero, newMaps
<1>4. QED
  BY <1>1, <1>2, <1>3 DEF Books, Covered, Owed, Alone, BookedOnce

\* An execution that changes only its own record changes only what it is owed.
LEMMA OthersDue ==
  ASSUME ATypes, NEW e \in Exec, NEW r, rep' = [rep EXCEPT ![e] = r],
         NEW u \in Uuid, NEW d \in Dir
  PROVE  /\ Owed(u, d) \in Nat
         /\ Due(e, u, d)' \in Nat =>
              /\ Owed(u, d)' \in Nat
              /\ Owed(u, d)' = Owed(u, d) + Due(e, u, d)' - Due(e, u, d)
<1>1. \A o \in Exec : o # e => rep'[o] = rep[o]
  BY DEF ATypes
<1>2. \A o \in Exec : o # e => Due(o, u, d)' = Due(o, u, d)
  BY <1>1 DEF Due
<1>3. \A o \in Exec : Due(o, u, d) \in Nat
  BY Amounts
<1>4. CASE e = "cur"
  BY <1>2, <1>3, <1>4 DEF Owed, Exec
<1>5. CASE e = "late"
  BY <1>2, <1>3, <1>5 DEF Owed, Exec
<1>6. QED
  BY <1>4, <1>5 DEF Exec

LEMMA BooksKept ==
  ASSUME Imports, ATypes, ATypes', Books, [Next]_vars
  PROVE  Books'
<1>1. ASSUME NEW l \in SUBSET Uuid, Start(l) PROVE Books'
  BY <1>1, NewBooks DEF Start
<1>2. CASE mainReturns
  BY <1>2, NewBooks DEF mainReturns
<1>3. CASE UNCHANGED <<pending, rep, emitted, billed, faults>>
  BY <1>3 DEF Books, Covered, Owed, Due, Alone, BookedOnce
<1>4. ASSUME NEW u \in Uuid, NEW d \in Dir, NEW n \in 1..MaxBytes, trafficEvent(u, d, n)
      PROVE Books'
  <2>1. n \in Nat
    BY BoundAssumption
  <2>2. ASSUME NEW v \in Uuid, NEW f \in Dir
        PROVE \E k \in Nat : /\ emitted'[v][f] = emitted[v][f] + k
                             /\ pending'[v][f] = pending[v][f] + k
    <3>1. CASE v = u /\ f = d
      BY <1>4, <2>1, <3>1 DEF trafficEvent, add, ATypes, Traffic
    <3>2. CASE ~(v = u /\ f = d)
      <4>1. emitted'[v][f] = emitted[v][f] /\ pending'[v][f] = pending[v][f]
        BY <1>4, <3>2 DEF trafficEvent, add, ATypes, Traffic
      <4>2. QED
        BY <4>1, Amounts
    <3>3. QED
      BY <3>1, <3>2
  <2>3. UNCHANGED <<rep, billed, faults>>
    BY <1>4 DEF trafficEvent
  <2>4. \A v \in Uuid, f \in Dir, e \in Exec : Due(e, v, f)' = Due(e, v, f)
    BY <2>3 DEF Due
  <2>5. ASSUME NEW v \in Uuid, NEW f \in Dir
        PROVE  /\ Covered(v, f)'
               /\ faults = 0 => emitted'[v][f] + Owed(v, f)' = pending'[v][f] + billed'[v][f]
    <3>1. PICK k \in Nat : /\ emitted'[v][f] = emitted[v][f] + k
                           /\ pending'[v][f] = pending[v][f] + k
      BY <2>2
    <3>2. "cur" \in Exec /\ "late" \in Exec
      BY DEF Exec
    <3>3. Covered(v, f) /\ (faults = 0 => emitted[v][f] + Owed(v, f) = pending[v][f] + billed[v][f])
      BY DEF Books, BookedOnce
    <3>4. QED
      BY <2>3, <2>4, <3>1, <3>2, <3>3, Amounts DEF Covered, Owed
  <2>6. ASSUME NEW e \in Exec PROVE Alone(e)'
    <3>1. ASSUME NEW v \in Uuid, NEW f \in Dir, rep[e].slice[v][f] <= pending[v][f]
          PROVE  rep[e].slice[v][f] <= pending'[v][f]
      BY <2>2, <3>1, Amounts
    <3>2. QED
      BY <2>3, <3>1 DEF Books, Alone
  <2>7. QED
    BY <2>3, <2>5, <2>6 DEF Books, BookedOnce
<1>5. ASSUME NEW e \in Exec, GetUserTrafficSlice(e) PROVE Books'
  <2> DEFINE s == [u \in Uuid |-> sliceOf(u)]
  <2>1. rep' = [rep EXCEPT ![e] = [pc |-> "push", slice |-> s]]
    BY <1>5 DEF GetUserTrafficSlice
  <2>2. UNCHANGED <<pending, emitted, billed>>
    BY <1>5 DEF GetUserTrafficSlice
  <2>3. rep'[e] = [pc |-> "push", slice |-> s] /\ \A o \in Exec : o # e => rep'[o] = rep[o]
    BY <2>1 DEF ATypes
  <2>4. \A u \in Uuid, d \in Dir, o \in Exec : Due(o, u, d)' = Due(o, u, d)
    BY <1>5, <2>3 DEF Due, GetUserTrafficSlice
  <2>5. faults' = 0 => faults = 0 /\ \A o \in Exec : rep[o].pc = "idle"
    BY <1>5 DEF GetUserTrafficSlice, fault, ATypes
  <2>6. \A u \in Uuid, d \in Dir : s[u][d] <= pending[u][d]
    <3>1. \A u \in Uuid, d \in Dir : pending[u][d] \in Nat /\ Zero[d] = 0
      BY Amounts DEF Zero
    <3>2. QED
      BY <3>1 DEF sliceOf
  <2>7. ASSUME NEW o \in Exec PROVE Alone(o)'
    <3>1. CASE o = e
      BY <2>2, <2>3, <2>5, <2>6, <3>1 DEF Alone
    <3>2. CASE o # e
      BY <2>3, <2>5, <3>2 DEF Alone
    <3>3. QED
      BY <3>1, <3>2
  <2>8. \A u \in Uuid, d \in Dir : Covered(u, d)'
    BY <2>2, <2>4 DEF Books, Covered, Owed, Exec
  <2>9. BookedOnce'
    BY <2>2, <2>4, <2>5 DEF Books, BookedOnce, Owed, Exec
  <2>10. QED
    BY <2>7, <2>8, <2>9 DEF Books
<1>6. ASSUME NEW e \in Exec, panelBooks(e) PROVE Books'
  <2>1. rep' = [rep EXCEPT ![e] = [rep[e] EXCEPT !.pc = "booked"]]
    BY <1>6 DEF panelBooks
  <2>2. /\ rep'[e].pc = "booked" /\ rep'[e].slice = rep[e].slice
        /\ \A o \in Exec : o # e => rep'[o] = rep[o]
    BY <2>1 DEF ATypes, Slice
  <2>3. rep[e].pc # "idle" /\ UNCHANGED <<pending, emitted>>
    BY <1>6 DEF panelBooks
  <2>4. faults' = 0 => faults = 0 /\ rep[e].pc # "booked"
    BY <1>6 DEF panelBooks, fault, ATypes
  <2>5. ASSUME NEW u \in Uuid, NEW d \in Dir
        PROVE  /\ billed'[u][d] = billed[u][d] + rep[e].slice[u][d]
               /\ Due(e, u, d)' = rep[e].slice[u][d]
               /\ Due(e, u, d) = IF rep[e].pc = "booked" THEN rep[e].slice[u][d] ELSE 0
    BY <1>6, <2>2 DEF panelBooks, Due
  <2>6. ASSUME NEW u \in Uuid, NEW d \in Dir
        PROVE  /\ Covered(u, d)'
               /\ faults' = 0 => emitted'[u][d] + Owed(u, d)' = pending'[u][d] + billed'[u][d]
    <3>1. Owed(u, d)' = Owed(u, d) + Due(e, u, d)' - Due(e, u, d)
      BY <2>1, <2>5, OthersDue, Amounts
    <3>2. Owed(u, d) \in Nat /\ Owed(u, d)' \in Nat
      BY <2>1, <2>5, OthersDue, Amounts
    <3>3. Covered(u, d) /\ (faults = 0 => emitted[u][d] + Owed(u, d) = pending[u][d] + billed[u][d])
      BY DEF Books, BookedOnce
    <3>4. /\ emitted[u][d] \in Nat /\ pending[u][d] \in Nat /\ billed[u][d] \in Nat
          /\ rep[e].slice[u][d] \in Nat
      BY Amounts
    <3>5. QED
      BY <2>3, <2>4, <2>5, <3>1, <3>2, <3>3, <3>4 DEF Covered
  <2>7. ASSUME NEW o \in Exec PROVE Alone(o)'
    BY <2>2, <2>3, <2>4 DEF Books, Alone
  <2>8. BookedOnce'
    BY <2>6 DEF BookedOnce
  <2>9. QED
    BY <2>6, <2>7, <2>8 DEF Books
<1>7. ASSUME NEW e \in Exec, pushFails(e) PROVE Books'
  <2>1. rep' = [rep EXCEPT ![e] = IdleRep]
    BY <1>7 DEF pushFails
  <2>2. rep'[e].pc = "idle" /\ \A o \in Exec : o # e => rep'[o] = rep[o]
    BY <2>1 DEF ATypes, IdleRep
  <2>3. UNCHANGED <<pending, emitted, billed>>
    BY <1>7 DEF pushFails
  <2>4. faults' = 0 => faults = 0 /\ rep[e].pc # "booked"
    BY <1>7 DEF pushFails, fault, ATypes
  <2>5. ASSUME NEW u \in Uuid, NEW d \in Dir
        PROVE  /\ Covered(u, d)'
               /\ faults' = 0 => emitted'[u][d] + Owed(u, d)' = pending'[u][d] + billed'[u][d]
    <3>1. Due(e, u, d)' = 0
      BY <2>2 DEF Due
    <3>2. Due(e, u, d)' \in Nat
      BY <3>1
    <3>3. /\ Owed(u, d) \in Nat /\ Owed(u, d)' \in Nat
          /\ Owed(u, d)' = Owed(u, d) + Due(e, u, d)' - Due(e, u, d)
      BY <2>1, <3>2, OthersDue
    <3>4. Covered(u, d) /\ (faults = 0 => emitted[u][d] + Owed(u, d) = pending[u][d] + billed[u][d])
      BY DEF Books, BookedOnce
    <3>5. /\ emitted[u][d] \in Nat /\ pending[u][d] \in Nat /\ billed[u][d] \in Nat
          /\ Due(e, u, d) \in Nat
      BY Amounts
    <3>6. rep[e].pc # "booked" => Due(e, u, d) = 0
      BY DEF Due
    <3>7. QED
      BY <2>3, <2>4, <3>1, <3>2, <3>3, <3>4, <3>5, <3>6 DEF Covered
  <2>6. ASSUME NEW o \in Exec PROVE Alone(o)'
    BY <2>2, <2>3, <2>4 DEF Books, Alone
  <2>7. BookedOnce'
    BY <2>5 DEF BookedOnce
  <2>8. QED
    BY <2>5, <2>6, <2>7 DEF Books
<1>8. ASSUME NEW e \in Exec, ConfirmUserTraffic(e) PROVE Books'
  <2>1. rep' = [rep EXCEPT ![e] = IdleRep]
    BY <1>8 DEF ConfirmUserTraffic
  <2>2. rep'[e].pc = "idle" /\ \A o \in Exec : o # e => rep'[o] = rep[o]
    BY <2>1 DEF ATypes, IdleRep
  <2>3. UNCHANGED <<emitted, billed, faults>> /\ rep[e].pc = "booked"
    BY <1>8 DEF ConfirmUserTraffic
  <2>4. ASSUME NEW u \in Uuid, NEW d \in Dir
        PROVE  pending'[u][d] = subtract(pending[u][d], rep[e].slice[u][d])
    BY <1>8 DEF ConfirmUserTraffic
  <2>5. ASSUME NEW u \in Uuid, NEW d \in Dir
        PROVE  /\ Covered(u, d)'
               /\ faults' = 0 => emitted'[u][d] + Owed(u, d)' = pending'[u][d] + billed'[u][d]
    <3>1. Due(e, u, d)' = 0 /\ Due(e, u, d) = rep[e].slice[u][d]
      BY <2>2, <2>3 DEF Due
    <3>2. Due(e, u, d)' \in Nat
      BY <3>1
    <3>3. /\ Owed(u, d) \in Nat /\ Owed(u, d)' \in Nat
          /\ Owed(u, d)' = Owed(u, d) + Due(e, u, d)' - Due(e, u, d)
      BY <2>1, <3>2, OthersDue
    <3>4. Covered(u, d) /\ (faults = 0 => emitted[u][d] + Owed(u, d) = pending[u][d] + billed[u][d])
      BY DEF Books, BookedOnce
    <3>5. /\ emitted[u][d] \in Nat /\ pending[u][d] \in Nat /\ billed[u][d] \in Nat
          /\ rep[e].slice[u][d] \in Nat
      BY Amounts
    <3>6. faults = 0 => rep[e].slice[u][d] <= pending[u][d]
      BY <2>3 DEF Books, Alone
    <3>7. /\ pending'[u][d] \in Nat
          /\ pending'[u][d] >= pending[u][d] - rep[e].slice[u][d]
          /\ faults = 0 => pending'[u][d] = pending[u][d] - rep[e].slice[u][d]
      BY <2>4, <3>5, <3>6, SubtractType
    <3>8. QED
      BY <2>3, <3>1, <3>2, <3>3, <3>4, <3>5, <3>7 DEF Covered
  <2>6. ASSUME NEW o \in Exec PROVE Alone(o)'
    BY <2>2, <2>3 DEF Books, Alone
  <2>7. BookedOnce'
    BY <2>5 DEF BookedOnce
  <2>8. QED
    BY <2>5, <2>6, <2>7 DEF Books
<1>9. ASSUME \E g \in Inst : instStep(g)
      PROVE UNCHANGED <<pending, rep, emitted, billed, faults>>
  BY <1>9 DEF instStep, exits, waitReturns, clearsCmd, pollSeesNil, avars
<1>10. ASSUME closeIdle \/ stopLocked \/ timeAfter \/ Close
       PROVE UNCHANGED <<pending, rep, emitted, billed, faults>>
  BY <1>10 DEF closeIdle, stopLocked, timeAfter, Close, avars
<1>11. ASSUME \E l \in SUBSET Uuid, ok \in BOOLEAN : UpdateUsers(l, ok)
       PROVE UNCHANGED <<pending, rep, emitted, billed, faults>>
  BY <1>11 DEF UpdateUsers, replaceUsersLocked
<1>12. ASSUME (\E u \in Uuid : openEvent(u) \/ closeEvent(u)) \/ Tick \/ GetOnlineDevice
       PROVE UNCHANGED <<pending, rep, emitted, billed, faults>>
  BY <1>12 DEF openEvent, closeEvent, Tick, GetOnlineDevice
<1>13. ASSUME UNCHANGED vars PROVE UNCHANGED <<pending, rep, emitted, billed, faults>>
  BY <1>13 DEF vars, avars
<1>14. QED
  BY <1>1, <1>2, <1>3, <1>4, <1>5, <1>6, <1>7, <1>8, <1>9, <1>10, <1>11, <1>12, <1>13
  DEF Next, reportStep

LEMMA Booked == Imports /\ Spec => [](ATypes /\ Books)
<1>1. Init => ATypes /\ Books
  <2>1. Init => Books
    BY EmptyBooks DEF Init
  <2>2. QED
    BY <2>1, InitTypes, TypeParts
<1>2. Imports /\ ATypes /\ Books /\ [Next]_vars => ATypes' /\ Books'
  BY ATypesKept, BooksKept
<1>3. CASE Imports
  <2>1. ATypes /\ Books /\ [Next]_vars => ATypes' /\ Books'
    BY <1>2, <1>3
  <2>2. QED
    BY <1>1, <2>1, PTL DEF Spec
<1>4. QED
  BY <1>3

\* Where the events are imported no byte of them is lost: it is pending or booked,
\* whatever pushes are repeated, lost after booking, or overlapping.
THEOREM NoEventLost == Imports /\ Spec => []EventsCounted
<1>1. ATypes /\ Books => EventsCounted
  <2> SUFFICES ASSUME ATypes, Books, NEW u \in Uuid, NEW d \in Dir
               PROVE  emitted[u][d] <= pending[u][d] + billed[u][d]
    BY DEF EventsCounted
  <2>1. Covered(u, d) /\ Owed(u, d) \in Nat
    BY Amounts DEF Books, Owed, Exec
  <2>2. QED
    BY <2>1, Amounts DEF Covered
<1>2. QED
  BY <1>1, Booked, PTL

\* Without such a push each byte is booked once.
THEOREM EventsBookedOnce == Imports /\ Spec => []BookedOnce
<1>1. Books => BookedOnce
  BY DEF Books
<1>2. QED
  BY <1>1, Booked, PTL

-----------------------------------------------------------------------------
(* Each instance implements Ledger, where the events are imported.  An     *)
(* instance that is closed takes its pending entries with it (newMaps), so *)
(* the next one begins a ledger of its own.                                *)

\* What the panel has still to book: the pending entries, less the booked pushes
\* that were not yet taken off them.
Claim ==
  [u \in Uuid |-> [d \in Dir |->
    IF Owed(u, d) >= pending[u][d] THEN 0 ELSE pending[u][d] - Owed(u, d)]]

L == INSTANCE Ledger WITH User <- Uuid, Side <- Dir, carried <- emitted,
                          booked <- billed, claim <- Claim, lapsed <- faults > 0

\* An instance starts, or the program ends.
newInstance == (\E l \in SUBSET Uuid : Start(l)) \/ mainReturns

\* The ledger of an instance changes only as a Ledger may.
KeepsLedger == L!Init /\ [][L!Next \/ (newInstance /\ (L!Init)')]_(L!lvars)

\* The books of an instance only grow, on one side at a time, and a fault is for good.
BooksGrow ==
  /\ \A u \in Uuid, d \in Dir :
       emitted[u][d] <= emitted'[u][d] /\ billed[u][d] <= billed'[u][d]
  /\ emitted' = emitted \/ billed' = billed
  /\ faults <= faults'

\* A step that leaves the books alone.
LEMMA BooksFrame ==
  ASSUME ATypes, UNCHANGED <<emitted, billed>>, faults <= faults'
  PROVE  BooksGrow
  BY DEF BooksGrow, ATypes, Traffic

\* Only an event and a panel that books move the books of an instance.
LEMMA StepGrows ==
  ASSUME ATypes, [Next]_vars, ~newInstance
  PROVE  BooksGrow
<1>1. faults \in Nat /\ emitted \in Traffic /\ billed \in Traffic
  BY DEF ATypes
<1>2. ASSUME NEW u \in Uuid, NEW d \in Dir, NEW n \in 1..MaxBytes, trafficEvent(u, d, n)
      PROVE  BooksGrow
  <2>1. n \in Nat
    BY BoundAssumption
  <2>2. emitted' = add(emitted, u, d, n) /\ billed' = billed /\ faults' = faults
    BY <1>2 DEF trafficEvent
  <2>3. ASSUME NEW v \in Uuid, NEW f \in Dir
        PROVE  emitted[v][f] <= emitted'[v][f] /\ billed[v][f] <= billed'[v][f]
    <3>1. emitted[v][f] \in Nat /\ billed[v][f] \in Nat
      BY <1>1 DEF Traffic
    <3>2. emitted'[v][f] = emitted[v][f] \/ emitted'[v][f] = emitted[v][f] + n
      BY <1>1, <2>2 DEF add, Traffic
    <3>3. QED
      BY <2>1, <2>2, <3>1, <3>2
  <2>4. QED
    BY <1>1, <2>2, <2>3 DEF BooksGrow
<1>3. ASSUME NEW e \in Exec, panelBooks(e) PROVE BooksGrow
  <2>1. emitted' = emitted /\ faults <= faults'
    BY <1>1, <1>3 DEF panelBooks, fault
  <2>2. ASSUME NEW u \in Uuid, NEW d \in Dir
        PROVE  emitted[u][d] <= emitted'[u][d] /\ billed[u][d] <= billed'[u][d]
    <3>1. billed'[u][d] = billed[u][d] + rep[e].slice[u][d]
      BY <1>3 DEF panelBooks
    <3>2. emitted[u][d] \in Nat /\ billed[u][d] \in Nat /\ rep[e].slice[u][d] \in Nat
      BY Amounts
    <3>3. QED
      BY <2>1, <3>1, <3>2
  <2>3. QED
    BY <2>1, <2>2 DEF BooksGrow
<1>4. ASSUME NEW e \in Exec, GetUserTrafficSlice(e) \/ pushFails(e) \/ ConfirmUserTraffic(e)
      PROVE  UNCHANGED <<emitted, billed>> /\ faults <= faults'
  BY <1>1, <1>4 DEF GetUserTrafficSlice, pushFails, ConfirmUserTraffic, fault
<1>5. ASSUME \/ \E g \in Inst : instStep(g)
             \/ closeIdle \/ stopLocked \/ timeAfter \/ Close \/ UNCHANGED vars
      PROVE  UNCHANGED avars
  <2>1. ASSUME NEW g \in Inst, instStep(g) PROVE UNCHANGED avars
    BY <2>1 DEF instStep, exits, waitReturns, clearsCmd, pollSeesNil
  <2>2. QED
    BY <1>5, <2>1 DEF closeIdle, stopLocked, timeAfter, Close, vars
<1>6. ASSUME UNCHANGED avars PROVE UNCHANGED <<emitted, billed>> /\ faults <= faults'
  BY <1>1, <1>6 DEF avars
<1>7. ASSUME \/ \E l \in SUBSET Uuid, ok \in BOOLEAN : UpdateUsers(l, ok)
             \/ \E u \in Uuid : openEvent(u) \/ closeEvent(u)
             \/ Tick \/ GetOnlineDevice
      PROVE  UNCHANGED <<emitted, billed>> /\ faults <= faults'
  BY <1>1, <1>7 DEF UpdateUsers, openEvent, closeEvent, Tick, GetOnlineDevice
<1>8. QED
  BY <1>2, <1>3, <1>4, <1>5, <1>6, <1>7, BooksFrame DEF Next, reportStep, newInstance

\* The claim of one user and direction.
LEMMA ClaimAt ==
  ASSUME ATypes, NEW u \in Uuid, NEW d \in Dir
  PROVE  /\ Owed(u, d) \in Nat
         /\ Claim[u][d] \in Nat
         /\ Owed(u, d) <= pending[u][d] => Claim[u][d] + Owed(u, d) = pending[u][d]
         /\ pending[u][d] <= Claim[u][d] + Owed(u, d)
<1>1. pending[u][d] \in Nat
  BY Amounts
<1>2. Owed(u, d) \in Nat
  BY Amounts DEF Owed, Exec
<1>3. Claim[u][d] = IF Owed(u, d) >= pending[u][d] THEN 0 ELSE pending[u][d] - Owed(u, d)
  BY DEF Claim
<1>4. QED
  BY <1>1, <1>2, <1>3

\* What the mapping keeps true of the claim in every reachable state.
ClaimInv ==
  /\ Claim \in Traffic
  /\ \A u \in Uuid, d \in Dir : emitted[u][d] <= Claim[u][d] + billed[u][d]
  /\ faults = 0 => \A u \in Uuid, d \in Dir : Claim[u][d] + billed[u][d] = emitted[u][d]

LEMMA ClaimHolds == ATypes /\ Books => ClaimInv
<1> SUFFICES ASSUME ATypes, Books PROVE ClaimInv
  OBVIOUS
<1>1. \A u \in Uuid, d \in Dir : Claim[u][d] \in Nat
  BY ClaimAt
<1>2. Claim = [u \in Uuid |-> [d \in Dir |-> Claim[u][d]]]
  BY DEF Claim
<1>3. Claim \in Traffic
  BY <1>1, <1>2 DEF Traffic
<1>4. ASSUME NEW u \in Uuid, NEW d \in Dir
      PROVE  emitted[u][d] <= Claim[u][d] + billed[u][d]
  <2>1. emitted[u][d] + Owed(u, d) <= pending[u][d] + billed[u][d]
    BY DEF Books, Covered
  <2>2. QED
    BY <2>1, Amounts, ClaimAt
<1>5. ASSUME faults = 0, NEW u \in Uuid, NEW d \in Dir
      PROVE  Claim[u][d] + billed[u][d] = emitted[u][d]
  <2>1. emitted[u][d] + Owed(u, d) = pending[u][d] + billed[u][d]
    BY <1>5 DEF Books, BookedOnce
  <2>2. pending[u][d] \in Nat /\ \A e \in Exec : rep[e].slice[u][d] \in Nat
    BY Amounts
  <2>3. \A e \in Exec : Alone(e)
    BY DEF Books
  <2>4. \A e \in Exec : rep[e].pc # "idle" =>
          /\ \A o \in Exec : o # e => rep[o].pc = "idle"
          /\ rep[e].slice[u][d] <= pending[u][d]
    BY <1>5, <2>3 DEF Alone
  <2>5. \A e \in Exec : \/ Due(e, u, d) = 0
                        \/ rep[e].pc = "booked" /\ Due(e, u, d) = rep[e].slice[u][d]
    BY DEF Due
  <2>6. \A e \in Exec : Due(e, u, d) <= pending[u][d]
    BY <2>2, <2>4, <2>5
  <2>7. Due("cur", u, d) = 0 \/ Due("late", u, d) = 0
    BY <2>4 DEF Due, Exec
  <2>8. Owed(u, d) <= pending[u][d]
    BY <2>2, <2>6, <2>7, Amounts DEF Owed, Exec
  <2>9. QED
    BY <2>1, <2>8, Amounts, ClaimAt
<1>6. QED
  BY <1>3, <1>4, <1>5 DEF ClaimInv

\* Empty maps are an empty ledger.
LEMMA EmptyLedger ==
  ASSUME ATypes, Books, emitted = NoTraffic, billed = NoTraffic, faults = 0
  PROVE  L!Init
<1>1. ClaimInv
  BY ClaimHolds
<1>2. ASSUME NEW u \in Uuid, NEW d \in Dir PROVE Claim[u][d] = 0
  <2>1. Claim[u][d] + billed[u][d] = emitted[u][d]
    BY <1>1 DEF ClaimInv
  <2>2. billed[u][d] = 0 /\ emitted[u][d] = 0
    BY DEF NoTraffic, Zero
  <2>3. QED
    BY <2>1, <2>2, ClaimAt
<1>3. Claim = [u \in Uuid |-> [d \in Dir |-> Claim[u][d]]]
  BY DEF Claim
<1>4. Claim = [u \in Uuid |-> [d \in Dir |-> 0]]
  BY <1>2, <1>3
<1>5. QED
  BY <1>4 DEF L!Init, L!Nothing, NoTraffic, Zero

LEMMA NewLedger ==
  ASSUME ATypes', Books', newMaps
  PROVE  (L!Init)'
<1>1. ClaimInv'
  BY ClaimHolds, PTL
<1>2. emitted' = NoTraffic /\ billed' = NoTraffic /\ faults' = 0
  BY DEF newMaps
<1>3. ASSUME NEW u \in Uuid, NEW d \in Dir PROVE Claim'[u][d] = 0
  <2>1. Claim'[u][d] + billed'[u][d] = emitted'[u][d]
    BY <1>1, <1>2 DEF ClaimInv
  <2>2. billed'[u][d] = 0 /\ emitted'[u][d] = 0
    BY <1>2 DEF NoTraffic, Zero
  <2>3. Claim'[u][d] \in Nat
    BY <1>1 DEF ClaimInv, Traffic
  <2>4. QED
    BY <2>1, <2>2, <2>3
<1>4. Claim' = [u \in Uuid |-> [d \in Dir |-> Claim'[u][d]]]
  BY DEF Claim
<1>5. Claim' = [u \in Uuid |-> [d \in Dir |-> 0]]
  BY <1>3, <1>4
<1>6. QED
  BY <1>2, <1>5 DEF L!Init, L!Nothing, NoTraffic, Zero

\* A step of an instance is a step of its ledger.
LEMMA LedgerStep ==
  ASSUME ATypes, ATypes', Books, Books', [Next]_vars
  PROVE  L!Next \/ (newInstance /\ (L!Init)')
<1>1. CASE newInstance
  <2>1. newMaps
    BY <1>1 DEF newInstance, Start, mainReturns
  <2>2. QED
    BY <1>1, <2>1, NewLedger
<1>2. CASE ~newInstance
  <2>1. BooksGrow
    BY <1>2, StepGrows
  <2>2. ClaimInv /\ ClaimInv'
    BY ClaimHolds, PTL
  <2>3. faults \in Nat /\ faults' \in Nat
    BY DEF ATypes
  <2>4. Claim \in Traffic /\ Claim' \in Traffic
    BY <2>2 DEF ClaimInv
  <2>5. L!AtMost(emitted, emitted') /\ L!AtMost(billed, billed')
    BY <2>1 DEF BooksGrow, L!AtMost
  <2>6. CASE faults' > 0
    <3>1. \A u \in Uuid, d \in Dir : emitted'[u][d] <= Claim'[u][d] + billed'[u][d]
      BY <2>2 DEF ClaimInv
    <3>2. L!AtMost(emitted', L!Sum(Claim', billed'))
      BY <3>1 DEF L!AtMost, L!Sum
    <3>3. QED
      BY <2>4, <2>5, <2>6, <3>2 DEF L!Next, L!Lapse, L!Amounts, Traffic
  <2>7. CASE faults' = 0
    <3>1. faults = 0
      BY <2>1, <2>3, <2>7 DEF BooksGrow
    <3>2. \A u \in Uuid, d \in Dir : /\ Claim[u][d] + billed[u][d] = emitted[u][d]
                                     /\ Claim'[u][d] + billed'[u][d] = emitted'[u][d]
      BY <2>2, <2>7, <3>1 DEF ClaimInv
    <3>3. \A u \in Uuid, d \in Dir : Claim[u][d] \in Nat /\ Claim'[u][d] \in Nat
      BY <2>4 DEF Traffic
    <3>4. \A u \in Uuid, d \in Dir : /\ billed[u][d] \in Nat /\ billed'[u][d] \in Nat
                                     /\ emitted[u][d] \in Nat /\ emitted'[u][d] \in Nat
      BY DEF ATypes, Traffic
    <3>5. CASE billed' = billed
      <4>1. \A u \in Uuid, d \in Dir :
              Claim'[u][d] + emitted[u][d] = Claim[u][d] + emitted'[u][d]
        BY <3>2, <3>3, <3>4, <3>5
      <4>2. L!Sum(Claim', emitted) = L!Sum(Claim, emitted')
        BY <4>1 DEF L!Sum
      <4>3. QED
        BY <2>4, <2>5, <2>7, <3>1, <3>5, <4>2 DEF L!Next, L!Carry, L!Amounts, Traffic
    <3>6. CASE emitted' = emitted
      <4>1. \A u \in Uuid, d \in Dir :
              Claim'[u][d] + billed'[u][d] = Claim[u][d] + billed[u][d]
        BY <3>2, <3>3, <3>4, <3>6
      <4>2. L!Sum(Claim', billed') = L!Sum(Claim, billed)
        BY <4>1 DEF L!Sum
      <4>3. QED
        BY <2>4, <2>5, <2>7, <3>1, <3>6, <4>2 DEF L!Next, L!Book, L!Amounts, Traffic
    <3>7. QED
      BY <2>1, <3>5, <3>6 DEF BooksGrow
  <2>8. QED
    BY <2>3, <2>6, <2>7
<1>3. QED
  BY <1>1, <1>2

\* Where the events are imported, the external runtime keeps the promise that the
\* embedded one keeps, instance by instance: until a push goes wrong the panel books
\* exactly what the events named and was not yet booked, and what they named is claimed
\* or booked until the instance is dropped.
THEOREM InstancesImplementLedger == Imports /\ Spec => KeepsLedger
<1>1. Init => L!Init
  <2> SUFFICES ASSUME Init PROVE L!Init
    OBVIOUS
  <2>1. ATypes
    BY InitTypes, TypeParts
  <2>2. Books
    BY EmptyBooks DEF Init
  <2>3. QED
    BY <2>1, <2>2, EmptyLedger DEF Init
<1>2. ATypes /\ ATypes' /\ Books /\ Books' /\ [Next]_vars
        => [L!Next \/ (newInstance /\ (L!Init)')]_(L!lvars)
  BY LedgerStep
<1>3. QED
  BY <1>1, <1>2, Booked, PTL DEF Spec, KeepsLedger

-----------------------------------------------------------------------------
(* Where the events are not imported, as in this repository, the report    *)
(* task never has anything to push.                                        *)

Silent ==
  /\ pending = NoTraffic
  /\ billed = NoTraffic
  /\ online = [u \in Uuid |-> "none"]
  /\ rep = [e \in Exec |-> IdleRep]

LEMMA SilentSlices ==
  ASSUME Silent
  PROVE  /\ \A u \in Uuid : sliceOf(u) = Zero /\ online[u] = "none"
         /\ \A e \in Exec : rep[e].pc = "idle"
<1>1. \A u \in Uuid : pending[u] = Zero /\ online[u] = "none"
  BY DEF Silent, NoTraffic
<1>2. \A e \in Exec : rep[e].pc = "idle"
  BY DEF Silent, IdleRep
<1>3. QED
  BY <1>1, <1>2 DEF sliceOf

LEMMA SilentKept ==
  ASSUME ~Imports, Silent, [Next]_vars
  PROVE  Silent'
<1>1. CASE UNCHANGED <<pending, billed, online, rep>>
  BY <1>1 DEF Silent
<1>2. ASSUME (\E l \in SUBSET Uuid : Start(l)) \/ mainReturns PROVE Silent'
  BY <1>2 DEF Start, mainReturns, newMaps, Silent
<1>3. ASSUME NEW e \in Exec, reportStep(e) PROVE FALSE
  BY <1>3, SilentSlices
  DEF reportStep, GetUserTrafficSlice, panelBooks, pushFails, ConfirmUserTraffic
<1>4. ASSUME Tick \/ GetOnlineDevice \/ \E u \in Uuid : closeEvent(u) PROVE FALSE
  BY <1>4, SilentSlices DEF Tick, GetOnlineDevice, closeEvent
<1>5. ASSUME \/ \E l \in SUBSET Uuid, ok \in BOOLEAN : UpdateUsers(l, ok)
             \/ \E u \in Uuid : openEvent(u)
             \/ \E u \in Uuid, d \in Dir, n \in 1..MaxBytes : trafficEvent(u, d, n)
      PROVE  UNCHANGED <<pending, billed, online, rep>>
  BY <1>5 DEF UpdateUsers, openEvent, trafficEvent
<1>6. ASSUME \/ \E g \in Inst : instStep(g)
             \/ closeIdle \/ stopLocked \/ timeAfter \/ Close \/ UNCHANGED vars
      PROVE  UNCHANGED avars
  <2>1. ASSUME NEW g \in Inst, instStep(g) PROVE UNCHANGED avars
    BY <2>1 DEF instStep, exits, waitReturns, clearsCmd, pollSeesNil
  <2>2. QED
    BY <1>6, <2>1 DEF closeIdle, stopLocked, timeAfter, Close, vars
<1>7. QED
  BY <1>1, <1>2, <1>3, <1>4, <1>5, <1>6 DEF Next, avars

\* As long as nothing calls ImportEventLine, the panel books no byte of an external
\* runtime and sees nobody online, however much traffic its events name and however
\* often the task runs: what the violation of EventsCounted shows on one instance
\* holds for all.
THEOREM NothingBookedWithoutImport ==
  ~Imports /\ Spec => [](billed = NoTraffic /\ \A u \in Uuid : online[u] = "none")
<1>1. Init => Silent
  BY DEF Init, Silent
<1>2. Silent => billed = NoTraffic /\ \A u \in Uuid : online[u] = "none"
  BY SilentSlices DEF Silent
<1>3. CASE ~Imports
  <2>1. Silent /\ [Next]_vars => Silent'
    BY <1>3, SilentKept
  <2>2. QED
    BY <1>1, <1>2, <2>1, PTL DEF Spec
<1>4. QED
  BY <1>3

=============================================================================
