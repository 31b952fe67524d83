--------------------------- MODULE ListenerProofs ---------------------------
(***************************************************************************)
(* Proofs about Listener, for any finite set of connections: its types,    *)
(* that Close leaves no goroutine and no socket behind, that Close misses  *)
(* only connections registered after it looked, that Close can only be     *)
(* held up by a client, a target or the library, and that a copy goroutine *)
(* that outlives its handler can always end.                               *)
(***************************************************************************)
EXTENDS Listener, FiniteSetTheorems, TLAPS

LEMMA InitType == Init => TypeOK
  BY DEF Init, TypeOK

\* The copy goroutines of a connection.
CopierState == {"none", "reading", "writing", "ended"}

LEMMA CopierSet ==
  ASSUME NEW f \in [Conn -> [Way -> CopierState]], NEW c \in Conn, NEW w \in Way,
         NEW s \in CopierState
  PROVE  [f EXCEPT ![c][w] = s] \in [Conn -> [Way -> CopierState]]
  OBVIOUS

\* A step of a connection keeps the types, the WaitGroup apart.
LEMMA ConnType ==
  ASSUME TypeOK, NEW c \in Conn, connStep(c), wg' \in Nat
  PROVE  TypeOK'
<1>1. CASE dial(c)
  BY <1>1 DEF TypeOK, dial, lvars, svars
<1>2. CASE Accept(c)
  BY <1>2 DEF TypeOK, Accept, svars
<1>3. CASE spawn(c)
  BY <1>3 DEF TypeOK, spawn, svars
<1>4. CASE registerConn(c)
  BY <1>4 DEF TypeOK, registerConn, lvars, svars
<1>5. ASSUME NEW k \in {"pipe", "uot"}, startSession(c, k)
      PROVE  TypeOK'
  BY <1>5 DEF TypeOK, startSession, lvars
<1>6. ASSUME NEW w \in Way, pipeEnds(c, w)
      PROVE  TypeOK'
  <2>1. copier' \in [Conn -> [Way -> {"none", "reading", "writing", "ended"}]]
    BY <1>6, CopierSet DEF TypeOK, pipeEnds, CopierState
  <2>2. errs' \in [Conn -> Nat]
    BY <1>6 DEF TypeOK, pipeEnds
  <2> QED BY <1>6, <2>1, <2>2 DEF TypeOK, pipeEnds, lvars
<1>7. ASSUME NEW w \in Way, uotEnds(c, w)
      PROVE  TypeOK'
  <2>1. copier' \in [Conn -> [Way -> {"none", "reading", "writing", "ended"}]]
    BY <1>7, CopierSet DEF TypeOK, uotEnds, CopierState
  <2>2. /\ errs' = errs \/ errs' = [errs EXCEPT ![c] = @ + 1]
        /\ sock' = sock \/ sock' = [sock EXCEPT ![c] = "closed"]
        /\ target' = target \/ target' = [target EXCEPT ![c] = "closed"]
    BY <1>7 DEF uotEnds
  <2>3. errs' \in [Conn -> Nat]
    BY <2>2 DEF TypeOK
  <2>4. sock' \in [Conn -> {"none", "open", "closed"}]
    BY <2>2 DEF TypeOK
  <2>5. target' \in [Conn -> {"none", "open", "closed"}]
    BY <2>2 DEF TypeOK
  <2> QED BY <1>7, <2>1, <2>3, <2>4, <2>5 DEF TypeOK, uotEnds, lvars
<1>8. CASE sessionReturns(c)
  <2>1. errs' \in [Conn -> Nat]
    BY <1>8 DEF TypeOK, sessionReturns
  <2> QED BY <1>8, <2>1 DEF TypeOK, sessionReturns, lvars
<1>9. CASE unregisterConn(c)
  BY <1>9 DEF TypeOK, unregisterConn, lvars, svars
<1>10. CASE handlerDone(c)
  BY <1>10 DEF TypeOK, handlerDone, svars
<1>11. CASE peerLeaves(c)
  BY <1>11 DEF TypeOK, peerLeaves, lvars, svars
<1>12. CASE closeConn(c)
  BY <1>12 DEF TypeOK, closeConn, svars
<1>13. CASE startLibrary(c)
  BY <1>13 DEF TypeOK, startLibrary, lvars
<1>14. ASSUME NEW w \in Way, copyReads(c, w) \/ copyWrites(c, w)
       PROVE  TypeOK'
  <2>1. copier' \in [Conn -> [Way -> {"none", "reading", "writing", "ended"}]]
    <3>1. \E s \in {"reading", "writing"} : copier' = [copier EXCEPT ![c][w] = s]
      BY <1>14 DEF copyReads, copyWrites
    <3> QED BY <3>1, CopierSet DEF TypeOK, CopierState
  <2>2. UNCHANGED <<lvars, active, handler, sock, peer, kind, target, errs, late>>
    BY <1>14 DEF copyReads, copyWrites
  <2> QED BY <2>1, <2>2 DEF TypeOK, lvars
<1> QED BY <1>1, <1>2, <1>3, <1>4, <1>5, <1>6, <1>7, <1>8, <1>9, <1>10, <1>11, <1>12, <1>13,
           <1>14
        DEF connStep

\* Any step does, when the WaitGroup stays a natural number.
LEMMA NextType ==
  ASSUME TypeOK, [Next]_vars, wg' \in Nat
  PROVE  TypeOK'
<1>1. CASE acceptLoopReturns
  BY <1>1 DEF TypeOK, acceptLoopReturns, svars
<1>2. CASE closeListener
  BY <1>2 DEF TypeOK, closeListener, svars
<1>3. CASE closeActiveConns
  BY <1>3 DEF TypeOK, closeActiveConns, svars
<1>4. CASE Close
  BY <1>4 DEF TypeOK, Close, svars
<1>5. CASE UNCHANGED vars
  BY <1>5 DEF TypeOK, vars, lvars, svars
<1> QED BY <1>1, <1>2, <1>3, <1>4, <1>5, ConnType DEF Next

-----------------------------------------------------------------------------
(* The WaitGroup.                                                          *)

\* How many of its own the WaitGroup counts.
LEMMA CountedFacts ==
  ASSUME TypeOK
  PROVE  IsFiniteSet(Counted) /\ Cardinality(Counted) \in Nat
<1>1. IsFiniteSet(Counted)
  BY ConnAssumption, FS_Subset DEF Counted
<1> QED BY <1>1, FS_CardinalityType

\* A step adds one handler, removes one, or counts the same.
Same == Counted' = Counted /\ wg' = wg /\ (loop = "ended") = (loop' = "ended")

LEMMA StepCounts ==
  ASSUME TypeOK, [Next]_vars
  PROVE  \/ Same
         \/ /\ \E c \in Conn : c \notin Counted /\ Counted' = Counted \cup {c}
            /\ wg' = wg + 1 /\ loop = "spawning" /\ loop' = "accepting"
         \/ /\ \E c \in Conn : c \in Counted /\ Counted' = Counted \ {c}
            /\ wg' = wg - 1 /\ loop' = loop
         \/ Counted' = Counted /\ wg' = wg - 1 /\ loop = "accepting" /\ loop' = "ended"
<1>1. ASSUME NEW c \in Conn, spawn(c)
      PROVE  /\ c \notin Counted /\ Counted' = Counted \cup {c}
             /\ wg' = wg + 1 /\ loop = "spawning" /\ loop' = "accepting"
  BY <1>1 DEF TypeOK, spawn, Counted
<1>2. ASSUME NEW c \in Conn, handlerDone(c)
      PROVE  c \in Counted /\ Counted' = Counted \ {c} /\ wg' = wg - 1 /\ loop' = loop
  BY <1>2 DEF TypeOK, handlerDone, Counted
<1>3. CASE acceptLoopReturns
  BY <1>3 DEF acceptLoopReturns, Counted
<1>4. ASSUME NEW c \in Conn, dial(c) \/ Accept(c) \/ registerConn(c) \/ sessionReturns(c)
                \/ unregisterConn(c)
      PROVE  Same
  BY <1>4 DEF TypeOK, Same, dial, Accept, registerConn, sessionReturns, unregisterConn,
              mayReturn, lvars, Counted
<1>5. ASSUME NEW c \in Conn, (\E k \in {"pipe", "uot"} : startSession(c, k)) \/ startLibrary(c)
      PROVE  Same
  BY <1>5 DEF TypeOK, Same, startSession, startLibrary, lvars, Counted
<1>6. ASSUME NEW c \in Conn, NEW w \in Way,
             pipeEnds(c, w) \/ uotEnds(c, w) \/ copyReads(c, w) \/ copyWrites(c, w)
      PROVE  Same
  BY <1>6 DEF Same, pipeEnds, uotEnds, copyReads, copyWrites, lvars, Counted
<1>7. ASSUME NEW c \in Conn, peerLeaves(c) \/ closeConn(c)
      PROVE  Same
  BY <1>7 DEF Same, peerLeaves, closeConn, lvars, Counted
<1>8. CASE closeListener
  BY <1>8 DEF TypeOK, Same, closeListener, Counted
<1>9. CASE closeActiveConns \/ Close \/ UNCHANGED vars
  BY <1>9 DEF Same, closeActiveConns, Close, vars, lvars, Counted
<1> QED BY <1>1, <1>2, <1>3, <1>4, <1>5, <1>6, <1>7, <1>8, <1>9 DEF Next, connStep

\* The WaitGroup stays exact, and therefore never goes below zero.
LEMMA StepExact ==
  ASSUME TypeOK, WaitGroupExact, [Next]_vars
  PROVE  WaitGroupExact' /\ wg' \in Nat
<1>1. IsFiniteSet(Counted) /\ Cardinality(Counted) \in Nat
  BY CountedFacts
<1>2. wg = Cardinality(Counted) + (IF loop = "ended" THEN 0 ELSE 1) /\ wg \in Nat
  BY DEF WaitGroupExact, TypeOK
<1>3. CASE Same
  BY <1>2, <1>3 DEF WaitGroupExact, Same
<1>4. CASE /\ \E c \in Conn : c \notin Counted /\ Counted' = Counted \cup {c}
           /\ wg' = wg + 1 /\ loop = "spawning" /\ loop' = "accepting"
  <2>1. Cardinality(Counted') = Cardinality(Counted) + 1
    BY <1>1, <1>4, FS_AddElement
  <2> QED BY <1>1, <1>2, <1>4, <2>1 DEF WaitGroupExact
<1>5. CASE /\ \E c \in Conn : c \in Counted /\ Counted' = Counted \ {c}
           /\ wg' = wg - 1 /\ loop' = loop
  <2>1. Cardinality(Counted') = Cardinality(Counted) - 1 /\ Counted # {}
    BY <1>1, <1>5, FS_RemoveElement
  <2>2. Cardinality(Counted) # 0
    BY <1>1, <2>1, FS_EmptySet
  <2> QED BY <1>1, <1>2, <1>5, <2>1, <2>2 DEF WaitGroupExact
<1>6. CASE Counted' = Counted /\ wg' = wg - 1 /\ loop = "accepting" /\ loop' = "ended"
  BY <1>1, <1>2, <1>6 DEF WaitGroupExact
<1> QED BY <1>3, <1>4, <1>5, <1>6, StepCounts

\* A WaitGroup of zero: acceptLoop is over and no handler is left.
LEMMA ZeroMeansOver ==
  ASSUME TypeOK, WaitGroupExact, wg = 0
  PROVE  loop = "ended" /\ Counted = {}
<1>1. IsFiniteSet(Counted) /\ Cardinality(Counted) \in Nat
  BY CountedFacts
<1>2. loop = "ended" /\ Cardinality(Counted) = 0
  BY <1>1 DEF WaitGroupExact
<1> QED BY <1>1, <1>2, FS_EmptySet

-----------------------------------------------------------------------------
(* The loop, the sockets and the snapshot.                                 *)

\* A step of a connection keeps the loop in shape.
LEMMA ConnLoop ==
  ASSUME TypeOK, LoopShape, NEW c \in Conn, connStep(c)
  PROVE  LoopShape'
<1>1. CASE dial(c)
  BY <1>1 DEF TypeOK, LoopShape, dial, lvars
<1>7. CASE registerConn(c)
  BY <1>7 DEF TypeOK, LoopShape, registerConn, lvars
<1>5. CASE Accept(c)
  BY <1>5 DEF TypeOK, LoopShape, Accept
<1>6. CASE spawn(c)
  BY <1>6 DEF TypeOK, LoopShape, spawn
<1>2. CASE \E k \in {"pipe", "uot"} : startSession(c, k)
  BY <1>2 DEF TypeOK, LoopShape, startSession, lvars
<1>8. CASE startLibrary(c)
  BY <1>8 DEF TypeOK, LoopShape, startLibrary, lvars
<1>3. CASE sessionReturns(c) \/ handlerDone(c)
  BY <1>3 DEF TypeOK, LoopShape, sessionReturns, handlerDone, lvars
<1>9. CASE unregisterConn(c)
  BY <1>9 DEF TypeOK, LoopShape, unregisterConn, mayReturn, lvars
<1>4. CASE \/ \E w \in Way : pipeEnds(c, w) \/ uotEnds(c, w) \/ copyReads(c, w) \/ copyWrites(c, w)
           \/ peerLeaves(c) \/ closeConn(c)
  BY <1>4 DEF LoopShape, pipeEnds, uotEnds, copyReads, copyWrites, peerLeaves, closeConn, lvars
<1> QED BY <1>1, <1>2, <1>3, <1>4, <1>5, <1>6, <1>7, <1>8, <1>9 DEF connStep

\* A step of a connection keeps the sockets in shape.
LEMMA ConnSockets ==
  ASSUME TypeOK, SocketShape, NEW c \in Conn, connStep(c)
  PROVE  SocketShape'
<1>1. CASE dial(c)
  BY <1>1 DEF TypeOK, SocketShape, dial, lvars, svars
<1>2. CASE Accept(c)
  BY <1>2 DEF TypeOK, SocketShape, Accept, svars
<1>3. CASE spawn(c)
  BY <1>3 DEF TypeOK, SocketShape, spawn, svars
<1>4. CASE registerConn(c)
  BY <1>4 DEF TypeOK, SocketShape, registerConn, lvars, svars
<1>5. ASSUME NEW k \in {"pipe", "uot"}, startSession(c, k)
      PROVE  SocketShape'
  BY <1>5 DEF TypeOK, SocketShape, startSession, lvars
<1>6. CASE \E w \in Way : pipeEnds(c, w)
  BY <1>6 DEF SocketShape, pipeEnds, lvars
<1>7. CASE \E w \in Way : uotEnds(c, w)
  BY <1>7 DEF TypeOK, SocketShape, uotEnds, lvars
<1>8. CASE sessionReturns(c)
  BY <1>8 DEF TypeOK, SocketShape, sessionReturns, lvars
<1>9. CASE unregisterConn(c)
  BY <1>9 DEF TypeOK, SocketShape, unregisterConn, mayReturn, lvars, svars
<1>10. CASE handlerDone(c)
  BY <1>10 DEF TypeOK, SocketShape, handlerDone, svars
<1>11. CASE peerLeaves(c)
  BY <1>11 DEF SocketShape, peerLeaves, lvars, svars
<1>12. CASE closeConn(c)
  BY <1>12 DEF TypeOK, SocketShape, closeConn, svars
<1>13. CASE startLibrary(c)
  BY <1>13 DEF TypeOK, SocketShape, startLibrary, lvars
<1>14. CASE \E w \in Way : copyReads(c, w) \/ copyWrites(c, w)
  BY <1>14 DEF SocketShape, copyReads, copyWrites, lvars
<1> QED BY <1>1, <1>2, <1>3, <1>4, <1>5, <1>6, <1>7, <1>8, <1>9, <1>10, <1>11, <1>12, <1>13,
           <1>14
        DEF connStep

LInv == TypeOK /\ Shape /\ OnlyLateMissed

LEMMA InitInv == Init => LInv
<1> SUFFICES ASSUME Init PROVE LInv
  OBVIOUS
<1>1. Counted = {}
  BY DEF Init, Counted
<1>2. Cardinality(Counted) = 0
  BY <1>1, FS_EmptySet
<1>3. WaitGroupExact
  BY <1>2 DEF Init, WaitGroupExact
<1>4. LoopShape /\ SocketShape /\ OnlyLateMissed /\ closer # "done"
  BY DEF Init, LoopShape, SocketShape, OnlyLateMissed
<1> QED BY <1>3, <1>4, InitType DEF LInv, Shape

\* A step keeps the loop and the sockets in shape.
LEMMA StepShape ==
  ASSUME TypeOK, LoopShape, SocketShape, [Next]_vars
  PROVE  LoopShape' /\ SocketShape'
<1>1. CASE acceptLoopReturns
  BY <1>1 DEF LoopShape, SocketShape, acceptLoopReturns, svars
<1>2. CASE closeListener
  BY <1>2 DEF TypeOK, LoopShape, SocketShape, closeListener, svars
<1>3. CASE closeActiveConns
  BY <1>3 DEF TypeOK, LoopShape, SocketShape, closeActiveConns, svars
<1>4. CASE Close
  BY <1>4 DEF LoopShape, SocketShape, Close, svars
<1>5. CASE UNCHANGED vars
  BY <1>5 DEF LoopShape, SocketShape, vars, lvars, svars
<1> QED BY <1>1, <1>2, <1>3, <1>4, <1>5, ConnLoop, ConnSockets DEF Next

\* Close returns only at zero, and nothing is counted after that.
LEMMA StepDone ==
  ASSUME TypeOK, Shape, [Next]_vars
  PROVE  (closer = "done" => wg = 0)'
<1>1. CASE closer = "done"
  <2>1. wg = 0 /\ WaitGroupExact
    BY <1>1 DEF Shape
  <2>2. loop = "ended" /\ Counted = {}
    BY <2>1, ZeroMeansOver
  <2>3. Same
    BY <2>2, StepCounts
  <2> QED BY <2>1, <2>3 DEF Same
<1>2. CASE closer # "done"
  BY <1>2 DEF Next, connStep, dial, Accept, spawn, registerConn, startSession, startLibrary,
              copyReads, copyWrites, pipeEnds, uotEnds, sessionReturns, unregisterConn, handlerDone, peerLeaves, closeConn,
              acceptLoopReturns, closeListener, closeActiveConns, Close, vars, lvars
<1> QED BY <1>1, <1>2

\* closeActiveConns closes what was registered when it looked.
LEMMA StepMissed ==
  ASSUME TypeOK, Shape, OnlyLateMissed, [Next]_vars
  PROVE  OnlyLateMissed'
<1>1. ASSUME NEW c \in Conn, registerConn(c)
      PROVE  OnlyLateMissed'
  <2>1. closer # "done"
    <3>1. c \in Counted
      BY <1>1 DEF registerConn, Counted
    <3> QED BY <3>1, ZeroMeansOver DEF Shape
  <2> QED BY <1>1, <2>1 DEF TypeOK, OnlyLateMissed, registerConn, lvars
<1>2. ASSUME NEW c \in Conn, Accept(c)
      PROVE  OnlyLateMissed'
  <2>1. c \notin active
    BY <1>2 DEF Accept, Shape, SocketShape
  <2> QED BY <1>2, <2>1 DEF TypeOK, OnlyLateMissed, Accept
<1>3. ASSUME NEW c \in Conn, dial(c) \/ spawn(c) \/ handlerDone(c) \/ peerLeaves(c)
      PROVE  OnlyLateMissed'
  BY <1>3 DEF OnlyLateMissed, dial, spawn, handlerDone, peerLeaves, lvars
<1>4. ASSUME NEW c \in Conn, (\E k \in {"pipe", "uot"} : startSession(c, k)) \/ startLibrary(c)
      PROVE  OnlyLateMissed'
  BY <1>4 DEF OnlyLateMissed, startSession, startLibrary, lvars
<1>5. ASSUME NEW c \in Conn, NEW w \in Way, pipeEnds(c, w) \/ copyReads(c, w) \/ copyWrites(c, w)
      PROVE  OnlyLateMissed'
  BY <1>5 DEF OnlyLateMissed, pipeEnds, copyReads, copyWrites, lvars
<1>6. ASSUME NEW c \in Conn, NEW w \in Way, uotEnds(c, w)
      PROVE  OnlyLateMissed'
  BY <1>6 DEF TypeOK, OnlyLateMissed, uotEnds, lvars
<1>7. ASSUME NEW c \in Conn, sessionReturns(c) \/ unregisterConn(c)
      PROVE  OnlyLateMissed'
  BY <1>7 DEF TypeOK, OnlyLateMissed, sessionReturns, unregisterConn, lvars
<1>8. ASSUME NEW c \in Conn, closeConn(c)
      PROVE  OnlyLateMissed'
  BY <1>8 DEF TypeOK, OnlyLateMissed, closeConn
<1>9. CASE acceptLoopReturns \/ closeListener \/ closeActiveConns \/ Close \/ UNCHANGED vars
  BY <1>9 DEF TypeOK, OnlyLateMissed, acceptLoopReturns, closeListener, closeActiveConns,
              Close, vars, lvars
<1> QED BY <1>1, <1>2, <1>3, <1>4, <1>5, <1>6, <1>7, <1>8, <1>9 DEF Next, connStep

LEMMA NextInv == LInv /\ [Next]_vars => LInv'
<1> SUFFICES ASSUME LInv, [Next]_vars PROVE LInv'
  OBVIOUS
<1>1. TypeOK /\ Shape /\ OnlyLateMissed
  BY DEF LInv
<1>2. WaitGroupExact' /\ wg' \in Nat
  BY <1>1, StepExact DEF Shape
<1>3. TypeOK'
  BY <1>1, <1>2, NextType
<1>4. LoopShape' /\ SocketShape'
  BY <1>1, StepShape DEF Shape
<1>5. (closer = "done" => wg = 0)' /\ OnlyLateMissed'
  BY <1>1, StepDone, StepMissed
<1> QED BY <1>2, <1>3, <1>4, <1>5 DEF LInv, Shape

LEMMA Invariance == Spec => []LInv
  BY InitInv, NextInv, PTL DEF Spec

\* Every variable stays in its type: sync.WaitGroup never goes below zero.
THEOREM TypeCorrect == Spec => []TypeOK
<1>1. LInv => TypeOK
  BY DEF LInv
<1> QED BY <1>1, Invariance, PTL

\* The WaitGroup counts exactly acceptLoop and the handlers, the registered
\* connections are those with a running handler, and no socket outlives its own.
THEOREM ShapeKept == Spec => []Shape
<1>1. LInv => Shape
  BY DEF LInv
<1> QED BY <1>1, Invariance, PTL

\* When Close returned, no goroutine it answers for runs and no accepted socket
\* is open, however accept, registration and Close interleaved.
THEOREM CloseIsComplete == Spec => []ClosedForGood
<1>1. LInv => ClosedForGood
  <2> SUFFICES ASSUME LInv, closer = "done"
               PROVE  /\ loop = "ended" /\ active = {}
                      /\ \A c \in Conn : /\ handler[c] \in {"none", "dropped", "returned"}
                                        /\ sock[c] # "open"
    BY DEF ClosedForGood
  <2>1. TypeOK /\ WaitGroupExact /\ LoopShape /\ SocketShape /\ wg = 0
    BY DEF LInv, Shape
  <2>2. loop = "ended" /\ Counted = {}
    BY <2>1, ZeroMeansOver
  <2>3. \A c \in Conn : handler[c] \notin {"spawned", "running", "session", "ending", "leaving"}
    BY <2>2 DEF Counted
  <2>4. \A c \in Conn : handler[c] \in {"none", "dropped", "returned"}
    BY <2>1, <2>2, <2>3 DEF TypeOK, LoopShape
  <2>5. active = {} /\ \A c \in Conn : sock[c] # "open"
    BY <2>1, <2>4 DEF SocketShape
  <2> QED BY <2>2, <2>4, <2>5
<1> QED BY <1>1, Invariance, PTL

\* Close misses only connections that were registered after it looked.
THEOREM MissesOnlyLate == Spec => []OnlyLateMissed
<1>1. LInv => OnlyLateMissed
  BY DEF LInv
<1> QED BY <1>1, Invariance, PTL

-----------------------------------------------------------------------------
(* What CloseReturns and CopiersEnd need besides fairness: no deadlock.    *)
(* The guards of the steps are written out.                                *)

\* A copy goroutine whose I/O is over can send its error and end.
CanEnd(c, w) ==
  /\ copying(c, w)
  /\ kind[c] = "uot" \/ (kind[c] = "pipe" /\ errRoom(c))

\* A step of Fairness is enabled that brings the handler of c on, or the accept loop
\* with it.
Moves(c) ==
  \/ loop = "spawning" /\ handler[c] = "accepted"
  \/ handler[c] \in {"spawned", "ending", "leaving"}
  \/ handler[c] = "running" /\ Broken(c)
  \/ handler[c] = "session" /\ errs[c] > 0
  \/ handler[c] = "session" /\ \E w \in Way : Over(c, w) /\ CanEnd(c, w)
  \/ handler[c] = "session" /\ kind[c] = "uot" /\ copier[c]["out"] = "writing" /\ ~Over(c, "out")

CloseMoves ==
  \/ closer = "snapshot" \/ toClose # {}
  \/ closer = "closing" /\ toClose = {} /\ wg = 0
  \/ loop = "accepting" /\ listener = "closed"
  \/ \E c \in Conn : Moves(c)

\* The errors of a session: its first one is in errCh until the handler takes it, and
\* there is room for the other.  Its target is closed when the handler has left it.
SessionShape(c) ==
  /\ handler[c] \in {"accepted", "spawned", "running", "session"} => sock[c] # "none"
  /\ handler[c] = "session" => kind[c] # "none"
  /\ kind[c] \in {"none", "library"} => errs[c] = 0 /\ \A w \in Way : ~copying(c, w)
  /\ kind[c] \in {"pipe", "uot"} => target[c] # "none"
  /\ kind[c] \in {"pipe", "uot"} /\ handler[c] \in {"ending", "leaving", "returned"}
       => target[c] = "closed"
  /\ copying(c, "out") /\ copying(c, "back") => errs[c] = 0
  /\ copying(c, "out") \/ copying(c, "back") => errs[c] < 2
  /\ handler[c] = "session" /\ kind[c] # "library" /\ ~(copying(c, "out") /\ copying(c, "back"))
       => errs[c] > 0

LoopHolds ==
  /\ loop = "spawning" => \E c \in Conn : handler[c] = "accepted"
  /\ closer # "idle" => listener = "closed"

NoDeadlock == LoopHolds /\ \A c \in Conn : SessionShape(c)

\* The steps of a session.
SessionStep(c) ==
  \/ \E k \in {"pipe", "uot"} : startSession(c, k)
  \/ startLibrary(c)
  \/ \E w \in Way : copyReads(c, w) \/ copyWrites(c, w)
  \/ \E w \in Way : pipeEnds(c, w) \/ uotEnds(c, w)
  \/ sessionReturns(c)

\* What a step does to the session of c when it leaves it alone.
Alone(c) ==
  /\ kind'[c] = kind[c] /\ target'[c] = target[c] /\ errs'[c] = errs[c]
  /\ copier'[c] = copier[c]
  /\ handler'[c] = "session" => handler[c] = "session"
  /\ kind[c] \in {"pipe", "uot"} /\ handler'[c] \in {"ending", "leaving", "returned"}
       => handler[c] \in {"ending", "leaving", "returned"}
  /\ handler'[c] \in {"accepted", "spawned", "running", "session"} => sock'[c] # "none"

LEMMA SessionFrame ==
  ASSUME NEW c, SessionShape(c), Alone(c)
  PROVE  SessionShape(c)'
  BY DEF SessionShape, Alone, copying

\* The other steps leave every session alone.
LEMMA QuietSessions ==
  ASSUME TypeOK, SocketShape, NEW d \in Conn, SessionShape(d), [Next]_vars,
         ~\E c \in Conn : SessionStep(c)
  PROVE  SessionShape(d)'
<1>1. ASSUME NEW c \in Conn, dial(c) \/ spawn(c) \/ registerConn(c) \/ handlerDone(c)
                               \/ peerLeaves(c)
      PROVE  Alone(d)
  BY <1>1 DEF TypeOK, SessionShape, Alone, svars, dial, spawn, registerConn, handlerDone, peerLeaves
<1>2. ASSUME NEW c \in Conn, Accept(c) \/ closeConn(c)
      PROVE  Alone(d)
  BY <1>2 DEF TypeOK, SessionShape, Alone, svars, Accept, closeConn
<1>3. ASSUME NEW c \in Conn, unregisterConn(c)
      PROVE  Alone(d)
  BY <1>3 DEF TypeOK, SocketShape, SessionShape, Alone, svars, unregisterConn, mayReturn
<1>4. ASSUME acceptLoopReturns \/ closeListener \/ closeActiveConns \/ Close \/ UNCHANGED vars
      PROVE  Alone(d)
  BY <1>4 DEF TypeOK, SessionShape, Alone, svars, acceptLoopReturns, closeListener,
              closeActiveConns, Close, vars
<1> QED BY <1>1, <1>2, <1>3, <1>4, SessionFrame DEF Next, connStep, SessionStep

\* The steps of a session leave the others alone.
LEMMA OtherSessions ==
  ASSUME TypeOK, NEW c \in Conn, NEW d \in Conn, d # c, SessionShape(d), SessionStep(c)
  PROVE  SessionShape(d)'
<1>1. ASSUME kind'[d] = kind[d], copier'[d] = copier[d], errs'[d] = errs[d],
             target'[d] = target[d], handler'[d] = handler[d], sock'[d] = sock[d]
      PROVE  SessionShape(d)'
  <2>1. Alone(d)
    BY <1>1 DEF SessionShape, Alone
  <2> QED BY <2>1, SessionFrame
<1>2. ASSUME NEW k \in {"pipe", "uot"}, startSession(c, k)
      PROVE  SessionShape(d)'
  BY <1>1, <1>2 DEF TypeOK, startSession
<1>3. ASSUME NEW w \in Way, pipeEnds(c, w)
      PROVE  SessionShape(d)'
  BY <1>1, <1>3 DEF TypeOK, pipeEnds
<1>4. ASSUME NEW w \in Way, uotEnds(c, w)
      PROVE  SessionShape(d)'
  <2>1. kind' = kind /\ handler' = handler /\ copier'[d] = copier[d]
    BY <1>4 DEF TypeOK, uotEnds
  <2>2. /\ errs' = errs \/ errs' = [errs EXCEPT ![c] = @ + 1]
        /\ sock' = sock \/ sock' = [sock EXCEPT ![c] = "closed"]
        /\ target' = target \/ target' = [target EXCEPT ![c] = "closed"]
    BY <1>4 DEF uotEnds
  <2>3. errs'[d] = errs[d]
    BY <2>2 DEF TypeOK
  <2>4. sock'[d] = sock[d]
    BY <2>2 DEF TypeOK
  <2>5. target'[d] = target[d]
    BY <2>2 DEF TypeOK
  <2> QED BY <1>1, <2>1, <2>3, <2>4, <2>5
<1>5. ASSUME sessionReturns(c) \/ startLibrary(c)
      PROVE  SessionShape(d)'
  BY <1>1, <1>5 DEF TypeOK, sessionReturns, startLibrary
<1>6. ASSUME NEW w \in Way, copyReads(c, w) \/ copyWrites(c, w)
      PROVE  SessionShape(d)'
  BY <1>1, <1>6 DEF TypeOK, copyReads, copyWrites
<1> QED BY <1>2, <1>3, <1>4, <1>5, <1>6 DEF SessionStep

\* One goroutine of a session changes what it does; the other goes on.
LEMMA OneChanges ==
  ASSUME TypeOK, NEW c \in Conn, NEW w \in Way, NEW s, copier' = [copier EXCEPT ![c][w] = s]
  PROVE  /\ copying(c, w)' <=> s \in {"reading", "writing"}
         /\ copying(c, other(w))' <=> copying(c, other(w))
<1>1. copier'[c] = [copier[c] EXCEPT ![w] = s] /\ copier[c] \in [Way -> CopierState]
  BY DEF TypeOK, CopierState
<1>2. other(w) # w /\ other(w) \in Way
  BY DEF other, Way
<1> QED BY <1>1, <1>2 DEF copying

LEMMA OtherWay ==
  ASSUME NEW w \in Way
  PROVE  (w = "out" /\ other(w) = "back") \/ (w = "back" /\ other(w) = "out")
  BY DEF Way, other

\* A goroutine that reads or writes is copying before and after.
LEMMA OwnCopies ==
  ASSUME TypeOK, NEW c \in Conn, SessionShape(c), NEW w \in Way, copyReads(c, w) \/ copyWrites(c, w)
  PROVE  SessionShape(c)'
<1>1. /\ copying(c, w) /\ UNCHANGED <<kind, target, errs, handler, sock>>
      /\ \E s \in {"reading", "writing"} : copier' = [copier EXCEPT ![c][w] = s]
  BY DEF copyReads, copyWrites, copying
<1>2. copying(c, w)' /\ (copying(c, other(w))' <=> copying(c, other(w)))
  BY <1>1, OneChanges
<1>3. (copying(c, "out")' <=> copying(c, "out")) /\ (copying(c, "back")' <=> copying(c, "back"))
  BY <1>1, <1>2, OtherWay
<1>4. kind[c] \in {"pipe", "uot"} \/ kind[c] \notin {"none", "library"}
  BY <1>1 DEF SessionShape
<1> QED BY <1>1, <1>3, <1>4 DEF SessionShape

\* A goroutine that ends leaves its error, unless the other had closed the session.
LEMMA OwnEnds ==
  ASSUME TypeOK, NEW c \in Conn, SessionShape(c), NEW w \in Way, pipeEnds(c, w) \/ uotEnds(c, w)
  PROVE  SessionShape(c)'
<1>1. errs[c] \in Nat
  BY DEF TypeOK
<1>2. errs'[c] = errs[c] + 1 \/ (errs'[c] = errs[c] /\ ~copying(c, other(w)))
  <2>1. CASE pipeEnds(c, w)
    BY <2>1 DEF pipeEnds, TypeOK
  <2>2. CASE uotEnds(c, w)
    BY <2>2 DEF uotEnds, TypeOK
  <2> QED BY <2>1, <2>2
<1>3. /\ copying(c, w) /\ kind[c] \in {"pipe", "uot"} /\ kind'[c] = kind[c]
      /\ handler'[c] = handler[c] /\ copier' = [copier EXCEPT ![c][w] = "ended"]
  BY DEF pipeEnds, uotEnds
<1>4. /\ sock'[c] = sock[c] \/ sock'[c] = "closed"
      /\ target'[c] = target[c] \/ target'[c] = "closed"
  BY DEF pipeEnds, uotEnds, TypeOK
<1>5. ~copying(c, w)' /\ (copying(c, other(w))' <=> copying(c, other(w)))
  <2>1. "ended" \notin {"reading", "writing"}
    OBVIOUS
  <2> QED BY <1>3, <2>1, OneChanges
<1>6. ~(copying(c, "out") /\ copying(c, "back"))'
  BY <1>5, OtherWay
<1>7. copying(c, other(w)) => errs[c] = 0
  BY <1>3, OtherWay DEF SessionShape
<1>8. (copying(c, "out") \/ copying(c, "back"))' => errs'[c] < 2
  <2>1. (copying(c, "out") \/ copying(c, "back"))' => copying(c, other(w))
    BY <1>5, OtherWay
  <2> QED BY <1>2, <1>7, <2>1
<1>9. handler[c] = "session" => errs'[c] > 0
  <2>1. handler[c] = "session" /\ ~copying(c, other(w)) => errs[c] > 0
    BY <1>3, OtherWay DEF SessionShape
  <2> QED BY <1>1, <1>2, <2>1
<1>10. handler'[c] \in {"accepted", "spawned", "running", "session"} => sock'[c] # "none"
  BY <1>3, <1>4 DEF SessionShape
<1>11. target'[c] # "none"
  BY <1>3, <1>4 DEF SessionShape
<1>12. handler'[c] \in {"ending", "leaving", "returned"} => target'[c] = "closed"
  BY <1>3, <1>4 DEF SessionShape
<1> QED BY <1>3, <1>6, <1>8, <1>9, <1>10, <1>11, <1>12 DEF SessionShape

LEMMA OwnSession ==
  ASSUME TypeOK, SocketShape, NEW c \in Conn, SessionShape(c), SessionStep(c)
  PROVE  SessionShape(c)'
<1>1. ASSUME NEW k \in {"pipe", "uot"}, startSession(c, k) PROVE SessionShape(c)'
  <2>1. kind[c] = "none" /\ errs[c] = 0 /\ sock[c] # "none"
    BY <1>1 DEF startSession, SocketShape, SessionShape, TypeOK
  <2>2. /\ kind'[c] = k /\ errs'[c] = 0 /\ sock'[c] # "none" /\ target'[c] = "open"
        /\ handler'[c] = "session" /\ copying(c, "out")' /\ copying(c, "back")'
    BY <1>1, <2>1 DEF startSession, TypeOK, copying, Way
  <2> QED BY <2>2 DEF SessionShape
<1>2. CASE startLibrary(c)
  <2>1. kind[c] = "none" /\ sock[c] # "none"
    BY <1>2 DEF startLibrary, SocketShape, SessionShape, TypeOK
  <2>2. /\ kind'[c] = "library" /\ handler'[c] = "session" /\ sock' = sock
        /\ errs' = errs /\ copier' = copier
    BY <1>2 DEF startLibrary, TypeOK
  <2>3. errs[c] = 0 /\ \A w \in Way : ~copying(c, w)
    BY <2>1 DEF SessionShape
  <2>4. (\A w \in Way : ~copying(c, w)') /\ ~copying(c, "out")' /\ ~copying(c, "back")'
    BY <2>2, <2>3 DEF copying, Way
  <2> QED BY <2>1, <2>2, <2>3, <2>4 DEF SessionShape
<1>3. CASE sessionReturns(c)
  <2>1. /\ handler[c] = "session" /\ errs[c] > 0 /\ errs[c] \in Nat /\ errs'[c] = errs[c] - 1
        /\ kind'[c] = kind[c] /\ copier'[c] = copier[c]
    BY <1>3 DEF sessionReturns, TypeOK
  <2>2. handler'[c] = "ending" /\ target'[c] = "closed"
    BY <1>3 DEF sessionReturns, TypeOK
  <2>3. copying(c, "out")' = copying(c, "out") /\ copying(c, "back")' = copying(c, "back")
    BY <2>1 DEF copying
  <2>4. ~(copying(c, "out") /\ copying(c, "back")) /\ kind[c] \notin {"none", "library"}
    BY <2>1 DEF SessionShape
  <2>5. copying(c, "out") \/ copying(c, "back") => errs'[c] < 2
    BY <2>1 DEF SessionShape
  <2> QED BY <2>1, <2>2, <2>3, <2>4, <2>5 DEF SessionShape
<1> QED BY <1>1, <1>2, <1>3, OwnCopies, OwnEnds DEF SessionStep

LEMMA StepLoop ==
  ASSUME TypeOK, LoopShape, LoopHolds, [Next]_vars
  PROVE  LoopHolds'
<1>1. ASSUME NEW c \in Conn, Accept(c) PROVE LoopHolds'
  BY <1>1 DEF TypeOK, LoopHolds, Accept
<1>2. ASSUME NEW c \in Conn, spawn(c) PROVE LoopHolds'
  BY <1>2 DEF LoopHolds, spawn
<1>3. ASSUME NEW c \in Conn,
             \/ dial(c) \/ registerConn(c) \/ sessionReturns(c) \/ unregisterConn(c)
             \/ startLibrary(c) \/ \E k \in {"pipe", "uot"} : startSession(c, k)
      PROVE  LoopHolds'
  BY <1>3 DEF TypeOK, LoopHolds, dial, registerConn, sessionReturns, unregisterConn, mayReturn,
              startSession, startLibrary, lvars
<1>4. ASSUME NEW c \in Conn, handlerDone(c) PROVE LoopHolds'
  BY <1>4 DEF TypeOK, LoopHolds, handlerDone
<1>5. ASSUME NEW c \in Conn,
             \/ peerLeaves(c) \/ closeConn(c)
             \/ \E w \in Way : pipeEnds(c, w) \/ uotEnds(c, w) \/ copyReads(c, w) \/ copyWrites(c, w)
      PROVE  UNCHANGED <<loop, closer, listener, handler>>
  BY <1>5 DEF peerLeaves, closeConn, pipeEnds, uotEnds, copyReads, copyWrites, lvars
<1>6. ASSUME UNCHANGED <<loop, closer, listener, handler>> PROVE LoopHolds'
  BY <1>6 DEF LoopHolds
<1>7. ASSUME closeListener PROVE LoopHolds'
  BY <1>7 DEF TypeOK, LoopHolds, closeListener
<1>8. ASSUME acceptLoopReturns \/ closeActiveConns \/ Close \/ UNCHANGED vars PROVE LoopHolds'
  BY <1>8 DEF LoopHolds, acceptLoopReturns, closeActiveConns, Close, vars, lvars
<1> QED BY <1>1, <1>2, <1>3, <1>4, <1>5, <1>6, <1>7, <1>8 DEF Next, connStep

LEMMA NextNoDeadlock ==
  LInv /\ NoDeadlock /\ [Next]_vars => NoDeadlock'
<1> SUFFICES ASSUME LInv, NoDeadlock, [Next]_vars PROVE NoDeadlock'
  OBVIOUS
<1>1. TypeOK /\ LoopShape /\ SocketShape /\ LoopHolds /\ \A c \in Conn : SessionShape(c)
  BY DEF LInv, Shape, NoDeadlock
<1>2. ASSUME NEW d \in Conn PROVE SessionShape(d)'
  <2>1. CASE ~\E c \in Conn : SessionStep(c)
    BY <1>1, <2>1, QuietSessions
  <2>2. ASSUME NEW c \in Conn, SessionStep(c) PROVE SessionShape(d)'
    BY <1>1, <2>2, OtherSessions, OwnSession
  <2> QED BY <2>1, <2>2
<1> QED BY <1>1, <1>2, StepLoop DEF NoDeadlock

LEMMA NoDeadlockHolds == Spec => [](LInv /\ NoDeadlock)
<1>1. Init => NoDeadlock
  BY DEF Init, NoDeadlock, LoopHolds, SessionShape, copying, Way
<1> QED BY <1>1, NextNoDeadlock, InitInv, NextInv, PTL DEF Spec

\* A session whose client socket is closed, or whose client left, goes on by itself
\* unless its target or the library holds it.
LEMMA SessionMoves ==
  ASSUME TypeOK, NEW c \in Conn, SessionShape(c), handler[c] = "session", ~(errs[c] > 0),
         Broken(c), ~HeldByTarget(c), ~HeldByLibrary(c)
  PROVE  Moves(c)
<1>1. kind[c] \in {"pipe", "uot"}
  BY DEF TypeOK, SessionShape, HeldByLibrary
<1>2. copying(c, "out") /\ copying(c, "back") /\ errs[c] < 2 /\ target[c] # "none"
  BY <1>1 DEF SessionShape
<1>3. CanEnd(c, "out") /\ CanEnd(c, "back")
  BY <1>1, <1>2 DEF CanEnd, errRoom
<1>4. "out" \in Way /\ "back" \in Way
  BY DEF Way
<1>5. CASE Over(c, "out") \/ Over(c, "back")
  BY <1>3, <1>4, <1>5 DEF Moves
<1>6. CASE ~Over(c, "out") /\ ~Over(c, "back")
  <2>1. copier[c]["out"] = "writing"
    BY <1>2, <1>6 DEF copying, Over, Broken
  <2>2. kind[c] = "pipe" => HeldByTarget(c)
    <3>1. target[c] = "open"
      BY <1>2, <1>6, <2>1 DEF Over, TypeOK
    <3>2. copier[c]["back"] = "reading" \/ sock[c] # "closed"
      BY <1>2, <1>6 DEF copying, Over
    <3>3. sock[c] # "none"
      BY DEF SessionShape
    <3> QED BY <2>1, <3>1, <3>2, <3>3 DEF HeldByTarget, TypeOK
  <2> QED BY <1>1, <1>6, <2>1, <2>2 DEF Moves
<1> QED BY <1>5, <1>6

\* Close never waits for this program itself: while it runs, a step is enabled that
\* fairness brings about, of Close, of acceptLoop, or of a handler or copy goroutine it
\* waits for; or Close is held by a client whose connection was registered too late, by
\* a target that does not take what pipeConn writes, or by a relay of the library.
THEOREM CloseNeverStuck ==
  Spec => [](closer \in {"snapshot", "closing"} => CloseMoves \/ Held)
<1>1. ASSUME LInv, NoDeadlock, closer = "closing", ~Held
      PROVE  CloseMoves
  <2>1. TypeOK /\ WaitGroupExact /\ LoopShape /\ SocketShape /\ OnlyLateMissed
    BY <1>1 DEF LInv, Shape
  <2>2. SUFFICES ASSUME toClose = {}, wg # 0 PROVE CloseMoves
    BY <1>1 DEF CloseMoves
  <2>3. CASE loop = "accepting"
    BY <1>1, <2>3 DEF NoDeadlock, LoopHolds, CloseMoves
  <2>4. CASE loop = "spawning"
    BY <1>1, <2>4 DEF NoDeadlock, LoopHolds, CloseMoves, Moves
  <2>5. CASE loop = "ended"
    <3>1. Counted # {}
      <4>1. wg = Cardinality(Counted) + 0
        BY <2>1, <2>5 DEF WaitGroupExact
      <4> QED BY <2>2, <4>1, FS_EmptySet
    <3>2. PICK c \in Conn : handler[c] \in {"spawned", "running", "session", "ending", "leaving"}
      BY <3>1 DEF Counted
    <3>3. CASE handler[c] \in {"spawned", "ending", "leaving"}
      BY <3>3 DEF CloseMoves, Moves
    <3>4. CASE handler[c] \in {"running", "session"}
      <4>1. c \in active /\ sock[c] # "none" /\ SessionShape(c)
        BY <1>1, <2>1, <3>4 DEF SocketShape, NoDeadlock, SessionShape
      <4>2. ~HeldByClient(c) /\ ~HeldByTarget(c) /\ ~HeldByLibrary(c)
        BY <1>1 DEF Held
      <4>3. Broken(c)
        <5>1. CASE sock[c] = "open"
          <6>1. c \in late
            BY <1>1, <2>1, <2>2, <4>1, <5>1 DEF OnlyLateMissed
          <6>2. peer[c] # "there"
            BY <3>4, <4>2, <5>1, <6>1 DEF HeldByClient
          <6> QED BY <2>1, <6>2 DEF TypeOK, Broken
        <5>2. CASE sock[c] # "open"
          BY <2>1, <4>1, <5>2 DEF TypeOK, Broken
        <5> QED BY <5>1, <5>2
      <4>4. CASE handler[c] = "running"
        BY <4>3, <4>4 DEF CloseMoves, Moves
      <4>5. CASE handler[c] = "session" /\ errs[c] > 0
        BY <4>5 DEF CloseMoves, Moves
      <4>6. CASE handler[c] = "session" /\ ~(errs[c] > 0)
        BY <1>1, <2>1, <4>1, <4>2, <4>3, <4>6, SessionMoves DEF CloseMoves
      <4> QED BY <3>4, <4>4, <4>5, <4>6
    <3> QED BY <3>2, <3>3, <3>4
  <2> QED BY <2>1, <2>3, <2>4, <2>5 DEF TypeOK
<1>2. LInv /\ NoDeadlock => (closer \in {"snapshot", "closing"} => CloseMoves \/ Held)
  BY <1>1 DEF CloseMoves
<1> QED BY <1>2, NoDeadlockHolds, PTL

\* A copy goroutine that outlives its handler never blocks: whichever end it waits for
\* is closed, and its error fits into errCh although nobody reads it any more.
THEOREM CopiersNeverStuck ==
  Spec => [](\A c \in Conn, w \in Way :
               handler[c] \in {"ending", "leaving", "returned"} /\ copying(c, w)
                 => Over(c, w) /\ CanEnd(c, w))
<1>1. ASSUME LInv, NoDeadlock, NEW c \in Conn, NEW w \in Way,
             handler[c] \in {"ending", "leaving", "returned"}, copying(c, w)
      PROVE  Over(c, w) /\ CanEnd(c, w)
  <2>1. TypeOK /\ SocketShape /\ SessionShape(c)
    BY <1>1 DEF LInv, Shape, NoDeadlock
  <2>2. kind[c] \in {"pipe", "uot"}
    BY <1>1, <2>1 DEF TypeOK, SessionShape
  <2>3. sock[c] = "closed" /\ target[c] = "closed"
    BY <1>1, <2>1, <2>2 DEF SocketShape, SessionShape
  <2>4. errs[c] < 2
    BY <1>1, <2>1, OtherWay DEF SessionShape
  <2>5. Over(c, w)
    BY <2>3 DEF Over
  <2> QED BY <1>1, <2>2, <2>4, <2>5 DEF CanEnd, errRoom
<1>2. LInv /\ NoDeadlock =>
        \A c \in Conn, w \in Way :
          handler[c] \in {"ending", "leaving", "returned"} /\ copying(c, w)
            => Over(c, w) /\ CanEnd(c, w)
  BY <1>1
<1> QED BY <1>2, NoDeadlockHolds, PTL

=============================================================================
