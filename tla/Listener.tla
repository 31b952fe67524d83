------------------------------ MODULE Listener ------------------------------
(***************************************************************************)
(* Goroutines and sockets of one embedded runtime: acceptLoop, one handler *)
(* per connection, the two copy goroutines of a session, and Close, which  *)
(* closes the listener, then the connections it finds registered, and then *)
(* waits for the WaitGroup.  A connection may be accepted, but not yet be  *)
(* registered, when Close looks at e.active.                               *)
(*                                                                         *)
(* Whose traffic a session carries is the subject of Embedded; here only   *)
(* the life of goroutines and sockets counts, and on which end of its      *)
(* session a copy goroutine waits: closing the client's socket does not    *)
(* wake one that writes to the target.                                     *)
(*                                                                         *)
(* A definition whose comment begins with "Mutant" is a faulty variant of  *)
(* the one that follows it.                                                *)
(***************************************************************************)
EXTENDS Integers, FiniteSets

CONSTANT Conn   \* connections clients open, each of them once

ASSUME ConnAssumption == IsFiniteSet(Conn)

VARIABLES
  listener,  \* e.listener: "open" or "closed"
  loop,      \* acceptLoop: "accepting", "spawning" (holds a connection), "ended"
  wg,        \* the counter of e.wg
  active,    \* e.active
  handler,   \* per connection: where its handler goroutine is
  sock,      \* per connection: the server's end, "none", "open" or "closed"
  peer,      \* per connection: the client is "there" or "gone"
  kind,      \* per connection: its session, "none", "pipe", "uot" or "library"
  target,    \* per connection: the session's other end, "none", "open" or "closed"
  copier,    \* per connection: what the two copy goroutines of its session do
  errs,      \* per connection: errors waiting in errCh
  closer,    \* Close: "idle", "snapshot", "closing", "done"
  toClose,   \* the connections closeActiveConns found and has still to close
  late       \* ghost: connections registered after closeActiveConns looked

lvars == <<listener, loop, wg, closer, toClose>>
svars == <<kind, target, copier, errs>>
vars == <<lvars, svars, active, handler, sock, peer, late>>

Way == {"out", "back"}   \* client to target, target to client
other(w) == IF w = "out" THEN "back" ELSE "out"
copying(c, w) == copier[c][w] \in {"reading", "writing"}

Broken(c) == sock[c] = "closed" \/ peer[c] = "gone"

\* The end a copy goroutine waits for will not let it wait for ever: a closed one
\* fails at once, and a client that left sends no more.
Over(c, w) ==
  IF (w = "out") = (copier[c][w] = "reading")
  THEN sock[c] = "closed" \/ (w = "out" /\ peer[c] = "gone")
  ELSE target[c] = "closed"

\* Handlers between wg.Add(1) and wg.Done.
Counted == {c \in Conn : handler[c] \in {"spawned", "running", "session", "ending", "leaving"}}

-----------------------------------------------------------------------------
(* The accept loop.                                                        *)

\* A client connects; the connection waits in the listener's backlog.
dial(c) ==
  /\ listener = "open"
  /\ handler[c] = "none"
  /\ handler' = [handler EXCEPT ![c] = "backlog"]
  /\ UNCHANGED <<lvars, active, sock, peer, svars, late>>

\* Accept returns a connection.  (Any error but net.ErrClosed is logged and
\* changes nothing.)
Accept(c) ==
  /\ loop = "accepting"
  /\ listener = "open"
  /\ handler[c] = "backlog"
  /\ loop' = "spawning"
  /\ handler' = [handler EXCEPT ![c] = "accepted"]
  /\ sock' = [sock EXCEPT ![c] = "open"]
  /\ UNCHANGED <<listener, wg, closer, toClose, active, peer, svars, late>>

\* Mutant: the handler is started without wg.Add(1).
spawnUncounted(c) ==
  /\ loop = "spawning"
  /\ handler[c] = "accepted"
  /\ handler' = [handler EXCEPT ![c] = "spawned"]
  /\ loop' = "accepting"
  /\ UNCHANGED <<listener, wg, closer, toClose, active, sock, peer, svars, late>>

\* wg.Add(1) and the go statement.
spawn(c) ==
  /\ loop = "spawning"
  /\ handler[c] = "accepted"
  /\ wg' = wg + 1
  /\ handler' = [handler EXCEPT ![c] = "spawned"]
  /\ loop' = "accepting"
  /\ UNCHANGED <<listener, closer, toClose, active, sock, peer, svars, late>>

\* Accept returns net.ErrClosed; wg.Done is deferred.
acceptLoopReturns ==
  /\ loop = "accepting"
  /\ listener = "closed"
  /\ loop' = "ended"
  /\ wg' = wg - 1
  /\ UNCHANGED <<listener, closer, toClose, active, handler, sock, peer, svars, late>>

-----------------------------------------------------------------------------
(* A connection's handler.                                                 *)

registerConn(c) ==
  /\ handler[c] = "spawned"
  /\ handler' = [handler EXCEPT ![c] = "running"]
  /\ active' = active \cup {c}
  /\ late' = IF closer = "closing" THEN late \cup {c} ELSE late
  /\ UNCHANGED <<lvars, sock, peer, svars>>

\* Handshake and first control message led to a session: pipeConn or handleUoT,
\* each with two copy goroutines.
startSession(c, k) ==
  /\ handler[c] = "running"
  /\ handler' = [handler EXCEPT ![c] = "session"]
  /\ kind' = [kind EXCEPT ![c] = k]
  /\ target' = [target EXCEPT ![c] = "open"]
  /\ copier' = [copier EXCEPT ![c] = [w \in Way |-> "reading"]]
  /\ UNCHANGED <<lvars, active, sock, peer, errs, late>>

\* The handler calls a relay of the library: HandleMuxWithDialer, or HandleSuspicious
\* for a connection that is no client's.  Goroutines and targets are the library's.
startLibrary(c) ==
  /\ handler[c] = "running"
  /\ handler' = [handler EXCEPT ![c] = "session"]
  /\ kind' = [kind EXCEPT ![c] = "library"]
  /\ UNCHANGED <<lvars, active, sock, peer, target, copier, errs, late>>

\* A copy goroutine has read something and begins to write it.  (What a client
\* sent before it left counts as read before.)
copyReads(c, w) ==
  /\ copier[c][w] = "reading"
  /\ ~Over(c, w)
  /\ copier' = [copier EXCEPT ![c][w] = "writing"]
  /\ UNCHANGED <<lvars, active, handler, sock, peer, kind, target, errs, late>>

\* The other end takes what is written, and the goroutine reads again.
copyWrites(c, w) ==
  /\ copier[c][w] = "writing"
  /\ ~Over(c, w)
  /\ copier' = [copier EXCEPT ![c][w] = "reading"]
  /\ UNCHANGED <<lvars, active, handler, sock, peer, kind, target, errs, late>>

\* Mutant: errCh of pipeConn is not buffered, so a send waits for the handler.
unbuffered(c) == handler[c] = "session" /\ errs[c] = 0

\* errCh of pipeConn has room for both errors.
errRoom(c) == errs[c] < 2

\* One direction of pipeConn ends, because a read or a write failed or its sender
\* ended, and sends its error.
pipeEnds(c, w) ==
  /\ kind[c] = "pipe"
  /\ copying(c, w)
  /\ errRoom(c)
  /\ copier' = [copier EXCEPT ![c][w] = "ended"]
  /\ errs' = [errs EXCEPT ![c] = @ + 1]
  /\ UNCHANGED <<lvars, active, handler, sock, peer, kind, target, late>>

\* One direction of handleUoT ends; closeAll closes both ends and sends the error
\* the first time it is called.
uotEnds(c, w) ==
  /\ kind[c] = "uot"
  /\ copying(c, w)
  /\ copier' = [copier EXCEPT ![c][w] = "ended"]
  /\ IF copying(c, other(w))
     THEN /\ errs' = [errs EXCEPT ![c] = @ + 1]
          /\ sock' = [sock EXCEPT ![c] = "closed"]
          /\ target' = [target EXCEPT ![c] = "closed"]
     ELSE UNCHANGED <<errs, sock, target>>
  /\ UNCHANGED <<lvars, active, handler, peer, kind, late>>

\* The first error arrives; the deferred calls close both ends of the session, the
\* target not before.
sessionReturns(c) ==
  /\ handler[c] = "session"
  /\ errs[c] > 0
  /\ errs' = [errs EXCEPT ![c] = @ - 1]
  /\ sock' = [sock EXCEPT ![c] = "closed"]
  /\ target' = [target EXCEPT ![c] = "closed"]
  /\ handler' = [handler EXCEPT ![c] = "ending"]
  /\ UNCHANGED <<lvars, active, peer, kind, copier, late>>

\* The handler's work is over, or may be at any time.
mayReturn(c) ==
  handler[c] \in {"running", "ending"} \/ (handler[c] = "session" /\ kind[c] = "library")

\* Mutant: the connection leaves e.active but is not closed.
unregisterOpen(c) ==
  /\ mayReturn(c)
  /\ handler' = [handler EXCEPT ![c] = "leaving"]
  /\ active' = active \ {c}
  /\ UNCHANGED <<lvars, sock, peer, svars, late>>

\* The handler returns, with or without a session.
unregisterConn(c) ==
  /\ mayReturn(c)
  /\ handler' = [handler EXCEPT ![c] = "leaving"]
  /\ active' = active \ {c}
  /\ sock' = [sock EXCEPT ![c] = "closed"]
  /\ UNCHANGED <<lvars, peer, svars, late>>

\* Mutant: the handler ends without wg.Done.
handlerUndone(c) ==
  /\ handler[c] = "leaving"
  /\ handler' = [handler EXCEPT ![c] = "returned"]
  /\ UNCHANGED <<lvars, active, sock, peer, svars, late>>

\* wg.Done, deferred before registerConn and so the last thing to run.
handlerDone(c) ==
  /\ handler[c] = "leaving"
  /\ handler' = [handler EXCEPT ![c] = "returned"]
  /\ wg' = wg - 1
  /\ UNCHANGED <<listener, loop, closer, toClose, active, sock, peer, svars, late>>

\* The client closes its end, which the server notices only while it reads.
peerLeaves(c) ==
  /\ handler[c] \in {"running", "session"}
  /\ peer[c] = "there"
  /\ peer' = [peer EXCEPT ![c] = "gone"]
  /\ UNCHANGED <<lvars, active, handler, sock, svars, late>>

-----------------------------------------------------------------------------
(* Close, inside closeOnce.                                                *)

\* listener.Close: connections nobody accepted are dropped by the kernel.
closeListener ==
  /\ closer = "idle"
  /\ closer' = "snapshot"
  /\ listener' = "closed"
  /\ handler' = [c \in Conn |-> IF handler[c] = "backlog" THEN "dropped" ELSE handler[c]]
  /\ UNCHANGED <<loop, wg, toClose, active, sock, peer, svars, late>>

\* Mutant: nothing is found to be closed.
snapshotEmpty ==
  /\ closer = "snapshot"
  /\ closer' = "closing"
  /\ toClose' = {}
  /\ UNCHANGED <<listener, loop, wg, active, handler, sock, peer, svars, late>>

\* closeActiveConns copies e.active under activeMu ...
closeActiveConns ==
  /\ closer = "snapshot"
  /\ closer' = "closing"
  /\ toClose' = active
  /\ UNCHANGED <<listener, loop, wg, active, handler, sock, peer, svars, late>>

\* ... and closes the copies one by one without it.
closeConn(c) ==
  /\ c \in toClose
  /\ toClose' = toClose \ {c}
  /\ sock' = [sock EXCEPT ![c] = "closed"]
  /\ UNCHANGED <<listener, loop, wg, closer, active, handler, peer, svars, late>>

\* wg.Wait returns.
Close ==
  /\ closer = "closing"
  /\ toClose = {}
  /\ wg = 0
  /\ closer' = "done"
  /\ UNCHANGED <<listener, loop, wg, toClose, active, handler, sock, peer, svars, late>>

-----------------------------------------------------------------------------

\* Start: the listener is open and acceptLoop counted.
Init ==
  /\ listener = "open"
  /\ loop = "accepting"
  /\ wg = 1
  /\ active = {}
  /\ handler = [c \in Conn |-> "none"]
  /\ sock = [c \in Conn |-> "none"]
  /\ peer = [c \in Conn |-> "there"]
  /\ kind = [c \in Conn |-> "none"]
  /\ target = [c \in Conn |-> "none"]
  /\ copier = [c \in Conn |-> [w \in Way |-> "none"]]
  /\ errs = [c \in Conn |-> 0]
  /\ closer = "idle"
  /\ toClose = {}
  /\ late = {}

connStep(c) ==
  \/ dial(c)
  \/ Accept(c)
  \/ spawn(c)
  \/ registerConn(c)
  \/ \E k \in {"pipe", "uot"} : startSession(c, k)
  \/ startLibrary(c)
  \/ \E w \in Way : copyReads(c, w)
  \/ \E w \in Way : copyWrites(c, w)
  \/ \E w \in Way : pipeEnds(c, w)
  \/ \E w \in Way : uotEnds(c, w)
  \/ sessionReturns(c)
  \/ unregisterConn(c)
  \/ handlerDone(c)
  \/ peerLeaves(c)
  \/ closeConn(c)

Next ==
  \/ \E c \in Conn : connStep(c)
  \/ acceptLoopReturns
  \/ closeListener
  \/ closeActiveConns
  \/ Close

Spec == Init /\ [][Next]_vars

-----------------------------------------------------------------------------
(* Fairness: the Go scheduler runs every goroutine that can go on; I/O on  *)
(* a closed end, and reading from a client that left, comes to an end, and *)
(* so does a handshake, a dial (ten seconds) or the sending of a datagram. *)
(* Nothing is assumed of what a client or a target reads or writes, of the *)
(* library's relays, or of when Close is called.                           *)

Fairness ==
  /\ WF_vars(acceptLoopReturns)
  /\ WF_vars(closeActiveConns)
  /\ WF_vars(Close)
  /\ \A c \in Conn :
       /\ WF_vars(spawn(c))
       /\ WF_vars(registerConn(c))
       /\ WF_vars(sessionReturns(c))
       /\ WF_vars(unregisterConn(c) /\ (\/ handler[c] = "running" /\ Broken(c)
                                       \/ handler[c] = "ending"))
       /\ WF_vars(handlerDone(c))
       /\ WF_vars(closeConn(c))
       /\ WF_vars(copyWrites(c, "out") /\ kind[c] = "uot")
       /\ \A w \in Way : WF_vars((pipeEnds(c, w) \/ uotEnds(c, w)) /\ Over(c, w))

FairSpec == Spec /\ Fairness

-----------------------------------------------------------------------------
(* Properties.                                                             *)

\* Every variable stays in its type; in particular the WaitGroup never goes
\* below zero, where sync.WaitGroup panics.
TypeOK ==
  /\ listener \in {"open", "closed"}
  /\ loop \in {"accepting", "spawning", "ended"}
  /\ wg \in Nat
  /\ active \subseteq Conn
  /\ handler \in [Conn -> {"none", "backlog", "dropped", "accepted", "spawned", "running",
                           "session", "ending", "leaving", "returned"}]
  /\ sock \in [Conn -> {"none", "open", "closed"}]
  /\ peer \in [Conn -> {"there", "gone"}]
  /\ kind \in [Conn -> {"none", "pipe", "uot", "library"}]
  /\ target \in [Conn -> {"none", "open", "closed"}]
  /\ copier \in [Conn -> [Way -> {"none", "reading", "writing", "ended"}]]
  /\ errs \in [Conn -> Nat]
  /\ closer \in {"idle", "snapshot", "closing", "done"}
  /\ toClose \subseteq Conn
  /\ late \subseteq Conn

\* When Close returned, acceptLoop and every handler are over, no connection is
\* registered and every accepted socket is closed, also one that was accepted
\* while Close ran and never seen by closeActiveConns.
ClosedForGood ==
  closer = "done" =>
    /\ loop = "ended" /\ active = {}
    /\ \A c \in Conn : handler[c] \in {"none", "dropped", "returned"} /\ sock[c] # "open"

\* Why ClosedForGood holds.  The WaitGroup counts acceptLoop and every handler
\* from its go statement to its last deferred call;
WaitGroupExact ==
  wg = Cardinality(Counted) + (IF loop = "ended" THEN 0 ELSE 1)

\* acceptLoop holds at most one connection that is not counted yet, and none
\* once it ended, which takes a closed listener;
LoopShape ==
  /\ loop # "spawning" => \A c \in Conn : handler[c] # "accepted"
  /\ \A c, d \in Conn : handler[c] = "accepted" /\ handler[d] = "accepted" => c = d
  /\ loop = "ended" => listener = "closed"
  /\ listener = "closed" => \A c \in Conn : handler[c] # "backlog"

\* a handler is registered from registerConn to unregisterConn, no socket outlives
\* its handler, and sessions and closeActiveConns concern registered handlers;
SocketShape ==
  /\ active = {c \in Conn : handler[c] \in {"running", "session", "ending"}}
  /\ \A c \in Conn : handler[c] \in {"none", "backlog", "dropped"} => sock[c] = "none"
  /\ \A c \in Conn : handler[c] \in {"ending", "leaving", "returned"} => sock[c] = "closed"
  /\ \A c \in Conn : kind[c] # "none"
       => handler[c] \in {"session", "ending", "leaving", "returned"}
  /\ \A c \in toClose : handler[c] \in {"running", "session", "ending", "leaving", "returned"}

\* and Close returned with a WaitGroup of zero, which stays zero.
Shape ==
  /\ WaitGroupExact
  /\ LoopShape
  /\ SocketShape
  /\ closer = "done" => wg = 0

\* A registered connection that is still open after closeActiveConns looked at
\* e.active is either about to be closed by it or was registered later: those
\* are the only ones Close has to wait for.
OnlyLateMissed ==
  closer \in {"closing", "done"} =>
    \A c \in active : sock[c] = "open" => c \in toClose \cup late

\* What Close may have to wait for: a client that keeps a connection open which was
\* registered after closeActiveConns looked,
HeldByClient(c) ==
  /\ c \in late
  /\ handler[c] \in {"running", "session"}
  /\ sock[c] = "open" /\ peer[c] = "there"

\* a target that does not take what pipeConn writes to it, while the other direction
\* waits for it to send (or, on a connection nobody closed, for the client to take
\* something): pipeConn closes the target only when it returns,
HeldByTarget(c) ==
  /\ handler[c] = "session" /\ kind[c] = "pipe"
  /\ copier[c]["out"] = "writing" /\ target[c] = "open"
  /\ copier[c]["back"] = "reading" \/ sock[c] = "open"

\* or a relay of the library.
HeldByLibrary(c) == handler[c] = "session" /\ kind[c] = "library"

Held == \E c \in Conn : HeldByClient(c) \/ HeldByTarget(c) \/ HeldByLibrary(c)

\* Close, once called, returns, unless from some time on there is always a client, a
\* target or the library that holds it.  No goroutine of this program keeps it
\* waiting.
CloseReturns == (closer # "idle" ~> closer = "done") \/ <>[]Held

\* The copy goroutine that is left when pipeConn or handleUoT returned after the
\* first error ends as well: both ends are closed and its own error fits in
\* errCh, so no goroutine leaks.
CopiersEnd ==
  \A c \in Conn :
    handler[c] = "returned" ~> \A w \in Way : ~copying(c, w)

=============================================================================
