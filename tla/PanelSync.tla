----------------------------- MODULE PanelSync ------------------------------
(***************************************************************************)
(* One node: the loop of runNode (main.go), the controller it starts and   *)
(* restarts (internal/controller/controller.go), the panel client's change *)
(* detection (internal/panel/client.go), the nodeInfoMonitor task and the  *)
(* panel cache on disk.                                                    *)
(*                                                                         *)
(* Every HTTP request is a step of its own, so the panel may change, a     *)
(* request fail or the process die between any two.  A node configuration  *)
(* and a user list stand for their content: a body hash or an ETag equals  *)
(* another exactly when the contents are equal, and the 304 answer and the *)
(* equal body hash, which GetNodeInfo treats alike, are one case.          *)
(*                                                                         *)
(* Closing a task does not wait for its running execution, so the monitor  *)
(* of a closed controller may still be on its way while the next one runs. *)
(*                                                                         *)
(* A definition whose comment begins with "Mutant" is a faulty variant of  *)
(* the one that follows it, which some property must tell from the real    *)
(* one; it is no part of the specification.                                *)
(***************************************************************************)
EXTENDS Integers

CONSTANTS
  Node,         \* node configurations that decode and normalise
  BadNode,      \* a body that GetNodeInfo hashes and then refuses
  UserList,     \* user lists: maps uuid -> [id, plan]
  None,         \* nil, an empty hash or ETag, no file
  Faults,       \* the failures that may happen, see FaultKind
  MaxFaults,    \* bound: failures
  MaxChanges,   \* bound: changes of the panel's data
  MaxRestarts   \* bound: restarts of the process

\* A request that times out (client timeout or context deadline), one that fails
\* otherwise, one refused with 401 or 403, a cache file that cannot be written,
\* and a server that cannot be built, started or updated.
FaultKind == {"timeout", "error", "auth", "disk", "server"}

ASSUME NodeAssumption == BadNode \notin Node /\ None \notin Node \cup {BadNode}
ASSUME UserAssumption == None \notin UserList
ASSUME FaultAssumption ==
  Faults \subseteq FaultKind /\ MaxFaults \in Nat /\ MaxChanges \in Nat /\ MaxRestarts \in Nat

VARIABLES
  panelNode,  \* what the panel answers to /config
  panelUsers, \* what the panel answers to /user
  loop,       \* where runNode is
  snap,       \* the snapshot Controller.Start works with
  ctl,        \* the running controller ("cur") and a closed one ("old")
  reload,     \* reloadCh holds a token
  cache,      \* panel-cache.json
  budget      \* ghost: failures, their kinds, changes and restarts so far

vars == <<panelNode, panelUsers, loop, snap, ctl, reload, cache, budget>>
panel == <<panelNode, panelUsers>>

Inst == {"cur", "old"}
NoSnap == [node |-> None, users |-> None]

\* A controller with its panel client and its server, as New makes it.
\* seenNode is responseBodyHash and nodeEtag, seenUsers is userEtag; mon, got
\* and expired are the execution of nodeInfoMonitor: where it is, what it
\* fetched, and whether its context is over.
Fresh == [seenNode |-> None, seenUsers |-> None, info |-> None, userList |-> None,
          served |-> None, mon |-> "idle", got |-> None, expired |-> FALSE]

\* compareUserList found users added, deleted or modified; plan stands for the
\* speed limit, the device limit and the email address.
compareUserList(old, new) ==
  DOMAIN old = DOMAIN new => \E u \in DOMAIN new : old[u].plan # new[u].plan

\* One failure of the given kind.
fail(kind) ==
  /\ kind \in Faults
  /\ budget.faults < MaxFaults
  /\ budget' = [budget EXCEPT !.faults = @ + 1, !.kinds = @ \cup {kind}]

\* MkdirAll, WriteFile to the temporary file and Rename all succeed.
saved(node, users) ==
  cache' = [node |-> node, users |-> users] /\ UNCHANGED budget

\* One of them fails: a warning, and the old cache stays.
notSaved == fail("disk") /\ UNCHANGED cache

savePanelSnapshot(node, users) == saved(node, users) \/ notSaved

-----------------------------------------------------------------------------
(* Controller.Start, called by runNode.                                    *)

\* Start returned an error: wait, then a new client and a new controller.
startAgain == /\ loop' = "node"
              /\ ctl' = [ctl EXCEPT !["cur"] = Fresh]

\* Mutant: a configuration that does not normalise is used as it is.
startAnyNodeInfo ==
  /\ loop = "node"
  /\ ctl' = [ctl EXCEPT !["cur"].seenNode = panelNode]
  /\ loop' = "users"
  /\ snap' = [snap EXCEPT !.node = panelNode]
  /\ UNCHANGED <<panel, reload, cache, budget>>

\* GetNodeInfo keeps the body's hash before it decodes and normalises the body.
startNodeInfo ==
  /\ loop = "node"
  /\ ctl' = [ctl EXCEPT !["cur"].seenNode = panelNode]
  /\ IF panelNode = BadNode
     THEN loop' = "cached" /\ UNCHANGED snap
     ELSE loop' = "users" /\ snap' = [snap EXCEPT !.node = panelNode]
  /\ UNCHANGED <<panel, reload, cache, budget>>

startUserList ==
  /\ loop = "users"
  /\ ctl' = [ctl EXCEPT !["cur"].seenUsers = panelUsers]
  /\ snap' = [snap EXCEPT !.users = panelUsers]
  /\ loop' = "alive"
  /\ UNCHANGED <<panel, reload, cache, budget>>

\* GetUserAlive hides every failure but a timeout; the snapshot is complete
\* and is saved.
startUserAlive ==
  /\ loop = "alive"
  /\ loop' = "server"
  /\ savePanelSnapshot(snap.node, snap.users)
  /\ UNCHANGED <<panel, snap, ctl, reload>>

\* Mutant: GetUserList keeps the ETag of an answer it then fails to decode.
startFailsWithEtag(kind) ==
  /\ \/ loop \in {"node", "users"} /\ kind \in {"timeout", "error", "auth"}
     \/ loop = "alive" /\ kind = "timeout"
  /\ fail(kind)
  /\ IF kind = "auth" THEN startAgain
     ELSE /\ loop' = "cached"
          /\ ctl' = IF loop = "users" /\ kind = "error"
                    THEN [ctl EXCEPT !["cur"].seenUsers = panelUsers] ELSE ctl
  /\ UNCHANGED <<panel, snap, reload, cache>>

\* A failed request: 401 and 403 end the start, any other failure falls back
\* to the cache.
startFails(kind) ==
  /\ \/ loop \in {"node", "users"} /\ kind \in {"timeout", "error", "auth"}
     \/ loop = "alive" /\ kind = "timeout"
  /\ fail(kind)
  /\ IF kind = "auth" THEN startAgain
                      ELSE loop' = "cached" /\ UNCHANGED ctl
  /\ UNCHANGED <<panel, snap, reload, cache>>

readPanelSnapshot ==
  /\ loop = "cached"
  /\ IF cache = None
     THEN startAgain /\ UNCHANGED snap
     ELSE snap' = cache /\ loop' = "server" /\ UNCHANGED ctl
  /\ UNCHANGED <<panel, reload, cache, budget>>

\* newServer and server.Start, then the tasks.
startServer ==
  /\ loop = "server"
  /\ ctl' = [ctl EXCEPT !["cur"].info = snap.node, !["cur"].userList = snap.users,
                        !["cur"].served = snap.users]
  /\ loop' = "run"
  /\ snap' = NoSnap
  /\ UNCHANGED <<panel, reload, cache, budget>>

serverFails ==
  /\ loop = "server"
  /\ fail("server")
  /\ startAgain
  /\ snap' = NoSnap
  /\ UNCHANGED <<panel, reload, cache>>

\* runNode takes the token, closes the controller and starts over.  Bound: one
\* execution of a closed controller's monitor at a time.
reloads ==
  /\ loop = "run"
  /\ reload
  /\ ctl["cur"].mon # "idle" => ctl["old"].mon = "idle"
  /\ reload' = FALSE
  /\ loop' = "node"
  /\ ctl' = [cur |-> Fresh,
             old |-> IF ctl["cur"].mon # "idle" THEN ctl["cur"] ELSE ctl["old"]]
  /\ UNCHANGED <<panel, snap, cache, budget>>

\* The process dies and is started again; the cache is all that stays.
restart ==
  /\ budget.restarts < MaxRestarts
  /\ budget' = [budget EXCEPT !.restarts = @ + 1]
  /\ loop' = "node"
  /\ snap' = NoSnap
  /\ ctl' = [k \in Inst |-> Fresh]
  /\ reload' = FALSE
  /\ UNCHANGED <<panel, cache>>

-----------------------------------------------------------------------------
(* nodeInfoMonitor of controller k.                                        *)

\* Controller c with its monitor at pc, having fetched got.
monitorAt(c, pc, got) == [c EXCEPT !.mon = pc, !.got = got]

\* Controller c whose client keeps the hash or the ETag of what it was sent.
seenNodeOf(c) == [c EXCEPT !.seenNode = panelNode]
seenUsersOf(c) == [c EXCEPT !.seenUsers = panelUsers]

\* Controller c whose server works with the list it fetched, which c itself
\* takes over too, or not.
servedOf(c) == [c EXCEPT !.served = c.got]
updatedOf(c) == [servedOf(c) EXCEPT !.userList = c.got]

\* nodeInfoMonitor returned.
Returned(c) == [c EXCEPT !.mon = "idle", !.got = None, !.expired = FALSE]

\* The pull interval passed; a closed controller's task starts nothing.
monitorStarts ==
  /\ loop = "run"
  /\ ctl["cur"].mon = "idle"
  /\ ctl' = [ctl EXCEPT !["cur"] = monitorAt(@, "node", None)]
  /\ UNCHANGED <<panel, loop, snap, reload, cache, budget>>

\* GetNodeInfo: nothing new, a body that is refused once its hash was kept, or
\* a new configuration.
GetNodeInfo(k) ==
  /\ ctl[k].mon = "node"
  /\ ~ctl[k].expired
  /\ \/ /\ panelNode = ctl[k].seenNode
        /\ ctl' = [ctl EXCEPT ![k] = monitorAt(@, "users", None)]
     \/ /\ panelNode # ctl[k].seenNode
        /\ panelNode = BadNode
        /\ ctl' = [ctl EXCEPT ![k] = Returned(seenNodeOf(@))]
     \/ /\ panelNode # ctl[k].seenNode
        /\ panelNode # BadNode
        /\ ctl' = [ctl EXCEPT ![k] = monitorAt(seenNodeOf(@), "save", panelNode)]
  /\ UNCHANGED <<panel, loop, snap, reload, cache, budget>>

\* Mutant: the new configuration is cached and triggerReload forgotten.
newNodeInfoKept(k) ==
  /\ ctl[k].mon = "save"
  /\ savePanelSnapshot(ctl[k].got, ctl[k].userList)
  /\ ctl' = [ctl EXCEPT ![k] = Returned(@)]
  /\ UNCHANGED <<panel, loop, snap, reload>>

\* Mutant: a cache that cannot be written ends the execution before the reload.
newNodeInfoIfSaved(k) ==
  /\ ctl[k].mon = "save"
  /\ \/ saved(ctl[k].got, ctl[k].userList) /\ reload' = TRUE
     \/ notSaved /\ UNCHANGED reload
  /\ ctl' = [ctl EXCEPT ![k] = Returned(@)]
  /\ UNCHANGED <<panel, loop, snap>>

\* A new configuration is cached with the users at hand, and the node reloads.
newNodeInfo(k) ==
  /\ ctl[k].mon = "save"
  /\ savePanelSnapshot(ctl[k].got, ctl[k].userList)
  /\ reload' = TRUE
  /\ ctl' = [ctl EXCEPT ![k] = Returned(@)]
  /\ UNCHANGED <<panel, loop, snap>>

\* GetUserList keeps the ETag of the list it returns.
GetUserList(k) ==
  /\ ctl[k].mon = "users"
  /\ ~ctl[k].expired
  /\ ctl' = [ctl EXCEPT ![k] =
       IF panelUsers = @.seenUsers
       THEN monitorAt(@, "alive", None)
       ELSE monitorAt(seenUsersOf(@), "alive", panelUsers)]
  /\ UNCHANGED <<panel, loop, snap, reload, cache, budget>>

\* GetUserAlive returns a map, an empty one where it hid a failure.
GetUserAlive(k) ==
  /\ ctl[k].mon = "alive"
  /\ ~ctl[k].expired
  /\ ctl' = [ctl EXCEPT ![k] = monitorAt(@, "apply", @.got)]
  /\ UNCHANGED <<panel, loop, snap, reload, cache, budget>>

\* No new list, or one that compareUserList takes for the old one.
nothingNew(k) ==
  /\ ctl[k].mon = "apply"
  /\ ctl[k].got # None => ~compareUserList(ctl[k].userList, ctl[k].got)
  /\ ctl' = [ctl EXCEPT ![k] = Returned(@)]
  /\ savePanelSnapshot(ctl[k].info, ctl[k].userList)
  /\ UNCHANGED <<panel, loop, snap, reload>>

\* server.UpdateUsers took the list.
usersUpdated(k) ==
  /\ ctl[k].mon = "apply"
  /\ ctl[k].got # None
  /\ compareUserList(ctl[k].userList, ctl[k].got)
  /\ ctl' = [ctl EXCEPT ![k] = Returned(updatedOf(@))]
  /\ savePanelSnapshot(ctl[k].info, ctl[k].got)
  /\ UNCHANGED <<panel, loop, snap, reload>>

\* Mutant: the error is logged and no reload asked for.
updateFailsLogged(k) ==
  /\ ctl[k].mon = "apply"
  /\ ctl[k].got # None
  /\ compareUserList(ctl[k].userList, ctl[k].got)
  /\ fail("server")
  /\ ctl' = [ctl EXCEPT ![k] = Returned(servedOf(@))]
  /\ UNCHANGED <<panel, loop, snap, reload, cache>>

\* It returned an error after it had replaced its users (rebuildUserHashesLocked
\* comes last): the controller keeps the old list and asks for a reload.
updateFails(k) ==
  /\ ctl[k].mon = "apply"
  /\ ctl[k].got # None
  /\ compareUserList(ctl[k].userList, ctl[k].got)
  /\ fail("server")
  /\ ctl' = [ctl EXCEPT ![k] = Returned(servedOf(@))]
  /\ reload' = TRUE
  /\ UNCHANGED <<panel, loop, snap, cache>>

\* Mutant: GetUserAlive reports every failure.
monitorFailsAny(k, kind) ==
  /\ ctl[k].mon \in {"node", "users", "alive"} /\ kind \in {"timeout", "error", "auth"}
  /\ ~ctl[k].expired
  /\ fail(kind)
  /\ ctl' = [ctl EXCEPT ![k] = Returned(@)]
  /\ UNCHANGED <<panel, loop, snap, reload, cache>>

\* A request failed: the execution is over, with an error that Task.Start does
\* not act on.  GetUserAlive only reports timeouts.
monitorFails(k, kind) ==
  /\ \/ ctl[k].mon \in {"node", "users"} /\ kind \in {"timeout", "error", "auth"}
     \/ ctl[k].mon = "alive" /\ kind = "timeout"
  /\ ~ctl[k].expired
  /\ fail(kind)
  /\ ctl' = [ctl EXCEPT ![k] = Returned(@)]
  /\ UNCHANGED <<panel, loop, snap, reload, cache>>

\* ExecuteWithTimeout gives up and asks for a reload; the execution goes on
\* with a context that is over.
executionTimedOut(k) ==
  /\ ctl[k].mon # "idle"
  /\ ~ctl[k].expired
  /\ fail("timeout")
  /\ ctl' = [ctl EXCEPT ![k].expired = TRUE]
  /\ reload' = TRUE
  /\ UNCHANGED <<panel, loop, snap, cache>>

\* The report task shares the channel: one of its executions timed out.
reportTimedOut ==
  /\ loop = "run"
  /\ fail("timeout")
  /\ reload' = TRUE
  /\ UNCHANGED <<panel, loop, snap, ctl, cache>>

\* The next request of an execution that timed out fails at once.
expiredReturns(k) ==
  /\ ctl[k].expired
  /\ ctl[k].mon \in {"node", "users", "alive"}
  /\ ctl' = [ctl EXCEPT ![k] = Returned(@)]
  /\ UNCHANGED <<panel, loop, snap, reload, cache, budget>>

-----------------------------------------------------------------------------
\* The administrator changes the node or the users on the panel.
panelChanges ==
  /\ budget.changes < MaxChanges
  /\ budget' = [budget EXCEPT !.changes = @ + 1]
  /\ \/ panelNode' \in (Node \cup {BadNode}) \ {panelNode} /\ UNCHANGED panelUsers
     \/ panelUsers' \in UserList \ {panelUsers} /\ UNCHANGED panelNode
  /\ UNCHANGED <<loop, snap, ctl, reload, cache>>

Init ==
  /\ panelNode \in Node \cup {BadNode}
  /\ panelUsers \in UserList
  /\ loop = "node"
  /\ snap = NoSnap
  /\ ctl = [k \in Inst |-> Fresh]
  /\ reload = FALSE
  /\ cache = None
  /\ budget = [faults |-> 0, kinds |-> {}, changes |-> 0, restarts |-> 0]

startStep ==
  \/ startNodeInfo
  \/ startUserList
  \/ startUserAlive
  \/ \E kind \in Faults : startFails(kind)
  \/ readPanelSnapshot
  \/ startServer
  \/ serverFails

monitorStep(k) ==
  \/ GetNodeInfo(k)
  \/ newNodeInfo(k)
  \/ GetUserList(k)
  \/ GetUserAlive(k)
  \/ nothingNew(k)
  \/ usersUpdated(k)
  \/ updateFails(k)
  \/ \E kind \in Faults : monitorFails(k, kind)
  \/ expiredReturns(k)

Next ==
  \/ startStep
  \/ reloads
  \/ restart
  \/ monitorStarts
  \/ \E k \in Inst : monitorStep(k)
  \/ \E k \in Inst : executionTimedOut(k)
  \/ reportTimedOut
  \/ panelChanges

Spec == Init /\ [][Next]_vars

\* runNode and the monitor are goroutines that run when they can: a start, a
\* reload, the pull timer and an execution all go on.  Nothing is assumed of
\* the panel, of failures or of restarts, which the bounds make finite.
Fairness ==
  /\ WF_vars(startStep)
  /\ WF_vars(reloads)
  /\ WF_vars(monitorStarts)
  /\ \A k \in Inst : WF_vars(monitorStep(k))

FairSpec == Spec /\ Fairness

-----------------------------------------------------------------------------
(* Properties.                                                             *)

Snapshot == [node : Node, users : UserList]

\* Every variable stays in its type: in particular whatever is cached, or run
\* from, is a configuration that was decoded and normalised, with a user list.
TypeOK ==
  /\ panelNode \in Node \cup {BadNode}
  /\ panelUsers \in UserList
  /\ loop \in {"node", "users", "alive", "cached", "server", "run"}
  /\ snap \in [node : Node \cup {None}, users : UserList \cup {None}]
  /\ ctl \in [Inst -> [seenNode : Node \cup {BadNode, None},
                       seenUsers : UserList \cup {None},
                       info : Node \cup {None}, userList : UserList \cup {None},
                       served : UserList \cup {None},
                       mon : {"idle", "node", "save", "users", "alive", "apply"},
                       got : Node \cup UserList \cup {None}, expired : BOOLEAN]]
  /\ reload \in BOOLEAN
  /\ cache \in Snapshot \cup {None}
  /\ budget \in [faults : Nat, kinds : SUBSET FaultKind, changes : Nat, restarts : Nat]

\* The controller's user list is the one its server works with, or a reload is
\* on its way: after UpdateUsers failed half-way the two differ, the next poll
\* answers 304, and only the reload token can repair it.
ServerInStep ==
  loop = "run" /\ ctl["cur"].served # ctl["cur"].userList => reload

\* Between two executions of the monitor a running node works with the user
\* list its ETag stands for, up to what compareUserList ignores, or is about to
\* reload: as long as no request timed out, no list is acknowledged and lost.
UsersKnown ==
  LET c == ctl["cur"] IN
  ("timeout" \notin budget.kinds /\ loop = "run" /\ c.mon = "idle" /\ ~reload /\ c.seenUsers # None)
    => ~compareUserList(c.userList, c.seenUsers)

\* Likewise a running node works with the configuration its body hash stands
\* for, as long as no request failed other than by a refusal: a
\* start that falls back to the cache after GetNodeInfo succeeded would not
\* notice that the panel's configuration is not the one it runs.
NodeKnown ==
  LET c == ctl["cur"] IN
  (budget.kinds \cap {"timeout", "error"} = {} /\ loop = "run" /\ c.mon = "idle" /\ ~reload
    /\ c.seenNode # BadNode)
    => c.info = c.seenNode

\* The node runs what the panel says.
Synced ==
  /\ loop = "run"
  /\ ctl["cur"].info = panelNode
  /\ ~compareUserList(ctl["cur"].served, panelUsers)

\* Once the panel's data no longer change and hold a usable configuration, the
\* node ends up running them, whatever changed, was refused or died before, as
\* long as no request failed other than by a refusal (see NodeKnown).
Converges ==
  <>[](panelNode = BadNode \/ budget.kinds \cap {"timeout", "error"} # {} \/ Synced)

\* The same for the users alone, whatever request fails in whatever way but by
\* a timeout: an error costs a poll, never an update.
UsersConverge ==
  <>[]("timeout" \in budget.kinds \/ (loop = "run" => ~compareUserList(ctl["cur"].served, panelUsers)))

=============================================================================
