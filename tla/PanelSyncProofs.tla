--------------------------- MODULE PanelSyncProofs --------------------------
(***************************************************************************)
(* Proofs about PanelSync: its types, ServerInStep, UsersKnown and         *)
(* NodeKnown, for any configurations, user lists, failures and bounds.     *)
(***************************************************************************)
EXTENDS PanelSync, TLAPS

Controller == [seenNode : Node \cup {BadNode, None}, seenUsers : UserList \cup {None},
               info : Node \cup {None}, userList : UserList \cup {None},
               served : UserList \cup {None},
               mon : {"idle", "node", "save", "users", "alive", "apply"},
               got : Node \cup UserList \cup {None}, expired : BOOLEAN]

\* What a monitor holds where it is: it works for a started controller, and
\* what it fetched is of the kind its place says.
MonitorShape(c, kinds) ==
  /\ c.mon # "idle" => c.info \in Node /\ c.userList \in UserList
  /\ c.mon = "save" => c.got \in Node
  /\ c.mon \in {"alive", "apply"} => c.got \in UserList \cup {None}
  /\ c.expired => "timeout" \in kinds

\* What a start has at hand where it is.
StartShape ==
  /\ loop = "node" => ctl["cur"] = Fresh
  /\ loop # "run" => ctl["cur"].mon = "idle"
  /\ loop = "users" => snap.node \in Node
  /\ loop \in {"alive", "server"} => snap \in Snapshot
  /\ loop = "run" => ctl["cur"].info \in Node /\ ctl["cur"].userList \in UserList

Shape == TypeOK /\ StartShape /\ \A k \in Inst : MonitorShape(ctl[k], budget.kinds)

LEMMA FreshShape == Fresh \in Controller /\ (\A kinds : MonitorShape(Fresh, kinds)) /\ Fresh.mon = "idle"
  BY DEF Fresh, Controller, MonitorShape

LEMMA InitShape == Init => Shape
<1> SUFFICES ASSUME Init PROVE Shape
  OBVIOUS
<1>1. ctl \in [Inst -> Controller] /\ ctl["cur"] = Fresh
  BY FreshShape DEF Init, Inst
<1>2. budget \in [faults : Nat, kinds : SUBSET FaultKind, changes : Nat, restarts : Nat]
  BY DEF Init
<1>3. snap \in [node : Node \cup {None}, users : UserList \cup {None}]
  BY DEF Init, NoSnap
<1>4. TypeOK
  BY <1>1, <1>2, <1>3 DEF Init, TypeOK, Controller
<1>5. StartShape
  BY <1>1, FreshShape DEF Init, StartShape
<1>6. \A k \in Inst : MonitorShape(ctl[k], budget.kinds)
  BY FreshShape DEF Init
<1> QED BY <1>4, <1>5, <1>6 DEF Shape

\* A failure is counted and its kind remembered.
LEMMA Failed ==
  ASSUME TypeOK, NEW kind, fail(kind)
  PROVE  /\ budget' \in [faults : Nat, kinds : SUBSET FaultKind, changes : Nat, restarts : Nat]
         /\ budget'.kinds = budget.kinds \cup {kind}
<1>1. budget' = [budget EXCEPT !.faults = @ + 1, !.kinds = @ \cup {kind}]
  BY DEF fail
<1>2. budget \in [faults : Nat, kinds : SUBSET FaultKind, changes : Nat, restarts : Nat]
  BY DEF TypeOK
<1>3. kind \in FaultKind
  BY FaultAssumption DEF fail
<1>4. budget.faults + 1 \in Nat /\ budget.kinds \cup {kind} \in SUBSET FaultKind
  BY <1>2, <1>3
<1>5. budget' = [faults |-> budget.faults + 1, kinds |-> budget.kinds \cup {kind},
                 changes |-> budget.changes, restarts |-> budget.restarts]
  BY <1>1, <1>2
<1> QED BY <1>2, <1>4, <1>5

\* Saving keeps the cache a snapshot, and forgets no failure.
LEMMA Saved ==
  ASSUME TypeOK, NEW n \in Node, NEW l \in UserList, savePanelSnapshot(n, l)
  PROVE  /\ cache' \in Snapshot \cup {None}
         /\ budget' \in [faults : Nat, kinds : SUBSET FaultKind, changes : Nat, restarts : Nat]
         /\ budget.kinds \subseteq budget'.kinds
         /\ budget'.kinds \subseteq budget.kinds \cup {"disk"}
<1>1. CASE saved(n, l)
  BY <1>1 DEF TypeOK, saved, Snapshot
<1>2. CASE notSaved
  BY <1>2, Failed DEF TypeOK, notSaved
<1> QED BY <1>1, <1>2 DEF savePanelSnapshot

-----------------------------------------------------------------------------
(* The shape is kept.                                                      *)

Budget == [faults : Nat, kinds : SUBSET FaultKind, changes : Nat, restarts : Nat]

\* A step of a monitor changes one controller, the token, the cache and the
\* count of failures.
LEMMA MonitorFrame ==
  ASSUME Shape, NEW k \in Inst, NEW c \in Controller, ctl' = [ctl EXCEPT ![k] = c],
         MonitorShape(c, budget'.kinds), loop = "run" \/ k = "old",
         c.info \in Node /\ c.userList \in UserList,
         UNCHANGED <<panel, loop, snap>>, reload' \in BOOLEAN,
         cache' \in Snapshot \cup {None}, budget' \in Budget, budget.kinds \subseteq budget'.kinds
  PROVE  Shape'
<1>1. ctl \in [Inst -> Controller]
  BY DEF Shape, TypeOK, Controller
<1>2. ctl' \in [Inst -> Controller] /\ ctl'[k] = c /\ \A o \in Inst : o # k => ctl'[o] = ctl[o]
  BY <1>1
<1>3. TypeOK'
  BY <1>2 DEF Shape, TypeOK, panel, Controller, Budget
<1>4. StartShape'
  BY <1>2 DEF Shape, StartShape, Inst
<1>5. \A o \in Inst : MonitorShape(ctl[o], budget.kinds)'
  BY <1>2 DEF Shape, MonitorShape
<1> QED BY <1>3, <1>4, <1>5 DEF Shape

\* The monitor of a controller that is not over works for a started one.
LEMMA Working ==
  ASSUME Shape, NEW k \in Inst, ctl[k].mon # "idle"
  PROVE  /\ ctl[k] \in Controller /\ MonitorShape(ctl[k], budget.kinds)
         /\ ctl[k].info \in Node /\ ctl[k].userList \in UserList
         /\ loop = "run" \/ k = "old"
         /\ TypeOK
  BY DEF Shape, TypeOK, Controller, MonitorShape, StartShape, Inst

\* The fields of a controller its monitor's steps make of it.
LEMMA ReturnedFields ==
  ASSUME NEW c \in Controller
  PROVE  /\ Returned(c) \in Controller
         /\ Returned(c).mon = "idle" /\ Returned(c).got = None /\ Returned(c).expired = FALSE
         /\ Returned(c).info = c.info /\ Returned(c).userList = c.userList
         /\ Returned(c).seenNode = c.seenNode /\ Returned(c).seenUsers = c.seenUsers
         /\ Returned(c).served = c.served
  BY DEF Returned, Controller

Place == {"node", "save", "users", "alive", "apply"}
Fetched == Node \cup UserList \cup {None}

LEMMA MonitorFields ==
  ASSUME NEW c \in Controller, NEW pc \in Place, NEW got \in Fetched
  PROVE  /\ monitorAt(c, pc, got) \in Controller
         /\ monitorAt(c, pc, got).mon = pc /\ monitorAt(c, pc, got).got = got
         /\ monitorAt(c, pc, got).expired = c.expired
         /\ monitorAt(c, pc, got).info = c.info /\ monitorAt(c, pc, got).userList = c.userList
         /\ monitorAt(c, pc, got).seenNode = c.seenNode
         /\ monitorAt(c, pc, got).seenUsers = c.seenUsers
         /\ monitorAt(c, pc, got).served = c.served
<1>1. pc \in {"idle", "node", "save", "users", "alive", "apply"}
      /\ got \in Node \cup UserList \cup {None}
  BY DEF Place, Fetched
<1>2. monitorAt(c, pc, got) \in Controller
  BY <1>1 DEF monitorAt, Controller
<1>3. /\ monitorAt(c, pc, got).mon = pc /\ monitorAt(c, pc, got).got = got
      /\ monitorAt(c, pc, got).expired = c.expired
      /\ monitorAt(c, pc, got).info = c.info /\ monitorAt(c, pc, got).userList = c.userList
  BY DEF monitorAt, Controller
<1>4. /\ monitorAt(c, pc, got).seenNode = c.seenNode
      /\ monitorAt(c, pc, got).seenUsers = c.seenUsers
      /\ monitorAt(c, pc, got).served = c.served
  BY DEF monitorAt, Controller
<1>5. QED
  BY <1>2, <1>3, <1>4

LEMMA SeenFields ==
  ASSUME TypeOK, NEW c \in Controller
  PROVE  /\ seenNodeOf(c) \in Controller /\ seenUsersOf(c) \in Controller
         /\ seenNodeOf(c).seenNode = panelNode /\ seenUsersOf(c).seenUsers = panelUsers
         /\ seenNodeOf(c).seenUsers = c.seenUsers /\ seenUsersOf(c).seenNode = c.seenNode
         /\ seenNodeOf(c).info = c.info /\ seenUsersOf(c).info = c.info
         /\ seenNodeOf(c).userList = c.userList /\ seenUsersOf(c).userList = c.userList
         /\ seenNodeOf(c).served = c.served /\ seenUsersOf(c).served = c.served
         /\ seenNodeOf(c).expired = c.expired /\ seenUsersOf(c).expired = c.expired
<1>1. panelNode \in Node \cup {BadNode, None} /\ panelUsers \in UserList \cup {None}
  BY DEF TypeOK
<1>2. /\ seenNodeOf(c) \in Controller
      /\ seenNodeOf(c).seenNode = panelNode /\ seenNodeOf(c).seenUsers = c.seenUsers
      /\ seenNodeOf(c).info = c.info /\ seenNodeOf(c).userList = c.userList
      /\ seenNodeOf(c).served = c.served /\ seenNodeOf(c).expired = c.expired
  BY <1>1 DEF seenNodeOf, Controller
<1>3. /\ seenUsersOf(c) \in Controller
      /\ seenUsersOf(c).seenUsers = panelUsers /\ seenUsersOf(c).seenNode = c.seenNode
      /\ seenUsersOf(c).info = c.info /\ seenUsersOf(c).userList = c.userList
      /\ seenUsersOf(c).served = c.served /\ seenUsersOf(c).expired = c.expired
  BY <1>1 DEF seenUsersOf, Controller
<1>4. QED
  BY <1>2, <1>3

LEMMA ServedFields ==
  ASSUME NEW c \in Controller, c.got \in UserList
  PROVE  /\ servedOf(c) \in Controller /\ updatedOf(c) \in Controller
         /\ servedOf(c).served = c.got /\ updatedOf(c).served = c.got
         /\ servedOf(c).userList = c.userList /\ updatedOf(c).userList = c.got
         /\ servedOf(c).seenNode = c.seenNode /\ updatedOf(c).seenNode = c.seenNode
         /\ servedOf(c).seenUsers = c.seenUsers /\ updatedOf(c).seenUsers = c.seenUsers
         /\ servedOf(c).info = c.info /\ updatedOf(c).info = c.info
  BY DEF servedOf, updatedOf, Controller


-----------------------------------------------------------------------------
(* What one step of a monitor does.                                        *)

\* A list that was fetched and not yet handed to the server.
Pending(c) == c.mon \in {"alive", "apply"} /\ c.got # None

\* The list that the ETag stands for is on its way, or is the one c works with.
ListKnown(c) ==
  c.seenUsers # None =>
    IF Pending(c) THEN c.got = c.seenUsers ELSE ~compareUserList(c.userList, c.seenUsers)

\* From x to y the monitor did nothing that could lose a list or a
\* configuration, or let controller and server differ.
Careful(x, y, token, kinds) ==
  token \/ "timeout" \in kinds
    \/ /\ y.served = y.userList \/ (y.userList = x.userList /\ y.served = x.served)
       /\ y.seenNode = BadNode \/ y.mon = "save" \/ (y.seenNode = x.seenNode /\ x.mon # "save")
       /\ ListKnown(x) => ListKnown(y)

\* The same of the server alone, which timeouts do not excuse.
InStep(x, y, token) ==
  token \/ y.served = y.userList \/ (y.userList = x.userList /\ y.served = x.served)

Effect(k) ==
  /\ ctl[k].mon # "idle"
  /\ ctl'[k] \in Controller /\ ctl' = [ctl EXCEPT ![k] = ctl'[k]]
  /\ MonitorShape(ctl'[k], budget'.kinds)
  /\ ctl'[k].info = ctl[k].info /\ ctl'[k].userList \in UserList
  /\ UNCHANGED <<panel, loop, snap>>
  /\ reload' \in BOOLEAN /\ (reload => reload')
  /\ cache' \in Snapshot \cup {None} /\ budget' \in Budget /\ budget.kinds \subseteq budget'.kinds
  /\ Careful(ctl[k], ctl'[k], reload', budget'.kinds)
  /\ InStep(ctl[k], ctl'[k], reload')

LEMMA EffectShape ==
  ASSUME Shape, NEW k \in Inst, Effect(k)
  PROVE  Shape'
<1>1. /\ ctl[k].info \in Node
      /\ loop = "run" \/ k = "old"
  BY Working DEF Effect
<1> QED BY <1>1, MonitorFrame DEF Effect

\* One controller is replaced.
LEMMA Replaced ==
  ASSUME TypeOK, NEW k \in Inst, NEW z, ctl' = [ctl EXCEPT ![k] = z]
  PROVE  ctl'[k] = z /\ ctl' = [ctl EXCEPT ![k] = ctl'[k]]
  BY DEF TypeOK

LEMMA SomeEffect ==
  ASSUME Shape, NEW k \in Inst, ctl[k].mon # "idle",
         NEW z \in Controller, ctl' = [ctl EXCEPT ![k] = z],
         MonitorShape(z, budget'.kinds), z.info = ctl[k].info, z.userList \in UserList,
         UNCHANGED <<panel, loop, snap>>, reload' \in BOOLEAN, reload => reload',
         cache' \in Snapshot \cup {None}, budget' \in Budget, budget.kinds \subseteq budget'.kinds,
         Careful(ctl[k], z, reload', budget'.kinds), InStep(ctl[k], z, reload')
  PROVE  Effect(k)
<1>1. ctl'[k] = z /\ ctl' = [ctl EXCEPT ![k] = ctl'[k]]
  BY Replaced DEF Shape
<1> QED BY <1>1 DEF Effect

\* A step that changes nothing but the controller.
LEMMA QuietEffect ==
  ASSUME Shape, NEW k \in Inst, ctl[k].mon # "idle",
         NEW z \in Controller, ctl' = [ctl EXCEPT ![k] = z],
         MonitorShape(z, budget.kinds), z.info = ctl[k].info, z.userList \in UserList,
         UNCHANGED <<panel, loop, snap, reload, cache, budget>>,
         Careful(ctl[k], z, reload, budget.kinds), InStep(ctl[k], z, reload)
  PROVE  Effect(k)
<1>1. ctl'[k] = z /\ ctl' = [ctl EXCEPT ![k] = ctl'[k]]
  BY Replaced DEF Shape
<1> QED BY <1>1 DEF Effect, Shape, TypeOK, Budget

\* The execution returns: nothing is lost if a reload is asked for, or if no
\* configuration and no list that differs is at hand.
LEMMA ReturnEffect ==
  ASSUME Shape, NEW k \in Inst, ctl[k].mon # "idle", ctl' = [ctl EXCEPT ![k] = Returned(@)],
         UNCHANGED <<panel, loop, snap>>, reload' \in BOOLEAN, reload => reload',
         cache' \in Snapshot \cup {None}, budget' \in Budget, budget.kinds \subseteq budget'.kinds,
         \/ reload'
         \/ "timeout" \in budget'.kinds
         \/ /\ ctl[k].mon # "save"
            /\ Pending(ctl[k]) => ~compareUserList(ctl[k].userList, ctl[k].got)
  PROVE  Effect(k)
<1> DEFINE z == Returned(ctl[k])
<1>1. ctl[k] \in Controller /\ ctl[k].userList \in UserList
  BY Working
<1>2. ctl' = [ctl EXCEPT ![k] = z]
  OBVIOUS
<1>3. /\ z \in Controller /\ z.mon = "idle" /\ z.expired = FALSE
      /\ z.info = ctl[k].info /\ z.userList = ctl[k].userList /\ z.seenNode = ctl[k].seenNode
      /\ z.seenUsers = ctl[k].seenUsers /\ z.served = ctl[k].served
  BY <1>1, ReturnedFields
<1> HIDE DEF z
<1>4. MonitorShape(z, budget'.kinds)
  BY <1>3 DEF MonitorShape
<1>5. InStep(ctl[k], z, reload')
  BY <1>3 DEF InStep
<1>6. Careful(ctl[k], z, reload', budget'.kinds)
  BY <1>3 DEF Careful, ListKnown, Pending
<1> QED BY <1>1, <1>2, <1>3, <1>4, <1>5, <1>6, SomeEffect

LEMMA GetNodeInfoEffect ==
  ASSUME Shape, NEW k \in Inst, GetNodeInfo(k)
  PROVE  Effect(k)
<1>1. ctl[k].mon = "node" /\ UNCHANGED <<panel, loop, snap, reload, cache, budget>>
  BY DEF GetNodeInfo
<1>2. /\ ctl[k] \in Controller /\ MonitorShape(ctl[k], budget.kinds)
      /\ ctl[k].info \in Node /\ ctl[k].userList \in UserList /\ TypeOK
  BY <1>1, Working
<1>3. CASE ctl' = [ctl EXCEPT ![k] = monitorAt(@, "users", None)]
  <2> DEFINE z == monitorAt(ctl[k], "users", None)
  <2>0. "users" \in Place /\ None \in Fetched
    BY DEF Place, Fetched
  <2>1. ctl' = [ctl EXCEPT ![k] = z]
    BY <1>3
  <2>2. /\ z \in Controller /\ z.mon = "users" /\ z.got = None /\ z.expired = ctl[k].expired
        /\ z.info = ctl[k].info /\ z.userList = ctl[k].userList /\ z.seenNode = ctl[k].seenNode
        /\ z.seenUsers = ctl[k].seenUsers /\ z.served = ctl[k].served
    BY <1>2, <2>0, MonitorFields
  <2> HIDE DEF z
  <2>3. MonitorShape(z, budget.kinds)
    BY <1>2, <2>2 DEF MonitorShape
  <2>4. Careful(ctl[k], z, reload, budget.kinds) /\ InStep(ctl[k], z, reload)
    BY <1>1, <2>2 DEF Careful, InStep, ListKnown, Pending
  <2> QED BY <1>1, <1>2, <2>1, <2>2, <2>3, <2>4, QuietEffect
<1>4. CASE panelNode = BadNode /\ ctl' = [ctl EXCEPT ![k] = Returned(seenNodeOf(@))]
  <2> DEFINE s == seenNodeOf(ctl[k])
             z == Returned(s)
  <2>1. ctl' = [ctl EXCEPT ![k] = z]
    BY <1>4
  <2>2. /\ s \in Controller /\ s.seenNode = panelNode /\ s.info = ctl[k].info
        /\ s.userList = ctl[k].userList /\ s.seenUsers = ctl[k].seenUsers
        /\ s.served = ctl[k].served
    BY <1>2, SeenFields
  <2> HIDE DEF s
  <2>3. /\ z \in Controller /\ z.mon = "idle" /\ z.expired = FALSE
        /\ z.info = s.info /\ z.userList = s.userList /\ z.seenNode = s.seenNode
        /\ z.seenUsers = s.seenUsers /\ z.served = s.served
    BY <2>2, ReturnedFields
  <2> HIDE DEF z
  <2>4. MonitorShape(z, budget.kinds)
    BY <2>3 DEF MonitorShape
  <2>5. Careful(ctl[k], z, reload, budget.kinds) /\ InStep(ctl[k], z, reload)
    BY <1>1, <1>4, <2>2, <2>3 DEF Careful, InStep, ListKnown, Pending
  <2> QED BY <1>1, <1>2, <2>1, <2>2, <2>3, <2>4, <2>5, QuietEffect
<1>5. CASE /\ panelNode # BadNode
           /\ ctl' = [ctl EXCEPT ![k] = monitorAt(seenNodeOf(@), "save", panelNode)]
  <2> DEFINE s == seenNodeOf(ctl[k])
             z == monitorAt(s, "save", panelNode)
  <2>0. "save" \in Place /\ panelNode \in Fetched /\ panelNode \in Node
    BY <1>2, <1>5 DEF Place, Fetched, TypeOK
  <2>1. ctl' = [ctl EXCEPT ![k] = z]
    BY <1>5
  <2>2. /\ s \in Controller /\ s.info = ctl[k].info /\ s.expired = ctl[k].expired
        /\ s.userList = ctl[k].userList /\ s.seenUsers = ctl[k].seenUsers
        /\ s.served = ctl[k].served
    BY <1>2, SeenFields
  <2> HIDE DEF s
  <2>3. /\ z \in Controller /\ z.mon = "save" /\ z.got = panelNode /\ z.expired = s.expired
        /\ z.info = s.info /\ z.userList = s.userList
        /\ z.seenUsers = s.seenUsers /\ z.served = s.served
    BY <2>0, <2>2, MonitorFields
  <2> HIDE DEF z
  <2>4. MonitorShape(z, budget.kinds)
    BY <1>2, <2>0, <2>2, <2>3 DEF MonitorShape
  <2>5. Careful(ctl[k], z, reload, budget.kinds) /\ InStep(ctl[k], z, reload)
    BY <1>1, <2>2, <2>3 DEF Careful, InStep, ListKnown, Pending
  <2> QED BY <1>1, <1>2, <2>1, <2>2, <2>3, <2>4, <2>5, QuietEffect
<1> QED BY <1>3, <1>4, <1>5 DEF GetNodeInfo

LEMMA GetUserListEffect ==
  ASSUME Shape, NEW k \in Inst, GetUserList(k)
  PROVE  Effect(k)
<1>1. ctl[k].mon = "users" /\ UNCHANGED <<panel, loop, snap, reload, cache, budget>>
  BY DEF GetUserList
<1>2. /\ ctl[k] \in Controller /\ MonitorShape(ctl[k], budget.kinds)
      /\ ctl[k].info \in Node /\ ctl[k].userList \in UserList /\ TypeOK
  BY <1>1, Working
<1>3. "alive" \in Place /\ None \in Fetched /\ panelUsers \in Fetched /\ panelUsers \in UserList
  BY <1>2 DEF Place, Fetched, TypeOK
<1>4. CASE panelUsers = ctl[k].seenUsers
  <2> DEFINE z == monitorAt(ctl[k], "alive", None)
  <2>1. ctl' = [ctl EXCEPT ![k] = z]
    BY <1>4 DEF GetUserList
  <2>2. /\ z \in Controller /\ z.mon = "alive" /\ z.got = None /\ z.expired = ctl[k].expired
        /\ z.info = ctl[k].info /\ z.userList = ctl[k].userList /\ z.seenNode = ctl[k].seenNode
        /\ z.seenUsers = ctl[k].seenUsers /\ z.served = ctl[k].served
    BY <1>2, <1>3, MonitorFields
  <2> HIDE DEF z
  <2>3. MonitorShape(z, budget.kinds)
    BY <1>2, <2>2 DEF MonitorShape
  <2>4. Careful(ctl[k], z, reload, budget.kinds) /\ InStep(ctl[k], z, reload)
    BY <1>1, <2>2 DEF Careful, InStep, ListKnown, Pending
  <2> QED BY <1>1, <1>2, <2>1, <2>2, <2>3, <2>4, QuietEffect
<1>5. CASE panelUsers # ctl[k].seenUsers
  <2> DEFINE s == seenUsersOf(ctl[k])
             z == monitorAt(s, "alive", panelUsers)
  <2>1. ctl' = [ctl EXCEPT ![k] = z]
    BY <1>5 DEF GetUserList
  <2>2. /\ s \in Controller /\ s.info = ctl[k].info /\ s.expired = ctl[k].expired
        /\ s.userList = ctl[k].userList /\ s.seenUsers = panelUsers
        /\ s.served = ctl[k].served /\ s.seenNode = ctl[k].seenNode
    BY <1>2, SeenFields
  <2> HIDE DEF s
  <2>3. /\ z \in Controller /\ z.mon = "alive" /\ z.got = panelUsers /\ z.expired = s.expired
        /\ z.info = s.info /\ z.userList = s.userList /\ z.seenNode = s.seenNode
        /\ z.seenUsers = s.seenUsers /\ z.served = s.served
    BY <1>3, <2>2, MonitorFields
  <2> HIDE DEF z
  <2>4. MonitorShape(z, budget.kinds)
    BY <1>2, <1>3, <2>2, <2>3 DEF MonitorShape
  <2>5. panelUsers # None
    BY <1>3, UserAssumption
  <2>6. Careful(ctl[k], z, reload, budget.kinds) /\ InStep(ctl[k], z, reload)
    BY <1>1, <2>2, <2>3, <2>5 DEF Careful, InStep, ListKnown, Pending
  <2> QED BY <1>1, <1>2, <2>1, <2>2, <2>3, <2>4, <2>6, QuietEffect
<1> QED BY <1>4, <1>5

LEMMA GetUserAliveEffect ==
  ASSUME Shape, NEW k \in Inst, GetUserAlive(k)
  PROVE  Effect(k)
<1> DEFINE z == monitorAt(ctl[k], "apply", ctl[k].got)
<1>1. ctl[k].mon = "alive" /\ UNCHANGED <<panel, loop, snap, reload, cache, budget>>
  BY DEF GetUserAlive
<1>2. /\ ctl[k] \in Controller /\ MonitorShape(ctl[k], budget.kinds)
      /\ ctl[k].info \in Node /\ ctl[k].userList \in UserList
  BY <1>1, Working
<1>3. "apply" \in Place /\ ctl[k].got \in Fetched /\ ctl[k].got \in UserList \cup {None}
  BY <1>1, <1>2 DEF Place, Fetched, MonitorShape
<1>4. ctl' = [ctl EXCEPT ![k] = z]
  BY DEF GetUserAlive
<1>5. /\ z \in Controller /\ z.mon = "apply" /\ z.got = ctl[k].got /\ z.expired = ctl[k].expired
      /\ z.info = ctl[k].info /\ z.userList = ctl[k].userList /\ z.seenNode = ctl[k].seenNode
      /\ z.seenUsers = ctl[k].seenUsers /\ z.served = ctl[k].served
  BY <1>2, <1>3, MonitorFields
<1> HIDE DEF z
<1>6. MonitorShape(z, budget.kinds)
  BY <1>2, <1>3, <1>5 DEF MonitorShape
<1>7. Careful(ctl[k], z, reload, budget.kinds) /\ InStep(ctl[k], z, reload)
  BY <1>1, <1>5 DEF Careful, InStep, ListKnown, Pending
<1> QED BY <1>1, <1>2, <1>4, <1>5, <1>6, <1>7, QuietEffect

LEMMA NewNodeInfoEffect ==
  ASSUME Shape, NEW k \in Inst, newNodeInfo(k)
  PROVE  Effect(k)
<1>1. ctl[k].mon = "save" /\ reload' = TRUE /\ UNCHANGED <<panel, loop, snap>>
  BY DEF newNodeInfo
<1>2. TypeOK /\ ctl[k].got \in Node /\ ctl[k].userList \in UserList
  BY <1>1, Working DEF MonitorShape
<1>3. /\ cache' \in Snapshot \cup {None} /\ budget' \in Budget
      /\ budget.kinds \subseteq budget'.kinds
  BY <1>2, Saved DEF newNodeInfo, Budget
<1>4. ctl' = [ctl EXCEPT ![k] = Returned(@)]
  BY DEF newNodeInfo
<1> QED BY <1>1, <1>3, <1>4, ReturnEffect

LEMMA NothingNewEffect ==
  ASSUME Shape, NEW k \in Inst, nothingNew(k)
  PROVE  Effect(k)
<1>1. ctl[k].mon = "apply" /\ UNCHANGED <<panel, loop, snap, reload>>
  BY DEF nothingNew
<1>2. TypeOK /\ ctl[k].info \in Node /\ ctl[k].userList \in UserList
  BY <1>1, Working
<1>3. /\ cache' \in Snapshot \cup {None} /\ budget' \in Budget
      /\ budget.kinds \subseteq budget'.kinds
  BY <1>2, Saved DEF nothingNew, Budget
<1>4. ctl' = [ctl EXCEPT ![k] = Returned(@)]
  BY DEF nothingNew
<1>5. Pending(ctl[k]) => ~compareUserList(ctl[k].userList, ctl[k].got)
  BY DEF nothingNew, Pending
<1>6. reload' \in BOOLEAN
  BY <1>1, <1>2 DEF TypeOK
<1> QED BY <1>1, <1>3, <1>4, <1>5, <1>6, ReturnEffect

LEMMA MonitorFailsEffect ==
  ASSUME Shape, NEW k \in Inst, NEW kind, monitorFails(k, kind)
  PROVE  Effect(k)
<1>1. /\ ctl[k].mon \in {"node", "users"} \/ kind = "timeout"
      /\ ctl[k].mon # "idle" /\ fail(kind) /\ UNCHANGED <<panel, loop, snap, reload, cache>>
  BY DEF monitorFails
<1>2. TypeOK
  BY <1>1, Working
<1>3. /\ budget' \in Budget /\ budget.kinds \subseteq budget'.kinds
      /\ kind = "timeout" => "timeout" \in budget'.kinds
  BY <1>1, <1>2, Failed DEF Budget
<1>4. ctl' = [ctl EXCEPT ![k] = Returned(@)]
  BY DEF monitorFails
<1>5. ctl[k].mon \in {"node", "users"} => ctl[k].mon # "save" /\ ~Pending(ctl[k])
  BY DEF Pending
<1>6. reload' \in BOOLEAN /\ cache' \in Snapshot \cup {None}
  BY <1>1, <1>2 DEF TypeOK
<1> QED BY <1>1, <1>3, <1>4, <1>5, <1>6, ReturnEffect

LEMMA ExpiredReturnsEffect ==
  ASSUME Shape, NEW k \in Inst, expiredReturns(k)
  PROVE  Effect(k)
<1>1. ctl[k].mon # "idle" /\ ctl[k].expired /\ UNCHANGED <<panel, loop, snap, reload, cache, budget>>
  BY DEF expiredReturns
<1>2. TypeOK /\ "timeout" \in budget'.kinds
  BY <1>1, Working DEF MonitorShape
<1>3. ctl' = [ctl EXCEPT ![k] = Returned(@)]
  BY DEF expiredReturns
<1>4. reload' \in BOOLEAN /\ cache' \in Snapshot \cup {None} /\ budget' \in Budget
  BY <1>1, <1>2 DEF TypeOK, Budget
<1> QED BY <1>1, <1>2, <1>3, <1>4, ReturnEffect

LEMMA UsersUpdatedEffect ==
  ASSUME Shape, NEW k \in Inst, usersUpdated(k)
  PROVE  Effect(k)
<1> DEFINE s == updatedOf(ctl[k])
           z == Returned(s)
<1>1. /\ ctl[k].mon = "apply" /\ ctl[k].got # None
      /\ UNCHANGED <<panel, loop, snap, reload>> /\ ctl' = [ctl EXCEPT ![k] = z]
  BY DEF usersUpdated
<1>2. /\ TypeOK /\ ctl[k] \in Controller /\ ctl[k].info \in Node
      /\ ctl[k].userList \in UserList /\ ctl[k].got \in UserList
  BY <1>1, Working DEF MonitorShape
<1>3. /\ s \in Controller /\ s.served = ctl[k].got /\ s.userList = ctl[k].got
      /\ s.seenNode = ctl[k].seenNode /\ s.seenUsers = ctl[k].seenUsers /\ s.info = ctl[k].info
  BY <1>2, ServedFields
<1>4. /\ cache' \in Snapshot \cup {None} /\ budget' \in Budget
      /\ budget.kinds \subseteq budget'.kinds
  BY <1>2, Saved DEF usersUpdated, Budget
<1> HIDE DEF s
<1>5. /\ z \in Controller /\ z.mon = "idle" /\ z.expired = FALSE
      /\ z.info = s.info /\ z.userList = s.userList /\ z.seenNode = s.seenNode
      /\ z.seenUsers = s.seenUsers /\ z.served = s.served
  BY <1>3, ReturnedFields
<1> HIDE DEF z
<1>6. MonitorShape(z, budget'.kinds) /\ InStep(ctl[k], z, reload')
  BY <1>3, <1>5 DEF MonitorShape, InStep
<1>7. ~compareUserList(ctl[k].got, ctl[k].got)
  BY DEF compareUserList
<1>8. ListKnown(ctl[k]) => ListKnown(z)
  BY <1>1, <1>3, <1>5, <1>7 DEF ListKnown, Pending
<1>9. Careful(ctl[k], z, reload', budget'.kinds)
  BY <1>1, <1>3, <1>5, <1>8 DEF Careful
<1>10. reload' \in BOOLEAN
  BY <1>1, <1>2 DEF TypeOK
<1> QED BY <1>1, <1>2, <1>3, <1>4, <1>5, <1>6, <1>9, <1>10, SomeEffect

LEMMA UpdateFailsEffect ==
  ASSUME Shape, NEW k \in Inst, updateFails(k)
  PROVE  Effect(k)
<1> DEFINE s == servedOf(ctl[k])
           z == Returned(s)
<1>1. /\ ctl[k].mon = "apply" /\ ctl[k].got # None /\ fail("server") /\ reload' = TRUE
      /\ UNCHANGED <<panel, loop, snap, cache>> /\ ctl' = [ctl EXCEPT ![k] = z]
  BY DEF updateFails
<1>2. /\ TypeOK /\ ctl[k] \in Controller
      /\ ctl[k].userList \in UserList /\ ctl[k].got \in UserList
  BY <1>1, Working DEF MonitorShape
<1>3. s \in Controller /\ s.userList = ctl[k].userList /\ s.info = ctl[k].info
  BY <1>2, ServedFields
<1>4. budget' \in Budget /\ budget.kinds \subseteq budget'.kinds
  BY <1>1, <1>2, Failed DEF Budget
<1> HIDE DEF s
<1>5. /\ z \in Controller /\ z.mon = "idle" /\ z.expired = FALSE
      /\ z.info = s.info /\ z.userList = s.userList
  BY <1>3, ReturnedFields
<1> HIDE DEF z
<1>6. MonitorShape(z, budget'.kinds) /\ InStep(ctl[k], z, reload')
  BY <1>1, <1>5 DEF MonitorShape, InStep
<1>7. Careful(ctl[k], z, reload', budget'.kinds)
  BY <1>1 DEF Careful
<1>8. reload' \in BOOLEAN /\ cache' \in Snapshot \cup {None}
  BY <1>1, <1>2 DEF TypeOK
<1> QED BY <1>1, <1>2, <1>3, <1>4, <1>5, <1>6, <1>7, <1>8, SomeEffect

LEMMA TimedOutEffect ==
  ASSUME Shape, NEW k \in Inst, executionTimedOut(k)
  PROVE  Effect(k)
<1> DEFINE z == [ctl[k] EXCEPT !.expired = TRUE]
<1>1. /\ ctl[k].mon # "idle" /\ fail("timeout") /\ reload' = TRUE
      /\ UNCHANGED <<panel, loop, snap, cache>> /\ ctl' = [ctl EXCEPT ![k] = z]
  BY DEF executionTimedOut
<1>2. /\ TypeOK /\ ctl[k] \in Controller /\ MonitorShape(ctl[k], budget.kinds)
      /\ ctl[k].userList \in UserList
  BY <1>1, Working
<1>3. /\ budget' \in Budget /\ budget.kinds \subseteq budget'.kinds
      /\ "timeout" \in budget'.kinds
  BY <1>1, <1>2, Failed DEF Budget
<1>4. /\ z \in Controller /\ z.mon = ctl[k].mon /\ z.got = ctl[k].got
      /\ z.info = ctl[k].info /\ z.userList = ctl[k].userList
  BY <1>2 DEF Controller
<1> HIDE DEF z
<1>5. MonitorShape(z, budget'.kinds)
  BY <1>2, <1>3, <1>4 DEF MonitorShape
<1>6. Careful(ctl[k], z, reload', budget'.kinds) /\ InStep(ctl[k], z, reload')
  BY <1>1 DEF Careful, InStep
<1>7. reload' \in BOOLEAN /\ cache' \in Snapshot \cup {None}
  BY <1>1, <1>2 DEF TypeOK
<1> QED BY <1>1, <1>2, <1>3, <1>4, <1>5, <1>6, <1>7, SomeEffect

-----------------------------------------------------------------------------
(* The inductive invariant.                                                *)

\* What a start and its client's ETag have in common, and that no list is lost.
UsersInv ==
  "timeout" \notin budget.kinds =>
    /\ loop \in {"users", "cached"} => ctl["cur"].seenUsers = None
    /\ loop = "alive" => snap.users = ctl["cur"].seenUsers
    /\ loop = "server" => ctl["cur"].seenUsers \in {None, snap.users}
    /\ loop = "run" /\ ~reload => ListKnown(ctl["cur"])

\* The same of the configuration and the body hash.
NodeInv ==
  budget.kinds \cap {"timeout", "error"} = {} =>
    /\ loop \in {"users", "alive"} => snap.node = ctl["cur"].seenNode
    /\ loop = "cached" => ctl["cur"].seenNode = BadNode
    /\ loop = "server" => ctl["cur"].seenNode \in {BadNode, snap.node}
    /\ loop = "run" /\ ~reload /\ ctl["cur"].mon # "save" /\ ctl["cur"].seenNode # BadNode
         => ctl["cur"].info = ctl["cur"].seenNode

Inv == Shape /\ ServerInStep /\ UsersInv /\ NodeInv

LEMMA InvInit == Init => Inv
<1> SUFFICES ASSUME Init PROVE Inv
  OBVIOUS
<1>1. Shape
  BY InitShape
<1>2. loop = "node"
  BY DEF Init
<1> QED BY <1>1, <1>2 DEF Inv, ServerInStep, UsersInv, NodeInv

\* Every step of a monitor, of the running controller or of a closed one.
LEMMA EffectInv ==
  ASSUME Inv, NEW k \in Inst, Effect(k)
  PROVE  Inv'
<1>1. Shape'
  BY EffectShape DEF Inv
<1>2. /\ UNCHANGED <<panel, loop, snap>> /\ (reload => reload')
      /\ budget.kinds \subseteq budget'.kinds
      /\ ctl'[k].info = ctl[k].info
      /\ Careful(ctl[k], ctl'[k], reload', budget'.kinds) /\ InStep(ctl[k], ctl'[k], reload')
      /\ ctl' = [ctl EXCEPT ![k] = ctl'[k]] /\ ctl[k].mon # "idle"
  BY DEF Effect
<1>3. CASE k = "old"
  <2>1. ctl'["cur"] = ctl["cur"]
    BY <1>2, <1>3 DEF Inv, Shape, TypeOK, Inst
  <2>2. ServerInStep'
    BY <1>2, <2>1 DEF Inv, ServerInStep
  <2>3. UsersInv'
    BY <1>2, <2>1 DEF Inv, UsersInv, ListKnown, Pending, compareUserList
  <2>4. NodeInv'
    BY <1>2, <2>1 DEF Inv, NodeInv
  <2> QED BY <1>1, <2>2, <2>3, <2>4 DEF Inv
<1>4. CASE k = "cur"
  <2>1. loop = "run" /\ loop' = "run"
    BY <1>2, <1>4 DEF Inv, Shape, StartShape
  <2>2. ServerInStep'
    BY <1>2, <1>4, <2>1 DEF Inv, ServerInStep, InStep
  <2>3. UsersInv'
    <3>1. SUFFICES ASSUME "timeout" \notin budget'.kinds, ~reload'
                   PROVE  ListKnown(ctl'["cur"])
      BY <2>1 DEF UsersInv, ListKnown, Pending, compareUserList
    <3>2. ListKnown(ctl["cur"])
      BY <1>2, <2>1, <3>1 DEF Inv, UsersInv
    <3> QED BY <1>2, <1>4, <3>1, <3>2 DEF Careful
  <2>4. NodeInv'
    BY <1>2, <1>4, <2>1 DEF Inv, NodeInv, Careful
  <2> QED BY <1>1, <2>2, <2>3, <2>4 DEF Inv
<1> QED BY <1>3, <1>4 DEF Inst

LEMMA MonitorInv ==
  ASSUME Inv, NEW k \in Inst, monitorStep(k) \/ executionTimedOut(k)
  PROVE  Inv'
<1>1. Shape
  BY DEF Inv
<1>2. CASE \E kind \in Faults : monitorFails(k, kind)
  BY <1>1, <1>2, MonitorFailsEffect, EffectInv
<1>3. Effect(k) \/ \E kind \in Faults : monitorFails(k, kind)
  BY <1>1, GetNodeInfoEffect, NewNodeInfoEffect, GetUserListEffect, GetUserAliveEffect,
     NothingNewEffect, UsersUpdatedEffect, UpdateFailsEffect, ExpiredReturnsEffect,
     TimedOutEffect DEF monitorStep
<1> QED BY <1>2, <1>3, EffectInv

-----------------------------------------------------------------------------
(* The steps of a start, reloads and restarts.                             *)

SnapType == [node : Node \cup {None}, users : UserList \cup {None}]

\* What the invariant says of the variables that a start does not depend on.
LEMMA Types ==
  ASSUME Inv
  PROVE  /\ TypeOK /\ ctl \in [Inst -> Controller] /\ ctl["cur"] \in Controller
         /\ panelNode \in Node \cup {BadNode} /\ panelUsers \in UserList
         /\ snap \in SnapType /\ reload \in BOOLEAN
         /\ cache \in Snapshot \cup {None} /\ budget \in Budget
         /\ MonitorShape(ctl["cur"], budget.kinds) /\ MonitorShape(ctl["old"], budget.kinds)
  BY DEF Inv, Shape, TypeOK, Controller, SnapType, Budget, Inst

\* A start begins (again).
LEMMA NodeStart ==
  ASSUME Inv, loop' = "node", ctl' \in [Inst -> Controller], ctl'["cur"] = Fresh,
         MonitorShape(ctl'["old"], budget'.kinds), UNCHANGED panel,
         snap' \in SnapType, reload' \in BOOLEAN, cache' \in Snapshot \cup {None}, budget' \in Budget
  PROVE  Inv'
<1>1. TypeOK'
  BY Types DEF TypeOK, Controller, SnapType, Budget, panel
<1>2. StartShape'
  BY FreshShape DEF StartShape
<1>3. \A o \in Inst : MonitorShape(ctl'[o], budget'.kinds)
  BY FreshShape DEF Inst
<1>4. Shape'
  BY <1>1, <1>2, <1>3 DEF Shape
<1> QED BY <1>4 DEF Inv, ServerInStep, UsersInv, NodeInv

LEMMA AgainInv ==
  ASSUME Inv, startAgain, UNCHANGED panel, budget.kinds \subseteq budget'.kinds,
         snap' \in SnapType, reload' \in BOOLEAN, cache' \in Snapshot \cup {None}, budget' \in Budget
  PROVE  Inv'
<1>1. /\ loop' = "node" /\ ctl' \in [Inst -> Controller]
      /\ ctl'["cur"] = Fresh /\ ctl'["old"] = ctl["old"]
  BY Types, FreshShape DEF startAgain, Inst
<1>2. MonitorShape(ctl'["old"], budget'.kinds)
  BY <1>1, Types DEF MonitorShape
<1> QED BY <1>1, <1>2, NodeStart

\* The start goes on: its controller is z now.
LEMMA StartGoesOn ==
  ASSUME Inv, loop # "run", NEW z \in Controller, ctl' = [ctl EXCEPT !["cur"] = z],
         z.mon = "idle", z.expired => "timeout" \in budget'.kinds,
         loop' \in {"users", "alive", "cached", "server", "run"},
         UNCHANGED panel, snap' \in SnapType, reload' \in BOOLEAN,
         cache' \in Snapshot \cup {None}, budget' \in Budget, budget.kinds \subseteq budget'.kinds,
         loop' = "users" => snap'.node \in Node,
         loop' \in {"alive", "server"} => snap' \in Snapshot,
         loop' = "run" => z.info \in Node /\ z.userList \in UserList
  PROVE  Shape' /\ ctl'["cur"] = z
<1>1. /\ ctl' \in [Inst -> Controller]
      /\ ctl'["cur"] = z /\ ctl'["old"] = ctl["old"]
  BY Types DEF Inst
<1>2. TypeOK'
  BY <1>1, Types DEF TypeOK, Controller, SnapType, Budget, panel
<1>3. StartShape'
  BY <1>1 DEF StartShape
<1>4. MonitorShape(z, budget'.kinds) /\ MonitorShape(ctl["old"], budget'.kinds)
  BY Types DEF MonitorShape
<1>5. \A o \in Inst : MonitorShape(ctl'[o], budget'.kinds)
  BY <1>1, <1>4 DEF Inst
<1> QED BY <1>1, <1>2, <1>3, <1>5 DEF Shape

\* While a start is under way its controller's monitor is idle.
LEMMA StartIdle ==
  ASSUME Inv, loop # "run"
  PROVE  /\ ctl["cur"].mon = "idle" /\ (ctl["cur"].expired => "timeout" \in budget.kinds)
         /\ ctl = [ctl EXCEPT !["cur"] = ctl["cur"]]
  BY Types DEF Inv, Shape, StartShape, MonitorShape, Inst

LEMMA StartNodeInfoInv == ASSUME Inv, startNodeInfo PROVE Inv'
<1> DEFINE z == seenNodeOf(ctl["cur"])
<1>1. loop = "node" /\ UNCHANGED <<panel, reload, cache, budget>>
  BY DEF startNodeInfo
<1>2. ctl["cur"] = Fresh /\ ctl["cur"].seenUsers = None /\ ctl["cur"].expired = FALSE
  BY <1>1 DEF Inv, Shape, StartShape, Fresh
<1>3. ctl' = [ctl EXCEPT !["cur"] = z]
  BY Types DEF startNodeInfo, seenNodeOf
<1>4. /\ z \in Controller /\ z.seenNode = panelNode /\ z.seenUsers = None /\ z.expired = FALSE
  BY <1>2, Types, SeenFields
<1>5. z.mon = "idle"
  BY <1>2, FreshShape, Types DEF seenNodeOf, Controller
<1> HIDE DEF z
<1>6. CASE panelNode = BadNode
  <2>1. loop' = "cached" /\ UNCHANGED snap
    BY <1>6 DEF startNodeInfo
  <2>2. Shape' /\ ctl'["cur"] = z
    BY <1>1, <1>3, <1>4, <1>5, <2>1, Types, StartGoesOn
  <2> QED BY <1>4, <1>6, <2>1, <2>2 DEF Inv, ServerInStep, UsersInv, NodeInv
<1>7. CASE panelNode # BadNode
  <2>1. loop' = "users" /\ snap' = [snap EXCEPT !.node = panelNode] /\ panelNode \in Node
    BY <1>7, Types DEF startNodeInfo
  <2>2. snap' \in SnapType /\ snap'.node = panelNode
    BY <2>1, Types DEF SnapType
  <2>3. Shape' /\ ctl'["cur"] = z
    BY <1>1, <1>3, <1>4, <1>5, <2>1, <2>2, Types, StartGoesOn
  <2> QED BY <1>4, <2>1, <2>2, <2>3 DEF Inv, ServerInStep, UsersInv, NodeInv
<1> QED BY <1>6, <1>7

LEMMA StartUserListInv == ASSUME Inv, startUserList PROVE Inv'
<1> DEFINE z == seenUsersOf(ctl["cur"])
<1>1. /\ loop = "users" /\ loop' = "alive" /\ UNCHANGED <<panel, reload, cache, budget>>
      /\ snap' = [snap EXCEPT !.users = panelUsers]
  BY DEF startUserList
<1>2. ctl["cur"].mon = "idle" /\ (ctl["cur"].expired => "timeout" \in budget.kinds)
  BY <1>1, StartIdle
<1>3. ctl' = [ctl EXCEPT !["cur"] = z]
  BY Types DEF startUserList, seenUsersOf
<1>4. /\ z \in Controller /\ z.seenUsers = panelUsers /\ z.seenNode = ctl["cur"].seenNode
      /\ z.expired = ctl["cur"].expired
  BY Types, SeenFields
<1>5. z.mon = "idle"
  BY <1>2, Types DEF seenUsersOf, Controller
<1> HIDE DEF z
<1>6. snap.node \in Node
  BY <1>1 DEF Inv, Shape, StartShape
<1>7. /\ snap' \in SnapType /\ snap' \in Snapshot
      /\ snap'.users = panelUsers /\ snap'.node = snap.node
  BY <1>1, <1>6, Types DEF SnapType, Snapshot
<1>8. Shape' /\ ctl'["cur"] = z
  BY <1>1, <1>2, <1>3, <1>4, <1>5, <1>7, Types, StartGoesOn
<1> QED BY <1>1, <1>4, <1>7, <1>8 DEF Inv, ServerInStep, UsersInv, NodeInv

LEMMA StartUserAliveInv == ASSUME Inv, startUserAlive PROVE Inv'
<1>1. loop = "alive" /\ loop' = "server" /\ UNCHANGED <<panel, snap, ctl, reload>>
  BY DEF startUserAlive
<1>2. snap \in Snapshot /\ snap.node \in Node /\ snap.users \in UserList
  BY <1>1 DEF Inv, Shape, StartShape, Snapshot
<1>3. /\ cache' \in Snapshot \cup {None} /\ budget' \in Budget
      /\ budget.kinds \subseteq budget'.kinds
  BY <1>2, Types, Saved DEF startUserAlive, Budget
<1>4. /\ ctl["cur"].mon = "idle" /\ (ctl["cur"].expired => "timeout" \in budget.kinds)
      /\ ctl' = [ctl EXCEPT !["cur"] = ctl["cur"]]
  BY <1>1, StartIdle
<1>5. Shape'
  BY <1>1, <1>2, <1>3, <1>4, Types, StartGoesOn
<1> QED BY <1>1, <1>3, <1>5 DEF Inv, ServerInStep, UsersInv, NodeInv

LEMMA StartFailsInv == ASSUME Inv, NEW kind, startFails(kind) PROVE Inv'
<1>1. /\ UNCHANGED <<panel, snap, reload, cache>> /\ fail(kind) /\ loop # "run"
      /\ kind \in {"timeout", "error", "auth"} /\ (loop = "alive" => kind = "timeout")
      /\ loop \in {"node", "users", "alive"}
  BY DEF startFails
<1>2. /\ budget' \in Budget /\ budget.kinds \subseteq budget'.kinds /\ kind \in budget'.kinds
  BY <1>1, Types, Failed DEF Budget
<1>3. CASE kind = "auth"
  <2>1. startAgain
    BY <1>3 DEF startFails
  <2> QED BY <1>1, <1>2, <2>1, Types, AgainInv
<1>4. CASE kind # "auth"
  <2>1. loop' = "cached" /\ UNCHANGED ctl /\ kind \in {"timeout", "error"}
    BY <1>1, <1>4 DEF startFails
  <2>2. /\ ctl["cur"].mon = "idle" /\ (ctl["cur"].expired => "timeout" \in budget.kinds)
        /\ ctl' = [ctl EXCEPT !["cur"] = ctl["cur"]]
    BY <1>1, <2>1, StartIdle
  <2>3. Shape'
    BY <1>1, <1>2, <2>1, <2>2, Types, StartGoesOn
  <2>4. loop = "node" => ctl["cur"].seenUsers = None
    BY DEF Inv, Shape, StartShape, Fresh
  <2>5. UsersInv'
    BY <1>1, <1>2, <2>1, <2>4 DEF Inv, UsersInv
  <2>6. NodeInv'
    BY <1>2, <2>1 DEF NodeInv
  <2> QED BY <2>1, <2>3, <2>5, <2>6 DEF Inv, ServerInStep
<1> QED BY <1>3, <1>4

LEMMA ReadPanelSnapshotInv == ASSUME Inv, readPanelSnapshot PROVE Inv'
<1>1. loop = "cached" /\ UNCHANGED <<panel, reload, cache, budget>>
  BY DEF readPanelSnapshot
<1>2. CASE cache = None
  <2>1. startAgain /\ UNCHANGED snap
    BY <1>2 DEF readPanelSnapshot
  <2> QED BY <1>1, <2>1, Types, AgainInv
<1>3. CASE cache # None
  <2>1. snap' = cache /\ loop' = "server" /\ UNCHANGED ctl
    BY <1>3 DEF readPanelSnapshot
  <2>2. cache \in Snapshot /\ cache \in SnapType
    BY <1>3, Types DEF Snapshot, SnapType
  <2>3. /\ ctl["cur"].mon = "idle" /\ (ctl["cur"].expired => "timeout" \in budget.kinds)
        /\ ctl' = [ctl EXCEPT !["cur"] = ctl["cur"]]
    BY <1>1, <2>1, StartIdle
  <2>4. Shape'
    BY <1>1, <2>1, <2>2, <2>3, Types, StartGoesOn
  <2> QED BY <1>1, <2>1, <2>4 DEF Inv, ServerInStep, UsersInv, NodeInv
<1> QED BY <1>2, <1>3

LEMMA StartServerInv == ASSUME Inv, startServer PROVE Inv'
<1> DEFINE z == [ctl["cur"] EXCEPT !.info = snap.node, !.userList = snap.users,
                                   !.served = snap.users]
<1>1. loop = "server" /\ loop' = "run" /\ snap' = NoSnap /\ UNCHANGED <<panel, reload, cache, budget>>
  BY DEF startServer
<1>2. ctl["cur"].mon = "idle" /\ (ctl["cur"].expired => "timeout" \in budget.kinds)
  BY <1>1, StartIdle
<1>3. snap.node \in Node /\ snap.users \in UserList
  BY <1>1 DEF Inv, Shape, StartShape, Snapshot
<1>4. ctl' = [ctl EXCEPT !["cur"] = z]
  BY Types DEF startServer, Controller, Inst
<1>5. /\ z \in Controller /\ z.mon = "idle" /\ z.expired = ctl["cur"].expired
      /\ z.info = snap.node /\ z.userList = snap.users /\ z.served = snap.users
      /\ z.seenNode = ctl["cur"].seenNode /\ z.seenUsers = ctl["cur"].seenUsers
  BY <1>2, <1>3, Types DEF Controller
<1> HIDE DEF z
<1>6. snap' \in SnapType
  BY <1>1 DEF SnapType, NoSnap
<1>7. Shape' /\ ctl'["cur"] = z
  BY <1>1, <1>2, <1>3, <1>4, <1>5, <1>6, Types, StartGoesOn
<1>8. ServerInStep'
  BY <1>5, <1>7 DEF ServerInStep
<1>9. "timeout" \notin budget.kinds => ListKnown(z)
  <2>1. ~compareUserList(snap.users, snap.users)
    BY DEF compareUserList
  <2>2. "timeout" \notin budget.kinds => ctl["cur"].seenUsers \in {None, snap.users}
    BY <1>1 DEF Inv, UsersInv
  <2> QED BY <1>5, <2>1, <2>2 DEF ListKnown, Pending
<1>10. UsersInv'
  <2>1. SUFFICES "timeout" \notin budget'.kinds => ListKnown(ctl'["cur"])
    BY <1>1 DEF UsersInv, ListKnown, Pending, compareUserList
  <2> QED BY <1>1, <1>7, <1>9
<1>11. NodeInv'
  BY <1>1, <1>5, <1>7 DEF Inv, NodeInv
<1> QED BY <1>7, <1>8, <1>10, <1>11 DEF Inv

LEMMA ServerFailsInv == ASSUME Inv, serverFails PROVE Inv'
<1>1. fail("server") /\ startAgain /\ snap' = NoSnap /\ UNCHANGED <<panel, reload, cache>>
  BY DEF serverFails
<1>2. budget' \in Budget /\ budget.kinds \subseteq budget'.kinds
  BY <1>1, Types, Failed DEF Budget
<1>3. snap' \in SnapType
  BY <1>1 DEF SnapType, NoSnap
<1> QED BY <1>1, <1>2, <1>3, Types, AgainInv

LEMMA ReloadsInv == ASSUME Inv, reloads PROVE Inv'
<1>1. /\ loop' = "node" /\ reload' = FALSE /\ UNCHANGED <<panel, snap, cache, budget>>
      /\ ctl' = [cur |-> Fresh,
                 old |-> IF ctl["cur"].mon # "idle" THEN ctl["cur"] ELSE ctl["old"]]
  BY DEF reloads
<1>2. ctl["old"] \in Controller
  BY Types DEF Inst
<1>3. /\ ctl' \in [Inst -> Controller] /\ ctl'["cur"] = Fresh
      /\ ctl'["old"] \in {ctl["cur"], ctl["old"]}
  BY <1>1, <1>2, Types, FreshShape DEF Inst
<1>4. MonitorShape(ctl'["old"], budget'.kinds)
  BY <1>1, <1>3, Types
<1> QED BY <1>1, <1>3, <1>4, Types, NodeStart

LEMMA RestartInv == ASSUME Inv, restart PROVE Inv'
<1>1. /\ loop' = "node" /\ snap' = NoSnap /\ reload' = FALSE /\ UNCHANGED <<panel, cache>>
      /\ ctl' = [k \in Inst |-> Fresh] /\ budget' = [budget EXCEPT !.restarts = @ + 1]
  BY DEF restart
<1>2. ctl' \in [Inst -> Controller] /\ ctl'["cur"] = Fresh /\ ctl'["old"] = Fresh
  BY <1>1, FreshShape DEF Inst
<1>3. budget' \in Budget
  BY <1>1, Types DEF Budget
<1>4. snap' \in SnapType
  BY <1>1 DEF SnapType, NoSnap
<1> QED BY <1>1, <1>2, <1>3, <1>4, Types, FreshShape, NodeStart

LEMMA MonitorStartsInv == ASSUME Inv, monitorStarts PROVE Inv'
<1> DEFINE z == monitorAt(ctl["cur"], "node", None)
<1>1. /\ loop = "run" /\ ctl["cur"].mon = "idle"
      /\ UNCHANGED <<panel, loop, snap, reload, cache, budget>>
      /\ ctl' = [ctl EXCEPT !["cur"] = z]
  BY DEF monitorStarts
<1>2. ctl["cur"].info \in Node /\ ctl["cur"].userList \in UserList
  BY <1>1 DEF Inv, Shape, StartShape
<1>3. "node" \in Place /\ None \in Fetched
  BY DEF Place, Fetched
<1>4. /\ z \in Controller /\ z.mon = "node" /\ z.got = None /\ z.expired = ctl["cur"].expired
      /\ z.info = ctl["cur"].info /\ z.userList = ctl["cur"].userList
      /\ z.seenNode = ctl["cur"].seenNode /\ z.seenUsers = ctl["cur"].seenUsers
      /\ z.served = ctl["cur"].served
  BY <1>3, Types, MonitorFields
<1> HIDE DEF z
<1>5. MonitorShape(z, budget'.kinds)
  BY <1>1, <1>2, <1>4, Types DEF MonitorShape
<1>6. Shape'
  BY <1>1, <1>2, <1>4, <1>5, Types, MonitorFrame DEF Inv, Inst
<1>7. ctl'["cur"] = z
  BY <1>1, Types DEF Inst
<1>8. ServerInStep' /\ NodeInv'
  BY <1>1, <1>4, <1>7 DEF Inv, ServerInStep, NodeInv
<1>9. ListKnown(ctl["cur"]) => ListKnown(z)
  BY <1>1, <1>4 DEF ListKnown, Pending
<1>10. UsersInv'
  <2>1. SUFFICES ASSUME "timeout" \notin budget'.kinds, ~reload'
                 PROVE  ListKnown(ctl'["cur"])
    BY <1>1 DEF UsersInv, ListKnown, Pending, compareUserList
  <2> QED BY <1>1, <1>7, <1>9, <2>1 DEF Inv, UsersInv
<1> QED BY <1>6, <1>8, <1>10 DEF Inv

\* Steps that leave the node alone, but for the reload token and the record of
\* what happened.
LEMMA AsideInv ==
  ASSUME Inv, UNCHANGED <<loop, snap, ctl, cache>>, reload' \in BOOLEAN, reload => reload',
         panelNode' \in Node \cup {BadNode}, panelUsers' \in UserList,
         budget' \in Budget, budget.kinds \subseteq budget'.kinds
  PROVE  Inv'
<1>1. TypeOK'
  BY Types DEF TypeOK, Budget
<1>2. StartShape'
  BY DEF Inv, Shape, StartShape
<1>3. \A o \in Inst : MonitorShape(ctl'[o], budget'.kinds)
  BY DEF Inv, Shape, MonitorShape
<1>4. Shape'
  BY <1>1, <1>2, <1>3 DEF Shape
<1>5. ServerInStep' /\ NodeInv'
  BY DEF Inv, ServerInStep, NodeInv
<1>6. UsersInv'
  BY DEF Inv, UsersInv, ListKnown, Pending, compareUserList
<1> QED BY <1>4, <1>5, <1>6 DEF Inv

LEMMA ReportTimedOutInv == ASSUME Inv, reportTimedOut PROVE Inv'
<1>1. fail("timeout") /\ reload' = TRUE /\ UNCHANGED <<panel, loop, snap, ctl, cache>>
  BY DEF reportTimedOut
<1>2. budget' \in Budget /\ budget.kinds \subseteq budget'.kinds
  BY <1>1, Types, Failed DEF Budget
<1> QED BY <1>1, <1>2, Types, AsideInv DEF panel

LEMMA PanelChangesInv == ASSUME Inv, panelChanges PROVE Inv'
<1>1. /\ UNCHANGED <<loop, snap, ctl, reload, cache>>
      /\ budget' = [budget EXCEPT !.changes = @ + 1]
  BY DEF panelChanges
<1>2. budget' \in Budget /\ budget'.kinds = budget.kinds
  BY <1>1, Types DEF Budget
<1>3. panelNode' \in Node \cup {BadNode} /\ panelUsers' \in UserList
  BY Types DEF panelChanges
<1> QED BY <1>1, <1>2, <1>3, Types, AsideInv

LEMMA InvNext == Inv /\ [Next]_vars => Inv'
<1> SUFFICES ASSUME Inv, [Next]_vars PROVE Inv'
  OBVIOUS
<1>1. CASE startStep
  <2>1. CASE \E kind \in Faults : startFails(kind)
    BY <2>1, StartFailsInv
  <2> QED BY <1>1, <2>1, StartNodeInfoInv, StartUserListInv, StartUserAliveInv,
             ReadPanelSnapshotInv, StartServerInv, ServerFailsInv DEF startStep
<1>2. CASE \E k \in Inst : monitorStep(k)
  BY <1>2, MonitorInv
<1>3. CASE \E k \in Inst : executionTimedOut(k)
  BY <1>3, MonitorInv
<1>4. CASE UNCHANGED vars
  BY <1>4, Types, AsideInv DEF vars
<1> QED BY <1>1, <1>2, <1>3, <1>4, ReloadsInv, RestartInv, MonitorStartsInv,
           ReportTimedOutInv, PanelChangesInv DEF Next

LEMMA Invariance == Spec => []Inv
  BY InvInit, InvNext, PTL DEF Spec

-----------------------------------------------------------------------------
(* The theorems.                                                           *)

\* Whatever runNode, the monitors, the panel and the failures do, a controller
\* works with, and the cache holds, decoded configurations and fetched lists.
THEOREM TypeCorrect == Spec => []TypeOK
<1>1. Inv => TypeOK
  BY DEF Inv, Shape
<1> QED BY <1>1, Invariance, PTL

\* nodeInfoMonitor never leaves a server with another list than its controller's
\* without triggerReload, whatever timed out or failed.
THEOREM ServerKeepsStep == Spec => []ServerInStep
<1>1. Inv => ServerInStep
  BY DEF Inv
<1> QED BY <1>1, Invariance, PTL

\* Without timeouts no user list whose ETag GetUserList kept is lost.
THEOREM NoListLost == Spec => []UsersKnown
<1>1. Inv => UsersKnown
  BY DEF Inv, UsersInv, ListKnown, Pending, UsersKnown
<1> QED BY <1>1, Invariance, PTL

\* Without timeouts and errors no configuration whose hash GetNodeInfo kept is
\* lost.
THEOREM NoNodeLost == Spec => []NodeKnown
<1>1. Inv => NodeKnown
  BY DEF Inv, NodeInv, NodeKnown
<1> QED BY <1>1, Invariance, PTL

=============================================================================
