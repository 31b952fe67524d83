# A TLA+ verification project for v2sudoku

v2sudoku is a node backend for a v2board panel: it polls the panel for a node's
configuration and users, runs a Sudoku server for them, and reports each user's
traffic and presence back. This directory models the parts of it that keep state,
checks them with TLC on small instances and proves the main safety properties with
TLAPS for all of them.

Paths are relative to the repository (`src/` here).

## The system

| component | state | operations | source |
|---|---|---|---|
| node loop (one goroutine per configured node) | the running controller, the reload channel (capacity 1) | start, retry after 10 s, reload, stop | `main.go` |
| controller | node info, user list, alive list, server, two tasks; `panel-cache.json` on disk | `Start`, `Close`, `nodeInfoMonitor`, `reportUserTrafficTask` | `internal/controller/controller.go` |
| task | running flag, stop channel, one execution it waits for | `Start`, `ExecuteWithTimeout`, `Close` | `internal/task/task.go` |
| panel client | body hash, node ETag, user ETag | `GetNodeInfo`, `GetUserList`, `GetUserAlive`, `ReportUserTraffic`, `ReportNodeOnlineUsers` | `internal/panel/client.go` |
| embedded runtime | user table, hash index, counters, online table, open connections | `Start`, `Close`, `UpdateUsers`, connection handlers, slice / confirm / online | `internal/runtime/embedded.go`, `counting.go` |
| client key store (one per process) | keys in memory, key file | `BuildMappings` | `internal/runtime/key_store.go` |
| external runtime | child process, config file, users, pending traffic, online table | `Start`, `Close`, `UpdateUsers`, event import, slice / confirm / online | `internal/runtime/external.go` |
| settings, local configuration | none | decoding, defaults, building the Sudoku configuration | `internal/panel/client.go`, `internal/runtime/config.go`, `internal/conf/conf.go` |

How they interact. `runNode` makes a panel client and a controller and calls
`Start`, which fetches configuration, users and alive list (or reads the cache),
builds the server and starts two tasks. The monitor task polls the panel: a new
configuration is cached and a token put into the reload channel; a new user list
goes to `server.UpdateUsers`, which asks the key store for keys. The report task
takes a snapshot of the counters, pushes it, subtracts it when the push returned,
and reports who is online. Connection goroutines write to the counters without
the runtime's lock. On a token `runNode` closes the controller and starts again.

What is hard here:

* counters are written by connections while a snapshot of them is on its way to
  the panel, is retried, fails after it was booked, or is abandoned by the task's
  timeout and confirmed later by an execution nobody waits for;
* the user table is replaced under open sessions that hold pointers to counters;
* the client remembers a hash or an ETag *before* what it stands for is in use, so
  whatever fails in between can make a change invisible;
* closing a task does not wait for its running execution;
* starts fall back to a cache that may be older than what the client remembers;
* key generation fails half-way with part of the keys already in memory;
* `Close` of the embedded runtime races with connections that are accepted and not
  yet registered, and waits for all of them, also for a copy that is blocked on a target;
* `Close` of the external runtime waits, with the lock held, for a goroutine that
  needs the lock;
* the cache file and its `.tmp` are shared by writers nobody serialises;
* settings pass through two decoders, two sets of defaults and products that wrap.

`PROJECT.json` lists these hazards line by line with the properties about them.

## Modules

| module | models | proofs |
|---|---|---|
| `Embedded` | the embedded runtime and the report task that drains it | `EmbeddedProofs` |
| `Ledger` | what a runtime promises the panel about traffic; `Embedded` and each instance of `External` implement it | `EmbeddedProofs`, `ExternalProofs` |
| `Listener` | accept loop, handlers, copy goroutines and `Close` of the embedded runtime | `ListenerProofs` |
| `External` | the external runtime, its process and helper goroutines, its events and the report task | `ExternalProofs` |
| `PanelSync` | node loop, controller start, panel client, monitor task, cache | `PanelSyncProofs` |
| `PanelCache` | the cache file, one system call per step | `PanelCacheProofs` |
| `KeyStore` | the key store in modes `auto` and `file` | `KeyStoreProofs` |
| `SplitKey` | the key derivation of mode `deterministic_split` | `SplitKeyProofs` |
| `Settings` | from the panel's body and `config.yml` to server configuration and intervals | `SettingsProofs` |
| `MCKeys` | `KeyStore` and `SplitKey` side by side, as the modes of one store | |
| `MCEmbedded`, `MCPanelSync`, `MCSettings` | constants of the TLC instances | |

Definitions keep the code's names where they model one function; `map` in
`PROJECT.json` gives the lines of each. A definition whose comment begins with
"Mutant" is a faulty variant of the definition after it: it takes part in nothing
but the demonstration that some property would notice that fault.

### Embedded

`users`, `counters`, `online` are the maps of the Go struct; `hashed[u]` is the user
id the current hash of `u` was derived from, which differs from `users[u]` after
`BuildMappings` failed. `pend` is the value of the counter in the map. A
connection is `handshake`, `control` (reading its first control message),
`relay`, or `drain`: `pipeConn` returns after its first direction ended, and the
other copy goroutine may still count. `live` says whether the connection's counter
pointer is the one in the map; a counter that left the map is never read again, so
the bit is all of the pointer that matters.

`rep["cur"]` is the execution of the report task that the task loop waits for,
`rep["late"]` one that `ExecuteWithTimeout` gave up on. `panelAccepts` is the panel
booking one attempt of a push, `pushReturns`, `pushFails` and `pushTimesOut` are what
the client makes of it, in any combination: a push may be booked and still fail.
The ghosts `metered`, `billed` and `unmetered` are the two sides of the books. A
concurrent write between the two steps of `replaceUsersLocked` (find the counter
empty, delete it) has the effect of one after both, so the update is one step.

Left out: the handshake, the httpmask prelude and the fallback handler (a handshake
ends with a hash or is rejected), speed and device limits (never enforced by the
code), `upsertUserLocked` and `deleteUserLocked` (the controller always passes the
full list, so the branch that calls them does not run), which devices are left out
of the online report.

### Ledger

`Ledger` knows only bytes carried, bytes booked by the panel and claims (carried, to be
booked). Until a push goes wrong, a step carries and claims, or books what is
claimed; after that, bytes may be booked again but what was carried stays claimed or
booked for ever. `Embedded` instantiates it as `L`: `carried` is `metered`, `booked` is
`billed`, `lapsed` is `faults > 0`, and `claim` is `Claim`, the counter minus what an
execution has got booked and not yet subtracted. `KeepsLedger` is `L!Spec`.

### Listener

One record of goroutines and sockets: `wg` is the value of `e.wg`, `active` is
`e.active`, `handler[c]` says where the handler of connection `c` is (`accepted`: Accept
returned, `wg.Add` not yet called; `spawned`: counted, not yet registered; `running`;
`session`; `ending` and `leaving`: its deferred calls). `closeActiveConns` copies the
map in one step and closes the copies one by one afterwards, as the code does outside
the lock.

A session is `pipe` or `uot`, with two copy goroutines and the buffered channel `errs`
between them and the handler, or `library`: mux, and the handler of suspicious
connections, whose goroutines and targets belong to the library. A copy goroutine is
`reading` from one end or `writing` to the other, and `target` is the end that is not the
client's. This matters for `Close`: it closes client sockets, `pipeConn` closes the target
only when it returns, so a copy that writes to a target which has stopped reading is not
woken. `Over` says when the end that a copy waits for cannot hold it any more.
Which user's traffic is carried is left to `Embedded`, which lets sessions end and
drain in the same way.

### External

`run` is the node loop's view of the runtime; `gen` counts instances, and process,
waiter (the goroutine of `startLocked`) and poller (the one of `stopLocked`) exist per
instance, since they may outlive it. Only `Close` keeps `e.mu` over several steps, so
`Free` is the guard of every other operation. The lower half models users, events,
pending traffic and two overlapping executions of the report task.

What the model shows of the code: the configuration depends on node and settings
only, so after `Start` its hash never changes and `restartLocked` never runs; a process
that dies by itself is not started again until the next reload; `stopLocked` waits for a
goroutine that waits for `e.mu`, which it holds, so every `Close` of a live process takes
five seconds and ends with a kill (`StopNeedsTimeout`); the poller and waiter end only
afterwards (`HelpersEnd`). `Imports` says whether the events reach `ImportEventLine`; in
this repository nothing calls it (`external_events`), and with `TRUE` the accounting of
the code behind it is checked.

### PanelSync

`loop` is where `runNode` is within a start: `node`, `users`, `alive` are the three
requests, `cached` the fallback, `server` the server's construction, `run` the wait
for a token. `ctl["cur"]` is the current controller with its panel client, its server
(`served` is the list the server works with) and the execution of its monitor;
`ctl["old"]` is a closed controller whose monitor has not returned yet. `seenNode`
stands for body hash and node ETag, `seenUsers` for the user ETag. `BadNode` is a
body that `GetNodeInfo` hashes and then cannot decode or normalise. A request that fails is
of one of three kinds because the code treats them differently: timeouts (which
`GetUserAlive` alone reports), refusals (which end a start without the cache) and all
others. The `kinds` that happened are remembered so that properties can say under
which they hold. `restart` is the death of the process at any point.

Left out: the alive list (kept, never read), the ETag and body hash as separate
things (equal content is equal hash), a panel that answers with no `users` field at
all, a cache file that is damaged or of another node (the code refuses it; the
effect is that of no file).

### PanelCache

`savePanelSnapshot` is three steps: `os.WriteFile` opens the `.tmp` (creating it or
truncating the one there is), writes it, and `os.Rename` gives it its name. `tmp` and
`file` are the inodes the two names stand for; a saver keeps its descriptor, so a write
may go to an inode that has meanwhile been renamed. Contents are a whole snapshot,
empty, or torn (a write that stopped, or one over a longer file). Savers are the
controllers of the nodes that share the path, which contains the node id and not the
panel, and executions of the monitor that a task abandoned. Reading is one step. The
contents of a snapshot matter only by panel, version and length.

### KeyStore

`BuildMappings` holds the store's mutex throughout, so each outcome of a call is one
action: `known` (nothing to make), `generated`, `saveFails`, `limitReached`,
`noMaster`, and `loadFails` for the read before. A Go map orders the users, so a call
that meets the limit may have served any subset before. `given[n]` is what node
`n`'s server was built with; a key remembers the master key it was split from. The limit
is looked at before the master key, as in `resolveKeyLocked`. An unparsable master key is the same as none. A key
file that decodes in part (edited by hand) is left out.

### SplitKey

Bytes of base 3 instead of 256, scalars of three bytes instead of 32, digests of five
instead of 64 and a prime order of 23 instead of Ed25519's, so that, as in the code,
master keys may exceed the order, digests exceed the scalars, and differences are
negative. SHA-512 returns any digest.

### Settings

`LoadFromPath`, `GetNodeInfo` (decode and `Normalize`), `savePanelSnapshot`,
`readPanelSnapshot` and `startServer` are the actions a start is made of; everything
between them is operators named as the code's functions. A text is one of five strings
that show what trimming does to it. A setting with aliases is a function of its
spellings. A duration has `Width` bits and wraps; an interval in seconds is any
integer, and what a conversion makes of a number that does not fit is again some integer.
The library's `Finalize` and the point arithmetic behind `RecoverPublicKey` are external.

## Runs

| run | checks | bounds |
|---|---|---|
| `embedded_one` | `TypeOK`, `NothingDropped`, `Accounts`, `KeepsLedger`, `TrafficReported`, `OnlineExpires` | one user, one connection, one chunk of two bytes per direction, one retry, one fault (a repeated, failed-after-booking or abandoned push) |
| `embedded_two` | `BilledOnce`, `PendingKept` | two users (one may lose its id or leave), two connections, one byte per user and direction, no faults |
| `embedded_orphan` | violates `OpenSessionsMetered` | as small as possible |
| `listener` | `TypeOK`, `ClosedForGood`, `OnlyLateMissed`, `CloseReturns`, `CopiersEnd` | two connections, each with any kind of session |
| `external` | `TypeOK`, `NoStrayProcess`, `StopNeedsTimeout`, `EventsCounted`, `BookedOnce`, `HelpersEnd` | two instances, one user, one byte per direction, one fault, two executions of the report task |
| `external_events` | violates `EventsCounted` | the same without the import of events |
| `panel` | `TypeOK`, `ServerInStep`, `UsersKnown`, `NodeKnown`, `Converges`, `UsersConverge` | two configurations and a bad one, four user lists, five kinds of failure, one failure, two changes, one restart |
| `panel_cache` | `TypeOK`, `CachedIsOwn`, `ReplacedAtOnce`, `CacheHeals` | two panels, an abandoned execution in one node, a short and a long snapshot, four inodes, two faults (overlap, failed write, crash, power failure) |
| `keys_safe` | `TypeOK`, `OneKeyPerUser`, `LimitKept`, `GivenKeysStored`, `StoredKeysStay`; `SplitOpens` | three users, two nodes, two master keys, limit two, four generating calls, two failures, two restarts or key changes; all master keys and digests of the small base |
| `keys_stored` | violates `KeysStored` | two calls, one failure |
| `keys_master` | violates `KeysOfOwnMaster` | one node, one user, one change of the master key |
| `settings` | `CacheFaithful`, `IntervalsUsable`, `FallbackHonoured`, `AcceptedHasKey`, `EverySpelling` | durations of seven bits; all values of each group of settings, one group at a time; one fetch, any restarts |

Why the bounds suffice. In `Embedded` the bad cases need one abandoned execution
that overlaps one successor and a byte counted between snapshot and
confirmation: a chunk in each direction, one fault. Two users and two connections are needed only where one
user's update could touch another's counter. `PanelSync` needs one change that is
acknowledged and lost, one failure to lose it, one more change to interfere or to take
the first one back, and a restart to make the cache older than the panel. `KeyStore`
needs a limit that a call can hit with some of its users served: three users, limit two.
`Listener` needs one connection that `closeActiveConns` sees and one that it misses. `External` needs an
instance whose helpers are still there when the next one starts. `PanelCache` needs two
savers of different panels or one abandoned saver, a longer snapshot under a shorter one,
and as many inodes as there are names and descriptors left behind. The settings of
different groups do not meet in the code except in the cases the groups contain (the
two keys, the two intervals, the spellings of one setting, the address and the action of
the fallback).

`listener`, `external` and `external_events` run without the deadlock check: a runtime
that is closed and a program that has ended do nothing more. All others have it.
Symmetry is used in `embedded_two` (connections) and `keys_safe` (users, nodes), which check no liveness; the values
permuted occur in no other constant.

What the violations show. They are disagreements between the README and the code,
each with a `findings` entry:

* an idle counter is deleted under an open session; after the user is listed again
  the session is not metered (`embedded_orphan`);
* keys left in memory by a failed call are handed out and never stored
  (`keys_stored`);
* the key file is keyed by the user id alone, so in mode `auto` a node hands out keys split
  from its former master key, or from another node's, whereas the README has them split
  from `master_private_key` and names rotating it as the way to revoke access
  (`keys_master`);
* the events of an external process are never imported (`external_events`).

`UsersKnown`, `NodeKnown`, `Converges` and `UsersConverge` carry their conditions for the
same reasons: a timeout can lose an acknowledged user list; a start whose
`GetNodeInfo` succeeded and whose `GetUserList` failed runs the cached configuration
and will not be told of the new one.

Known limits that no document contradicts, and that the properties leave room for:

* traffic counted since the last push is lost at each reload, with the runtime;
* a user list is lost until the panel's next change when its ETag was kept and the
  request after it, `GetUserAlive`, times out (`UsersKnown` excepts timeouts);
* a changed user id alone reaches neither server nor cache (`compareUserList` does not
  look at it; `UsersKnown` and `UsersConverge` are up to `compareUserList`);
* after a failed read of the key file the next call starts from an empty map and overwrites
  the file (`StoredKeysStay` excepts it);
* a connection registered too late for `closeActiveConns` delays `Close`, and with it
  the reload, as long as its client likes; so does a target that has stopped reading, while
  the other direction of its session waits for it, on any connection, and a relay of the
  library as long as it runs (`CloseReturns` names the three in `Held`);
* two nodes with the same id on different panels keep replacing each other's cache, so
  a start without the panel may find none of its own (`CachedIsOwn` says it never takes
  the other's);
* one padding given alone may lie beyond the default of the other;
* intervals whose nanoseconds overflow become some other positive interval, and a
  deadline of five intervals that overflows may be in the past.

## Fairness

`Embedded`: weak fairness of the report timer, of the passage of time and of each
execution's steps (goroutines that can run do), and strong fairness of
`panelAccepts("cur")` and `pushReturns("cur")`: a push that is tried again and again
gets through in the end. Nothing is assumed of clients, user updates or `Close`.

`PanelSync`: weak fairness of a start, of taking the reload token, of the pull timer
and of a monitor's next step. Nothing is assumed of the panel, of failures or of
restarts; the bounds on them say that they stop, which is the premise of convergence.

`Listener`: weak fairness of every goroutine's next step. Of a copy it is only assumed that
it ends once the end it waits for is closed, or, reading from the client, once the client
left; of a handshake or dial, that it ends when the client's socket is broken; and that
sending a datagram does not block for ever. That a session's tunnel connection fails when
its raw socket is closed is an assumption about the library. Nothing is assumed of what
clients and targets read or write, so a copy may wait for an open target for ever, nor of
the library's relays, nor that `Close` is called. `CloseReturns` has to say so: `Close`
returns or, from some time on, `Held` is true for ever. Without any one of the three
disjuncts of `Held` TLC finds a counterexample.

`External`: weak fairness of the five-second timer, of the select after it, of the two
helper goroutines, and of the kernel ending a process that was killed. A process may
ignore SIGTERM; nothing is assumed of the node loop or the report task.

`PanelCache`: weak fairness of a saver's next step, and of some controller saving again:
the monitor saves at the end of each execution whose requests were answered, also when
nothing changed, so a node whose panel is up keeps saving.

## Proofs

`EmbeddedProofs` proves `TypeCorrect`, `NoByteDropped`, `BilledExactlyOnce` and
`CountersKept` for any sets of users, connections, lists and chunk sizes, any threshold
and any number of retries and failures. Neither accounting property is
inductive. `NothingDropped` needs `Books`, which counts what both executions have
got booked and will still take off: a late confirmation may only take off what it
booked itself. `BilledOnce` needs `Covered`: while nothing went wrong there is no
abandoned execution, and the pushed slice is still on the counters when it is
confirmed, so the clamp in `subtract` never bites; that needs `TaskShape` (a waiting
loop has no execution) and `PendingKept` (a counter with bytes is never dropped, so
the confirmation finds it). `IInv` is their conjunction, checked by TLC in
`embedded_one` and `embedded_two` before it was proved.

It also proves that `Embedded` implements `Ledger`: `ImplementsLedger` (`Spec => L!Spec`)
and `AccountsKept`. `IInv` gives the
two facts the mapping needs (`ClaimInv`): what was metered is at most claimed plus
billed, and equal to it while nothing went wrong, where the clamp in `Claim` never bites
(`Covered`). `StepGrows` adds that no step takes back what was metered or billed, and
that without a fault a step changes only one of the two. So a step without a fault is a
`Carry` or a `Book` of the ledger, whatever it does to counters and snapshots, and any
other is a `Lapse`.

`KeyStoreProofs` proves `TypeCorrect`, `SameKeyEverywhere`, `HandedOutIsStored`,
`StoredKeysRemain` and `LimitHolds` for any finite set of users, any nodes, master keys
and limit. `OneKeyPerUser`, which speaks of nodes with equal master keys, follows from
`GivenFromMemory` (what a server was given is what the store holds), since the store never
replaces a key while the process runs; the same fact is why `KeysOfOwnMaster` fails.
`LimitHolds` adds up cardinalities with the library's finite-set theorems.

`PanelSyncProofs` proves `TypeCorrect`, `ServerKeepsStep`, `NoListLost` and `NoNodeLost` for
any configurations, user lists, failures and bounds. `Shape` adds to the types what
is at hand at each place of a start and of a monitor. `UsersInv` follows a user list
from its ETag through the start, or through the monitor (`ListKnown`: it was fetched
and is pending, or it is the one in use); `NodeInv` does the same for the
configuration. Each monitor action is shown to have an `Effect`: it changes one
controller, and carefully (`Careful`, `InStep`: it asks for a reload, or loses nothing).
That an `Effect` keeps the invariant is then proved once, for the running controller
and for a closed one alike.

`ListenerProofs` proves `TypeCorrect`, `ShapeKept`, `CloseIsComplete` and `MissesOnlyLate` for
any finite set of connections. The core is `WaitGroupExact`: each step that counts moves
one connection into or out of `Counted`, and the finite-set theorems give the change of
its cardinality. From it `wg = 0` means that nothing is left. `CloseNeverStuck` and
`CopiersNeverStuck` are what `CloseReturns` and `CopiersEnd` need besides fairness: nobody
waits in a circle. `CloseNeverStuck` excepts `Held`, and a copy goroutine counts as able to go
on only if the end it waits for is `Over`, or a datagram is to be sent. The guards of the
steps are written out, since ENABLED is out of the prover's reach. They rest on `NoDeadlock`:
the first error of a session stays in `errCh` until the handler takes it, and there is room
for the second; and on `SessionMoves`: in a session whose client socket is broken, one of the
two copies can go on or the target holds it.

`ExternalProofs` proves `TypeCorrect`, `NoProcessLeftAlone`, `CloseWaitsItsTime` and, if
events are imported, `NoEventLost` and `EventsBookedOnce`, for any users, instances and
bounds. Supervision (waiter and poller of an instance against its process, signal and
`e.cmd`) and accounting (`Books`: what two executions got booked and did not yet take
off) are separate invariants over separate variables. `HelpersNeverStuck` says of Close,
process, waiter and poller that one of them can go on until all are over (`Helpers`: a
SIGTERM alone means that Close still waits, and its timer needs no lock). `InstancesImplementLedger` adds, by
the same argument as for `Embedded`, that with imported events each instance implements
`Ledger`; a `Start` begins a new ledger, because the pending entries of the instance before
are dropped. `NothingBookedWithoutImport` is the other half: without a caller of
`ImportEventLine` nothing is ever pending, so the panel books nothing and sees nobody
online. These two and the theorems on deadlock freedom have no run of their own; `BookedOnce`,
`EventsCounted` and the liveness properties are what TLC checks of them.

`PanelCacheProofs` proves `TypeCorrect`, `OnlyOwnSnapshots` and `LastSaveStays` for any panels,
savers, versions and inodes. `CachedIsOwn` needs that every whole snapshot on the disk was
begun by its panel's node; `ReplacedAtOnce` needs that, while saves do not overlap, at
most one saver is busy and its descriptor is the inode named `.tmp`, never the file.

`SettingsProofs` proves `IntervalsAlwaysUsable` and `AcceptedKeepsKey` for any set of bodies and durations of any width. The invariant `Inv` carries what the
cached JSON needs to be decoded again: interval values of the panel's types, durations in
range. `FallbackAlwaysHonoured` needs that the server belongs to the node and `config.yml`
loaded now (`Built`). `CacheAlwaysFaithful` and `EverySpellingRead` rest on a second invariant, `Traced`:
it ties a node to the body it was made from and the cache to the node that was saved.
What `GetNodeInfo` and `readPanelSnapshot` make is `Canonical` (trimmed, with defaults,
intervals that agree with the values they came from; `MadeCanonical`), and encoding and decoding a
canonical node gives it back (`ThroughCache`). For the custom tables that is an induction
over the list: what `toStringSlice` kept it keeps again (`SliceSame`). The spellings are
one case distinction over the three candidates of `firstNonEmpty` (`FirstOfThree`), the
fallback one over two (`FirstOfTwo`).

`SplitKeyProofs` proves `SplitAlwaysOpens` for any base, lengths and order, so also for bytes,
32, 64 and the order of Ed25519. A digit and a quotient determine the number
(`NextDigit`), so decoding the first n bytes of an encoding gives the number modulo
`Base` to the n (`Decoded`), so a number that fits survives (`RoundTrip`); both halves
fit because they are below the order, and their sum is the master key modulo the order
(`Halves`, with `ModShift` for the negative difference).

The inductions of these two modules are stated with sets: the least element of a set of
numbers exists (`Least`, from the library's theorem on well-founded relations), hence a set
that holds 0 and is closed under successor holds every number (`Induction`). A
recursive function is a CHOOSE, and its equation holds only if some function satisfies it;
that is proved (`PowerExists`, `ValueExists`, `KeptExists`) before the equation is used.

Assumptions on the constants are the named `ASSUME`s of the modules; TLC evaluates
them in every run.

Every invariant and every safety property of the passing runs is proved. Only
model-checked are the liveness properties `OnlineExpires`, `TrafficReported`, `HelpersEnd`,
`CloseReturns`, `CopiersEnd`, `Converges`, `UsersConverge` and `CacheHeals`: TLAPS here has
neither fairness nor `ENABLED` (of `HelpersEnd`, `CloseReturns` and `CopiersEnd` the deadlock
freedom is proved). The bounds in guards (`MaxBytes`, `MaxFaults`, ...) are
constants in the theorems, of any size. `TrimSpace` is the model's, on the texts it tells
apart; the theorems about settings are about bodies made of such texts. No module declares
a RECURSIVE operator: recursion is written as recursive functions.

## Plan

Done: `Embedded`, `KeyStore`, `PanelSync` and their proofs; `Ledger` and the refinement;
`Listener`, `External`, `PanelCache`, `Settings`, `SplitKey` and their proofs.

Left: that a node which has caught up with an unchanging panel stays so, as a theorem about
`PanelSync`; `compareUserList` on lists with
duplicate UUIDs; the filter of the online report, if its intent is written down.

## Not modelled

Logging, version and command line (formatting and flags, no state); `script/install.sh`
and the service unit (shell I/O); the Sudoku library (third party, not in the
repository: handshake, httpmask, mux, tables, `Finalize` and point arithmetic appear by
their results); the derivations `uuid` and `deterministic` (hashes of their arguments);
code that never runs in this program (`restartLocked`, incremental `UpdateUsers`,
`DebugUserHashMap`, `MarshalConfig`); which users are left out of the online report (it
changes no state, and the repository does not say what it should be).
