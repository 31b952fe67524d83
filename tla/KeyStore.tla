------------------------------ MODULE KeyStore ------------------------------
(***************************************************************************)
(* The client key store (internal/runtime/key_store.go) in the two modes   *)
(* that keep state, "auto" and "file".  One store serves every node of the *)
(* process; BuildMappings holds s.mu from beginning to end, so a call is   *)
(* one step, and what is hard is what a failed call leaves behind for the  *)
(* next one and for the next process.                                      *)
(*                                                                         *)
(* SplitPrivateKey is random: a generated key is a new value that carries  *)
(* the master key it was split from.  A node's users come from a Go map,   *)
(* so a call that fails part-way may have served any of them.              *)
(*                                                                         *)
(* A definition whose comment begins with "Mutant" is a faulty variant of  *)
(* the one that follows it, which some property must tell from the real    *)
(* one; it is no part of the specification.                                *)
(***************************************************************************)
EXTENDS Integers, FiniteSets

CONSTANTS
  Uid,            \* user ids (the file is keyed by id alone)
  NodeId,         \* the nodes of this process
  Master,         \* master private keys the panel may configure
  None,           \* nil map, empty key, empty master key, no file
  MaxClientKeyFileUsers,
  MaxCalls,       \* bound: calls that generate keys
  MaxFaults,      \* bound: failed reads and saves
  MaxEvents       \* bound: restarts and changes of a master key

ASSUME UidAssumption == IsFiniteSet(Uid)
ASSUME BoundAssumption ==
  /\ MaxClientKeyFileUsers \in Nat \ {0}
  /\ MaxCalls \in Nat /\ MaxFaults \in Nat /\ MaxEvents \in Nat

VARIABLES
  source,   \* ClientKeySource, fixed while the process runs
  mem,      \* s.file.Users: None, or uid -> key
  disk,     \* ClientKeyFile: uid -> key (a missing file is an empty one)
  given,    \* per node, the mapping its server was last built with
  master,   \* per node, encryption_settings.master_private_key
  calls,    \* ghost: number of calls that generated keys
  failed,   \* ghost: ways a call has failed so far
  faults,   \* ghost: failed reads and saves
  events    \* ghost: restarts and changes of a master key

vars == <<source, mem, disk, given, master, calls, failed, faults, events>>

Key == [master : Master, uid : Uid, serial : 1..MaxCalls]
NoKeys == [u \in Uid |-> None]
Keys == [Uid -> Key \cup {None}]
ASSUME NoneAssumption == None \notin Master /\ None \notin Key /\ None \notin Keys
Held(f) == {u \in Uid : f[u] # None}

\* Mutant: the key file is never read.
loadedEmpty == IF mem = None THEN NoKeys ELSE mem

\* What BuildMappings works on once loadFileLocked returned nil.
loaded == IF mem = None THEN disk ELSE mem

\* Mutant: a key that is there is not looked up.
missingAll(users) == users

\* The users of a call that have no key yet.
missing(users) == {u \in users : loaded[u] = None}

\* SplitPrivateKey of the node's master key, for each user of new.
withNew(n, new) ==
  [u \in Uid |-> IF u \in new
                 THEN [master |-> master[n], uid |-> u, serial |-> calls + 1]
                 ELSE loaded[u]]

mappings(f, users) == [u \in Uid |-> IF u \in users THEN f[u] ELSE None]

failedBy(kind) == failed' = failed \cup {kind}

-----------------------------------------------------------------------------
\* os.ReadFile or json.Unmarshal fails: s.file.Users is the empty map by then,
\* and the next call does not read again.
loadFails ==
  /\ mem = None
  /\ faults < MaxFaults
  /\ faults' = faults + 1
  /\ mem' = NoKeys
  /\ failedBy("read")
  /\ UNCHANGED <<source, disk, given, master, calls, events>>

\* Every user has a key, or the mode is "file", where a user without one is left
\* out: nothing to save.
known(n, users) ==
  /\ source = "auto" => missing(users) = {}
  /\ mem' = loaded
  /\ given' = [given EXCEPT ![n] = mappings(loaded, users)]
  /\ UNCHANGED <<source, disk, master, calls, failed, faults, events>>

\* Mutant: the limit is checked after the key was made.
generatedOneMore(n, users) ==
  /\ source = "auto"
  /\ missing(users) # {}
  /\ Cardinality(Held(loaded)) + Cardinality(missing(users)) <= MaxClientKeyFileUsers + 1
  /\ master[n] # None
  /\ calls < MaxCalls
  /\ calls' = calls + 1
  /\ mem' = withNew(n, missing(users))
  /\ disk' = mem'
  /\ given' = [given EXCEPT ![n] = mappings(mem', users)]
  /\ UNCHANGED <<source, master, failed, faults, events>>

\* Mutant: an empty master key is split.
generatedAnyway(n, users) ==
  /\ source = "auto"
  /\ missing(users) # {}
  /\ Cardinality(Held(loaded)) + Cardinality(missing(users)) <= MaxClientKeyFileUsers
  /\ calls < MaxCalls
  /\ calls' = calls + 1
  /\ mem' = withNew(n, missing(users))
  /\ disk' = mem'
  /\ given' = [given EXCEPT ![n] = mappings(mem', users)]
  /\ UNCHANGED <<source, master, failed, faults, events>>

\* Mutant: the changed flag is not set, so nothing is saved.
generatedUnsaved(n, users) ==
  /\ source = "auto"
  /\ missing(users) # {}
  /\ Cardinality(Held(loaded)) + Cardinality(missing(users)) <= MaxClientKeyFileUsers
  /\ master[n] # None
  /\ calls < MaxCalls
  /\ calls' = calls + 1
  /\ mem' = withNew(n, missing(users))
  /\ given' = [given EXCEPT ![n] = mappings(mem', users)]
  /\ UNCHANGED <<source, disk, master, failed, faults, events>>

\* Keys are made for the missing users and the whole map is saved.
generated(n, users) ==
  /\ source = "auto"
  /\ missing(users) # {}
  /\ Cardinality(Held(loaded)) + Cardinality(missing(users)) <= MaxClientKeyFileUsers
  /\ master[n] # None
  /\ calls < MaxCalls
  /\ calls' = calls + 1
  /\ mem' = withNew(n, missing(users))
  /\ disk' = mem'
  /\ given' = [given EXCEPT ![n] = mappings(mem', users)]
  /\ UNCHANGED <<source, master, failed, faults, events>>

\* The same, but MkdirAll, WriteFile or Rename fails: the keys stay in memory
\* and BuildMappings returns the error.
saveFails(n, users) ==
  /\ source = "auto"
  /\ missing(users) # {}
  /\ Cardinality(Held(loaded)) + Cardinality(missing(users)) <= MaxClientKeyFileUsers
  /\ master[n] # None
  /\ calls < MaxCalls
  /\ faults < MaxFaults
  /\ calls' = calls + 1
  /\ faults' = faults + 1
  /\ mem' = withNew(n, missing(users))
  /\ failedBy("save")
  /\ UNCHANGED <<source, disk, given, master, events>>

\* The limit is met part-way: keys were made for some users, in memory only.  When it
\* is met at the first of them, the master key is not looked at.
limitReached(n, users) ==
  /\ source = "auto"
  /\ calls < MaxCalls
  /\ calls' = calls + 1
  /\ \E new \in SUBSET missing(users) :
       /\ new # missing(users)
       /\ new # {} => master[n] # None
       /\ Cardinality(Held(loaded)) + Cardinality(new) >= MaxClientKeyFileUsers
       /\ \A u \in new :
            Cardinality(Held(loaded)) + Cardinality(new \ {u}) < MaxClientKeyFileUsers
       /\ mem' = withNew(n, new)
  /\ failedBy("limit")
  /\ UNCHANGED <<source, disk, given, master, faults, events>>

\* There is no master key to split, which the first missing user finds out if there
\* is room for its key.
noMaster(n, users) ==
  /\ source = "auto"
  /\ missing(users) # {}
  /\ Cardinality(Held(loaded)) < MaxClientKeyFileUsers
  /\ master[n] = None
  /\ mem' = loaded
  /\ failedBy("master")
  /\ UNCHANGED <<source, disk, given, master, calls, faults, events>>

BuildMappings(n, users) ==
  \/ known(n, users)
  \/ generated(n, users)
  \/ saveFails(n, users)
  \/ limitReached(n, users)
  \/ noMaster(n, users)

-----------------------------------------------------------------------------
\* The process dies and is started again, perhaps in the other mode: only the
\* file stays.
restart ==
  /\ events < MaxEvents
  /\ events' = events + 1
  /\ source' \in {"auto", "file"}
  /\ mem' = None
  /\ given' = [n \in NodeId |-> NoKeys]
  /\ UNCHANGED <<disk, master, calls, failed, faults>>

\* The panel gives a node another master key; the node reloads with it.
masterChanges(n) ==
  /\ events < MaxEvents
  /\ events' = events + 1
  /\ \E m \in (Master \cup {None}) \ {master[n]} : master' = [master EXCEPT ![n] = m]
  /\ given' = [given EXCEPT ![n] = NoKeys]
  /\ UNCHANGED <<source, mem, disk, calls, failed, faults>>

Init ==
  /\ source = "auto"
  /\ mem = None
  /\ disk = NoKeys
  /\ given = [n \in NodeId |-> NoKeys]
  /\ master \in [NodeId -> Master]
  /\ calls = 0
  /\ failed = {}
  /\ faults = 0
  /\ events = 0

Next ==
  \/ \E n \in NodeId, users \in SUBSET Uid : BuildMappings(n, users)
  \/ loadFails
  \/ restart
  \/ \E n \in NodeId : masterChanges(n)

Spec == Init /\ [][Next]_vars

-----------------------------------------------------------------------------
(* Properties.                                                             *)

\* Every variable stays in its type: memory, file and mappings hold keys that
\* were split from a master key, or none.
TypeOK ==
  /\ source \in {"auto", "file"}
  /\ mem \in Keys \cup {None}
  /\ disk \in Keys
  /\ given \in [NodeId -> Keys]
  /\ master \in [NodeId -> Master \cup {None}]
  /\ calls \in 0..MaxCalls
  /\ failed \subseteq {"read", "save", "limit", "master"}
  /\ faults \in 0..MaxFaults
  /\ events \in 0..MaxEvents

\* Two nodes of a process with the same master key hand out the same key for the same
\* user id, however their calls interleave, whichever of them failed half-way and
\* whatever other master keys were in use before: what BuildMappings once put into
\* s.file.Users is never replaced.
OneKeyPerUser ==
  \A n1, n2 \in NodeId, u \in Uid :
    master[n1] = master[n2] /\ given[n1][u] # None /\ given[n2][u] # None
      => given[n1][u] = given[n2][u]

\* What a server was given is what the store still holds.
GivenFromMemory ==
  \A n \in NodeId, u \in Uid :
    given[n][u] # None => mem # None /\ mem[u] = given[n][u]

\* Neither the map in memory nor the file outgrows MaxClientKeyFileUsers,
\* counting the keys that a failed call left in memory.
LimitKept ==
  /\ Cardinality(Held(disk)) <= MaxClientKeyFileUsers
  /\ mem # None => Cardinality(Held(mem)) <= MaxClientKeyFileUsers

\* As long as no call failed to read or save the file or met the limit, every
\* key that was handed out is in the file, so a restart gives it out again.
GivenKeysStored ==
  failed \subseteq {"master"} =>
    \A n \in NodeId, u \in Uid : given[n][u] # None => disk[u] = given[n][u]

\* A key in the file stays in it, unless the file could not be read: then the
\* next call starts from an empty map and overwrites the file.
StoredKeysStay ==
  [][\A u \in Uid : disk[u] # None /\ "read" \notin failed => disk'[u] = disk[u]]_vars

\* README.md:58: "`auto`: generates real Sudoku split private keys from
\* `master_private_key` and stores them in `ClientKeyFile`": a key that was handed
\* out is in the file.  It is not when an earlier call failed after making it.
KeysStored ==
  \A n \in NodeId, u \in Uid : given[n][u] # None => disk[u] = given[n][u]

\* The same line: in mode "auto" the keys a node hands out are split from its
\* master_private_key.  They are not when another node, or the same one before its
\* master key changed, made the key: the map is keyed by the user id alone.
KeysOfOwnMaster ==
  source = "auto" =>
    \A n \in NodeId, u \in Uid : given[n][u] # None => given[n][u].master = master[n]

=============================================================================
