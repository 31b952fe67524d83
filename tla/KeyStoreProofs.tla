--------------------------- MODULE KeyStoreProofs ---------------------------
(***************************************************************************)
(* Proofs about KeyStore, for any finite set of users, any nodes, master   *)
(* keys, limit and bounds.                                                 *)
(***************************************************************************)
EXTENDS KeyStore, FiniteSetTheorems, TLAPS

\* What loadFileLocked leaves is a map of keys, whatever was in memory.
LEMMA LoadedType == ASSUME TypeOK PROVE loaded \in Keys
  BY DEF TypeOK, loaded

\* Generating keys keeps the keys there are.
LEMMA NewKeys ==
  ASSUME TypeOK, NEW n \in NodeId, calls < MaxCalls,
         NEW users \in SUBSET Uid, NEW new \in SUBSET missing(users),
         new # {} => master[n] # None
  PROVE  /\ withNew(n, new) \in Keys
         /\ Held(withNew(n, new)) = Held(loaded) \cup new
         /\ \A u \in Uid : loaded[u] # None => withNew(n, new)[u] = loaded[u]
<1>1. loaded \in Keys
  BY LoadedType
<1>2. calls + 1 \in 1..MaxCalls
  BY BoundAssumption DEF TypeOK
<1>3. \A u \in new : [master |-> master[n], uid |-> u, serial |-> calls + 1] \in Key
  BY <1>2 DEF TypeOK, Key, missing
<1>4. withNew(n, new) \in Keys
  BY <1>1, <1>3 DEF withNew, Keys
<1>5. \A u \in Uid : loaded[u] # None => u \notin new
  BY DEF missing
<1>6. \A u \in Uid : loaded[u] # None => withNew(n, new)[u] = loaded[u]
  BY <1>5 DEF withNew
<1>7. new \subseteq Uid
  BY DEF missing
<1>8. \A u \in Uid : withNew(n, new)[u] # None <=> (loaded[u] # None \/ u \in new)
  BY <1>3, <1>6, NoneAssumption DEF withNew
<1>9. Held(withNew(n, new)) = Held(loaded) \cup new
  BY <1>7, <1>8 DEF Held
<1> QED BY <1>4, <1>6, <1>9

\* A mapping handed out is part of the map it was read from.
LEMMA MappingType ==
  ASSUME NEW f \in Keys, NEW users
  PROVE  mappings(f, users) \in Keys
  BY DEF mappings, Keys

LEMMA InitType == Init => TypeOK
  BY BoundAssumption DEF Init, TypeOK, Keys, NoKeys

LEMMA NextType == TypeOK /\ [Next]_vars => TypeOK'
<1> SUFFICES ASSUME TypeOK, [Next]_vars PROVE TypeOK'
  OBVIOUS
<1> USE BoundAssumption
<1>0. loaded \in Keys /\ NoKeys \in Keys
  BY LoadedType DEF NoKeys, Keys
<1>1. ASSUME NEW n \in NodeId, NEW users \in SUBSET Uid, known(n, users)
      PROVE  TypeOK'
  BY <1>0, <1>1, MappingType DEF TypeOK, known
<1>2. ASSUME NEW n \in NodeId, NEW users \in SUBSET Uid, generated(n, users)
      PROVE  TypeOK'
  <2>1. mem' \in Keys
    BY <1>2, NewKeys DEF generated
  <2>2. mappings(mem', users) \in Keys
    BY <2>1, MappingType
  <2> QED BY <1>2, <2>1, <2>2 DEF TypeOK, generated
<1>3. ASSUME NEW n \in NodeId, NEW users \in SUBSET Uid, saveFails(n, users)
      PROVE  TypeOK'
  <2>1. mem' \in Keys
    BY <1>3, NewKeys DEF saveFails
  <2> QED BY <1>3, <2>1 DEF TypeOK, saveFails, failedBy
<1>4. ASSUME NEW n \in NodeId, NEW users \in SUBSET Uid, limitReached(n, users)
      PROVE  TypeOK'
  <2>1. mem' \in Keys
    BY <1>4, NewKeys DEF limitReached
  <2> QED BY <1>4, <2>1 DEF TypeOK, limitReached, failedBy
<1>5. ASSUME NEW n \in NodeId, NEW users \in SUBSET Uid, noMaster(n, users)
      PROVE  TypeOK'
  BY <1>0, <1>5 DEF TypeOK, noMaster, failedBy
<1>6. CASE loadFails
  BY <1>0, <1>6 DEF TypeOK, loadFails, failedBy
<1>7. CASE restart
  BY <1>0, <1>7 DEF TypeOK, restart
<1>8. ASSUME NEW n \in NodeId, masterChanges(n)
      PROVE  TypeOK'
  BY <1>0, <1>8 DEF TypeOK, masterChanges
<1>9. CASE UNCHANGED vars
  BY <1>9 DEF TypeOK, vars
<1> QED
  BY <1>1, <1>2, <1>3, <1>4, <1>5, <1>6, <1>7, <1>8, <1>9 DEF Next, BuildMappings

\* Memory, file and mappings only ever hold keys split from a master key.
THEOREM TypeCorrect == Spec => []TypeOK
  BY InitType, NextType, PTL DEF Spec

-----------------------------------------------------------------------------
(* The keys.  A server holds what memory holds; memory holds what the file *)
(* holds unless a read failed; and the two are the same map unless a call  *)
(* failed after it had changed memory.                                     *)

MemoryHoldsFile ==
  "read" \notin failed /\ mem # None => \A u \in Uid : disk[u] # None => mem[u] = disk[u]

MemoryIsFile == failed \subseteq {"master"} /\ mem # None => mem = disk

KeyInv == TypeOK /\ GivenFromMemory /\ MemoryHoldsFile /\ MemoryIsFile

LEMMA InitKeys == Init => KeyInv
  BY InitType DEF Init, KeyInv, GivenFromMemory, MemoryHoldsFile, MemoryIsFile, NoKeys

\* A call that leaves memory with at least the keys it had loaded, the file
\* with those of memory or as it was, and the mappings alone or read off memory.
LEMMA CallKeys ==
  ASSUME KeyInv, NEW f \in Keys, mem' = f,
         \A u \in Uid : loaded[u] # None => f[u] = loaded[u],
         failed \subseteq failed',
         disk' = f \/ (disk' = disk /\ (failed' \subseteq {"master"} => f = loaded)),
         \/ given' = given
         \/ \E n \in NodeId, users \in SUBSET Uid :
              given' = [given EXCEPT ![n] = mappings(f, users)]
  PROVE  GivenFromMemory' /\ MemoryHoldsFile' /\ MemoryIsFile'
<1>1. f # None
  BY NoneAssumption
<1>2. \A n \in NodeId, u \in Uid : given[n][u] # None => f[u] = given[n][u]
  BY DEF KeyInv, GivenFromMemory, loaded
<1>3. GivenFromMemory'
  <2>1. CASE given' = given
    BY <1>1, <1>2, <2>1 DEF GivenFromMemory
  <2>2. ASSUME NEW n \in NodeId, NEW users \in SUBSET Uid,
               given' = [given EXCEPT ![n] = mappings(f, users)]
        PROVE  GivenFromMemory'
    <3>1. ASSUME NEW m \in NodeId, NEW u \in Uid, given'[m][u] # None
          PROVE  f[u] = given'[m][u]
      <4>1. CASE m = n
        BY <2>2, <3>1, <4>1 DEF KeyInv, TypeOK, mappings
      <4>2. CASE m # n
        BY <1>2, <2>2, <3>1, <4>2 DEF KeyInv, TypeOK
      <4> QED BY <4>1, <4>2
    <3> QED BY <1>1, <3>1 DEF GivenFromMemory
  <2> QED BY <2>1, <2>2
<1>4. "read" \notin failed => \A u \in Uid : disk[u] # None => f[u] = disk[u]
  BY DEF KeyInv, MemoryHoldsFile, loaded
<1>5. MemoryHoldsFile'
  BY <1>4 DEF MemoryHoldsFile
<1>6. failed \subseteq {"master"} => loaded = disk
  BY DEF KeyInv, MemoryIsFile, loaded
<1>7. MemoryIsFile'
  BY <1>6 DEF MemoryIsFile
<1> QED BY <1>3, <1>5, <1>7

LEMMA NextKeys == KeyInv /\ [Next]_vars => KeyInv'
<1> SUFFICES ASSUME KeyInv, [Next]_vars PROVE KeyInv'
  OBVIOUS
<1>1. TypeOK' /\ TypeOK
  BY NextType DEF KeyInv
<1> SUFFICES GivenFromMemory' /\ MemoryHoldsFile' /\ MemoryIsFile'
  BY <1>1 DEF KeyInv
<1>2. loaded \in Keys
  BY <1>1, LoadedType
<1>3. ASSUME NEW n \in NodeId, NEW users \in SUBSET Uid, BuildMappings(n, users)
      PROVE  GivenFromMemory' /\ MemoryHoldsFile' /\ MemoryIsFile'
  <2>1. CASE known(n, users)
    BY <1>2, <2>1, CallKeys DEF known
  <2>2. CASE generated(n, users)
    <3>1. mem' \in Keys /\ \A u \in Uid : loaded[u] # None => mem'[u] = loaded[u]
      BY <1>1, <2>2, NewKeys DEF generated
    <3> QED BY <2>2, <3>1, CallKeys DEF generated
  <2>3. CASE saveFails(n, users)
    <3>1. mem' \in Keys /\ \A u \in Uid : loaded[u] # None => mem'[u] = loaded[u]
      BY <1>1, <2>3, NewKeys DEF saveFails
    <3> QED BY <2>3, <3>1, CallKeys DEF saveFails, failedBy
  <2>4. CASE limitReached(n, users)
    <3>1. mem' \in Keys /\ \A u \in Uid : loaded[u] # None => mem'[u] = loaded[u]
      BY <1>1, <2>4, NewKeys DEF limitReached
    <3> QED BY <2>4, <3>1, CallKeys DEF limitReached, failedBy
  <2>5. CASE noMaster(n, users)
    BY <1>2, <2>5, CallKeys DEF noMaster, failedBy
  <2> QED BY <1>3, <2>1, <2>2, <2>3, <2>4, <2>5 DEF BuildMappings
<1>4. CASE loadFails
  BY <1>4, NoneAssumption
     DEF KeyInv, GivenFromMemory, MemoryHoldsFile, MemoryIsFile, loadFails, failedBy
<1>5. CASE restart
  BY <1>5 DEF restart, GivenFromMemory, MemoryHoldsFile, MemoryIsFile, NoKeys
<1>6. ASSUME NEW n \in NodeId, masterChanges(n)
      PROVE  GivenFromMemory' /\ MemoryHoldsFile' /\ MemoryIsFile'
  <2>1. \A m \in NodeId, u \in Uid : given'[m][u] # None => given'[m][u] = given[m][u]
    BY <1>1, <1>6 DEF TypeOK, masterChanges, NoKeys
  <2> QED BY <1>6, <2>1
     DEF KeyInv, GivenFromMemory, MemoryHoldsFile, MemoryIsFile, masterChanges
<1>7. CASE UNCHANGED vars
  BY <1>7 DEF KeyInv, GivenFromMemory, MemoryHoldsFile, MemoryIsFile, vars
<1> QED BY <1>1, <1>3, <1>4, <1>5, <1>6, <1>7 DEF Next

LEMMA KeysInvariant == Spec => []KeyInv
  BY InitKeys, NextKeys, PTL DEF Spec

\* Nodes of one process with the same master key never disagree about a user's key.
THEOREM SameKeyEverywhere == Spec => []OneKeyPerUser
<1>1. KeyInv => OneKeyPerUser
  BY DEF KeyInv, GivenFromMemory, OneKeyPerUser
<1> QED BY <1>1, KeysInvariant, PTL

\* Without a failed read or save and below the limit, the file has every key
\* that was handed out.
THEOREM HandedOutIsStored == Spec => []GivenKeysStored
<1>1. KeyInv => GivenKeysStored
  BY DEF KeyInv, GivenFromMemory, MemoryIsFile, GivenKeysStored
<1> QED BY <1>1, KeysInvariant, PTL

\* A key leaves the file, or is replaced in it, only after a failed read.
THEOREM StoredKeysRemain == Spec => StoredKeysStay
<1> DEFINE Stays == \A u \in Uid : disk[u] # None /\ "read" \notin failed => disk'[u] = disk[u]
<1>1. KeyInv /\ [Next]_vars => [Stays]_vars
  <2> SUFFICES ASSUME KeyInv, Next PROVE Stays
    OBVIOUS
  <2>1. ASSUME NEW n \in NodeId, NEW users \in SUBSET Uid, generated(n, users)
        PROVE  Stays
    <3>1. \A u \in Uid : loaded[u] # None => disk'[u] = loaded[u]
      BY <2>1, NewKeys DEF KeyInv, generated
    <3>2. "read" \notin failed => \A u \in Uid : disk[u] # None => loaded[u] = disk[u]
      BY DEF KeyInv, MemoryHoldsFile, loaded
    <3> QED BY <3>1, <3>2
  <2>2. (\A n \in NodeId, users \in SUBSET Uid : ~generated(n, users)) => disk' = disk
    BY DEF Next, BuildMappings, known, saveFails, limitReached, noMaster, loadFails,
           restart, masterChanges
  <2> QED BY <2>1, <2>2
<1> QED BY <1>1, KeysInvariant, PTL DEF Spec, StoredKeysStay

-----------------------------------------------------------------------------
(* The limit.                                                              *)

LEMMA HeldFinite == \A f : IsFiniteSet(Held(f)) /\ Cardinality(Held(f)) \in Nat
<1> SUFFICES ASSUME NEW f PROVE IsFiniteSet(Held(f)) /\ Cardinality(Held(f)) \in Nat
  OBVIOUS
<1>1. Held(f) \subseteq Uid
  BY DEF Held
<1>2. IsFiniteSet(Held(f))
  BY <1>1, UidAssumption, FS_Subset
<1> QED BY <1>2, FS_CardinalityType

\* Keys made for the users of new: at most so many more.
LEMMA HeldNew ==
  ASSUME TypeOK, NEW n \in NodeId, calls < MaxCalls,
         NEW users \in SUBSET Uid, NEW new \in SUBSET missing(users),
         new # {} => master[n] # None
  PROVE  /\ IsFiniteSet(new) /\ Cardinality(new) \in Nat
         /\ Cardinality(Held(withNew(n, new))) <= Cardinality(Held(loaded)) + Cardinality(new)
<1>1. new \subseteq Uid
  BY DEF missing
<1>2. IsFiniteSet(new) /\ Cardinality(new) \in Nat
  BY <1>1, UidAssumption, FS_Subset, FS_CardinalityType
<1>3. Held(withNew(n, new)) = Held(loaded) \cup new
  BY NewKeys
<1>4. IsFiniteSet(Held(loaded)) /\ Cardinality(Held(loaded)) \in Nat
  BY HeldFinite
<1>5. Cardinality(Held(loaded) \cup new) =
        Cardinality(Held(loaded)) + Cardinality(new) - Cardinality(Held(loaded) \cap new)
  BY <1>2, <1>4, FS_Union
<1>6. Cardinality(Held(loaded) \cap new) \in Nat
  <2>1. IsFiniteSet(Held(loaded) \cap new)
    BY <1>2, FS_Subset
  <2> QED BY <2>1, FS_CardinalityType
<1> QED BY <1>2, <1>3, <1>4, <1>5, <1>6

LEMMA InitLimit == Init => LimitKept
<1> SUFFICES ASSUME Init PROVE LimitKept
  OBVIOUS
<1>1. Held(disk) = {}
  BY DEF Init, Held, NoKeys
<1>2. Cardinality(Held(disk)) = 0
  BY <1>1, FS_EmptySet
<1> QED BY <1>2, BoundAssumption DEF Init, LimitKept

LEMMA NextLimit == TypeOK /\ LimitKept /\ [Next]_vars => LimitKept'
<1> SUFFICES ASSUME TypeOK, LimitKept, [Next]_vars PROVE LimitKept'
  OBVIOUS
<1>1. Cardinality(Held(loaded)) <= MaxClientKeyFileUsers /\ Cardinality(Held(loaded)) \in Nat
  BY HeldFinite DEF LimitKept, loaded
<1>2. ASSUME NEW n \in NodeId, NEW users \in SUBSET Uid,
             generated(n, users) \/ saveFails(n, users)
      PROVE  LimitKept'
  <2>1. Cardinality(Held(mem')) <= MaxClientKeyFileUsers
    <3>1. mem' = withNew(n, missing(users)) /\ master[n] # None /\ calls < MaxCalls
          /\ Cardinality(Held(loaded)) + Cardinality(missing(users)) <= MaxClientKeyFileUsers
      BY <1>2 DEF generated, saveFails
    <3>2. /\ Cardinality(missing(users)) \in Nat
          /\ Cardinality(Held(mem')) <= Cardinality(Held(loaded)) + Cardinality(missing(users))
      BY <3>1, HeldNew
    <3>3. Cardinality(Held(mem')) \in Nat
      BY HeldFinite
    <3> QED BY <1>1, <3>1, <3>2, <3>3, BoundAssumption
  <2> QED BY <1>2, <2>1 DEF generated, saveFails, LimitKept
<1>3. ASSUME NEW n \in NodeId, NEW users \in SUBSET Uid, limitReached(n, users)
      PROVE  LimitKept'
  <2>1. PICK new \in SUBSET missing(users) :
          /\ new # {} => master[n] # None
          /\ \A u \in new :
               Cardinality(Held(loaded)) + Cardinality(new \ {u}) < MaxClientKeyFileUsers
          /\ mem' = withNew(n, new)
    BY <1>3 DEF limitReached
  <2>2. /\ IsFiniteSet(new) /\ Cardinality(new) \in Nat
        /\ Cardinality(Held(mem')) <= Cardinality(Held(loaded)) + Cardinality(new)
    BY <1>3, <2>1, HeldNew DEF limitReached
  <2>3. Cardinality(Held(loaded)) + Cardinality(new) <= MaxClientKeyFileUsers
    <3>1. CASE new = {}
      BY <1>1, <3>1, FS_EmptySet
    <3>2. CASE new # {}
      <4>1. PICK u \in new : TRUE
        BY <3>2
      <4>2. Cardinality(new \ {u}) = Cardinality(new) - 1
        BY <2>2, FS_RemoveElement
      <4> QED BY <1>1, <2>1, <2>2, <4>2, BoundAssumption
    <3> QED BY <3>1, <3>2
  <2>4. Cardinality(Held(mem')) \in Nat
    BY HeldFinite
  <2>5. Cardinality(Held(mem')) <= MaxClientKeyFileUsers
    BY <1>1, <2>2, <2>3, <2>4, BoundAssumption
  <2> QED BY <1>3, <2>5 DEF limitReached, LimitKept
<1>4. ASSUME mem' = loaded \/ mem' = mem \/ mem' = None, disk' = disk
      PROVE  LimitKept'
  BY <1>1, <1>4 DEF LimitKept
<1>5. CASE loadFails
  <2>1. Held(mem') = {}
    BY <1>5 DEF loadFails, Held, NoKeys
  <2>2. Cardinality(Held(mem')) = 0
    BY <2>1, FS_EmptySet
  <2> QED BY <1>5, <2>2, BoundAssumption DEF loadFails, LimitKept
<1> QED
  BY <1>2, <1>3, <1>4, <1>5
     DEF Next, BuildMappings, known, noMaster, restart, masterChanges, vars

\* The key file never outgrows its limit, in memory or on disk.
THEOREM LimitHolds == Spec => []LimitKept
  BY InitType, NextType, InitLimit, NextLimit, PTL DEF Spec

=============================================================================
