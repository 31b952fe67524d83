-------------------------- MODULE PanelCacheProofs --------------------------
(***************************************************************************)
(* Proofs about PanelCache: the types, whose snapshot a node may start     *)
(* from, and what the file holds while saves do not overlap.               *)
(***************************************************************************)
EXTENDS PanelCache, TLAPS

SaverType == [pc : {"idle"} \cup Busy, fd : Inode \cup {NoInode}, snap : Snapshot \cup {None}]

LEMMA IdleType == IdleSaver \in SaverType
  BY DEF IdleSaver, SaverType

LEMMA FreshType == fresh \subseteq unused /\ unused \subseteq Inode
  BY DEF fresh, unused

\* What a step of savePanelSnapshot that opens inode i does.
OpensAt(s, v, i) ==
  /\ tmp # NoInode => i = tmp
  /\ tmp = NoInode => i \in unused
  /\ data' = [data EXCEPT ![i] = Empty]
  /\ tmp' = i
  /\ saver' = [saver EXCEPT ![s] = [pc |-> "opened", fd |-> i, snap |-> <<s[1], v>>]]
  /\ began' = [began EXCEPT ![s[1]] = @ \cup {<<s[1], v>>}]

LEMMA Opened ==
  ASSUME TypeOK, NEW s \in Saver, NEW v \in Version, openTmp(s, v)
  PROVE  /\ s[1] \in Host
         /\ <<s[1], v>> \in Snapshot
         /\ \E i \in Inode : OpensAt(s, v, i)
<1>1. s[1] \in Host
  BY CacheAssumption DEF Saver
<1>2. <<s[1], v>> \in Snapshot
  BY <1>1 DEF Snapshot
<1>3. PICK i \in IF tmp = NoInode THEN fresh ELSE {tmp} :
        /\ data' = [data EXCEPT ![i] = Empty]
        /\ tmp' = i
        /\ saver' = [saver EXCEPT ![s] = [pc |-> "opened", fd |-> i, snap |-> <<s[1], v>>]]
        /\ began' = [began EXCEPT ![s[1]] = @ \cup {<<s[1], v>>}]
  BY DEF openTmp
<1>4. (tmp # NoInode => i = tmp) /\ (tmp = NoInode => i \in unused)
  BY FreshType
<1>5. i \in Inode
  BY <1>4, FreshType DEF TypeOK
<1>6. OpensAt(s, v, i)
  BY <1>3, <1>4 DEF OpensAt
<1>7. QED
  BY <1>1, <1>2, <1>5, <1>6

-----------------------------------------------------------------------------
(* Types.                                                                  *)

LEMMA OverType ==
  ASSUME NEW c \in Contents, NEW snap \in Snapshot
  PROVE  over(c, snap) \in Contents
  BY DEF over, Contents

LEMMA FaultType ==
  ASSUME faults \in Nat, NEW harm, fault(harm)
  PROVE  faults' \in Nat
  BY DEF fault

\* A save that is on its way has a file open and a snapshot of its node to write.
Holding ==
  \A s \in Saver : saver[s].pc \in Busy =>
    /\ saver[s].fd \in Inode
    /\ saver[s].snap \in Snapshot
    /\ saver[s].snap \in began[s[1]]

Types == TypeOK /\ Holding

LEMMA InitTypes == Init => Types
<1> SUFFICES ASSUME Init PROVE Types
  OBVIOUS
<1>1. saver \in [Saver -> SaverType]
  BY IdleType DEF Init
<1>2. \A s \in Saver : saver[s].pc = "idle"
  BY DEF Init, IdleSaver
<1>3. Holding
  BY <1>2 DEF Holding, Busy
<1>4. data \in [Inode -> Contents]
  BY DEF Init, Contents
<1>5. TypeOK
  BY <1>1, <1>4 DEF Init, TypeOK, SaverType
<1>6. QED
  BY <1>3, <1>5 DEF Types

LEMMA TypesKept == Types /\ [Next]_vars => Types'
<1> SUFFICES ASSUME TypeOK, Holding, [Next]_vars PROVE Types'
  BY DEF Types
<1>1. ASSUME NEW s \in Saver, NEW v \in Version, openTmp(s, v) PROVE Types'
  <2> PICK i \in Inode : OpensAt(s, v, i)
    BY <1>1, Opened
  <2>1. /\ data' = [data EXCEPT ![i] = Empty]
        /\ tmp' = i
        /\ saver' = [saver EXCEPT ![s] = [pc |-> "opened", fd |-> i, snap |-> <<s[1], v>>]]
        /\ began' = [began EXCEPT ![s[1]] = @ \cup {<<s[1], v>>}]
    BY DEF OpensAt
  <2>2. s[1] \in Host /\ <<s[1], v>> \in Snapshot
    BY <1>1, Opened
  <2>3. data' \in [Inode -> Contents]
    BY <2>1 DEF TypeOK, Contents
  <2>4. [pc |-> "opened", fd |-> i, snap |-> <<s[1], v>>] \in SaverType
    BY <2>2 DEF SaverType, Busy
  <2>5. saver' \in [Saver -> SaverType]
    BY <2>1, <2>4 DEF TypeOK, SaverType
  <2>6. began' \in [Host -> SUBSET Snapshot]
    BY <2>1, <2>2 DEF TypeOK
  <2>7. faults' \in Nat
    BY <1>1, FaultType DEF openTmp, TypeOK
  <2>8. calm' \in BOOLEAN
    BY <1>1 DEF openTmp
  <2>9. TypeOK'
    BY <1>1, <2>1, <2>3, <2>5, <2>6, <2>7, <2>8 DEF TypeOK, SaverType, openTmp
  <2>10. ASSUME NEW o \in Saver, saver'[o].pc \in Busy
         PROVE  /\ saver'[o].fd \in Inode
                /\ saver'[o].snap \in Snapshot
                /\ saver'[o].snap \in began'[o[1]]
    <3>1. CASE o = s
      <4>1. saver'[o] = [pc |-> "opened", fd |-> i, snap |-> <<s[1], v>>]
        BY <2>1, <3>1 DEF TypeOK
      <4>2. <<s[1], v>> \in began'[s[1]]
        BY <2>1, <2>2 DEF TypeOK
      <4>3. QED
        BY <2>2, <3>1, <4>1, <4>2
    <3>2. CASE o # s
      <4>1. saver'[o] = saver[o]
        BY <2>1, <3>2 DEF TypeOK
      <4>2. began[o[1]] \subseteq began'[o[1]]
        <5>1. o[1] \in Host
          BY CacheAssumption DEF Saver
        <5>2. QED
          BY <2>1, <5>1 DEF TypeOK
      <4>3. QED
        BY <2>10, <4>1, <4>2 DEF Holding
    <3>3. QED
      BY <3>1, <3>2
  <2>11. QED
    BY <2>9, <2>10 DEF Types, Holding
<1>2. ASSUME NEW s \in Saver, write(s) PROVE Types'
  <2>1. saver[s].fd \in Inode /\ saver[s].snap \in Snapshot
    BY <1>2 DEF write, Holding, Busy
  <2>2. data' \in [Inode -> Contents]
    <3>1. over(data[saver[s].fd], saver[s].snap) \in Contents
      BY <2>1, OverType DEF TypeOK
    <3>2. QED
      BY <1>2, <2>1, <3>1 DEF write, TypeOK
  <2>3. saver' \in [Saver -> SaverType]
    BY <1>2 DEF write, TypeOK, SaverType, Busy
  <2>4. TypeOK'
    BY <1>2, <2>2, <2>3 DEF write, TypeOK, SaverType
  <2>5. \A o \in Saver : /\ saver'[o].fd = saver[o].fd /\ saver'[o].snap = saver[o].snap
                         /\ saver'[o].pc \in Busy => saver[o].pc \in Busy
    BY <1>2 DEF write, TypeOK, Busy
  <2>6. QED
    BY <1>2, <2>4, <2>5 DEF Types, Holding, write
<1>3. ASSUME NEW s \in Saver, saver' = [saver EXCEPT ![s] = IdleSaver], UNCHANGED began
      PROVE  Holding' /\ saver' \in [Saver -> SaverType]
  <2>1. \A o \in Saver : saver'[o].pc \in Busy => saver'[o] = saver[o]
    BY <1>3 DEF TypeOK, IdleSaver, Busy
  <2>2. saver' \in [Saver -> SaverType]
    BY <1>3, IdleType DEF TypeOK, SaverType
  <2>3. QED
    BY <1>3, <2>1, <2>2 DEF Holding
<1>4. ASSUME NEW s \in Saver, writeFails(s) PROVE Types'
  <2>1. saver[s].fd \in Inode
    BY <1>4 DEF writeFails, Holding, Busy
  <2>2. data' \in [Inode -> Contents]
    BY <1>4, <2>1 DEF writeFails, TypeOK, Contents
  <2>3. Holding' /\ saver' \in [Saver -> SaverType]
    BY <1>3, <1>4 DEF writeFails
  <2>4. faults' \in Nat
    BY <1>4, FaultType DEF writeFails, TypeOK
  <2>5. QED
    BY <1>4, <2>2, <2>3, <2>4 DEF writeFails, TypeOK, Types, SaverType
<1>5. ASSUME NEW s \in Saver, rename(s) PROVE Types'
  <2>1. saver[s].snap \in Snapshot
    BY <1>5 DEF rename, Holding, Busy
  <2>2. Holding' /\ saver' \in [Saver -> SaverType]
    BY <1>3, <1>5 DEF rename
  <2>3. QED
    BY <1>5, <2>1, <2>2 DEF rename, TypeOK, Types, SaverType
<1>6. ASSUME NEW h \in Host, readPanelSnapshot(h) PROVE Types'
  <2>1. started' \in [Host -> Snapshot \cup {None}]
    BY <1>6 DEF readPanelSnapshot, TypeOK, Whole
  <2>2. QED
    BY <1>6, <2>1 DEF readPanelSnapshot, files, TypeOK, Types, Holding
<1>7. ASSUME saver' = [s \in Saver |-> IdleSaver], started' = [h \in Host |-> None]
      PROVE  /\ Holding' /\ saver' \in [Saver -> SaverType]
             /\ started' \in [Host -> Snapshot \cup {None}]
  <2>1. \A s \in Saver : saver'[s].pc \notin Busy
    BY <1>7 DEF IdleSaver, Busy
  <2>2. saver' \in [Saver -> SaverType]
    BY <1>7, IdleType
  <2>3. QED
    BY <1>7, <2>1, <2>2 DEF Holding
<1>8. CASE crash
  <2>1. faults' \in Nat
    BY <1>8, FaultType DEF crash, TypeOK
  <2>2. QED
    BY <1>7, <1>8, <2>1 DEF crash, files, TypeOK, Types, SaverType
<1>9. CASE powerFails
  <2>1. faults' \in Nat
    BY <1>9, FaultType DEF powerFails, TypeOK
  <2>2. data' \in [Inode -> Contents]
    BY <1>9 DEF powerFails, TypeOK, Contents
  <2>3. QED
    BY <1>7, <1>9, <2>1, <2>2 DEF powerFails, TypeOK, Types, SaverType
<1>10. CASE UNCHANGED vars
  BY <1>10 DEF vars, TypeOK, Types, Holding
<1>11. QED
  BY <1>1, <1>2, <1>4, <1>5, <1>6, <1>8, <1>9, <1>10 DEF Next, saves

LEMMA Typed == Spec => []Types
  BY InitTypes, TypesKept, PTL DEF Spec

\* Files hold snapshots, nothing or rubbish, and a save in progress has a file open,
\* for any number of panels, versions and savers.
THEOREM TypeCorrect == Spec => []TypeOK
<1>1. Types => TypeOK
  BY DEF Types
<1>2. QED
  BY <1>1, Typed, PTL

-----------------------------------------------------------------------------
(* Whose snapshot.  Every whole snapshot on the disk was begun by the node *)
(* it names.                                                               *)

Known(c) == c \in Snapshot => c \in began[c[1]]

Owned ==
  /\ \A i \in Inode : Known(data[i])
  /\ \A s \in Saver : saver[s].pc \in Busy => saver[s].snap[1] = s[1]
  /\ CachedIsOwn

LEMMA SpecialContents == Empty \notin Snapshot /\ Torn \notin Snapshot /\ None \notin Snapshot
  BY DEF Empty, Torn, None, Snapshot

LEMMA InitOwned == Init => Owned
<1> SUFFICES ASSUME Init PROVE Owned
  OBVIOUS
<1>1. \A i \in Inode : data[i] \notin Snapshot
  BY SpecialContents DEF Init
<1>2. \A s \in Saver : saver[s].pc \notin Busy
  BY DEF Init, IdleSaver, Busy
<1>3. \A h \in Host : started[h] = None
  BY DEF Init
<1>4. QED
  BY <1>1, <1>2, <1>3 DEF Owned, Known, CachedIsOwn

LEMMA OwnedKept == Types /\ Owned /\ [Next]_vars => Owned'
<1> SUFFICES ASSUME TypeOK, Holding, Owned, [Next]_vars PROVE Owned'
  BY DEF Types
<1>1. ASSUME NEW s \in Saver, NEW v \in Version, openTmp(s, v) PROVE Owned'
  <2> PICK i \in Inode : OpensAt(s, v, i)
    BY <1>1, Opened
  <2>1. /\ data' = [data EXCEPT ![i] = Empty]
        /\ saver' = [saver EXCEPT ![s] = [pc |-> "opened", fd |-> i, snap |-> <<s[1], v>>]]
        /\ began' = [began EXCEPT ![s[1]] = @ \cup {<<s[1], v>>}]
    BY DEF OpensAt
  <2>2. \A h \in Host : began[h] \subseteq began'[h]
    BY <2>1 DEF TypeOK
  <2>3. ASSUME NEW j \in Inode PROVE Known(data[j])'
    <3>1. data'[j] \in {data[j], Empty}
      BY <2>1 DEF TypeOK
    <3>2. \A c \in Snapshot : c[1] \in Host
      BY DEF Snapshot
    <3>3. QED
      BY <2>2, <3>1, <3>2, SpecialContents DEF Known, Owned
  <2>4. ASSUME NEW o \in Saver, saver'[o].pc \in Busy PROVE saver'[o].snap[1] = o[1]
    <3>1. CASE o = s
      BY <2>1, <3>1 DEF TypeOK
    <3>2. CASE o # s
      <4>1. saver'[o] = saver[o]
        BY <2>1, <3>2 DEF TypeOK
      <4>2. QED
        BY <2>4, <4>1 DEF Owned
    <3>3. QED
      BY <3>1, <3>2
  <2>5. CachedIsOwn'
    BY <1>1, <2>2 DEF openTmp, Owned, CachedIsOwn
  <2>6. QED
    BY <2>3, <2>4, <2>5 DEF Owned
<1>2. ASSUME NEW s \in Saver, write(s) PROVE Owned'
  <2>1. /\ saver[s].fd \in Inode /\ saver[s].snap \in Snapshot
        /\ saver[s].snap \in began[s[1]] /\ saver[s].snap[1] = s[1]
    BY <1>2 DEF write, Holding, Owned, Busy
  <2>2. ASSUME NEW j \in Inode PROVE Known(data[j])'
    <3>1. data'[j] \in {data[j], Torn, saver[s].snap}
      BY <1>2 DEF write, over, TypeOK
    <3>2. began' = began
      BY <1>2 DEF write
    <3>3. QED
      BY <2>1, <3>1, <3>2, SpecialContents DEF Known, Owned
  <2>3. \A o \in Saver : /\ saver'[o].snap = saver[o].snap
                         /\ saver'[o].pc \in Busy => saver[o].pc \in Busy
    BY <1>2 DEF write, TypeOK, Busy
  <2>4. QED
    BY <1>2, <2>2, <2>3 DEF Owned, CachedIsOwn, write
<1>3. ASSUME NEW s \in Saver, writeFails(s) PROVE Owned'
  <2>1. ASSUME NEW j \in Inode PROVE Known(data[j])'
    <3>1. data'[j] \in {data[j], Torn} /\ began' = began
      BY <1>3 DEF writeFails, TypeOK
    <3>2. QED
      BY <3>1, SpecialContents DEF Known, Owned
  <2>2. \A o \in Saver : saver'[o].pc \in Busy => saver'[o] = saver[o]
    BY <1>3 DEF writeFails, TypeOK, IdleSaver, Busy
  <2>3. QED
    BY <1>3, <2>1, <2>2 DEF Owned, CachedIsOwn, writeFails
<1>4. ASSUME NEW s \in Saver, rename(s) PROVE Owned'
  <2>1. \A o \in Saver : saver'[o].pc \in Busy => saver'[o] = saver[o]
    BY <1>4 DEF rename, TypeOK, IdleSaver, Busy
  <2>2. UNCHANGED <<data, began, started>>
    BY <1>4 DEF rename
  <2>3. QED
    BY <2>1, <2>2 DEF Owned, Known, CachedIsOwn
<1>5. ASSUME NEW h \in Host, readPanelSnapshot(h) PROVE Owned'
  <2>1. file \in Inode /\ data[file] \in Snapshot /\ data[file][1] = h
    BY <1>5 DEF readPanelSnapshot, TypeOK, Whole
  <2>2. data[file] \in began[h]
    BY <2>1 DEF Owned, Known
  <2>3. \A g \in Host : started'[g] \in {started[g], data[file]} /\ (g # h => started'[g] = started[g])
    BY <1>5 DEF readPanelSnapshot, TypeOK
  <2>4. UNCHANGED <<data, began, saver>>
    BY <1>5 DEF readPanelSnapshot, files
  <2>5. CachedIsOwn'
    BY <2>2, <2>3, <2>4 DEF Owned, CachedIsOwn
  <2>6. QED
    BY <2>4, <2>5 DEF Owned, Known
<1>6. ASSUME saver' = [s \in Saver |-> IdleSaver], started' = [h \in Host |-> None]
      PROVE  /\ \A s \in Saver : saver'[s].pc \notin Busy
             /\ CachedIsOwn'
  BY <1>6 DEF IdleSaver, Busy, CachedIsOwn
<1>7. CASE crash
  BY <1>6, <1>7 DEF crash, files, Owned, Known
<1>8. CASE powerFails
  <2>1. \A j \in Inode : data'[j] \in {data[j], Empty}
    BY <1>8 DEF powerFails
  <2>2. began' = began
    BY <1>8 DEF powerFails
  <2>3. \A j \in Inode : Known(data[j])'
    BY <2>1, <2>2, SpecialContents DEF Known, Owned
  <2>4. QED
    BY <1>6, <1>8, <2>3 DEF powerFails, Owned
<1>9. CASE UNCHANGED vars
  BY <1>9 DEF vars, Owned, Known, CachedIsOwn
<1>10. QED
  BY <1>1, <1>2, <1>3, <1>4, <1>5, <1>7, <1>8, <1>9 DEF Next, saves

\* Whatever overlapping saves, crashes and power failures do to the file, a node
\* starts from a whole snapshot of its own or not at all.
THEOREM OnlyOwnSnapshots == Spec => []CachedIsOwn
<1>1. Init => Types /\ Owned
  BY InitTypes, InitOwned
<1>2. Types /\ Owned /\ [Next]_vars => Types' /\ Owned'
  BY TypesKept, OwnedKept
<1>3. Owned => CachedIsOwn
  BY DEF Owned
<1>4. QED
  BY <1>1, <1>2, <1>3, PTL DEF Spec

-----------------------------------------------------------------------------
(* One save at a time.  A save in progress works on the ".tmp", which is   *)
(* not the file, and has put its whole snapshot there before the rename.   *)

Alone(s) ==
  saver[s].pc \in Busy =>
    /\ saver[s].fd = tmp
    /\ saver[s].pc = "opened" => data[tmp] = Empty
    /\ saver[s].pc = "written" => data[tmp] = saver[s].snap
    /\ \A o \in Saver : o # s => saver[o].pc \notin Busy

Orderly ==
  /\ calm => \A s \in Saver : Alone(s)
  /\ tmp # NoInode => tmp # file
  /\ ReplacedAtOnce

LEMMA InitOrderly == Init => Orderly
<1> SUFFICES ASSUME Init PROVE Orderly
  OBVIOUS
<1>1. \A s \in Saver : saver[s].pc \notin Busy
  BY DEF Init, IdleSaver, Busy
<1>2. QED
  BY <1>1 DEF Init, Orderly, Alone, ReplacedAtOnce

LEMMA OrderlyKept == Types /\ Orderly /\ [Next]_vars => Orderly'
<1> SUFFICES ASSUME TypeOK, Holding, Orderly, [Next]_vars PROVE Orderly'
  BY DEF Types
<1>1. ASSUME NEW s \in Saver, NEW v \in Version, openTmp(s, v) PROVE Orderly'
  <2> PICK i \in Inode : OpensAt(s, v, i)
    BY <1>1, Opened
  <2>1. /\ tmp # NoInode => i = tmp
        /\ tmp = NoInode => i \in unused
        /\ data' = [data EXCEPT ![i] = Empty]
        /\ tmp' = i
        /\ saver' = [saver EXCEPT ![s] = [pc |-> "opened", fd |-> i, snap |-> <<s[1], v>>]]
    BY DEF OpensAt
  <2>2. i # file /\ UNCHANGED <<file, last>>
    BY <1>1, <2>1 DEF Orderly, unused, openTmp
  <2>3. file # NoInode => data'[file] = data[file]
    BY <2>1, <2>2 DEF TypeOK
  <2>4. calm' => calm /\ \A o \in Saver : o # s => saver[o].pc \notin Busy
    BY <1>1 DEF openTmp, Overlaps
  <2>5. ASSUME calm', NEW o \in Saver PROVE Alone(o)'
    <3>1. CASE o = s
      <4>1. saver'[s] = [pc |-> "opened", fd |-> i, snap |-> <<s[1], v>>]
        BY <2>1 DEF TypeOK
      <4>2. \A q \in Saver : q # s => saver'[q] = saver[q]
        BY <2>1 DEF TypeOK
      <4>3. data'[i] = Empty
        BY <2>1 DEF TypeOK
      <4>4. QED
        BY <2>1, <2>4, <2>5, <3>1, <4>1, <4>2, <4>3 DEF Alone
    <3>2. CASE o # s
      <4>1. saver'[o] = saver[o]
        BY <2>1, <3>2 DEF TypeOK
      <4>2. QED
        BY <2>4, <2>5, <3>2, <4>1 DEF Alone
    <3>3. QED
      BY <3>1, <3>2
  <2>6. ReplacedAtOnce'
    BY <2>2, <2>3, <2>4 DEF Orderly, ReplacedAtOnce
  <2>7. QED
    BY <2>1, <2>2, <2>5, <2>6 DEF Orderly
<1>2. ASSUME NEW s \in Saver, write(s) PROVE Orderly'
  <2>1. saver[s].fd \in Inode /\ UNCHANGED <<tmp, file, last, calm>>
    BY <1>2 DEF write, Holding, Busy
  <2>2. \A o \in Saver : o # s => saver'[o] = saver[o]
    BY <1>2 DEF write, TypeOK
  <2>3. saver'[s].fd = saver[s].fd /\ saver'[s].snap = saver[s].snap /\ saver'[s].pc = "written"
    BY <1>2 DEF write, TypeOK
  <2>4. saver[s].pc \in Busy /\ saver[s].pc = "opened"
    BY <1>2 DEF write, Busy
  <2>5. CASE calm
    <3>1. saver[s].fd = tmp /\ data[tmp] = Empty /\ \A o \in Saver : o # s => saver[o].pc \notin Busy
      BY <2>4, <2>5 DEF Orderly, Alone
    <3>2. over(Empty, saver[s].snap) = saver[s].snap
      BY SpecialContents DEF over, Longer, Whole, Empty, Torn
    <3>3. data'[tmp] = saver[s].snap
      BY <1>2, <2>1, <3>1, <3>2 DEF write, TypeOK
    <3>4. file # NoInode => data'[file] = data[file]
      BY <1>2, <2>1, <3>1 DEF write, TypeOK, Orderly
    <3>5. Alone(s)'
      BY <2>1, <2>2, <2>3, <3>1, <3>3 DEF Alone
    <3>6. ASSUME NEW o \in Saver, o # s PROVE Alone(o)'
      BY <2>2, <3>1, <3>6 DEF Alone
    <3>7. ReplacedAtOnce'
      BY <2>1, <3>4 DEF Orderly, ReplacedAtOnce
    <3>8. QED
      BY <2>1, <3>5, <3>6, <3>7 DEF Orderly
  <2>6. CASE ~calm
    BY <2>1, <2>6 DEF Orderly, ReplacedAtOnce
  <2>7. QED
    BY <2>5, <2>6
<1>3. ASSUME NEW s \in Saver, writeFails(s) PROVE Orderly'
  <2>1. UNCHANGED <<tmp, file, last, calm>>
    BY <1>3 DEF writeFails
  <2>2. CASE calm
    <3>1. saver[s].fd = tmp /\ \A o \in Saver : o # s => saver[o].pc \notin Busy
      BY <1>3, <2>2 DEF Orderly, Alone, writeFails, Busy
    <3>2. \A o \in Saver : saver'[o].pc \notin Busy
      BY <1>3, <3>1 DEF writeFails, TypeOK, IdleSaver, Busy
    <3>3. tmp \in Inode
      BY <1>3, <3>1 DEF Holding, writeFails, Busy
    <3>4. file # NoInode => data'[file] = data[file]
      BY <1>3, <3>1, <3>3, CacheAssumption DEF writeFails, TypeOK, Orderly
    <3>5. QED
      BY <2>1, <3>2, <3>4 DEF Orderly, Alone, ReplacedAtOnce
  <2>3. CASE ~calm
    BY <2>1, <2>3 DEF Orderly, ReplacedAtOnce
  <2>4. QED
    BY <2>2, <2>3
<1>4. ASSUME NEW s \in Saver, rename(s) PROVE Orderly'
  <2>1. UNCHANGED <<data, calm>>
    BY <1>4 DEF rename
  <2>2. CASE calm
    <3>1. /\ saver[s].fd = tmp /\ data[tmp] = saver[s].snap
          /\ \A o \in Saver : o # s => saver[o].pc \notin Busy
      BY <1>4, <2>2 DEF Orderly, Alone, rename, Busy
    <3>2. tmp \in Inode /\ tmp # NoInode /\ saver[s].snap \in Snapshot
      BY <1>4, <3>1, CacheAssumption DEF Holding, rename, Busy
    <3>3. \A o \in Saver : saver'[o].pc \notin Busy
      BY <1>4, <3>1 DEF rename, TypeOK, IdleSaver, Busy
    <3>4. file' = tmp /\ tmp' = NoInode /\ last' = saver[s].snap
      BY <1>4, <3>2 DEF rename
    <3>5. last' # None
      BY <3>2, <3>4, SpecialContents
    <3>6. QED
      BY <2>1, <3>1, <3>2, <3>3, <3>4, <3>5 DEF Orderly, Alone, ReplacedAtOnce
  <2>3. CASE ~calm
    BY <1>4, <2>1, <2>3 DEF Orderly, ReplacedAtOnce, rename
  <2>4. QED
    BY <2>2, <2>3
<1>5. ASSUME NEW h \in Host, readPanelSnapshot(h) PROVE Orderly'
  BY <1>5 DEF readPanelSnapshot, files, Orderly, Alone, ReplacedAtOnce
<1>6. CASE crash
  <2>1. \A o \in Saver : saver'[o].pc \notin Busy
    BY <1>6 DEF crash, IdleSaver, Busy
  <2>2. QED
    BY <1>6, <2>1 DEF crash, files, Orderly, Alone, ReplacedAtOnce
<1>7. CASE powerFails
  BY <1>7 DEF powerFails, Orderly, ReplacedAtOnce
<1>8. CASE UNCHANGED vars
  BY <1>8 DEF vars, Orderly, Alone, ReplacedAtOnce
<1>9. QED
  BY <1>1, <1>2, <1>3, <1>4, <1>5, <1>6, <1>7, <1>8 DEF Next, saves

\* As long as saves do not overlap and the power does not fail, the file is the last
\* snapshot that was saved, whole: crashes and full disks in the middle of a save
\* do not touch it.
THEOREM LastSaveStays == Spec => []ReplacedAtOnce
<1>1. Init => Types /\ Orderly
  BY InitTypes, InitOrderly
<1>2. Types /\ Orderly /\ [Next]_vars => Types' /\ Orderly'
  BY TypesKept, OrderlyKept
<1>3. Orderly => ReplacedAtOnce
  BY DEF Orderly
<1>4. QED
  BY <1>1, <1>2, <1>3, PTL DEF Spec
=============================================================================
