----------------------------- MODULE PanelCache -----------------------------
(***************************************************************************)
(* The panel cache file of a node (internal/controller/controller.go,      *)
(* savePanelSnapshot and readPanelSnapshot), one system call per step.     *)
(*                                                                         *)
(* The path is made of the node id alone, so nodes of two panels that have *)
(* the same id share the file and its ".tmp".  A node saves from its       *)
(* controller, and from a monitor execution that the task abandoned and    *)
(* that goes on after the reload.  Nothing serialises these savers.        *)
(*                                                                         *)
(* A definition whose comment begins with "Mutant" is a faulty variant of  *)
(* the one that follows it.                                                *)
(***************************************************************************)
EXTENDS Naturals

CONSTANTS
  Host,       \* panels (APIHost) whose node has this id
  Abandons,   \* those whose node has an abandoned monitor execution
  Version,    \* what a snapshot may hold
  Long,       \* those of the versions whose JSON is longer than that of the others
  Inode,      \* names for files on the disk
  NoInode,    \* not an inode
  MaxFaults   \* bound: overlapping saves, failed writes, crashes, power failures

Snapshot == Host \X Version
Saver == (Host \X {"controller"}) \cup (Abandons \X {"abandoned"})
Busy == {"opened", "written"}

ASSUME CacheAssumption ==
  /\ Abandons \subseteq Host
  /\ Long \subseteq Version
  /\ NoInode \notin Inode
  /\ MaxFaults \in Nat

VARIABLES
  tmp,      \* what the name panel-cache.json.tmp stands for
  file,     \* what the name panel-cache.json stands for
  data,     \* contents of the inodes: a snapshot, Empty, or Torn
  saver,    \* executions of savePanelSnapshot
  started,  \* per node: the snapshot its last start took from the cache, if any
  began,    \* ghost: snapshots each node began to save
  last,     \* ghost: the snapshot of the last save that returned no error
  calm,     \* ghost: so far saves did not overlap and the power did not fail
  faults    \* ghost: overlapping saves, failed writes, crashes, power failures

files == <<tmp, file, data>>
vars == <<tmp, file, data, saver, started, began, last, calm, faults>>

None == <<>>
Empty == <<"empty">>
Torn == <<"torn">>
IdleSaver == [pc |-> "idle", fd |-> NoInode, snap |-> None]
Whole(c) == c \in Snapshot

-----------------------------------------------------------------------------
(* savePanelSnapshot: os.WriteFile opens with O_CREATE and O_TRUNC and     *)
(* writes; os.Rename follows.  A step that fails without an effect (the    *)
(* directory, the open) is the end of a save that changed nothing.         *)

fault(harm) == /\ harm => faults < MaxFaults
               /\ faults' = IF harm THEN faults + 1 ELSE faults

\* What O_CREATE makes: an inode that has neither a name nor an open descriptor.
unused == {i \in Inode : i # tmp /\ i # file /\ \A s \in Saver : saver[s].fd # i}
fresh == IF unused = {} THEN {} ELSE {CHOOSE i \in unused : TRUE}

Overlaps(s) == \E o \in Saver : o # s /\ saver[o].pc \in Busy

\* Mutant: the snapshot is written to its final name.
openFile(s, v) ==
  /\ saver[s].pc = "idle"
  /\ LET snap == <<s[1], v>> IN
     \E i \in IF file = NoInode THEN fresh ELSE {file} :
       /\ data' = [data EXCEPT ![i] = Empty]
       /\ file' = i
       /\ saver' = [saver EXCEPT ![s] = [pc |-> "opened", fd |-> i, snap |-> snap]]
       /\ began' = [began EXCEPT ![s[1]] = @ \cup {snap}]
  /\ fault(Overlaps(s))
  /\ calm' = (calm /\ ~Overlaps(s))
  /\ UNCHANGED <<tmp, started, last>>

openTmp(s, v) ==
  /\ saver[s].pc = "idle"
  /\ LET snap == <<s[1], v>> IN
     \E i \in IF tmp = NoInode THEN fresh ELSE {tmp} :
       /\ data' = [data EXCEPT ![i] = Empty]
       /\ tmp' = i
       /\ saver' = [saver EXCEPT ![s] = [pc |-> "opened", fd |-> i, snap |-> snap]]
       /\ began' = [began EXCEPT ![s[1]] = @ \cup {snap}]
  /\ fault(Overlaps(s))
  /\ calm' = (calm /\ ~Overlaps(s))
  /\ UNCHANGED <<file, started, last>>

\* Bytes are written from the start of the file: what was longer keeps its tail,
\* and the JSON is followed by rubbish.
Longer(c, snap) == c = Torn \/ (Whole(c) /\ c[2] \in Long /\ snap[2] \notin Long)
over(c, snap) == IF Longer(c, snap) THEN Torn ELSE snap

write(s) ==
  /\ saver[s].pc = "opened"
  /\ data' = [data EXCEPT ![saver[s].fd] = over(@, saver[s].snap)]
  /\ saver' = [saver EXCEPT ![s].pc = "written"]
  /\ UNCHANGED <<tmp, file, started, began, last, calm, faults>>

\* The disk is full: WriteFile returns an error after some bytes.
writeFails(s) ==
  /\ saver[s].pc = "opened"
  /\ data' = [data EXCEPT ![saver[s].fd] = Torn]
  /\ saver' = [saver EXCEPT ![s] = IdleSaver]
  /\ fault(TRUE)
  /\ UNCHANGED <<tmp, file, started, began, last, calm>>

\* Mutant: a file that exists is not replaced.
renameFirst(s) ==
  /\ saver[s].pc = "written"
  /\ saver' = [saver EXCEPT ![s] = IdleSaver]
  /\ IF tmp = NoInode \/ file # NoInode
     THEN UNCHANGED <<tmp, file, last>>
     ELSE /\ file' = tmp
          /\ tmp' = NoInode
          /\ last' = saver[s].snap
  /\ UNCHANGED <<data, started, began, calm, faults>>

\* The rename fails where another save has already taken the name away.
rename(s) ==
  /\ saver[s].pc = "written"
  /\ saver' = [saver EXCEPT ![s] = IdleSaver]
  /\ IF tmp = NoInode
     THEN UNCHANGED <<tmp, file, last>>
     ELSE /\ file' = tmp
          /\ tmp' = NoInode
          /\ last' = saver[s].snap
  /\ UNCHANGED <<data, started, began, calm, faults>>

-----------------------------------------------------------------------------

\* Mutant: the host of the snapshot is not compared.
readAny(h) ==
  /\ file # NoInode
  /\ Whole(data[file])
  /\ started' = [started EXCEPT ![h] = data[file]]
  /\ UNCHANGED <<files, saver, began, last, calm, faults>>

\* Mutant: the error of json.Unmarshal is dropped, and what was decoded of a torn file
\* is used; the host, which is missing, is not compared then.
readUndecoded(h) ==
  /\ file # NoInode
  /\ data[file] # Empty
  /\ Whole(data[file]) => data[file][1] = h
  /\ started' = [started EXCEPT ![h] = data[file]]
  /\ UNCHANGED <<files, saver, began, last, calm, faults>>

\* A start that finds the panel unavailable: the file has to decode and to name
\* this node's panel, or the start fails and changes nothing.
readPanelSnapshot(h) ==
  /\ file # NoInode
  /\ Whole(data[file])
  /\ data[file][1] = h
  /\ started' = [started EXCEPT ![h] = data[file]]
  /\ UNCHANGED <<files, saver, began, last, calm, faults>>

\* The process dies; the files stay as they are.
crash ==
  /\ saver' = [s \in Saver |-> IdleSaver]
  /\ started' = [h \in Host |-> None]
  /\ fault(TRUE)
  /\ UNCHANGED <<files, began, last, calm>>

\* Nothing is synced: after a power failure any of the files may be empty.
powerFails ==
  /\ \E lost \in SUBSET {tmp, file} :
       data' = [i \in Inode |-> IF i \in lost THEN Empty ELSE data[i]]
  /\ saver' = [s \in Saver |-> IdleSaver]
  /\ started' = [h \in Host |-> None]
  /\ calm' = FALSE
  /\ fault(TRUE)
  /\ UNCHANGED <<tmp, file, began, last>>

-----------------------------------------------------------------------------

Init ==
  /\ tmp = NoInode
  /\ file = NoInode
  /\ data = [i \in Inode |-> Empty]
  /\ saver = [s \in Saver |-> IdleSaver]
  /\ started = [h \in Host |-> None]
  /\ began = [h \in Host |-> {}]
  /\ last = None
  /\ calm = TRUE
  /\ faults = 0

saves(s) ==
  \/ \E v \in Version : openTmp(s, v)
  \/ write(s)
  \/ writeFails(s)
  \/ rename(s)

Next ==
  \/ \E s \in Saver : saves(s)
  \/ \E h \in Host : readPanelSnapshot(h)
  \/ crash
  \/ powerFails

Spec == Init /\ [][Next]_vars

-----------------------------------------------------------------------------
(* Fairness: a save that was opened goes on, and the monitors, which save  *)
(* at the end of every execution, keep saving.                             *)

Fairness ==
  /\ WF_vars(\E h \in Host, v \in Version : openTmp(<<h, "controller">>, v))
  /\ \A s \in Saver : WF_vars(write(s)) /\ WF_vars(rename(s))

FairSpec == Spec /\ Fairness

-----------------------------------------------------------------------------
(* Properties.                                                             *)

Contents == Snapshot \cup {Empty, Torn}

\* Every variable stays in its type.
TypeOK ==
  /\ tmp \in Inode \cup {NoInode}
  /\ file \in Inode \cup {NoInode}
  /\ data \in [Inode -> Contents]
  /\ saver \in [Saver -> [pc : {"idle"} \cup Busy, fd : Inode \cup {NoInode},
                          snap : Snapshot \cup {None}]]
  /\ started \in [Host -> Snapshot \cup {None}]
  /\ began \in [Host -> SUBSET Snapshot]
  /\ last \in Snapshot \cup {None}
  /\ calm \in BOOLEAN
  /\ faults \in Nat

\* A node never starts from anything but a whole snapshot that it began to save
\* itself, however the saves of nodes that share the file interleave and
\* whatever crashes and power failures leave behind.
CachedIsOwn ==
  \A h \in Host : started[h] # None => started[h] \in began[h]

\* While saves do not overlap, the file holds the snapshot of the last save that
\* succeeded, whole, also after a crash or a failed write in the middle of the
\* next one and with the ".tmp" it left.
ReplacedAtOnce ==
  calm => IF last = None THEN file = NoInode ELSE file # NoInode /\ data[file] = last

\* A file that overlapping saves or a power failure made useless is replaced by a
\* whole snapshot in the end.
CacheHeals ==
  file # NoInode /\ ~Whole(data[file]) ~> file # NoInode /\ Whole(data[file])

=============================================================================
