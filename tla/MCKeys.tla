------------------------------- MODULE MCKeys -------------------------------
(***************************************************************************)
(* BuildMappings in the modes "auto" and "file" (KeyStore) and in the mode *)
(* "deterministic_split" (SplitKey), for TLC.  The first two may follow    *)
(* each other over a restart because of the file they share; the third     *)
(* keeps nothing and is a process of its own here.                         *)
(***************************************************************************)
EXTENDS KeyStore, SplitKey, TLC

VARIABLE mode   \* "kept": keys in memory and file; "derived": from the master key

KeysInit ==
  /\ mode \in {"kept", "derived"}
  /\ Init /\ SplitInit
  /\ mode = "kept" => masterBytes = <<>>

KeysNext ==
  \/ mode = "kept" /\ Next /\ UNCHANGED <<mode, splitVars>>
  \/ mode = "derived" /\ SplitNext /\ UNCHANGED <<mode, vars>>

KeysSpec == KeysInit /\ [][KeysNext]_<<mode, vars, splitVars>>

\* Users and nodes are alike.
Symmetry == Permutations(Uid) \cup Permutations(NodeId)

=============================================================================
